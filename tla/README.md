# LAN BRIDGE: verification models

LAN BRIDGE is a local gateway that lets OpenAI-compatible clients (Codex, chat
front ends) talk to the official upstream and to configured providers. The
backend is a Python FastAPI service (`src/code_cn_bridge/`), one asyncio event
loop with some worker threads; an Electron desktop application
(`src/desktop/electron/`) supervises it. This directory models its core in
TLA+, checks it with TLC on small instances and proves the main properties
with TLAPS for every value of the constants.

## 1. Inventory

| component | state it keeps | operations | interacts with |
|---|---|---|---|
| native client pool (`native_pool.py`) | map of entries by origin, lane and timeout; counters of reserved and active leases; a semaphore with its queue; closing tasks | `lease`, `build_request`, `send` with refresh, `invalidate`, `retire`, `aclose`, `close` | every request to the official upstream, the catalog refresh, the shutdown |
| gateway streams (`native_proxy.py`, `provider_proxy.py`, handlers in `server.py`) | per request: flags of the stream, what was recorded, an open upstream response | route handler, send with connection retries, byte relay, translation, collection, closes in nested `finally` blocks | pool, context cache, statistics, Starlette's response tasks |
| turns through a chat model (`server.py`) | the streams opened so far, a read task carried over heartbeats, the current translator, counts of retries and search rounds | `_handle_stream`, `_handle_web_search_stream`, `_complete_with_web_search`, image takeover, the plain chat relay | upstream clients, translator, statistics, the client |
| response context cache (`native_proxy.py` 371-566) | ordered map of encoded contexts, byte count, owner map | put, get, discard, continuation of a request | streams put, later requests get |
| tool history repair (`native_proxy.py`, `protocol.py`) | none of its own; the conversation's items | `_repair_orphan_tool_outputs`, `_map_input_to_messages`, `_sanitize_tool_history` | context cache, both kinds of upstream |
| configuration (`config.py`) | data, file signatures, lock | load, reload when changed, edit, save with backups | watcher thread, administration interface, every request |
| upstream client pool (`client.py`) | ordered map of at most 16 clients, each with two HTTP clients made on demand, a request count and a retired mark | get, begin and end of a request, retire, close | chat routes, shutdown |
| model catalog (`catalog_store.py`) | snapshot, candidate list, one refresh task, a file | refresh with three attempts, save, close | model list route |
| desktop supervisor (`desktop/electron/main.ts`) | child, timers, wanted and quitting marks, counters | start, stop, watchdog tick, restart with backoff, quit | the backend process, the recovery task |
| recovery watcher (`recovery.ts`, `BridgeRecovery.ps1`) | a state file | write, poll | supervisor |
| speech relay (`asr_stream.py`, `local_asr.py`) | an upload, a download and a watchdog task per session; the worker process and its start lock | relay, transcribe, start of the worker, close | websocket client, recognition worker, statistics |
| statistics and audit log (`stats.py`) | counters, last requests; access log with backups, day and total files | record, rotate, clean up, clear | every request |
| event stream readers (`sse_observer.py`, `client.py`, `responses_stream_to_chat.py`, websocket in `server.py`) | pending bytes, lines of an event | feed, finish | streams |
| stream translator (`protocol.py`) | open output item, pending text, tool calls by index | one method per chunk, finish, retry | turns |
| Codex switch (`admin_api.py`) | `config.toml`, its backups, the catalog file | switch to the bridge, back to official, catalog refresh by the watcher | user and Codex edit the same file |
| protocol translation (`protocol.py`, `protocol_adapters/`) | none | conversions of documents | handlers |
| access keys (`access_control.py`, `middleware.py`) | a file of records behind a lock | create, update, rotate, revoke, authenticate | every request |
| routing, models, adapters, web search, images | none, or caches | lookups and conversions | handlers |
| server (`server.py`) | lifespan, websocket sessions | routes, shutdown order | all |
| administration, command line, pages | none of their own | forms | configuration |

What is hard here, component by component (the `hazards` of PROJECT.json give
the lines):

- **Pool.** Slots, reservations, queue and timeouts interleave with shared
  clients that are retired by errors, by a change of token or proxy, by eviction
  and by shutdown. Correct means: capacity is never lost or exceeded; the queue
  is served in order and never sleeps beside a free slot; a request never runs
  on a closed client or on one of another identity; every client is closed once.
- **Streams.** The end of a stream is reached through completion, truncation, a
  transport error, a disconnect in five different places or a cancellation, and
  is handled by up to three nested generators and a response wrapper. Correct
  means: everything is closed and returned, each request is recorded once and
  with a status that says what happened, and a client that saw the end of a
  response can continue it.
- **Turns.** One turn may call the upstream several times (retry after leaked
  text or pure thinking, search rounds, a summary) while it keeps one stream to
  its client. Correct means: the calls are bounded, the client gets one kind of
  end and the record says the same, and no stream or read task is left.
- **Context cache.** Bounded by entries, bytes and age, with a second map that
  must follow. Correct means: limits hold, a continuation gets the history of
  that response and of no other key, and a lost history is announced.
- **Tool histories.** Calls and outputs that do not match are repaired for two
  kinds of upstream. Correct means: what is sent is paired, nothing the client
  said is erased, and a call is declared unknown only when its result is.
- **Configuration.** File and memory change in different threads. Correct means:
  the last valid state is kept, a failed edit leaves no trace, a crash leaves a
  whole file, and an accepted edit stays in the file until it is edited again. The
  last does not hold (finding 4); what holds is that a stale load is the only way
  to lose one.
- **Upstream client pool.** Retirement races the begin of a request and awaits
  inside `close`. Correct means: what is in the map can be used, a running call
  keeps its HTTP client, and what is retired is closed by somebody.
- **Catalog.** A changed list needs two matching observations in a row, over
  joined refreshes, failures and restarts.
- **Supervisor.** Asynchronous start against stop, quit, watchdog and timers.
  Correct means: one child, none after a stop, always one eventually when wanted.
- **Speech relay.** Three tasks end in any order; one outcome is recorded, and it
  is what happened.
- **Statistics.** Four files are updated one after the other, each may fail.
- **Readers and translator.** A byte stream may be cut anywhere; what is read
  must not depend on the cuts.
- **Codex switch.** A file that belongs to the user and to Codex is edited by
  line; it names a second file that must exist whenever it does.

## 2. Modules

| module | models | extends or uses |
|---|---|---|
| `BoundedAdmission` | what the pool promises its users: places and slots | |
| `NativePool` | `native_pool.py` in full | implements `BoundedAdmission` |
| `GatewayStream` | a request on the four routes to a Responses upstream | uses `BoundedAdmission` as the pool |
| `ChatTurn` | a turn served by an upstream chat model, on six routes | |
| `UpstreamClients` | the shared clients of the chat routes | |
| `ContextCache` | the cache of response contexts and the turns that use it | |
| `ToolHistory` | the repair of tool histories for the native upstream and for chat models | |
| `StreamTranslator` | chunks of a chat stream into events of a Responses stream | |
| `SseFraming` | the four readers of event streams | |
| `ConfigStore` | the configuration file and its copy in memory | |
| `CatalogSnapshot` | the model list and its confirmed changes | |
| `UsageStats` | statistics, access log and their files | |
| `CodexSwitch` | `config.toml` of Codex and the catalog it names | |
| `SpeechRelay` | a relayed recording, a transcription and their worker | |
| `BridgeSupervisor` | the desktop application and its backend process | |
| `DesktopRecovery` | crashes and launches of the application, the watcher | extends `BridgeSupervisor` |
| `FiniteInduction` | lemmas: least members, induction over finite sets, sums | |
| `NativePoolProofs` | theorems about `NativePool` | `FiniteInduction` |
| `GatewayStreamProofs` | theorems about `GatewayStream` | |
| `SessionProofs` | theorems about `ChatTurn` and `SpeechRelay` | |
| `UpstreamProofs` | theorems about `UpstreamClients`, `CatalogSnapshot` and `StreamTranslator` | `FiniteInduction` |
| `RecordsProofs` | theorems about `ContextCache`, `UsageStats` and `ToolHistory` | `FiniteInduction` |
| `ConfigProofs` | theorems about `ConfigStore` and `CodexSwitch` | `FiniteInduction` |
| `SupervisorProofs` | theorems about `BridgeSupervisor` and `DesktopRecovery` | |
| `MCNativePool`, `MCGatewayStream`, `MCDesktopRecovery`, `MCConfigStore`, `MCSseFraming`, `MCCodexSwitch` | instances for TLC | |
| `MCSessions` | `ChatTurn` and `SpeechRelay` side by side | |
| `MCParts` | nine components side by side | |

The two levels meet in `BoundedAdmission`: `NativePool` is shown to implement
it (checked as `ImplementsAdmission`, proved as `AdmissionRefinement`), and
`GatewayStream` is written against it, so that many requests on every route can
be checked without the pool's inner states. `ChatTurn`, `UpstreamClients`,
`ContextCache` and the readers meet the streams only through calls that the
respective module has as inputs, and are checked by themselves.

Definitions that begin a comment with "Slip:" are the plausible errors the
properties were tried against (the `mutants` of PROJECT.json); they are not part
of a specification.

### NativePool

An action is the code between two suspension points of a coroutine. The state
is that of the Python objects: the entries of the map by key, who uses which
client, which clients are closing, and the semaphore as its value, its queue
and the leases that were handed a slot and have not run yet. The correspondence
of every definition is in the `map` of PROJECT.json; in short:

- `Open` is `lease()`, `Build` and `BuildRefused` are `build_request` with its
  reservation, `Send` and `SendWaits` enter `_admit`, `Resume` and `GiveUp` are its
  two ends (a timeout or a cancellation may meet a slot already handed over),
  `Refreshed` and `RefreshFails` are `_refresh`, `PoolTimeout`, `ConnectFails`,
  `Fails` and `SendReturns` the ends of a send, `Aclose`, `AcloseClient`,
  `ClientClosed` those of `aclose`.
- `Rotate`, `Invalidate`, `Evict` and `ShutDown` retire entries; `CleanupEnds` is a
  closing task's end, `Gathered` the `gather` of `close()`, which ends or raises.
- The reuse of an entry (`Serving`, `LeastActive`, `LowestLane`, `NewKey`) follows
  the code's choice of the least used lane of the same timeout class.
- asyncio's semaphore is external and modelled by its documented behaviour
  (`Locked`, `SlotFreed`, `Without`): a release hands the slot to the first waiter,
  who counts as served before it runs; a waiter cancelled after that passes it on.

Left out: what goes over the wire, the idle expiry of connections inside httpx,
`snapshot()`, which only reads.

### GatewayStream

A request chooses one of four routes: `native` (`/v1/responses` to the official
upstream), `native_chat` (chat completions translated onto that call), `provider`
and `provider_chat` (the same to a configured provider). Its control point `pc`
walks through `Start`, `Admitted`, `SendReturns`, then one of `ErrorRead`,
`BodyRead`, `Collect` or `Begin` with `Chunk`s, to `Close`. The upstream sends any
sequence of events of six classes, and may end or break anywhere; `Hear` is
`observe()` and the translator on one event. The client may be lost before the
stream begins (`LostBeforeBegin`), while the generator waits for the upstream
(`PullCancelled`: `CancelledError` inside), or while a chunk is being sent
(`ClientLost`: the generators are left at their yield and closed later by the
loop's finalizer, `Finalized`, before or after the response wrapper closed the
upstream, `ResponseOver`). `Finish` is the `finally` of the generators: what is
recorded before the upstream is closed and what after.

Data is reduced to what the properties tell apart: an event is its class, a
status is `ok` (200), `cancelled` (499), `failed` (502 or 504), `busy` (503) or
`refused` (the upstream's error status).

Left out: `responses/compact`, the websocket and the contents of requests; routes
to a chat model are in `ChatTurn`. An event is heard when its data is whole, and
whether the blank line after it came as well is not told apart. One connection
attempt stands for up to three, which hold the same lease (NativePool has the
retries).

### ChatTurn

One turn that a chat model serves: `route` is one of `_handle_stream` (`stream`),
`_handle_web_search_stream` (`search`), the two JSON answers (`json`,
`searchJson`) and the Chat endpoint's relay and answer (`chat`, `chatJson`). A
turn is admitted or rejected (`Reject` before routing, `RejectLate` for a context
of another key), may have its images described and its intent classified, may be
taken over by image generation (`Intercept`), and opens a stream (`Start`). The
handler's `try` begins in the middle (`Prepare`). What is raised between the route
and that point (`server.py:4339-4388`, and `5104-5128` for chat), such as a
provider that a reload has just removed, leaves the handler:
`ErrorHandlingMiddleware` (`middleware.py:64-71`) answers 500 and nobody records
it (`SetUpFails`). What is raised after it is caught and recorded
(`TranslationFails`). `Chunk`, `Heartbeat`, `StreamEnds`, `StreamFails` are the
reading, with the read task that a heartbeat leaves behind (`reader`). What the
stream said is one value of `Answer`: which kinds of output were in it and whether
it ended whole; the stage `judging` is where the code decides what comes next, and
each branch is an action: a retry (`StreamRetries`, `LeakRetry`, `ReplayRetries`),
a search round (`BeginSearch`, `SearchDone`, `RoundLimit`), a recovery
(`FollowThinks`, `FollowRecovers`, `LateThinks`), an end (`...Finishes`,
`FollowEmpty`) or an image (`StreamImage`, `SearchImage`, `ImageDone`). An image
that cannot be made ends in two ways: an error response of
`_handle_responses_image_gen` is passed on and not recorded (`ImageFails`), an
error that it raises while it decodes or saves the image (`server.py:3073-3081`)
is recorded as 500 where the handler's `try` is around it (`ImageBreaks`), and on
a stream ends as the error response does. `Leave` is the client at any await or
yield, `Closed` the `finally` blocks.

Left out: the two images endpoints, the prompts of the vision and intent
models, the contents of events, which are in `StreamTranslator`, and an error that is
raised after a whole answer was recorded and before it is returned (a JSON that
cannot be written), which the handler would record again.

### UpstreamClients

An `Object` is an `UpstreamClient` of the LRU map, with up to two HTTP clients that
it makes when a plain or a streamed call first needs one. A request is routed
(`Reuse`, `Make`, which may evict), begins its calls later (`Begin`, `ClientFor`), ends
them in two steps when it was the last of a retired object (`End`, `EndStep`), and
leaves. `RetireIdle` and `TaskStep` are the closing task of an evicted object,
`Shutdown` and `CloserStep` the closing of all; each close awaits between its
parts, so that a call may begin in the middle. `aclose` is taken to end without
error: one that raises (`client.py:176-182`) would leave the second HTTP client of
the object open.

### ContextCache

A turn is `BeginTurn` (look up, check of the owner, expansion into what is sent)
and `CompleteTurn` (put, with eviction by count, size and age); turns overlap. A
turn's items are its own number, so that a context says which turns it knows,
and `Notice` stands where a history could not be restored. `RefuseTurn` is the
answer to a key that does not own the response it names. The order of the
`OrderedDict` is the relation `usedBefore`; what the loop of evictions leaves
(`Kept`) are the entries that fit together with all that were used after them.
The `line` of a turn, the turns before it back to the first, is history that only
the properties read.

### ToolHistory

A conversation grows by items of the client (`Bring`) and of models (`Reply`); at
each `SendTurn` the code's repairs are computed: `Repaired` is what the native Responses
upstream gets and what is cached, `Mapped` and `Sanitized` the messages for a chat
model. The operators are functions over sequences in the order of the code's
loops; they were compared with the Python functions on random inputs. Turns on
configured Responses providers are left out: their items are sent and cached as
they came (`native_proxy.py:478-499`), and the promises here are not made for a
conversation that has such turns.

### StreamTranslator and SseFraming

`StreamTranslator` takes chunks as `_handle_stream` does, one `...Chunk` action per
kind, and retries once with a second translator that starts from the items of the
first (`Retry`). Each event it sends is taken in by a client-side reader (`See`), whose
view (`client`) is kept with the translator. The loop over a chunk's content is the
recursive function in `Content`, whose turns are `Scan`.
`SseFraming` feeds one stream of abstract bytes, cut at every place, to the chat
client's reader, the observer, the converter to chat and the websocket, which
each keep what their code keeps between chunks. `MaxLine` and `MaxEvent` are the limits
of bytes per line and per event, `MaxLines` the observer's limit on the data lines of
one event (`_SSE_EVENT_MAX_LINES`, 4096): an event of more lines breaks it, however
short they are. The byte `D` stands for the text `[DONE]`, at which the chat client
stops reading and the observer drops what it has collected.

### CatalogSnapshot

`AskModels` is a request: it loads the file the first time, starts a refresh when
one is due or wanted, or joins the one that runs. The refresh is a task of its
own: `FetchListed`, `FetchFailed`, `FetchBreaks`, `AskAgain` are its attempts and
pauses, `SaveList` its end. `CloseTasks` and `RestartCatalog` end it anywhere. One
account scope is modelled; scopes share nothing.

### UsageStats

`RecordRequest` begins `record()`, whose steps `UnlinkOldest`, `MoveUp`, `AppendLine`,
`CountDay`, `CountTotal`, `CleanUp` may each fail (`RecordFails`) or be the last before
a restart (`RestartStats`). A log is the set of its line numbers, a usage file its
counts. A line is written whole or not at all: the torn line that a full disk may
leave (`stats.py:123-124`), to which the next one is then glued, is left out.

### CodexSwitch

`config.toml` is a sequence of lines: headers, keys and lines of arrays. The small
TOML writer (`SetKey`, `RemoveKey`, `RemoveSection`) works on lines as the code does.
The file a user comes with is any member of the constant `UserConfigs`: a sequence of
lines that does not name the bridge's catalog yet and, when headers are plain, has
no key of the user's (`OwnKeys`) in a table of the bridge (`Separate`); a user who puts
one there loses it with the table, as the code means it.
A switch is a sequence of steps (`CatalogWritten`, `KeepBackup`, `ReplaceToml`,
`UnlinkCatalog`) that may fail or be interrupted; the configuration watcher writes
the catalog in a thread of its own (`WatcherDecides`, `WatcherWrites`), and the user
and Codex edit or break the file between switches.

### SpeechRelay

The state of each of the three tasks of a relayed recording is the await it stands
at (`upload`, `download`, `dog`); `Wake` is the handler noticing that the first of
them ended, `Cleanup` the cancellation of the others, `Reply` the last frame. The
second handler transcribes a whole recording. Both start the worker under one lock
(`TakeLock`, `ProbeNothing`, `ProbeFails`, `Spawn`, `Finish`), which
`CloseService` and `WorkerDies` may meet anywhere. What `WebSocket.close` and the
worker's library do follows from how the code uses them.

### BridgeSupervisor and DesktopRecovery

The main process of the desktop application is one event loop. `startBridgeProcess`
is cut at its three awaits (`start` = `health`, `port`, `waiting`): `StartProbed`,
`StartGivesUp` or `Spawn`, then `WaitHealthy` or `WaitFails`. `RestartFires`,
`StableFires`, `StopFires`, `WatchdogTick` are the four timers; a check of the
watchdog ends as `WatchdogYields`, `WatchdogHealthy` or `WatchdogUnhealthy`, which look
at the state again after the await as the code does. `TrayStop`, `TrayStart`, `Quit`
and `Exit` are the user, `ErrorEvent` and `CloseEvent` the handlers of a child. The
processes themselves are external: a backend listens late, hangs, recovers, ends;
another program may take the port before it does and may answer or be silent.

`DesktopRecovery` adds what outlives the application: the state file, processes
left behind by `Crash` (the backend is spawned detached), the next launch, and the
watcher `BridgeRecovery.ps1` with its two looks at the file (`WatcherLooks`,
`WatcherActs`), between which the user may launch, stop and quit.

Timers have no durations: any order of two timers is possible. A process
identifier is used again when nothing refers to it any more. The second look
of the watcher and its launch are one step, as the script does nothing between
them that could be observed. Left out: window, tray, IPC, settings, a signal or a
write of the state file that fails, the installation of the scheduled task.

### ConfigStore

`file` is the file, `data` the document in memory, `lock` the owner of `_lock`,
`attempt` the signature that was tried last. A loader is a thread: the watcher goes
through `Peek`, `Compare`, `Mark` (`reload_if_changed`, which holds the lock in
between only) and then `load`; `Button` is `admin_reload`, which loads at once.
`load` is `Read` or `ReadFails` before the lock, then under it `Commit` (the parsed
document is in place, readers without the lock see it), and `Normalised` or
`RollBack`. An edit is `BeginEdit` (its copy is in place), then `save`: `Write`,
`BackUp`, `Replace`, `Stamp`, or `EditFails` at any of them, which puts memory back.
`OtherWrites` and `OtherRemoves` are other programs, `Crash` loses all but the file,
`Start` is the load of a new process, which fails on an invalid file.

A content is a version, which also is its signature (every write leaves another
time stamp), and a kind: valid, not parsable, or parsable and impossible to
normalise, which other programs and `import_config` can make. `accepted` and
`rejected` remember what callers of `edit` were told, `missed` that a stamp was
taken of a file other than the one in memory, and `overtaken` that a load put an
older document in memory over the one that an accepted edit has in the file.

`LostToLoadsOnly` says that an edit which takes the place of an accepted one in the
file was made from it, unless that is what had happened. `EditsKept` says the same
without exception and does not hold: see finding 4.

Left out: what a document says (slots, mappings, `.env` files), the backup copies,
which nothing reads back (their failures are in `EditFails`), `_file_signature`,
which is never read, and handlers that raise before `save` begins, which leave
everything as it was.

## 3. Runs

| run | instance | shows |
|---|---|---|
| `pool_slots` | 4 leases, 2 clients, 2 slots, 1 queue place, one generation | slots and reservations balance, the queue is served in order and never sleeps beside a free slot, a closed pool drains, and the pool implements `BoundedAdmission` |
| `pool_clients` | 2 leases, 3 clients, 2 generations of which one has a proxy with two lanes, 2 timeouts, at most 2 entries | the map is sound, a held client stays open, no client leaks or is closed twice, a lease sends on a live client of its own identity |
| `pool_liveness` | 3 leases, 1 slot, 1 queue place, with fairness | a queued lease is served or leaves, a shutdown completes |
| `streams` | 1 request on 4 routes with all events, or 3 native chat requests on one slot and one queue place, with fairness | upstream and lease are given back, records, statuses and contexts on every path, every request ends |
| `sessions` | one chat turn (2 search rounds) or one relayed and one whole recording (2 frames, 2 notes, 2 workers), with fairness | one record that is true, bounded upstream calls, one end told, all tasks and streams over |
| `parts` | eight small components, or the supervisor with 2 processes, backoff up to 1, 2 failed checks and any other program; one of them moves in a behaviour | what each of them promises, see below |
| `recovery` | 1 process, 3 lives, 1 failed check, with fairness | a stop settles and binds the watcher; a wanted bridge is served again after crashes of either side |
| `config_files` | watcher and button, 3 contents, all failures, crashes, with fairness | memory stays valid and serves what counts as seen, failed edits leave no trace, an accepted edit is lost to a later one only after a stale load, changes arrive |
| `stream_lease_leak` | 1 native chat request | expected violation, finding 1 |
| `codex_sections` | one switch back to the official service, comments on headers | expected violation, finding 2 |
| `sse_cut` | streams of up to four lines, cut at every place | expected violation, finding 3 |
| `config_lost_edit` | watcher and button, 3 contents, no failures | expected violation, finding 4 |

**Side by side.** `MCParts` and `MCSessions` put components that share nothing into
one state space. A variable `moves` names the one whose steps are taken, the
others keep their initial states, so that the reachable states are the disjoint
union of those of the components and every property has exactly the behaviours
of its own specification. `MCGatewayStream` does the same with `crowd`: many
requests that meet in the pool, or one that goes through everything. Liveness
properties of `MCSessions` are implications from the component that moves.

What `parts` shows: `CutIndependent` (the text a client reads of a response does not
depend on how the model's chunks were cut) and `ResponseWellFormed` (items are opened,
filled and closed in order, once) for the translator; `EventsSeen` for the readers: all
events are read in order at any cut, and a reader gives up only on a line or an
event over its limits, the observer also on too many lines;
`HistoryKept` for the repair of tool histories; `ClientsSound` for the upstream
clients; `CacheSound` for the contexts; `CatalogConfirmed`; `UsageHonest` for the files
of the statistics; `SwitchSound` for `config.toml` and its catalog; and for the
supervisor one tracked backend (`BackendOwned`), timers that belong to the tracked
child (`TimersCurrent`) and no kill without a cause (`KillsWithCause`). The supervisor's
two processes are symmetric; the run checks no liveness.

**Where properties stop.** `CacheSound` shows the
notice for a lost history for turns of chat models only: a native turn whose
`previous_response_id` is gone is sent on without one (`native_proxy.py:553-566`).
`ClientsSound` excepts calls that begin on an object after it was retired. The
closing of streams is part of `TurnEnds` in `sessions`. That a read which is carried
over to the next stream is not taken for that stream's is not shown, and does not
hold; and the relay of the Chat endpoint has no `finally` of its own: that its stream
is closed when the client leaves rests on the loop's finalizer of generators.

**Bounds.** The pool's interesting cases need a holder of each slot, one lease in
the queue and one that is turned away: four leases for two slots and one place.
The questions about clients need two leases sharing one entry, and one more
client than the map may hold so that eviction meets a busy entry; two
generations and two timeouts make every kind of key mismatch. Leases and
clients are model values; no definition prefers one, so they are symmetric where
no liveness is checked. `MaxConnects` bounds the connection attempts of a lease
(three in the code): one or two suffice, since an attempt leaves no state behind
but the reservation. Requests of GatewayStream meet only in the pool, so one
request covers the per-request properties and three make one hold the slot, one
queue and one be turned away.

A turn's `MaxRounds` is 5 in the code; two tell the last round from one before it.
The two sessions of the speech relay meet in the worker; two frames and two notes
let either pump be cancelled before, between and after them, and two workers let
one die. The
translator gets three chunks and two tool calls, enough to cut a think tag in
three and to interleave two calls. The readers get streams of up to four lines with
each kind of line end, at every cut; some lines and events are longer than
`MaxLine` and `MaxEvent`, and some events have more lines than `MaxLines` (2) and are
within the limits of bytes, so that each limit is met by itself. Two lists tell a
confirmed from a merely observed one, two askers make one join the other's
refresh. The cache holds two entries and two units of size over three turns of
two keys, so that each limit is reached by itself. A log of one line per file
and two backups rotates three times; the third day outlives the retention. The
upstream clients keep one entry (16 in the code), so that a request with another
key evicts, and three requests share it, follow it or find it closing.

Two backend processes let late events of one meet the next; `MissLimit` 2 (3 in the
code) is the least that tells a count carried over from a count of one's own,
and the backoff only needs a value above zero to be forgiven. The recovery run
keeps one process, since a second adds nothing to liveness but orphans of orphans;
three lives allow a crash of a restarted application. The configuration needs
two loaders so that one may commit what it read before the other, or an edit,
changed the file, and three contents: the one at the start, and two that are
written by anybody in any order, such as an edit that is accepted and one that
replaces it or a foreign write between two steps. A request is made once, a
closed pool stays closed, and an application that was quit stays away: all these
systems may really stop, hence `CHECK_DEADLOCK FALSE`.

**Fairness.** `NativePool!FairSpec` assumes that the event loop runs what is ready
(weak fairness of the coroutines' own steps and of the closing tasks), that an
upstream call ends (httpx bounds it by timeouts) and that a lease's user closes
it, which every caller does in a `finally`; it does not assume that the queue's
timeout ever fires, so that `WaiterServed` speaks of the hand-over itself.
`GatewayStream!FairSpec` assumes the same of coroutines and timeouts, and that a
stream that is read again and again ends (strong fairness of `SourceEnds`):
upstream bodies are finite. Neither assumes that a client disconnects or that
anything fails. A chat turn's steps are taken, which includes that its upstream
streams end, fail or time out. The speech relay's handlers run on, the watchdog
fires (its deadline is a timer of its own), a probe and a connect end by their
timeouts, and a transcription that was asked for ends; nothing is assumed of the
client, of what the worker answers, or of a send that the worker does not read.
`BridgeSupervisor!Fairness` assumes that timers fire, that probes and waits end
(each has a timeout in `bridgeLifecycle.ts`), that events of a child are delivered
and that a signalled process ends; and, strongly, that a backend that is started
again and again comes up once and that a port that is found free again and again
lets one be spawned, since the code retries for ever and promises nothing about a
backend that never works. `RecoverySpec` adds that the scheduled task polls.
`ConfigStore!Fairness` assumes that the watcher polls for ever and that threads
run and, strongly, get the lock in the end, since edits and reloads hold it only
for a moment; nobody need edit, press the button or write. `WantedIsServed` and
`CrashRecovered` except `Blocked`, a silent process on the port that is not the
application's own: the code waits for it to go.

## 4. Proofs

| theorem | property |
|---|---|
| `TypeTheorem` | `NativePool!TypeOK` |
| `CapacityTheorem`, `WakeupTheorem`, `DrainedTheorem`; together `AdmissionTheorem` | `SlotsAccounted` |
| `AdmissionRefinement` | `ImplementsAdmission` |
| `FairnessTheorem` | `NoOvertaking` |
| `MapTheorem` | `MapSound` |
| `HeldClientTheorem`, `NoOrphanTheorem`, `OneCloserTheorem`, `OwnIdentityTheorem`; together `ClientLifeTheorem` | `ClientLife` |
| `LiveClientTheorem` | `SendsOnLiveClient` |
| `StreamTypeTheorem`, `ReleaseTheorem`; together `ResourceTheorem` | `ResourcesReturned` |
| `RecordTheorem`, `TruthTheorem` | `RecordedOnce`, `StatusTruthful` |
| `ContextTheorem` | `ContextReady` |
| `SupervisorTypeTheorem`, `TrackingTheorem`; together `OwnershipTheorem` | `BackendOwned` |
| `RestartTheorem`, `StableTheorem`; together `TimerTheorem` | `TimersCurrent` |
| `KillTheorem` | `KillsWithCause` |
| `StopWinsTheorem` | `StopWins` |
| `LivesTimerTheorem`, `LivesKillTheorem` | `TimersCurrent`, `KillsWithCause`, through crashes and new lives |
| `ConfigTypeTheorem`, `LastValidTheorem`, `SeenTheorem`; together `MemoryTheorem` | `MemoryServes` |
| `RejectedTheorem`, `WholeTheorem`; together `WholeEditTheorem` | `NoHalfEdit` |
| `EditsTheorem` | `LostToLoadsOnly` |
| `TurnTypeTheorem` and `TurnRecordedTheorem` | `TurnRecorded` |
| `WorkTheorem` | `WorkBounded` |
| `EndsTheorem` | `EndsAgree` |
| `SpeechTypeTheorem` and `AccountedTheorem` | `Accounted` |
| `HonestTheorem` | `VerdictHonest` |
| `CatalogTypeTheorem` and `ConfirmedTheorem` | `CatalogConfirmed` |
| `ClientsTypeTheorem` and `ClientsTheorem` | `ClientsSound` |
| `StreamTheorem` | `ResponseWellFormed` |
| `CutTheorem` | `CutIndependent` |
| `SwitchTheorem` | `SwitchSound` |
| `CacheTheorem` | `CacheSound` |
| `UsageTheorem` | `UsageHonest` |
| `HistoryTheorem` | `HistoryKept` |

Assumptions are those on the constants only (`ConstantsAssumption`,
`RequestAssumption`, `SupervisorAssumption`, `ConfigAssumption`,
`RoundsAssumption`, `CatalogAssumption`, `ClientsAssumption`, `StreamAssumption`,
`CacheAssumption`, `UsageAssumption`, `HistoryAssumption`, `CodexAssumption` and
the `BoundsAssumption` of SpeechRelay, checked by TLC in the runs of their
modules): the sets of leases, requests and addresses are finite, limits are
positive, the absent values are no members. Where the code has a number, such as
five search rounds, the assumption is its range. `HistoryAssumption` gives the
items their form and nothing else: ids may be missing, be used twice, or be
crossed. `StreamAssumption` also says that no piece has the mark `r`, by which the
model tells the text of `reasoning_content` from content.

**Pool.** None of the safety properties is inductive by itself. The invariant
relates three views of a lease: its stage, its membership in the users of a
client, and its hold on the semaphore. Counting arguments (the slots that are
free, handed over and held add up to `max_active`) are done on finite sets with
the cardinality theorems of the library; each action then either leaves the
three views alone or moves one lease from one set to another. Clients need in
addition that a retired client with users has a lease that will close it, and
one without is closing. The refinement maps the reserved leases to `inside` and
those that hold a slot to `working`. `MapTheorem` needs in addition that
the order of use stays a strict order of the entries (`Aged`): only then has the
map an oldest entry that `Evict` can drop (`OldestExists`), which is what keeps it
within its bound (`Bounded`).

**Finite induction.** The library's induction theorems take a predicate as a
parameter, which the installed provers cannot instantiate. `FiniteInduction` states
induction for *sets* instead: a set of naturals that has 0 and successors is `Nat`
(`NaturalsReached`), a set of subsets that has the empty one and grows by one member
has them all (`SubsetsReached`), and both follow from the least member of a set
(`LeastNatural`), which the library does give. With that the sum that the community
modules define as a fold can be reasoned about: it is a natural number, changes by
what one term changes (`SumDiffers`), is no less than a term (`SumBounds`), and splits
over a partition of its indices (`PartSplits`).

**Streams.** Requests touch only their own components, so the invariant is
`TypeOK` and five facts about each request alone (`LeaseOf`, `HistoryOf`,
`FlagsOf`, `OutcomeOf`, `RecordOf`); lemma `Frame` carries them over a step of
another request, and one lemma per action shows them for the request that
moves. The needed strengthening is in `FlagsOf` and `OutcomeOf`: what the flags
and the translator's outcome mean for the events that were heard while the
request is live, without which nothing is known of the status when `Finish`
computes it.

**Turns.** The invariant `TurnInv` has one part for each thing a turn keeps.
`RecordsOf`: nothing is recorded before the end. `LapsesOf`: a turn that ends
unrecorded failed in its set-up, before any model was asked to answer or to
classify, or had been asked for an image. `EndsOf`: nothing is told before the
end either, and what is about to be recorded agrees with it. `CallsOf`: every
stream after the first was paid for by a leak retry, a thinking retry, a search
round or the final answer after them, each of which leaves a mark that is used up
only once; this is what bounds the work, and a branch that reads another stream
without leaving a mark would break it. `ItemsOf`: the items of the translator that
takes over lie above those that were shown, so that an index can only be used
twice after a retry. One lemma per part goes through the actions in the groups of
the code's handlers (`NextForms`).

**Speech.** `SpeechInv` ties each task to the stage of its handler (`TasksOf`: the
tasks exist from the connection to the cleanup and have ended after it), what
was sent to what was seen (`TextOf`, `StopOf`), and each cause to what really
happened (`LeaveOf`, `EndOf`); `Booked` says that exactly the closed sessions are
recorded. `VerdictHonest` follows for any number of frames and notes.

**Catalog.** `CatalogConfirmed` needs what a refresh carries from attempt to
attempt: its previous list is a confirmed one, and its candidate is the last
observation, which a failed attempt has cleared (`RefreshSound`). Then a list that
is stored was seen twice in a row, in the memory of this or of an earlier process.

**Contexts.** `CacheInv` says of an entry that it is what its turn sent, with the
turn itself, and the owner of its turn (`EntriesOf`); of the order, that it is a
strict total order of the entries; and of a turn, that what it recalls is the end
of its line place by place (`TailOf`), of its own key, with a mark where there is
a gap that a turn of a chat model met. A put keeps the entries that fit with their
successors: the oldest of those that are kept (`Oldest`) bounds them all, and the
byte count follows the sizes of what was replaced and evicted (`SizeSplits`). A
turn that begins continues such an entry (`Continues`) or has no history and says
so (`NoInput`).

**Statistics.** `UsageInv` writes down what a record in flight still owes: a line, a
day, a total (`Backed`). Each file then trails the one before it by no more than that,
and a step that fails leaves the debt unpaid for ever but never pays twice.
`Rotating` is what a rotation has done so far: the file it will write next is empty,
so that at each step the files of a day hold an interval of line numbers, in order.

**Supervisor.** `TracksItsBackend` needs to know what a start in flight stands for
(`StartOf`: no child and no pending restart before the spawn, its own child after
it), and that a process that could not be run is tracked until its events were
handled (`ProcessOf`). `KillsWithCause` is an action property of that invariant:
`CountOf` relates the watchdog's one counter, which the code never ties to a child,
to the checks that the tracked child itself has failed; `AskedOf` and `StoppingOf` say
that a child that is there after a stop, or that a kill timer is set for, was
asked. Over several lives all of it holds (`Kept`) but `TracksItsBackend`, since a
crash leaves backends behind that no later life tracks. With `WordOf`, that the
state file says running only if that was the last word, it gives `StopWins`: the
watcher reads the file twice.

**Configuration.** The theorems are for any number of loading threads. The
invariant speaks of `Base`, what is served once the owner of the lock has put
back what it must: `data`, or `before` while the lock is held. `OwnVersion` is the
point: until the file is replaced nobody has seen the version of an edit in
flight, so a failed one can only be in memory, where it is put back.
`SeenOf` and `AcceptedOf` carry the two promises about the file through a load that
is under way and through an edit: while an accepted edit is in the file, memory
has it too or `overtaken` says that a load put an older document there.
`LostToLoadsOnly` is then a step of that invariant (`ReplacedStep`), and does not depend
on signatures at all.

**Codex switch.** Every edit of the TOML writer replaces lines `a` to `b - 1` by `m`
others (`Spliced`): a key is cut out, changed or put in (`CutSpliced`, `ChangeSpliced`,
`PutSpliced`), a section is cut out, a table is appended (`LastSpliced`). What matters
is shown once for a splice: what was before the first header stays there, provided
that a header is cut out only up to the next one (`Clean`, `SplicedTop`), and the lines
of the user's are the same in the same order (`SplicedOwn`, an induction over the
lines by `NaturalsReached`). `Edited` sums this up, and goes from edit to edit through
both switches. For a configuration with several lines about a catalog it takes
that the bridge's is the first of them (`CatalogFirst`): the code removes only one.
`RemoveSectionEdits` is the one place that needs plain headers, where finding 2 bites.
The invariant `CodexInv` then says what is about to be written, removed or replaced
(`WriteBacked`, `UnlinkBacked`, `BackupTaken`) at each step that may be the last.
The theorem is for any configurations of the user's, any number of edits, switches
and restarts, and any limit on backups above zero.

**Upstream clients.** The proof follows who may close an object. `Quit` is an object
that is retired and whose calls all began after that; every closer that is at
work, be it the closing task, the last call or the shutdown, works on such an
object (`QuitOf`). An object that is not retired is in the map or waits for the
shutdown (`HomeOf`) and all its HTTP clients are open (`SlotOf`). `StageOf` says what a
close has dealt with between two awaits, without which the end of one closer
could leave a client open; `CountOf` ties the counter of the code to the set of
calls, by the cardinality theorems, so that the call that ends at a count of one
is the last.

**Translator.** What is sent and what is kept are changed in different places, and
the invariant `Sound` relates the two: the client was told of existing items only, in
time (`ToldOf`); the items it saw end are those marked completed (`DoneOf`); the item
that thinking or text goes to is of this stream, of that kind, announced and not
ended (`OpenOf`); each call has an item of its own, announced once the call had a
name (`CallsOf`); out of order are only items of late calls (`OddOf`); and every item of
this stream is ended or is one that `Finish` will end (`ClosedOf`), which is what
makes a completed response leave nothing open. `CallsOf` takes the number of calls
that have been ended, so that it also goes through the loop of `EndCalls`. The two loops
are recursive functions over a number of turns; `NaturalsReached` of `FiniteInduction`
carries `Sound` through them. The theorem is for any pieces, any number of chunks and
any limit on calls, and for both streams of a retry. A retried stream keeps the
items of the first without their ends: `CompletedWhole` speaks of its own items, as the
code does.

**Cuts.** What the client reads may not depend on how the content came, and the
translator holds back text for that: the start of a text that may still become the
opening tag, and the end of thinking that may still become the closing tag. `CutInv`
says that as long as no tool call came the content was read to its last letter
(`HasRead`, in terms of `Read`): before it is clear whether the text opens with the tag
all of it is held back; afterwards what was sent and what is held back, put together,
follow the opening tag, and what is held back is as much as may become the closing
tag (`Keep`). A closing tag that is completed later then begins in what was
held back (`HeldBack`), so that no turn of the loop can miss it or find another one.
Each turn takes something away (`Progress`, `AtTurn`), so the loop over one chunk ends
with all of it read (`ScanReads`); and what shows of it stays the same when the
end of a stream sends what was still held back (`FlushShows`, `Shown`). Text of
`reasoning_content` may come between any two chunks; `FromContent` leaves it out
(`ContentOnly`).

**Tool histories.** The repairs put sequences together from parts. `FlattenPlaces`
says, for any parts, where each of them begins in the whole (`Placed`), and everything
else is said of places. Three passes follow one another. `Restored`: in the repaired
items each item is at a place of its own, in the old order, and before an orphan its
call. `Mapping` goes from item to item through the loop that makes messages
(`MappingAdded`): what was said, called, returned, thought or shown up to an item is
in the messages or still pending, in one place (`Tally`), and a run of outputs after
calls is a run of tool messages after them (`Open`, `AnsweredIn`), which is what makes
a doubt founded. `Repairs`: each message has a block of its own in the sanitized chat,
made of pairs of a call and its outputs. `ChatKept` puts the last two together. Over
the turns it takes that repaired items stay as they are: `HistoryInvariant` says that
what was cached has no orphan, so that it stays in its place (`RestoredPrefix`), and
that a call the repair made carries an id of an output that came (`Fakes`), so that
it can be taken for the call of another output only if the two share an id.

Only model-checked:

- liveness (`WaiterServed`, `ShutdownCompletes`, `RequestEnds`, `TurnEnds`, `SessionEnds`,
  `StopSettles`, `WantedIsServed`, `CrashRecovered`, `ChangesArrive`), which is out of
  the prover's reach;
- `EventsSeen`, which is about what folds and filters compute of whole sequences
  (`SelectSeq` has a recursive definition of its own, which the prover does not
  expand), and depends on the streams that the run chose.

## 5. Findings

1. **A lease is kept for ever** (`stream_lease_leak`). `_NativeStreamingResponse`
   closes the upstream "even if downstream fails before iteration starts"
   (`native_proxy.py:148`). A chat request on a native model uses only the
   `body_iterator` of that response (`provider_proxy.py:542-592`). When its client
   is lost before the first pull, the generators never begin, their `finally`
   blocks never run, and slot and reservation of the pool are gone until the
   process ends. `streams` shows what remains true: later requests end,
   if only with `native_capacity` errors. `ResourcesReturned` names this path as its
   one exception.
2. **A section of the user is removed** (`codex_sections`). `_remove_toml_section`
   (`admin_api.py:1513`) ends a section at the next line that begins with `[` and
   ends with `]`. A header with a comment after it does not end it, although
   `_section_range` knows such headers, and the lines of that table go with the
   section before it; `admin_api.py:1804` promises that user-owned sections
   survive. `SwitchSound` has `NotedHeaders` FALSE and shows that all else survives.
3. **A cut character is lost** (`sse_cut`). `_events` of the converter to chat
   decodes each chunk by itself (`responses_stream_to_chat.py:53`): a character whose
   bytes come in two chunks is replaced, and a CRLF cut in two runs two events
   together. `tests/test_native_observability.py:97` expects of the observer, which
   reads the same bytes, that it takes them in any pieces. `EventsSeen` holds for
   the readers that decode incrementally, and for this one on streams that are not
   cut inside a character or a line end.
4. **An accepted edit is lost** (`config_lost_edit`). `load` reads the file before it
   takes the lock (`config.py:137`). When an edit is saved in between, the load then
   commits the document from before the edit (`config.py:142-146`) and notes the
   signature of the file that has the edit (`config.py:153-154`): memory lacks an edit
   that was accepted, and the watcher sees nothing to load. The next edit copies
   memory (`config.py:260-266`) and the file loses the first one for good.
   `admin_api.py:51` has the handlers edit in "Config's atomic transaction", and
   `tests/test_stability_upgrades.py:110-111` expects after a save that the file counts
   as seen and that what was saved is in memory. `LostToLoadsOnly` and `EditsTheorem`
   say that this is the one way to lose an edit.

**Seen on the way**, and stated in the models as they are:

- *Streams.* A provider stream translated for a chat client that ends without a
  terminal event is recorded as 499 (`server.py:5006`), against `CHANGELOG.md:65`,
  although the client is there. Native chat books `response.incomplete` as 502 when
  streaming and as 200 when collecting; provider chat books nothing when its
  stream breaks or is left in the middle; a stream that completed and then breaks
  is booked 502 although its context is cached.
- *Turns.* `_handle_stream` records 200 even when the translator's end was
  `response.failed` (about `server.py:6983`), and so does the end of a recovery
  (`server.py:6577`), which can also send two `response.failed`
  (`server.py:6534`). A read task is carried from a stream to the next one
  (`server.py:6331`), against the comment at `server.py:5881`. After a late recovery
  indexes of items may be used twice. A failed image inside a streamed answer ends
  the stream with no terminal event and no record; error exits of
  `_handle_responses_image_gen` and of the two images endpoints are not recorded, nor
  is a failure of the set-up that the middleware answers (`server.py:4339-4388`,
  `5104-5128`); an
  exception whose text is empty counts as a normal end (`server.py:6882`); the
  recovery of an empty answer in `_complete_with_web_search` (`server.py:5586`) cannot
  be reached.
- *Speech.* The relay notes an outcome when the send of the final frame returns
  (`asr_stream.py:107`), so a final text that the client got may still be recorded
  as cancelled, against the comment at `asr_stream.py:122`.
- *Tool histories.* `local_shell_call_output` is known to the repair for Responses
  upstreams but not to the mapping for chat models. An orphan output whose other
  id sorts before its `call_id` gets its call under that id (`native_proxy.py:350`)
  and stays unlinked. A reasoning item between the output of an image call and the
  next output makes the later call one whose "Execution status unknown".
- *Contexts.* A stateful provider's second turn caches only its own part
  (`provider_proxy.py:281`); switching to a chat model then replays a history with a
  hole.
- *Readers.* The websocket drops an event that no blank line ends and decodes per
  chunk as well; the observer takes no bare CR for a line end and counts a CR that
  it cut off towards its limit; on an error of that limit the events of the same
  chunk are lost; its limit on lines counts short lines too, so that a pretty-printed
  document of 4097 lines is not observed.
- *Translator.* The reasoning item of a retried answer stays in progress; a lone
  `<think>` at the end of a stream is shown as text; one that is not at the start is
  recognised only when it is whole in one chunk; a tool call whose name comes late
  gets argument deltas before it is announced, one whose name never comes is
  finished without.
- *Model list.* A joined refresh ignores the fetch of the request that joined; the
  scope of an account is computed for the request, the credentials are read again
  for each attempt.
- *Upstream clients.* A call may begin on an object that was retired between `get`
  and the call (`client.py:193`); it gets a new HTTP client that nobody may close in
  time, or loses the one it has. `ClientsSound` excepts these (`lateUsed`).
- *Statistics.* A usage file that cannot be read starts again from nothing, and
  rotations that fail again and again use up the backups.
- *Codex switch.* `SwitchToCustom` reads the lines of the file before a call of the
  CLI that may take half a minute, and writes them after it. A line of an array
  that starts with `[` ends a section. The catalog is written through a temporary
  file of a fixed name by two threads, one of which may bring it back after a
  switch to the official service.
- *Configuration.* `save` takes the signature of the file after it replaced it
  (`config.py:251`) and `load` after it read it (`config.py:153`): what another program
  writes in between is not loaded until the next change, although
  `reload_if_changed` is to "reload an externally changed config" (`config.py:161`);
  `missed` marks this moment, and `MemoryServes` excepts what is served after it.
  `import_config` commits a document that no load would
  keep (`config.py:265`, `admin_api.py:1362`, against `config.py:149`). A file that is
  absent for a moment between the stat of the watcher and `path.exists()` of the
  load (`config.py:136`) empties the configuration in memory, against the comment at
  `config.py:168`. A read error after `Mark` is not tried again until the file
  changes. Readers that do not take the lock see a document before it is
  normalised (`config.py:146`). A handler that returns an error from inside
  `with _edit_config` (`admin_api.py:1022`) still commits. A failure while old backups
  are sorted, after the replacement, is reported as a failed edit, but the watcher
  then loads it.
- *Desktop.* An application that is quit while its backend is still starting leaves
  it running: the shutdown request finds nobody listening and the timer that would
  kill the process (`main.ts:426`) ends with the application, while
  `docs/WINDOWS.md:22` says that quitting ends both. A backend left behind by a crash
  that hangs keeps the port for ever.

## 6. Not modelled

- `responses/compact`, the images endpoints and the media routes: one call to an
  upstream and a conversion of its answer.
- The receive loop of the websocket (`server.py`), which runs one turn after the
  other, and the closers of the lifespan (`server.py:3750-3760`), which run one
  after the other without a guard: a closer that raises keeps the later ones from
  running.
- Access keys (`access_control.py`, `middleware.py`): one locked map that is replaced
  as a whole, with a file behind it; no step of it spans an await.
- Routing, models, provider adapters, and the conversions of documents in
  `protocol.py` and `protocol_adapters/` beyond tool histories, streams and readers:
  functions of their arguments, field by field.
- Administration forms beyond the switch of Codex: validation and `Config.edit`,
  whose effects are in `ConfigStore`.
- Web search and image generation: network calls without a protocol of their own;
  their place in a turn is in `ChatTurn`.
- Command line, packaging, tools, pages.
