# DriftClip: a verification development in TLA+

DriftClip collects the clipboard texts of one person's devices. A Flutter client
uploads what is copied, a Go server with a SQLite database keeps the last N texts
of each account, and a React web console manages account, key and history. This
directory models the parts of it that keep state and run concurrently, checks the
models with TLC and proves their main invariants with TLAPS. All paths below are
relative to `src/`.

## 1. Inventory

| Component | Source | State | Operations | What makes it correct |
| --- | --- | --- | --- | --- |
| Upload coordinator | `client/lib/services/upload_coordinator.dart`, `api_client.dart`, `dedup_store.dart` | retry loops, `_flushing`, `_flushTimer`, digest of the last text uploaded, banners, `SyncStatus` | `uploadText`, `flushQueue`, timer, `saveConnection` | a text whose upload failed is kept until stored, refused or dropped by an announced overflow; the digest never suppresses a text that was not stored; somebody always retries |
| Upload queue | `client/lib/services/upload_queue.dart` | `_items`, `upload_queue.json`, its temporary file | `load`, `enqueue`, `removeFirst`, `_persist` | bounded, first in first out; an interruption never damages the file |
| Connection settings | `client/lib/services/settings_store.dart`, `saveConnection` | address, key, size limit | validate, then three stores | address and key belong together, after overlapping saves once one has run alone |
| Clipboard monitor | `client/lib/services/clipboard_monitor.dart`, `client/lib/main.dart` | `_listening`, `_timer`, `_lastSeen`, foreground | `start`, `stop`, lifecycle, poll | polls exactly as the stored setting says; what stays in the clipboard is handed over |
| Desktop shell | `client/lib/services/desktop_integration.dart`, `client/lib/screens/` | tray switch, window, open pages, opened row | tray toggle, close, show, quit, settings page | tray, setting and monitor agree; closing hides only while listening, and ends the app otherwise and when hiding fails |
| History list and detail | `client/lib/widgets/history_content.dart`, `detail_pane.dart` | records, spinner, error, selection, countdown, opened row | load, refresh, delete, clear after a countdown, open | catches up with the server; no row under another's name; clears only after a full countdown |
| Web pages | `web/src/pages/` | list, page, filters, shown key, countdown | load, reveal, reset, log in | not modelled, see section 6 |
| Accounts, sessions | `server/internal/handler/auth.go`, `store/accounts.go`, `store/sessions.go`, `middleware/middleware.go` | tables `accounts`, `sessions` | register, login, logout, change of password | a revoked session is refused; one registration per address |
| API keys | `server/internal/handler/keys.go`, `store/keys.go` | table `keys` | generate, reveal, reset | one key per account; the old one is dead at once |
| History | `server/internal/handler/history.go`, `store/history.go`, `store/cleanup.go` | table `history` | upload with retention, list, get, delete, batch delete, clear, cleanup at start | at most N rows per account, the newest; nobody touches another's rows |
| Rate limiter | `server/internal/middleware/ratelimit.go` | visits per key | `Allow` with its sweep | exactly `limit` calls per window; no memory for what expired |
| Request plumbing | `server/internal/handler/router.go`, `handler.go`, `middleware/middleware.go` | requests on their way | CSRF, HTTPS, client address, credential, limiter, handler | nobody gets past a budget with headers of his own |
| Configuration and process | `server/internal/config/config.go`, `server/cmd/driftclip-server/main.go` | settings, phase of `main` | load, validate, open, serve, shut down | what is served is valid; limits and budgets are those of the configuration |
| Cryptography, static files, logs | rest of `server/` | none that changes | | |
| Theme, layout, platform runners, build, documents | rest of `client/`, `web/`, `deploy/`, `tool/`, `docs/` | preferences | | |

**How they interact.** The monitor and the manual input call `uploadText`; calls
overlap, since a poll does not wait for the one before. An upload that succeeds
calls `flushQueue`, one that fails calls `enqueue`, which starts the flush timer.
`saveConnection` changes what all of them read. The monitor is started and stopped by
`main.dart`, by the settings page and by the tray. The list and the detail pane share
the rows and call the API on their own. Client and server speak HTTP; on the server
every request has its own goroutine, passes the middleware with its limiters, and
reaches handlers that share nothing but the database, so they interleave statement
by statement.

**What is hard.** On the client: everything that can happen at an `await`
(answers that arrive after the state they were asked for is gone, two flushes, two
saves of one file, a load overtaken by a deletion), crashes between change and save,
failing writes, a service that comes and goes, a switch kept in four places. On the
server: check and act in separate statements, credentials revoked while in use,
crashes in a cleanup, visits dropped in several places. The list of hazards with their lines is in `PROJECT.json`.

## 2. Modules

| Module | Models | Uses |
| --- | --- | --- |
| `QueueDisk` | abstract: a bounded first-in first-out list, a saved copy of it, restart from the copy | |
| `UploadQueue` | the list that `upload_queue.dart` keeps in memory | |
| `UploadQueueFile` | `_persist` and `load`, one file operation at a time: directory, truncate, write, rename | extends `UploadQueue`; implements `QueueDisk` while saves are not mixed |
| `UploadClient` | coordinator, digest and connection settings against an external server | extends `UploadQueue` |
| `UploadOnDisk` | the two together: uploads and flush inside their saves, and the end of the process | extends `UploadClient` and `UploadQueueFile`; implements `FileSpec` of the latter |
| `AccessControl` | abstract: a request acts for an account only on a good credential of it; credentials end only by their owner or their time | |
| `AuthServer` | accounts, sessions and keys, statement by statement | implements `AccessControl` |
| `HistoryServer` | the history table, its retention and the cleanup at start | |
| `SlidingWindow` | abstract: what a limiter promises, remembering every decision | |
| `RateLimiter` | `ratelimit.go`: `Allow` and its sweep | implements `SlidingWindow` |
| `ServerProcess` | configuration, process and middleware, with the limiters in between | extends `RateLimiter` |
| `HistoryView` | the client's list, its bar, and the detail pane, against the rows of one account | |
| `ClipboardMonitor` | the monitor and everything that switches it: start, key, settings, tray, window | |
| `MC...` | the finite instances TLC checks | |
| `...Proofs` | the theorems | |

### UploadClient

Dart has one thread, so the code from one `await` to the next is one action.
`task[t]` is a running `uploadText` (`pc` names the `await` it is at: "sent" in
`_uploadWithRetry`, "dedup" in `dedup.update`, "persist" in `enqueue`), `flush` the
running `flushQueue`, busy exactly when `_flushing`. `Upload`, `UploadRetry`,
`UploadSucceeds`, `UploadNoted`, `UploadStops`, `UploadGivesUp`, `UploadQueued` are
`uploadText`; `TimerTick`, `FlushRetry`, `FlushStops`, `FlushRemoves`,
`FlushPersisted`, `FlushNext` are `flushQueue`; `UploadWriteThrows` and
`FlushWriteThrows` are a write, of the file or of the digest, that throws.
`SaveValidated`, `SaveUrl`, `SaveClears`, `SaveKey` and `SaveThrows` are
`saveConnection`, one call for each of `Savers`: calls overlap, since a form may be
submitted from the keyboard while it is being checked
(`screens/settings_screen.dart:278`, `screens/key_config_screen.dart:222`) and the
dialog dismissed and reopened (`screens/settings_screen.dart:59`). `CrashRestart` is
the end of the process and `main()`. The rest is environment: `GoOffline`, `GoOnline`,
`ResetKey`, and the user who dismisses a banner.

`wired` says whether the coordinator was given a queue. `main.dart:73` gives it none, its
constructor and its tests allow for one: both are initial states, and what a property says
of the unwired app it says by name. `Found` are the lists that `load` may find at the start.
`Budgets` bound how often each event happens in a behaviour, `left` is what remains.

Abstractions: sending a request and its handling by the server are one step, the
client's reaction a later one. A text stands for its own digest. 429, 5xx and 400
are one reply "fail"; an answer that is not JSON and a TLS error are "throws",
because `ApiClient._send` catches `http.ClientException` only. Delays between
attempts are merged into the wait for the answer. Preferences are written to their
cache at once. A client without a key, and blank texts, never reach the code
modelled. In this module alone a caller waits for its save and the save ends well or
throws; what happens to the file meanwhile is `UploadOnDisk`.

History variables: `owed`, `evicted`, `refused` are the texts given up on or found at the
start, dropped by overflow, dropped because of a 413; `unannounced` marks that the list
holds texts nobody is set to send, found by `load` or left by an `enqueue` that threw;
`savesOverlap` and `pairUnsure` say whether the calls of `saveConnection` under way
overlap, and whether some did, or broke off, with none ended on its own since.

### UploadQueueFile and UploadOnDisk

`call[c]` is an `enqueue` or `removeFirst` in its `_persist`: "mkdir", "open", "write",
"writing", "rename" are the file operations of `upload_queue.dart:99-106`, each of which
may be the last one before a crash or may throw, and nothing keeps the calls apart. The
list is encoded when the directory is there, as in the code. Opening for writing truncates;
a write is two steps; an open file is written to whatever has become of its name, so
`fd` says under which name it is found now. Contents are absent, blank, part of what a call writes,
a whole list, or torn; a write that another one overlapped leaves a whole list or torn
bytes, because which one depends on lengths that are not modelled. A rename
without a temporary file throws. `FileSpec` has arbitrary callers.

`UploadOnDisk` makes the uploads and the flush those callers. `EnqueueStarts` and
`RemoveStarts` are the change of the list and the begin of its save, `Persists` a step of
a save, `EnqueueReturns` and `RemoveReturns` its rename with the code of the caller up to
the next `await`, `EnqueueThrows` and `RemoveThrows` a save that ends with an exception.
`Crash` ends the process between any two steps and loads what the file holds then; a
file that does not decode is an empty list.

History variables: `settled` says that the last save ended well, overlapped by none;
`overlapped` that the saves under way overlap, `mixed` that saves overlapped and none has
ended well on its own since, `gambled` that a restart has loaded what mixed saves had left. `main()` awaits
`load` before anything uses the queue, so a load does not race with an `enqueue`.

### AuthServer

An action is one SQL statement or transaction with the code up to the next one:
`CreateAccount` and `OpenSession` are two steps of a registration, `CheckPassword`
and `ChangePassword` of a change of password, `CheckKey` and `InsertKey` or
`ResetKey` of a key operation. `BySession` and `ByKey` are the middleware. Tokens
and keys are random: each is named by the request that generated it. `ended`
is a history variable that the actions themselves fill: the tokens and keys that a logout,
a change of password or a reset has deleted or replaced, and those past their time.
`req[r].dead` notes whether a request arrived with one of them, so a statement that
deletes nothing is not taken for a revocation. A logout whose `DELETE` fails is
answered 204 and ends nothing: that is the code (`handler/auth.go:113`) and the run
`auth_logout_ignored`. `Whole` is the time as it is stored, in seconds: a lookup compares
that with the instant (`Fresh`, `store/sessions.go:44`), the cleanup with the
second (`Lapsed`, `store/sessions.go:63`).
Commit and answer are one step. 4xx answers are one reply "refused", 500 and no
answer are "failed". `Restart` ends the requests in progress and removes expired
sessions, which may fail. Rate limits, HTTPS and CSRF checks, disabled registration
and keys without ciphertext are left out; none of them changes this state.

`AccessControl` says what all of this is for. Its credentials are the tokens and keys
together (`Held`); `Presented` is what a request has shown and the middleware has not
looked up yet, `Granted` the account in its context. `BySession` and `ByKey` are
`Grant`, `OpenSession`, `InsertKey` and `ResetKey` are `Issue`, `Logout` and
`ChangePassword` are `Revoke`; checks of a password or of a key's existence, failures and
restarts are `Drop` or a stutter. `GuardsAccounts` says that `AuthServer` implements
it: in particular no request ever ends a credential of another account, and
none acts for an account on a credential that is no longer good when it is looked up.

### HistoryServer

Requests arrive authenticated. `UploadStamps` takes the time, `UploadCommits` is the
transaction of `CreateHistory` (insert, then delete what exceeds the limit);
`ListSelects` and `ListCounts` are the two queries of a list; `Get`, `Delete`,
`BatchDelete`, `Clear` are one statement each, with any ids ever handed out,
another account's included. `Newest` is `ORDER BY received_at DESC, id DESC` with
`OFFSET n`, by counting the newer rows. `Restart` ends the requests in progress and may change
the limit; `CleanAccount` is one round of `CleanupAccounts`, and `Listen` starts
serving. A restart in the middle is a crash or a failed cleanup, after which
`main` exits. A statement that fails leaves a one-statement handler without effect,
so `Fail` is only there for the two that have more. `inserted`, `erased` and
`limits` are history variables. Contents and metadata are left out. Of the filters
only `from` is kept: all of them select rows, and both queries take the same ones.

### SlidingWindow and RateLimiter

`Allow` holds the mutex from its first line to its last and reads the clock under it,
so a call is one action: `Refuse` or `Admit`. `visits` is `r.visits`; a visit is named
by the call that recorded it, and `calls` is a history variable, what was decided on
each call and when. `Live` is the filter that is written twice in the code, for the key
of the call and for all keys in a sweep; `SweepDue` is the condition of the sweep.
`SlidingWindow` keeps no visits: it admits a call if and only if fewer than `limit` of
its key were admitted in the window that ends now. `WindowKept` says that the limiter
implements it, with `settings`, `decided` and `now` for `conf`, `calls` and `clock`.
The clock is monotonic, as the one that Go's `time.Time` carries. `SweepEvery` and
`MaxTracked` are the constants 1024 and 4096 of the code.

### ServerProcess

`Load` is `config.Load`: `Defaults`, then a file, then the environment, then
`validate`. An environment variable that holds no number keeps the value below it, as
in the code; one that is neither `true` nor `1` turns a switch off. `OpenStore`,
`Serve`, `Signal`, `GraceExpires`, `ShutdownReturns` and `Exit` are `run`; every error
on the way is `Crash`. `Arrive`, `Authenticate`, `Limit` and `Handle` are the way of a request:
CSRF, HTTPS and the address depend on the request and the configuration alone, so
they are part of its arrival; the lookup of a credential has any outcome here and is
in `AuthServer`. The limiters are those of `RateLimiter`, whose `Admit` and `Refuse`
are conjuncts of `Limit`. Of a request that no budget counts only its reply is kept.

### HistoryView

An action is a tap, a timer or an answer, with the code up to the next `await`.
`req` are the widgets' requests under way: `Serve` is the server, `Fail` a lost request or
answer or an error, `Escape` an exception that `ApiClient._send` does not catch, and
`Answer` the code after the `await`, which may run in any order among requests.
A row is a number, its place in the order of the list. `list()` sends neither page nor
size (`api_client.dart:113`), so the server answers its default page
(`handler/history.go:111`): `Newest` are the `PageSize` newest rows, and these are what
the client can hold. `Load`, `PullRefresh`, `AutoRefresh` and `ListAnswer` are `_load` and
`_refresh`, which set spinner and error by different rules; `StartClear`,
`Tick`, `ClearAll` are the countdown; `DeletionAnswer` and `DeleteShownAnswer` load
again. The search field and the platform filter are one filter, over the rows held.
While rows are deleted by somebody else, a deleted row may be shown
again by an answer that is older: the model has it, and `ListCatchesUp` says
that it goes.

History variables: `waited`, the seconds the present countdown has counted; `lostList` and
`lostDetail`, the requests that an exception ended at their `await`, until the next one of
the kind. They name the exception in `BusyIsInFlight` and `PaneShowsOpened`: a spinner
without a request is one that such an exception has left.

### ClipboardMonitor

`poll[p]` is a call of `_poll`: `PollAsks` is the timer, `PlatformAnswers` the
platform, `Handle` the code after the `await`; polls overlap. `SettingsSwitch`,
`TrayToggle`, `KeySaved` and `Started` are the four places that start or stop
the monitor, each with the copies of the switch that it updates: the stored one, the
monitor's, the tray's and the settings page's. `WindowClosed` hides the window while
listening is on, and ends the app otherwise and when `hide` throws
(`desktop_integration.dart:195-201`),
`Lifecycle` is a phone going to the background and back. `isDesktop` is chosen at the start.

## 3. Runs

| Run | Question | Bounds |
| --- | --- | --- |
| `upload_flow` | with overlapping uploads, a flush, a timer, an unreliable service and a key reset: is anything lost without an overflow, is anybody retrying, is the count right, does the queue drain? | with and without a queue, 2 calls, 2 texts, 2 uploads, a queue of 2 found empty, with one entry or full, 2 attempts, 1 write that throws |
| `upload_crash` | with the file operations of every save, which overlap, fail and are cut off, and with overlapping changes of the connection: does the file keep what is owed, is a save that is not mixed one step of `QueueDisk`, is the digest true, do address and key match? | 2 calls and the flush, 2 texts (one over a server's limit), a queue of 2 found empty or full, 1 attempt, 2 keys on 2 servers, 2 savers; 2 uploads with a failing write or a crash, or 1 upload, 1 save and a crash, or 3 saves, a failure and a crash |
| `auth_sessions` | is the server the guard of `AccessControl`, do ended credentials stay refused, are winners unique, do shown keys work? | 4 requests of any kind, 2 accounts, 2 passwords, the instants 0 and 4 with seconds of 2 and sessions of 2, 1 restart |
| `history` | does retention hold, is nothing evicted early, is nobody touched by others, does an account keep its newest rows, do deletions and pages add up? | 4 requests of any kind, 2 accounts, limits 1 and 2, pages of 1 row, 2 seconds, 2 restarts |
| `server_process` | do the limiters implement the window and forget, does anybody get past a budget? | 3 requests of any route, a peer, a proxy and an account, 2 files times 4 environments, limits and windows of 1 and 2, a clock of 2, a sweep every 2 admissions or above 1 key, 2 starts |
| `history_view` | does every spinner go that no exception left, does the pane show what was opened, is clearing confirmed, does the list catch up? | 3 rows in pages of 2, found none or all, 2 filters, 2 requests at a time, a countdown of 2, 4 actions of the user, 1 failure, exception or foreign change |
| `monitor` | do setting, tray and monitor agree, is what stays in the clipboard handed over? | 2 texts, 2 polls, 3 copies, 3 starts, phone and desktop |
| `upload_overflow_race`, `queue_file_overlap`, `auth_login_race`, `auth_logout_ignored`, `history_view_stuck` | each checks one sentence of the repository that the code does not keep | as small as the counterexample allows |

Why the bounds are enough. Two upload calls and one flush are all the kinds of process
there are, and the client has no counter beyond the attempt. A queue found full
overflows with the next text, under a flush of its head as well, and one found empty is
filled by two. In `upload_crash` two uploads and the flush are three saves, of which any two
overlap; three changes of the connection let two overlap and a lone one repair what they
left. Four requests hold every pair of handlers with the two requests that
have to come before (a registration and a key, or two uploads); two accounts tell one's
own from another's; a session opened at 0 is over at 4 and one opened at 4 is not, so a
session of each age occurs beside the other, and since the cleanup may fail, an expired one
is also found undeleted;
a limit of 1 lowered from 2 makes the cleanup delete; two restarts interrupt a cleanup
and repeat it. In `server_process` three requests exceed a limit of 2, with a clock of 2
a visit leaves a window of 1 or 2, sweeps happen by count and by size, and the proxy is
trusted in some of the configurations. In `history_view` two requests can overtake each
other, three rows exceed a page, and four actions select, arm, wait and clear, or open,
close and open again; one failure or foreign change is enough for a stale answer. In
`monitor` a text can be
copied again after another one, and polls can answer in the other order. What more
instances could show is the subject of the proofs.

Every run sets `CHECK_DEADLOCK FALSE`: the counters that bound a model (uploads,
requests, restarts, clock, actions) run out, and the bounded model then stops.

Symmetry is used for the runs of the server, whose requests, accounts and passwords
are interchangeable, and for the calls in `upload_crash`; none of them checks liveness.

**Fairness.** No run assumes that a request ends: uploads and lists have no timeout
(`api_client.dart:79-87`), so weak fairness is only of what the program and its machine do
on their own. In `upload_flow` that is the flush timer, and the steps after a write to the
local disk (`FlushPersisted`, `FlushNext`, `UploadNoted`, `UploadQueued`); in `history_view` and
`history_view_stuck` the periodic timer (`history_content.dart:229`) and the code that
handles an answer that is there (`Answer`); in `monitor` the poll timer, the platform's
answer about its own clipboard, and the handling of it.

What the liveness properties need beyond that, they say. `QueueDrains`: the service
stays up and the connection good from some time on (`Connected`), the flush does not
wait for one answer forever, and again and again no texts are left in the list without a
timer. `ListCatchesUp`: the app stays in the
foreground, requests end (`RequestsEnd`), and no exception has left a list request
without its end (`NothingLost`). `CopiedIsHandedOver`: the text stays in a clipboard that
stays polled. The premises are not idle: `upload_flow` has behaviours in which each of them holds
and in which it fails, and `history_view_stuck` shows that `NothingLost` is needed. The
bounds on failures and on changes by others stand for "eventually there are no more of them".

## 4. What the checks found

| Where | What |
| --- | --- |
| `upload_coordinator.dart:156` | an overflow during a flush makes `removeFirst` drop a text that was never sent (`upload_overflow_race`) |
| `upload_queue.dart:101` | two saves share a temporary file, and a crash can then lose the whole queue (`queue_file_overlap`) |
| `handler/auth.go:101` | a login that verified the old password opens its session after the change (`auth_login_race`) |
| `handler/auth.go:113` | a logout ignores that its `DELETE` failed and answers 204: the session stays valid until it expires (`auth_logout_ignored`) |
| `api_client.dart:101` | an answer that is not JSON ends `_load` or `_refresh` at its `await`; the list then stays as it is although it refreshes itself every three seconds (`history_view_stuck`) |

The two about the queue bite once it is wired: `client/lib/main.dart:73` gives the shell no
queue, so a text is dropped after its three attempts (known as S1,
`docs/REBUILD_SPEC.md:449`). The models have both apps (`wired`), and `LossNeedsOverflow`
and `DurableUntilSettled` name the want of a queue beside the overflow: it is the one other
way to lose a text that was given up on.

Other behaviour met while modelling, which no run is about:

* A queue found at startup has nobody who sends it until the next `enqueue` or success
  (`client/lib/main.dart:45`); the same holds for a text whose `enqueue` threw. This is
  `unannounced`, the exception in `QueueHasRetrier`, `PendingShown` and `QueueDrains`.
* Two calls of `saveConnection` that overlap can leave the address of one with the key of
  the other (`upload_coordinator.dart:254`), as can one that breaks off between the two. A save
  that runs alone repairs it; `SavedPairMatches` holds in all other states (`pairUnsure`).
* Two saves of the queue that overlap can leave less than the list in the file, even without
  a crash. A save that runs alone repairs it, unless a restart comes first:
  `DurableUntilSettled` names both (`mixed`, `gambled`).
* Closing the window ends the app, listening or not, when hiding it fails
  (`desktop_integration.dart:195-201`).
* The list never shows more than the server's first page of 20: nothing asks for the
  second (`api_client.dart:113`).
* An answer to the old key writes the digest back after a change of key
  (`upload_coordinator.dart:121`): the first text copied for the new account may be skipped
  as a repeat. It was stored, but for the old one.
* The conflict that the comment at `handler/keys.go:113` expects of two resets cannot
  occur: both succeed, and the key of the first is dead when it is shown.
* In `HistoryView`: an automatic refresh can run beside one by hand, since a load resets
  `_refreshing` (the guard at `history_content.dart:251` is meant to avoid it); a load
  that succeeds leaves the error of a refresh that failed meanwhile; selections made
  during a deletion are lost; "select all" compares numbers, not rows; the confirming
  button works twice while its request is under way; deleting from the pane closes it
  even if another row was opened meanwhile.
* In `ClipboardMonitor`: the tray starts listening without a key; the settings page
  shows the switch as it was when the page was opened; a text counts as seen before its
  upload has succeeded, so one that fails is not tried again while it stays copied.
* In `ServerProcess`: budgets start anew with every process; more than 4096 keys with
  live visits are all kept, although the comment on `maxTrackedKeys` speaks of a
  guarantee, and each further admission then sweeps them
  (`ratelimit.go:57-79`).

## 5. What is proved

For every value of the constants that satisfies the `ASSUME`s of the modules.
TLC checks the assumptions for the instances it runs.

* **UploadClient** (`UploadClientProofs`), with or without a queue. `TypeCorrect`,
  `TrueDigest`, `NoLossWithoutOverflow`, `HeadInFlight`, `SomebodyRetries`,
  `CountIsRight`, `PairsStayTogether`. The
  properties are not inductive alone: that a flushed text may leave the queue needs
  that a success in hand is true (`AnswersAreTrue`) and that the text in flight is
  the head (`FlushHoldsHead`); that a text given up on is held needs the same of
  texts still being enqueued (`EnqueuedIsHeld`). `SafetyInv` is their conjunction.
  The argument for each action is that the texts in list, server and `refused` together
  only grow until something is evicted. `SomebodyRetries` and `CountIsRight` rest on
  `RestInv`, in which the first is stronger: the timer runs, whatever the flush does.
  `PairsStayTogether` follows the savers: while none overlaps, at most one is under way,
  and the stored pair is the old one or half of its own (`PairInv`).
* **UploadOnDisk** (`UploadOnDiskProofs`). Of the file with arbitrary callers (`FileSpec`):
  `FileStaysWhole`, `SaveReachesDisk`, `SavesAreAtomic`. `FileInv` says where a save that
  nothing overlapped has got to: its temporary file holds nothing, a part, or the
  list in memory. The rename is then the only step that changes what `load` would
  read, and it is `Save` of `QueueDisk`. Of the whole: `DiskTypesHold`; `UsesTheFile`, that uploads, flush and
  crashes are such callers (`DiskSpec => FileSpec`), so that the three hold of it too; and
  `DurableQueue`, `DigestSurvives`, `PairsSurvive`. `DiskInv` joins `FileInv` and the
  client's invariants by two facts: who is inside a save is who waits for one
  (`CallersWait`), so a save that ends settles the list as it is when its caller goes on; and
  in memory nothing is lost unless a restart has read what mixed saves left
  (`MemoryKeeps`). The actions of the client are shared with `UploadClient`, and so are
  the lemmas about them (`ClientStep`).
* **AuthServer** (`AuthServerProofs`). `RevokedStaysRefused`, `ChangeRevokes`,
  `WinnerIsUnique`, `ShownKeyIsCurrent`, and their strengthening `AuthInvariant`.
  What was ended is in no table in time, and no request will bring it back (`EndedIsGone`).
  `Given` says that only credentials that were given out are presented or accepted;
  from it `DeadStays` follows: no row with a dead token or key is ever inserted again,
  since a new one is named by the request that makes it. `Winners` says that whoever won has
  a row in the table that makes every later insert fail. `ServerGuards`: the server
  implements `AccessControl`. It needs `Owners`, that a token or key stands in the
  tables for the account of the request that was given it, and that a request
  authenticated by a session acts for the account of its token: only then is the session
  that a logout deletes one of its own account. A credential is never issued twice because what is held
  was given out (`HeldIssued`, from `Given`).
* **HistoryServer** (`HistoryServerProofs`). `Retention`, `NoEarlyEviction`, `NewestKept`,
  `OwnRowsOnly`, `OwnerOnly`, `DeletionsCounted`, `PagingIsComplete`, and `HistoryInvariant`. That
  `OFFSET n` leaves at most n rows is shown by counting (`NewestBounded`): a row's rank
  is the number of newer ones, ranks of different rows differ, and the ranks left are below n.
  `WithinLimit` is the invariant between restart and serving: the accounts not on
  the list of the cleanup are within the limit. `Ledger` says that ids never repeat,
  which makes the order total. Evidence that a row was overtaken
  only grows, because `inserted` does. Pages cover a list of any length because a rank
  below the number of rows falls on a page below it (`Division`). That the counts of
  all deletions add up to what was deleted (`DeletionsCounted`) is a sum without induction:
  each reported row is a receipt, a pair of the request and a number, receipts of different
  requests are disjoint (`ReceiptCount`), and a deletion adds as many of them as rows
  (`EraseReceipts`, `Accounted`). `NewestKept` is exact where `Retention` and
  `NoEarlyEviction` are bounds: while an account deletes nothing and the limit
  stays, its rows are the newest it ever uploaded. By
  `OnlyOverflowEvicts` the newest rows are all there; were there one more, the table would
  exceed the limit, since the ranks below it are all taken (`RanksFill`, `NewestFill`).
* **RateLimiter** (`RateLimiterProofs`). `LimiterTypes`, `LimiterKeepsWindow` (the
  limiter implements `SlidingWindow`, for any limits, windows, keys and sweeps),
  `LimiterForgets`, `LimiterHoldsLimit` and `LimiterIsBounded`. `LInv` says that the visits kept are calls that were admitted and
  hold all that still count (`Exact`), none in the future (`Past`), that no window, wherever it
  ends, holds more than the limit (`WithinLimit`), nor a key more visits (`KeyBounded`), that the admissions since a
  visit expired have been counted since the last sweep (`Swept`), and that with too
  many keys each has a visit that was live at the last admission (`Useful`).
* **ServerProcess** (`ServerProcessProofs`). `ProcessTypes`, `ProcessDrivesLimiters`
  (every step of the process is one of the limiters or leaves them alone), from which
  `ProcessKeepsWindow`, `ProcessForgets` and `ProcessHoldsLimits` follow; `ProcessKeepsBudgets`, for any number of requests,
  addresses and proxies. `PInv` adds that the limiters in use are those of the
  configuration (`Prepared`) and that each request that was admitted is billed to the
  address or account it came from (`Billed`).
* **HistoryView** (`HistoryViewProofs`). `ViewTypes`, `SpinnersEnd`, `PaneIsRight`,
  `CountdownAddsUp`, `ClearingIsConfirmed` and `CaughtUpStays`, for any rows, filters, page
  size and number of requests, exceptions that escape included. That the button may clear needs that countdown and seconds waited add up
  while it is armed, and that its timer runs until zero. `CaughtUpStays` is the half of `ListCatchesUp` that is a
  safety property: a list that is right stays so while nobody acts and nothing fails,
  since every answer still to come holds the present first page (`Settled`).
* **ClipboardMonitor** (`ClipboardMonitorProofs`). `MonitorTypes`, `SwitchesAgree` (`Agree`, the
  strengthening: monitor and tray hold what is stored, as far as there is a key),
  `PollingFollowsSetting`.

The proofs of a component follow one pattern: the initial states satisfy the
strengthening, every action preserves it (one step per action, one lemma per part),
and the properties follow from it.

**Only model-checked.** The liveness properties `QueueDrains`, `ListCatchesUp` and
`CopiedIsHandedOver`, which need fairness and `ENABLED`. Every safety property of the runs is
proved. `TypeOK` of `AuthServer` and `HistoryServer` is proved and left out of their runs,
which check stronger properties instead.

## 6. Not modelled

* **Web console** (`web/src/pages/`). The list (`HistoryPage.tsx:77-194`) has the races
  of the client's list, with pages and filters sent to the server in addition: an older
  answer that comes late replaces a newer one, and sets page and filter back with it. The key page
  (`KeysPage.tsx:37-90`) may show a revealed key that a reset has replaced meanwhile.
  Both are listed as hazards without a property; the server's half is in
  `HistoryServer` and `AuthServer`.
* **The client and the server as one system.** `UploadClient` has an external server
  that stores, refuses or fails; `HistoryServer` and `AuthServer` have arbitrary clients.
  Their product is too large for TLC, and their interface is the reply of a request. What the product
  would add, a text that is always answered 400 (`upload_coordinator.dart:195`) and a
  text stored twice after a lost answer, is listed among the hazards.
* **Cryptography**: pure functions of libraries. Tokens and keys are values that never repeat.
* **Parsing of a pasted connection, autostart, theme, shortcuts, manual input, the
  sheet that shows a row on a phone, disposal of widgets**: no state of their own beyond
  what is modelled, or calls of plugins.
* **Static files, request logs, JSON, the time zone**: no state.
* **Platform runners, build and deployment**: generated or outside the program.

What would come next: the console's two pages as a module of their own; the queue once
it is wired, with whatever serialises its saves and a flush at the start, which would turn
`mixed` and `unannounced` from exceptions into properties.
