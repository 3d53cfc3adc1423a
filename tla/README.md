# TLA+ verification of WebSSH-u60pro

WebSSH-u60pro is one Go process (`gossh/`) on a ZTE U60 Pro router, with a web page
(`webssh/`) as its user interface. It serves SSH and SFTP in the browser, manages the
device (SMS forwarding, neighbour cells, screen program, mihomo proxy, network
settings) and updates itself. Almost everything runs in gin request goroutines that
share package variables, sync.Maps, files and child processes with a few background
goroutines. This directory models the parts in which those goroutines, files and
processes interact, checks them with TLC and proves their safety properties with TLAPS.
The models are independent of each other except that `SessionRegistry` is shown to
implement `SessionLifecycle`, and that `SystemInit` models the start of the server that
`SshdSession` models one channel of.

    tlc -workers 2 -config reg_unique.cfg MCSessionRegistry
    tlapm SmsForwardProofs.tla

`PROJECT.json` maps every definition to the lines it models, and lists the runs, the
mutants, the findings, the hazards and the theorems.

## Inventory

| Part | State | Operations | Hard behaviour | What makes it correct |
|---|---|---|---|---|
| SSH session registry (`ssh_conn.go`, `service_init.go`, `ssh_status.go`) | `OnlineClients` (sync.Map id -> *SshConn), the client, session, sftp client and websocket of each | create, open terminal, resize, disconnect, heartbeat, clean every minute, `DeleteOnlineClient` | the delete closes in a chain of defers, one of which waits for the host, and removes the entry last, by key; every handler may delete; nil members panic; the ssh library checks for a second shell before it asks for it | no dead entry stays listed, nothing open leaves the map; terminals end and silent sessions are reaped where no host hangs |
| Self-update (`main.go`) | `updateStatus`, `updateCancel` (a mutex each), the temporary file, the script, the program file | run, cancel, status, `runUpdateTask`, the shell script | check-then-act over a network request, cancel against completion, a file shared by tasks, the process kills itself | one task at a time, no mix of two responses is installed, the state stays busy only with a download behind it |
| SMS forwarding (`system_tools.go`) | `config.json`, `smsForwardStop`, the worker's pending batches and completed set | start, stop, save the configuration, poll, push, advance `last_id` | concatenated messages arrive in parts; the file is loaded and saved by two parties without a lock; a stopped worker overlaps its successor; crashes | no message is skipped, one worker pushes none twice, every one is handled in the end |
| Neighbour cells (`neighbor_cell.go`) | `neighborManager`, `diag.pid`, the `diag_mdlog` process | request, stop, refresh, monitor, reap | process ids are reused, a lock is held over sleeps, a child outlives the server, late `Wait`, a `pidof` that fails | one collector, no child forgotten, the collector ends |
| QMDL parser (`neighbor_qmdl.go`) | none | parse | binary format | not modelled |
| Initialisation and configuration (`sys_init.go`, `config.go`, `db_init.go`) | `DefaultConfig` in memory, `GoWebSSH.toml`, the database file and its handle, `isStartSshd` | start, initialise once, rewrite the file, start the sshd | remove-then-write, check-then-act over many rows, a secret that is new whenever the file is lost, a channel that is received from once, with two kinds of senders | what calls itself initialised can be used; nobody waits for ever on the start signal, and it is not lost |
| Mihomo (`mihomo.go`) | two job states and cancel functions, the kernel, `.bak`, data files, `data_version.txt`, the process | install, update data, cancel, uninstall, control, start at boot | two renames without roll-back, files replaced one by one, uninstall and control during a job, a busy check apart from the new state, crashes | no torn file in use, an honest version, "done" is true, no kernel lost, no busy state without a job |
| Screen program (`system_tools.go`) | mount, files, task status | start, stop, download | check-then-act under two lock acquisitions | planned |
| Built-in sshd (`sshd_server.go`) | per channel: the request loop, the resize channel, the pty and two copies | pty, resize, shell, command, sftp, keep-alive | the loop that fills a channel of capacity 10 also has to start its reader; payloads are sliced unchecked; children keep the pty | sizes arrive in order and the last one arrives; loop and session end |
| WiFi autostart, network settings | device configuration | reconcile | ubus calls | not modelled |
| Access control, users, audit, notes, stored connections | database rows | CRUD, stateless checks | - | not modelled |
| SFTP operations, device information, speed test, DIAG EFS | none of their own | I/O | - | not modelled |
| `tools/u60-qtrace-reducer` | none | `ddmin` | a pure search | planned |
| `tools/u60-nr-crossband-probe`, web front end | - | - | - | not modelled; the page was read for what its requests contain |

Interactions. The page creates a session (`CreateSessionId`), opens a websocket on it
(`NewSshConn`), sends heartbeats and may reconnect under the same id. It saves the SMS
configuration with the `last_id` it loaded earlier. Neighbour requests share one
collector. The self-update kills every goroutine of every other part. Vendored
libraries (`gossh/crypto`, `gossh/gin`, `gossh/gorm`, `gossh/sftp`, ...) are external, except
`Session.RequestPty`, `Shell`, `start` and `Wait` of `gossh/crypto/ssh/session.go`, which the
terminal depends on.

## Modules

Every module has the shape: constants with named assumptions, one action per handler or
lock section, `Spec`, `FairSpec`, properties. An operator whose name ends in `Bug` is
the mutant of the definition below it; nothing else uses it.

### SessionRegistry

`online` is `OnlineClients`, `conn[c]` an `SshConn`, `proc[p]` a request goroutine or the
cleaner of `initApp`: `pc` where it is, `key` the session id it was called with, `held`
the pointer it loaded, `left` how many further `DeleteOnlineClient` calls its error path
makes. sync.Map operations are atomic; whatever lies between two of them is not.

* `CreateSessionId`, then `ConnectFails`, `NewSessionFails` or `Connected`, then `Store`.
  The dial is where other handlers get in. An id is one of `SuppliedIds`, which the
  client may repeat, or a random one that no session has.
* `DelLoad`, `DelCloseWs`, `DelCloseSession`, `DelCloseSftp`, `DelCloseClient`,
  `DelRemove` are the steps of `DeleteOnlineClient` in the order in which its defers run.
  The close of a nil websocket or sftp client panics in its own deferred call; Go runs the
  remaining ones and the first defer recovers, so the chain goes on.
* `NewSshConn`, `AttachWs`, then `ShellAsks`, `ShellGranted`, `ShellStarts` or `ShellFails`,
  then `WaitReturns`: the terminal. `Session.Shell` of the ssh library in the repository
  looks at `started`, waits for the host and sets it, in three steps here; so two terminals
  may both start a shell (`twice`). `exitStatus` carries one value for all who wait
  (`taken`), and after a second start it may be received by a `Wait` that then waits on the
  wrong channel of copy errors (`WaitHangs`).
  A way out with an error of `RunTerminal` deletes three times, the others twice.
* `CleanRange`, `CleanCheck`: sync.Map.Range promises to visit what was there at its
  start, and may or may not visit what came later.
* `Expire` is the passing of a minute. `RemoteEnds` is the end of the remote side, and
  `HostHangs` a host that stops to answer on a connection that stands, or answers again.
  While it hangs, `RequestPty` and `Shell` do not return, and neither does
  `sftpClient.Close`, which waits for its receiving goroutine (`gossh/sftp/conn.go:62`).

Left out: `ExecCommand` (a session of its own on the same client), `GetOnlineClient`
(read only), the terminal's bytes.

`SessionLifecycle` is the abstract specification: every session is opened once, is closed
once, and disappears in one step. It does not speak of shells.
The refinement mapping `Life` takes a registered session for live while its client and
its session are open, for closing from the first of the two closes on, and a session out
of the map for gone if all of it is closed; an open session out of the map is "lost",
which no abstract step produces. The six steps of any number of overlapping deletes
collapse into one `BeginClose` and one `Forget`. It holds only while no id is used twice;
`reg_reuse` states what remains true when ids are.

### SelfUpdate

`status` is `updateStatus.State`, `cancelFn` the task that `updateCancel` would cancel,
`task[t]` a `runUpdateTask` goroutine with its context, the lines left to try, its
offset and the length of the body that its line sends, `file` the set of chunks of the
temporary file that hold the bytes of that body (all tasks of one version use one name;
`fd` tells whether the file a task has open still has that name), `script[t]` the update
script, `server` and `binary` the result. The handlers are split where they release a mutex
or wait for the network. A body may end after any number of chunks: the code checks only
that the file is not empty. The `mv` of the script may do its work, fail, or break off half
way (`torn`); the program is started all the same.

### SmsForward

`file` is `config.json` (the target and `last_id`); `os.WriteFile` is two steps, truncate
and write. `worker[w]` is a `runSmsForwardWorker` goroutine with `pending` and
`completed`; `stop` is `smsForwardStop`. Time is relative: `Tick` adds one of `Gaps` to
the age of each batch, up to the two windows `ready` compares it with. `rev` is the
content of a message, which grows while its parts come in. `saver` is the configuration
handler, with its failing writes. Two writers that have both truncated the file leave
what the second one wrote, or a file that does not parse (`Mangled`), which every later poll
refuses. The module assumes what the
code assumes: ids grow with arrival. Deletions in the modem, the page limit of 500, push
formats and the one-shot forward handler are left out.

### NeighborPipeline

`proc[p]` is what runs under process id `p`, `reaper[p]` the goroutine waiting for a
child, `pid`, `access` and `pidFile` the manager's fields and `diag.pid`. A section under
`neighborManager` is one step, except `stopManagedDiagLocked`, which sleeps with the lock
held: `stopping` is that interval, in which processes die and start, and `StopLooks` and
`StopKills` are the looks at `/proc/<pid>/cmdline` and the signals that follow them, steps of
their own because the process may change in between. A failing `pidof` reads as "no
collector" (`PidofFails`, counted in `blind` up to `MaxBlind`). Process ids are
reused (`Others`, `StartDiag`), but not while the goroutine that reaped the id has yet
to take the lock: the kernel hands ids out in turn, so an id does not come round in that
time. Left out: extraction of assets, take-over of the legacy service, ring files, parsing.

### SystemInit

`mem` is `config.DefaultConfig`, `file` the configuration file (missing, truncated or
holding a configuration), `db` the rows of each database file, `cur` the file behind
`model.Db`. A row is the secret it was encrypted with: secrets are random, so each
process starts with a new one unless the file gives it the old one. `boot` follows
`initApplication` through `InitConfig` (write the defaults when there is no file, read,
correct `WebBaseDir`), `InitDatabase` and the two goroutines: `app` (`initApp`, which
reads `IsInit` when it comes to run, `AppChecks`, and if it is set sends the start signal
before it cleans sessions) and `sshd` (`startSshServer`, which
receives it once). `req[r]` is a `SysInit` handler: migrate, user, policy and key, sshd
configuration, sshd account, `RewriteConfig` (variable, remove, open, write), stored
connection, signal. Each may fail; a row that is there already is such a failure (unique
user name, fixed id 1). `Crash` may come between any two steps. The history variable
`mixed` remembers overlapping requests that name different database files, which share
the one handle; `unsent` a handler that failed after it had set `IsInit`; `late` an `initApp`
that read `IsInit` after a handler had set it. Left out: a
database that cannot be opened at the start, and `SetRunConf`, whose route wants an
initialised system and whose handler refuses one.

### SshdSession

One session channel. `wire` holds the client's requests, `handler` is `handleRequests`,
`resizes` the channel, `ptySize` what the pty was last set to; window sizes are numbered
in the order in which the client sends them. `attachShell` takes the first queued size as
the initial one (`InitialSize`) and starts three goroutines: `DrainSize`, `CopyInEnds`
and `CopyOutEnds`/`ShellWritesInVain`. A size that finds the channel full waits in `PutSize`
for a reader, in vain when no shell was started (`Jammed`). The client is external: it asks
for one shell, command or sftp, sends sizes when it likes, may send a size or a request
whose payload is too short, may stop reading (`full`) and may leave. A short size is queued
as it is: as the initial one it is dropped, in `DrainShort` it panics in a goroutine without
`recover`, which ends the server. A short request panics in `handleRequests`, whose `recover`
ends it without closing the channel (`TakeShortAsk`). A child of the shell may keep the pty
open after the shell (`held`), and with it the copy to the client. Left out: environment
variables, the bytes, authentication.

### Mihomo

`job[j]` is a `runMihomoInstall` or `runMihomoDataUpdate` goroutine, `status` and `cancel`
the variables of the two kinds, `files` and `part` what is stored under each name and
under its ".tmp": nothing, a torn piece, a version, or something else that a line answered
as a whole (`Other`). Every line of `mihomoDownloadFile` is tried in turn (`NextLine`); the
local proxy is one more line. `remote` is the version that the server publishes. `mm.sh` is
external: it does what it is asked or nothing. The busy check (`Ask`) and the new state
(`Begin`) are two lock sections and two steps, so that two jobs of a kind may run;
`overlapped` remembers it. They write one ".tmp" (`Shared`: what one has written may be torn
by the other). `UninstallStop`, then `UninstallFull`, `UninstallFullFails` (an error after a
part of the directory is gone) or `UninstallBak` and `UninstallBin`, are the uninstall
handler, one at a time; `Control` is both control handlers. A job that was started before an
uninstallation, or during it, is remembered in `wiped`, an update during which a version was
published in `overtaken`. Left out: the editor of the configuration, the `.autostart` file
itself (a start at boot may or may not happen), status queries, the ranking of lines.

## Runs

| Run | Instance | Checks | Shows |
|---|---|---|---|
| `reg_unique` | 1 session, 2 handlers, cleaner, nil or open sftp, a host that may hang, fairness | `TypeOK`, `RemovedIsReleased`, `RefinesLifecycle`, `CloseCompletes`, `TerminalDrains`, `InactiveReaped` | with random ids, racing deletes look like one atomic close; where the host does not hang for ever it completes and silent sessions go; terminals end unless two of them got a shell |
| `reg_reuse` | 2 sessions under one supplied id, 2 handlers, cleaner | `ClosedIsBeingRemoved`, `OrphanOnlyByReuse` | with reused ids no dead entry stays, and reuse is the only way to lose an open session |
| `update_seq` | 1 request at a time, 2 tasks, 2 lines, 2 chunks, cancels, fairness | `TypeOK`, `OneDownload`, `InstalledIsOneResponse`, `Unwedged` | with sequential updates one task downloads, no mix of responses is installed, and only a silent line that nobody cancels keeps the state busy |
| `update_concurrent` | 2 requests | `OneDownload`, violated | the busy check is not atomic |
| `update_cancel` | 1 task, 1 cancel | `CanceledNeverInstalls`, violated | a canceled update can still install |
| `sms_single` | 1 worker, 1 number and a blank one, 3 messages, 1 save by a browser, failing disk, fairness | `TypeOK`, `AtMostOnce`, `NewestNeverSkipped`, `BaselineOnce`, `EveryMessageHandled` | forwarding by one worker; configuration saves skip nothing; only an unusable `config.json` stops it |
| `sms_restart` | 2 workers, 1 crash | `NewestNeverSkipped`, `Stoppable` | overlapping workers and a crash skip nothing |
| `sms_lostsave` | 1 worker, 1 save | `SavedConfigStays`, violated | the worker overwrites a saved configuration |
| `nb_pipeline` | 3 process ids, 2 requests, 1 failing `pidof`, 1 crash, fairness | `TypeOK`, `OneCollector`, `ChildIsManaged`, `CollectionEnds` | one collector, and one more for a `pidof` that failed; it ends |
| `init` | 2 requests, 2 user names, 2 database files, 1 crash | `TypeOK`, `InitialisedIsUsable`, `SignalTaken`, `SignalPending` | initialisation is all or nothing, and the sshd gets its one signal, to which a late `initApp` is the only competitor |
| `sshd` | capacity 3, 7 sizes, fairness | `TypeOK`, `SizesInOrder`, `LatestSizeArrives`, `HandlerEnds`, `SessionCloses` | the resize channel does not reorder, and blocks only before a shell; sessions close unless a child or the client keeps them |
| `mihomo` | 2 installations, 2 updates of 2 files, 2 lines, 2 versions, 2 requests, 1 crash | `TypeOK`, `FilesAreWhole`, `VersionHonest`, `DoneMeansComplete`, `Unwedged`, `KernelKept` | the last kernel survives even two installations at once, and no state stays busy without a job; torn files, a wrong "done" and a wrong version need such an overlap |

Bounds. The registry's races are between two deletes, or a delete and a create, of one
id: two handlers and the cleaner make three concurrent deletes; two objects under one id
give every overwriting. Two lines and two chunks give a line that fails after half a
file and a second one that truncates it; two tasks give a late removal against a new
download. Three messages give an old one, below the first `last_id`, and then either one
held back behind another number's, or one superseded by its successor; new parts and
successors reset the quiet window often enough for the longer window to end the wait.
Three process ids give an old child, its successor and a stranger at the same time; one
failing `pidof` gives a second collector. One crash gives a configuration lost during the
initialisation and a second initialisation under a new secret (the proofs are for any
number of crashes); two names and two database files let that one succeed on another
database and fail on the same one. Seven sizes over a channel of three fill it, and again
after the shell started. Two requests are two jobs, at once or one after the other, or a
job and the cancel, the control request or the uninstallation that interferes with it
(the proofs are for any number); the device starts with mihomo installed or without, so
that no request is spent on
getting there. Symmetry is used only in runs without liveness.

Deadlock is checked where the system goes on for ever (registry, neighbour cells). The
other models stop when their bounds are used up, the server has been replaced or the
client has left, so `CHECK_DEADLOCK FALSE` there.

### Fairness

* Registry: a goroutine that can go on does (weak fairness of `Step`) and the cleaner's loop
  runs. `connect` carries no fairness, and what waits for a host is disabled while the host
  hangs; `CloseCompletes` and `InactiveReaped` say themselves for which hosts they hold
  (`Reachable`: not hung for ever). `Wait` returns once the channel is closed. Writes to a
  websocket, and the close of the ssh client, are taken to return.
* Self-update: weak fairness of what a task does outside `resp.Body.Read`, of the script (a
  process of its own) and of the registration of a task. Dial, handshake and response head
  have timeouts, the body has none: reading, its end and its failure carry no fairness, and
  `Unwedged` excepts a download that waits.
* SMS: the ticker fires, handlers return and pushes have a timeout. Strong fairness of the
  two fetches says that the modem does not refuse to answer for ever.
* Neighbour cells: waits of a request have timeouts; strong fairness of `RequestDone`
  because it competes for the mutex, and Go's mutex hands itself to a starving waiter; the
  monitor's ticker fires and SIGKILL ends a process. A collector need not die by itself.
* Sshd: the request loop, the goroutine that applies sizes and the copy to the client go on
  where they can: the copy neither while a child of the shell holds the pty nor while the
  client does not read, which `SessionCloses` has as its hypothesis. The sftp server ends
  when its client has left. Neither a shell, nor its children, nor a command need end.
* Initialisation and mihomo are checked for safety only; that no way out leaves a job busy
  is an invariant there, which says nothing of a job that waits for a silent line.

## Proofs

Every invariant and every action property that a passing run checks, and the refinement,
is also a theorem, for every value of the constants that meets the named assumptions in
the modules. Those say that null values are not members of the sets they mark the absence
of, that bounds are natural numbers, and that some are not 0 (lines, chunks, versions,
tries, gaps between polls, the capacity of the channel, `CountTo`). The others: supplied
ids are ids, sftp results are nil or open, installations and updates are different jobs,
and the data files of `Mihomo` have different names, none of them a name of a kernel file
(`FilesAssumption`). A theorem that needs more of the environment has it as a hypothesis,
or proves a property that names its exceptions by a history variable of the model (`mixed`
and `late` in `SystemInit`, `overlapped`, `overtaken` and `wiped` in `Mihomo`, `blind` in
`NeighborPipeline`, `passed` in `SmsForward`):

| Hypothesis | Theorems | Why |
|---|---|---|
| `SuppliedIds = {}` | `RemovedIsReleasedAlways`, `RegistryRefinesLifecycle` | a client that repeats an id overwrites a live session |
| `OneRequest`: one update request at a time | `OneDownloadAlways`, `InstalledIsOneResponseAlways` | `update_concurrent` refutes the first with two |
| `OneWorker`: one worker is ever started | `AtMostOnceAlways`, `BaselineOnceAlways` | `completed` lives in one worker's memory |

Each proof module states its inductive invariant at the top (`IInv`; `RInv` for the
refinement; `TInv` and `SInv` for the self-update; `IInv` and `LoneInv` for the SMS). TLC
has checked these on the instances of the runs, in `SmsForward` also with two workers, a
save, a crash and failing writes together, in `SelfUpdate` with three tasks and two
cancels.

**SessionRegistryProofs** (`TypeCorrect`, `ClosedIsBeingRemovedAlways`,
`OrphanOnlyByReuseAlways`, `RemovedIsReleasedAlways`). `IInv` adds what a deleter knows:
`DeletersOK` (its object was stored under its key, and everything before its position in
the chain of closes is closed), `RegisteredOK` (a map entry is a finished object under its
own id), `CreatorsOK` (two creators never share an object) and `ReadyIsOpen` (so `Store`
cannot put a closed client into the map). Without `DeletersOK` one could not tell at
`DelRemove` that the object whose entry disappears is closed. The witness of
`ClosedIsBeingRemoved` after a close is the closer itself; a second deleter of the same
object that removes the entry first makes the premise false. `RemovedIsReleasedAlways`
adds that ids are unique when none is supplied, which turns `OrphanOnlyByReuse` into it.

**SessionLifecycleProofs** (`RegistryRefinesLifecycle`). `RInv` adds to that invariant that
a session `connect` has made is open as a whole, and that a handler that uses a session
found one that was stored. Each action is shown
to be one step of `SessionLifecycle` for one session, or to change nothing the mapping
`Life` sees: the first of the two closes that matter is `BeginClose`, the removal of the
entry is `Forget` because everything is closed by then, and later closes and removals by
other deleters are stutters.

**SystemInitProofs** (`TypeCorrect`, `InitialisedIsUsableAlways`, `SignalTakenAlways`,
`SignalPendingAlways`). A row of each kind can be created once, so a handler past a row
knows that the row holds the secret in memory (`RowsOK`), that no other handler got past
the sshd configuration (`OneConf`), and that whoever passed the first check late will fail
on it (`BarredOK`). All that needs handlers to work on one database (`SameDb`, `CurOK`), so
it is assumed of states in which requests were not mixed, as in the properties. `AppOK` says
that an `initApp` that was not late sends only in a process in which no handler ever runs.

**NeighborPipelineProofs** (`TypeCorrect`, `OneCollectorAlways`, `ChildIsManagedAlways`). The
mutex is held while `stopManagedDiagLocked` sleeps, so the pid
it stops is the managed one throughout (`StopOK`); a collector is started only when none is
found or when `pidof` failed, which `blind` counts. `OneCollector` is about `Cardinality`, so
the invariant carries that the set is finite.

**MihomoProofs** (`TypeCorrect`, `FilesAreWholeAlways`, `VersionHonestAlways`,
`DoneMeansCompleteAlways`, `UnwedgedAlways`, `KernelKeptAlways`). `StatusOK` says that a busy
state has an active job, whatever overlaps, and that without an overlap it is a lock, so that
one job owns the ".tmp" of a target; `JobOK` says what
a job has got at each place of its code, for an update along the sequence of data files
(`Before`, `Fetched`). `VersionHonest` follows because the version is written when every
file has been fetched. `KernelKeptAlways` and `UnwedgedAlways` need no exception for overlaps.

**SelfUpdateProofs** (`TypeCorrect`, `OneDownloadAlways`, `InstalledIsOneResponseAlways`). The
types need no hypothesis but do need that a file that is open under its name is there
(`LinkedIsThere`). The other two follow the shared file: with one requester the status is a
lock (`StatusLocks`, `RequestAlone`), the file holds exactly what the running task wrote, or
a canceled task has removed it (`FileOK`), and after a script was started no task writes any
more (`ScriptAlone`), so it finds the whole response or none.

**SshdSessionProofs** (`TypeCorrect`, `SizesInOrderAlways`). The sizes are in order along
all of their way: the pty's, the channel's, the one `handleRequests` has in hand, and those
in the requests not read yet (`InOrder`).

**SmsForwardProofs** (`TypeCorrect`, `StoppableAlways`, `NewestNeverSkippedAlways`,
`AtMostOnceAlways`, `BaselineOnceAlways`). A message is `Handled` when it was pushed, passed
or superseded, which is never undone (`HandledLater`). `IInv` says that everything up to
any `last_id` held by anyone is handled: the largest ever stored (`HighOK`), each worker's
(`WorkerOK`). What a worker sends must not be all it relies on, so `Covered` says that a
message above its `last_id`, but not above one it has pushed or is about to, is in one of
its batches or handled; `nextLastID` stops below the pending ones, and so reaches only
handled messages. That a target without a batch of its own is superseded is `AddAllFact`,
about `pending.add`. `LoneInv` is about the only worker: what was pushed is in `completed`
or below the stored `last_id`, and what it holds was not pushed; an emptied file is not
valid, so nobody acts on its `last_id` of 0.

Where the prover decided how a definition is written: a nested `EXCEPT` with `@` in a
record within a function is spelled out (`ShellStarts` of `SessionRegistry`, `NextLine` of
`SelfUpdate`, several actions of `SmsForward`).

Model-checked only: the liveness properties `CloseCompletes`, `TerminalDrains`,
`InactiveReaped`, `Unwedged` of `SelfUpdate`, `EveryMessageHandled`, `CollectionEnds`,
`LatestSizeArrives`, `HandlerEnds` and `SessionCloses`, since the prover handles neither
fairness nor ENABLED.

## Findings and observations

The three violation runs above are findings. TLC or the modelling also showed these, which
no run states:

* `CreateSessionId` stores a new session over one with the same supplied id; the comment at
  `ssh_conn.go:352` says the old one is removed from the list, but the call is commented out
  (`ssh_conn.go:354`). Both stay open; `OrphanOnlyByReuse` says that nothing else loses one.
* A neighbour request that fails has set `lastAccess` already and leaves no deferred stop:
  the monitor starts the collector later, with no request to use it, until the idle timeout
  (`neighbor_cell.go:216`), although `docs/u60-neighbor-cell-results.md:42` rules out
  resident collection. `CollectionEnds` covers this collector, too.
* A host that hangs blocks `sftpClient.Close` (`service_init.go:49`) in front of the close of
  the client and of the removal of the entry. If the cleaner made the call, it cleans no
  other session until the host answers or the connection is found dead. `connect` may wait
  for such a host as well once the TCP connection stands.
* Two terminals opened on one session at the same time can both get a shell, because
  `Session.Shell` checks and sets `started` apart (`crypto/ssh/session.go:358`, `:373`); the
  one exit status reaches one of their `Wait` calls, and the other handler, with its
  websocket, stays for ever. `started` may also be set after the session was closed.
* `connect` leaks the dialled client when `NewSession` fails (`ssh_conn.go:144`).
* The update script kills the server before it looks for the new file; a canceled task that
  removes the shared file late leaves no server running (`main.go:714`, `main.go:798`).
* A download whose line goes silent waits in `resp.Body.Read` for ever, because the client
  has no `Timeout` (`main.go:333`), and every later update is refused until it is canceled;
  so does one of mihomo (`mihomo.go:599`). `clearUpdateCancel` of an old task clears the
  cancel function of the running one, which then cannot be canceled either.
* A response that ends early without an error is installed like a whole one: only a size
  above 0 is checked (`main.go:560`). The script ignores the result of its `mv`
  (`main.go:728`) and starts whatever is there.
* `last_id` 0 means both "first poll" and "empty inbox": the first message that ever
  arrives is passed over (`system_tools.go:394`).
* Two overlapping SMS workers can set `last_id` back and push messages twice; so can a
  page that saves an old `last_id`. A configuration handler that reads the file while the
  worker has truncated it saves `last_id` 0. When both have truncated it, a short write over
  a long one leaves a file that does not parse (`system_tools.go:606`, `:592`): no poll
  succeeds until a page saves again.
* A restart of the server forgets which messages it pushed ahead of one that it still held
  back, and pushes them again (`system_tools.go:423`).
* A `pidof` that fails for any reason reads as "no collector" (`neighbor_cell.go:458`): a
  second one is started on the same directory, and only one of them is managed.
* Between the look at `/proc/<pid>/cmdline` and the signal (`neighbor_cell.go:480`, `:483`,
  `:487`, `:488`) the process id can pass to another process, which is then signalled; the
  goroutine in `cmd.Wait` frees the id without the mutex. So "no foreign process is
  signalled" is no property of the code, only very likely.
* The first of two overlapping neighbour requests to finish stops the collector of both.
* Any failure of `SysInit` after its first row makes every later attempt with the same user
  name, or after the sshd configuration any attempt on the same database, fail for ever.
* A crash in `RewriteConfig`, or while the start corrects `WebBaseDir`, loses the
  configuration: the next process has a new secret and asks to be initialised, which then
  fails on the same database (`config.go:156`, `config.go:140`).
* Two overlapping `SysInit` requests that name different database files can both complete;
  the second waits for ever at `isStartSshd`, and rows may land in the wrong file.
* `initApp` reads `IsInit` in a goroutine of its own (`service_init.go:109`). If a `SysInit`
  request is faster, both send the start signal, which is received once: the later sender
  waits for ever, and if that is `initApp`, no session is ever cleaned.
* A client that sends more than ten window sizes before its shell request stops the request
  loop of its channel for ever (`sshd_server.go:166`). The shell outlives a client that
  leaves, because `shellPty.Close()` is commented out (`sshd_server.go:286`); a background child of
  a shell that has ended keeps the session open.
* A command or subsystem request with a payload shorter than four bytes panics
  (`sshd_server.go:132`, `:189`); the handler recovers and ends, but the channel stays open
  and nobody reads its requests. A window size shorter than eight bytes panics in a goroutine
  that recovers nothing (`sshd_server.go:266`) and ends the whole server.
* Canceling a mihomo installation is answered "canceled" during its last phase and has no
  effect. An uninstallation during an installation lets the kernel come back, or leaves a
  job that reports "done" with nothing installed. A failed second rename leaves the kernel
  only as `.bak` and mihomo stopped. A release published during a data update makes
  `data_version.txt` newer than the files. As in the self-update, the busy check and the
  new state are two lock sections, so that two requests at once start two jobs: these can
  tear the file they share and put it into use, and the first can report "done" after the
  second has moved the new kernel to `.bak` and failed.

## Not modelled

The screen program (`devui`) downloads like the self-update and mihomo do; WiFi autostart,
network settings, device information, speed test and DIAG EFS are sequences of calls to the
device whose answers the models could only choose; access control, users, audit, notes and
stored connections are rows of a database behind stateless checks; SFTP operations are I/O
on sessions of the registry; the QMDL parser is a pure reader of a binary format whose
smallest inputs are out of TLC's reach. Almost nine tenths of the Go lines under `gossh/`
are vendored libraries (`sys`, `crypto`, `gin`, `gorm`, `sftp`, `sqlite` and others), which the
models treat as external.

## Plan

1. Done: registry with its abstract specification, self-update, SMS forwarding, neighbour
   cells, initialisation, sshd channel, mihomo; proofs of all their safety properties.
2. Theorems next: for overlapping update requests, what the types leave open, such as that a
   file no other task has open is installed whole; for two overlapping SMS workers, a bound
   on how often a message can be pushed; for `SshdSession`, the safety part of the two
   "ends" properties (what a goroutine that never ends would have to wait for).
3. Modules still worth writing: the screen program's download and mount, `ddmin` of the
   qtrace reducer against its reference definition, the WiFi reconcile loop; and a queue
   that delivers each message at least once as the abstract specification of `SmsForward`.
