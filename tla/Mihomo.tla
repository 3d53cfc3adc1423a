------------------------------- MODULE Mihomo -------------------------------
(***************************************************************************)
(* Management of the mihomo proxy (mihomo.go): installation of the kernel,  *)
(* update of its data files, uninstallation, control through mm.sh, and the *)
(* start at boot.  The two kinds of job run in goroutines of their own and  *)
(* share the directory, the running process and nothing else: no lock keeps *)
(* them, the uninstall handler and the control handlers apart.              *)
(*                                                                          *)
(* The handler that starts a job looks at the status and sets it in two     *)
(* lock sections, so that requests that overlap start two jobs of one kind, *)
(* which write the same files.  overlapped records that it happened.        *)
(***************************************************************************)
EXTENDS Integers, Sequences, FiniteSets

CONSTANTS
    InstallJobs,  \* goroutines of runMihomoInstall
    DataJobs,     \* goroutines of runMihomoDataUpdate
    DataFiles,    \* mihomoDataFiles, a sequence of names
    Tries,        \* the local proxy and the lines mihomoDownloadFile goes through
    MaxVersion,   \* bound on the published versions of the data files
    MaxRequests,  \* bound on the requests of browsers
    MaxCrashes,   \* bound on the crashes of the server
    None          \* no job

ASSUME JobsAssumption ==
    /\ InstallJobs \cap DataJobs = {}
    /\ None \notin InstallJobs \cup DataJobs
ASSUME BoundsAssumption ==
    /\ Tries \in Nat \ {0}
    /\ MaxVersion \in Nat \ {0}
    /\ MaxRequests \in Nat
    /\ MaxCrashes \in Nat
ASSUME FilesAssumption ==
    /\ Len(DataFiles) \in Nat \ {0}
    /\ \A i \in 1..Len(DataFiles) :
          DataFiles[i] \notin {"bin", "bak", "download", "mm.sh", "none"}
    /\ \A i, k \in 1..Len(DataFiles) : DataFiles[i] = DataFiles[k] => i = k

VARIABLES
    status,    \* the State of mihomoInstallStatusVar and mihomoUpdateStatus
    cancel,    \* the job whose context the stored cancel function ends
    job,       \* the goroutines
    dir,       \* the mihomo directory exists
    files,     \* what the files in it hold
    part,      \* what the ".tmp" beside each download target holds
    version,   \* data_version.txt
    running,   \* the mihomo process
    pidFile,   \* mihomo.pid
    un,        \* the uninstall handler
    autostart, \* the goroutine of InitMihomoAutostart has yet to run
    remote,    \* the version of the data files on the server
    requests,  \* the requests so far
    crashes,   \* the crashes so far
    overtaken, \* history: a version was published during an update
    overlapped, \* history: two jobs of one kind ran at the same time
    wiped      \* history: the kinds of job whose latest run an uninstall touched

vars == <<status, cancel, job, dir, files, part, version, running, pidFile,
          un, autostart, remote, requests, crashes, overtaken, overlapped, wiped>>

diskVars == <<dir, files, part, version>>
procVars == <<running, pidFile>>
worldVars == <<remote, crashes, overtaken>>
restVars == <<un, autostart, requests, worldVars, overlapped, wiped>>

Jobs == InstallJobs \cup DataJobs
Kinds == {"install", "data"}
Kind(j) == IF j \in InstallJobs THEN "install" ELSE "data"

(***************************************************************************)
(* A file is absent; torn, a part of an answer or a mixture of two; or all  *)
(* that one line answered.  A data file is then the version the server      *)
(* offers, any other file 1, or it is another answer: an earlier version, a *)
(* page, a file cut short.  The code compares no length and no checksum.    *)
(***************************************************************************)
Absent == 0
Torn == -1
Other == -2
Content == {Absent, Torn, Other} \cup 1..MaxVersion

DataNames == {DataFiles[i] : i \in 1..Len(DataFiles)}
Targets == {"download", "mm.sh"} \cup DataNames
Names == {"bin", "bak"} \cup Targets

(***************************************************************************)
(* A job: where it is, what it downloads, how many lines are left, whether  *)
(* its context is canceled, what the line answers, and whether mihomo ran   *)
(* when the installation stopped it.                                        *)
(***************************************************************************)
JobType ==
    [pc : {"idle", "asked", "mkdir", "line", "read", "rename", "stop", "backup", "swap",
           "start", "version", "reload", "clear"},
     target : Targets \cup {"none"},
     tries : 0..Tries,
     canceled : BOOLEAN,
     reads : {Other} \cup 0..MaxVersion,
     was : BOOLEAN]

IdleJob ==
    [pc |-> "idle", target |-> "none", tries |-> 0, canceled |-> FALSE,
     reads |-> 0, was |-> FALSE]

At(j, pc) == job[j].pc = pc

Goto(j, pc) == job' = [job EXCEPT ![j].pc = pc]

\* The job has yet to write its last status.
Active(j) == job[j].pc \notin {"idle", "asked", "clear"}

\* The server starts on a device without mihomo, or with it, running or not.
Init ==
    \E installed \in BOOLEAN :
        /\ status = [k \in Kinds |-> "idle"]
        /\ cancel = [k \in Kinds |-> None]
        /\ job = [j \in Jobs |-> IdleJob]
        /\ dir = installed
        /\ files = [n \in Names |-> IF installed /\ n \in {"bin", "mm.sh"} \cup DataNames
                                   THEN 1 ELSE Absent]
        /\ part = [t \in Targets |-> Absent]
        /\ version = IF installed THEN 1 ELSE Absent
        /\ running \in {FALSE, installed}
        /\ pidFile = running
        /\ un = "idle"
        /\ autostart = FALSE
        /\ remote = 1
        /\ requests = 0
        /\ crashes = 0
        /\ overtaken = FALSE
        /\ overlapped = FALSE
        /\ wiped = {}

-----------------------------------------------------------------------------
(***************************************************************************)
(* mm.sh, which is not part of the repository: it fails when it is missing  *)
(* or as it likes; start needs the kernel and the data files.               *)
(***************************************************************************)
IsMihomoRunning == pidFile /\ running

Startable ==
    /\ files["mm.sh"] # Absent
    /\ files["bin"] # Absent
    /\ \A f \in DataNames : files[f] # Absent

MmStop ==
    \/ UNCHANGED procVars
    \/ files["mm.sh"] # Absent /\ running' = FALSE /\ pidFile' = FALSE

MmStart ==
    \/ UNCHANGED procVars
    \/ Startable /\ running' = TRUE /\ pidFile' = TRUE

-----------------------------------------------------------------------------
(***************************************************************************)
(* The handlers that start and cancel a job.                                *)
(***************************************************************************)
Busy(k) == status[k] \in IF k = "install" THEN {"downloading", "installing"}
                                          ELSE {"downloading"}

Request == requests < MaxRequests /\ requests' = requests + 1

\* The check of the handler,
Ask(j) ==
    /\ Request
    /\ At(j, "idle")
    /\ ~Busy(Kind(j))
    /\ Goto(j, "asked")
    /\ UNCHANGED <<status, cancel, diskVars, procVars, un, autostart, worldVars,
                   overlapped, wiped>>

\* and then the new state, the cancel function and the goroutine.
Begin(j) ==
    /\ At(j, "asked")
    /\ status' = [status EXCEPT ![Kind(j)] = "downloading"]
    /\ cancel' = [cancel EXCEPT ![Kind(j)] = j]
    /\ job' = [job EXCEPT ![j] = [IdleJob EXCEPT !.pc = "mkdir"]]
    /\ overlapped' = (overlapped \/ \E i \in Jobs : Kind(i) = Kind(j) /\ Active(i))
    /\ wiped' = IF un = "idle" THEN wiped \ {Kind(j)} ELSE wiped
    /\ UNCHANGED <<diskVars, procVars, un, autostart, requests, worldVars>>

Cancel(k) ==
    /\ Request
    /\ Busy(k)
    /\ cancel[k] # None
    /\ job' = [job EXCEPT ![cancel[k]].canceled = TRUE]
    /\ UNCHANGED <<status, cancel, diskVars, procVars, un, autostart, worldVars,
                   overlapped, wiped>>

-----------------------------------------------------------------------------
(***************************************************************************)
(* mihomoDownloadFile: a new try on every line; the file is written under   *)
(* another name, and renamed when all of it has arrived.  A directory that  *)
(* is removed meanwhile takes the file with it.                             *)
(***************************************************************************)
JobStep(j, from) ==
    /\ At(j, from)
    /\ UNCHANGED <<cancel, procVars, restVars>>

Download(j, target) ==
    job' = [job EXCEPT ![j].pc = "line", ![j].target = target, ![j].tries = Tries]

\* The last status of a job; its deferred call comes afterwards.
Report(j, s) ==
    /\ status' = [status EXCEPT ![Kind(j)] = s]
    /\ Goto(j, "clear")

\* A download has ended without its file, and the job with it.
Abandon(j, s) ==
    /\ files' = IF job[j].target = "download"
                THEN [files EXCEPT !["download"] = Absent] ELSE files
    /\ Report(j, s)

\* The next download, unless ctx.Err() tells that the job is canceled.
Continue(j, target) ==
    \/ job[j].canceled /\ Report(j, "canceled")
    \/ ~job[j].canceled /\ Download(j, target) /\ UNCHANGED status

\* After mm.sh the kernel is next; after a data file the next one, or none.
Following(t) ==
    IF t = "mm.sh" THEN "download"
    ELSE LET next == {i \in 1..Len(DataFiles) : i > 1 /\ DataFiles[i - 1] = t}
         IN  IF next = {} THEN "none" ELSE DataFiles[CHOOSE i \in next : TRUE]

\* The file has arrived.
Arrived(j) ==
    LET next == Following(job[j].target)
    IN  \/ next # "none" /\ Continue(j, next)
        \/ /\ next = "none" /\ j \in DataJobs
           /\ Goto(j, "version")
           /\ UNCHANGED status
        \/ /\ next = "none" /\ j \in InstallJobs
           /\ status' = [status EXCEPT !["install"] = "installing"]
           /\ Goto(j, "stop")

\* The error of mm.sh is only logged.
Failed(j) ==
    \/ /\ job[j].target = "mm.sh"
       /\ Continue(j, "download")
       /\ UNCHANGED files
    \/ job[j].target # "mm.sh" /\ Abandon(j, "failed")

NextLine(j) ==
    \/ /\ job[j].tries > 1
       /\ job' = [job EXCEPT ![j].tries = @ - 1, ![j].pc = "line"]
       /\ UNCHANGED <<status, files>>
    \/ job[j].tries = 1 /\ Failed(j)

LineCanceled(j) ==
    /\ JobStep(j, "line")
    /\ job[j].canceled
    /\ Abandon(j, "canceled")
    /\ UNCHANGED <<dir, part, version>>

LineFails(j) ==
    /\ JobStep(j, "line")
    /\ NextLine(j)
    /\ UNCHANGED <<dir, part, version>>

\* os.OpenFile fails: the other lines are not tried.
OpenFails(j) ==
    /\ JobStep(j, "line")
    /\ Failed(j)
    /\ UNCHANGED <<dir, part, version>>

\* What a line can answer with.
Answers(j) == {Other, IF job[j].target \in DataNames THEN remote ELSE 1}

OpenFile(j, answer) ==
    /\ JobStep(j, "line")
    /\ dir
    /\ part' = [part EXCEPT ![job[j].target] = Torn]
    /\ job' = [job EXCEPT ![j].pc = "read",
                          ![j].reads = answer]
    /\ UNCHANGED <<status, dir, files, version>>

\* The ".tmp" is removed.
Discard(j) == part' = [part EXCEPT ![job[j].target] = Absent]

ReadCanceled(j) ==
    /\ JobStep(j, "read")
    /\ job[j].canceled
    /\ Discard(j)
    /\ Abandon(j, "canceled")
    /\ UNCHANGED <<dir, version>>

\* Mutation: what has arrived before the connection broke is taken for the file.
ReadBreaksBug(j) ==
    /\ JobStep(j, "read")
    /\ Goto(j, "rename")
    /\ UNCHANGED <<status, diskVars>>

ReadBreaks(j) ==
    /\ JobStep(j, "read")
    /\ Discard(j)
    /\ NextLine(j)
    /\ UNCHANGED <<dir, version>>

\* What becomes of content c of the target while another job has the same ".tmp"
\* open: it may stay, or be torn by what that job has truncated or writes.
Shared(j, c) ==
    IF \E i \in Jobs \ {j} : job[i].target = job[j].target /\ job[i].pc \in {"read", "rename"}
    THEN {c, Torn} ELSE {c}

\* The answer has ended, whatever its length.
ReadEof(j) ==
    /\ JobStep(j, "read")
    /\ \E c \in Shared(j, job[j].reads) :
          part' = [part EXCEPT ![job[j].target] = IF @ = Absent THEN @ ELSE c]
    /\ Goto(j, "rename")
    /\ UNCHANGED <<status, dir, files, version>>

\* The other job writes on in the renamed file.
Rename(j) ==
    /\ JobStep(j, "rename")
    /\ part[job[j].target] # Absent
    /\ \E c \in Shared(j, part[job[j].target]) :
          files' = [files EXCEPT ![job[j].target] = c]
    /\ Discard(j)
    /\ Arrived(j)
    /\ UNCHANGED <<dir, version>>

\* The file is empty or has gone before os.Stat or after it, or os.Rename fails: the
\* next line is tried after the former two, and after everything on the proxy.
RenameFails(j) ==
    /\ JobStep(j, "rename")
    /\ Discard(j)
    /\ NextLine(j) \/ Failed(j)
    /\ UNCHANGED <<dir, version>>

-----------------------------------------------------------------------------
(***************************************************************************)
(* runMihomoInstall and runMihomoDataUpdate around the downloads.           *)
(***************************************************************************)
\* Mutation: the download starts without a line to try.
MkDirBug(j) ==
    /\ JobStep(j, "mkdir")
    /\ dir' = TRUE
    /\ job' = [job EXCEPT ![j].pc = "line", ![j].tries = 0,
                          ![j].target = IF j \in DataJobs THEN DataFiles[1] ELSE "download"]
    /\ UNCHANGED <<status, files, part, version>>

\* Mutation: the version is written before the files.
MkDirEarlyBug(j) ==
    /\ JobStep(j, "mkdir")
    /\ dir' = TRUE
    /\ version' = IF j \in DataJobs THEN remote ELSE version
    /\ Download(j, IF j \in DataJobs THEN DataFiles[1]
                   ELSE IF files["mm.sh"] = Absent THEN "mm.sh" ELSE "download")
    /\ UNCHANGED <<status, files, part>>

MkDir(j) ==
    /\ JobStep(j, "mkdir")
    /\ dir' = TRUE
    /\ Download(j, IF j \in DataJobs THEN DataFiles[1]
                   ELSE IF files["mm.sh"] = Absent THEN "mm.sh" ELSE "download")
    /\ UNCHANGED <<status, files, part, version>>

\* Mutation: an early return without a new status.
MkDirFailsBug(j) ==
    /\ JobStep(j, "mkdir")
    /\ Goto(j, "clear")
    /\ UNCHANGED <<status, diskVars>>

MkDirFails(j) ==
    /\ JobStep(j, "mkdir")
    /\ Report(j, "failed")
    /\ UNCHANGED diskVars

\* The version is asked for after the last file, of any line; a failing request
\* leaves data_version.txt as it is, a failing write leaves it empty.
WriteVersion(j) ==
    /\ JobStep(j, "version")
    /\ version' \in {version} \cup (IF dir THEN 0..remote ELSE {})
    /\ Goto(j, "reload")
    /\ UNCHANGED <<status, dir, files, part>>

\* mm.sh reload-ipset when mihomo runs, whatever it answers.
ReloadIpset(j) ==
    /\ JobStep(j, "reload")
    /\ Report(j, "done")
    /\ UNCHANGED diskVars

-----------------------------------------------------------------------------
(***************************************************************************)
(* The rest of the installation: stop, two renames, start.                  *)
(***************************************************************************)
StopKernel(j) ==
    /\ At(j, "stop")
    /\ job' = [job EXCEPT ![j].pc = "backup", ![j].was = IsMihomoRunning]
    /\ IF IsMihomoRunning THEN MmStop ELSE UNCHANGED procVars
    /\ UNCHANGED <<status, cancel, diskVars, restVars>>

\* Mutation: the old kernel is deleted instead.
BackupBug(j) ==
    /\ JobStep(j, "backup")
    /\ files' = [files EXCEPT !["bin"] = Absent]
    /\ Goto(j, "swap")
    /\ UNCHANGED <<status, dir, part, version>>

\* The error of the first rename is ignored.
Backup(j) ==
    /\ JobStep(j, "backup")
    /\ \/ UNCHANGED files
       \/ /\ files["bin"] # Absent
          /\ files' = [files EXCEPT !["bak"] = files["bin"], !["bin"] = Absent]
    /\ Goto(j, "swap")
    /\ UNCHANGED <<status, dir, part, version>>

Swap(j) ==
    /\ JobStep(j, "swap")
    /\ files["download"] # Absent
    /\ files' = [files EXCEPT !["bin"] = files["download"], !["download"] = Absent]
    /\ Goto(j, "start")
    /\ UNCHANGED <<status, dir, part, version>>

\* Mutation: the error of the second rename is ignored, too.
SwapFailsBug(j) ==
    /\ JobStep(j, "swap")
    /\ files' = [files EXCEPT !["download"] = Absent]
    /\ Goto(j, "start")
    /\ UNCHANGED <<status, dir, part, version>>

\* Neither the old kernel nor the process comes back.
SwapFails(j) ==
    /\ JobStep(j, "swap")
    /\ files' = [files EXCEPT !["download"] = Absent]
    /\ Report(j, "failed")
    /\ UNCHANGED <<dir, part, version>>

StartKernel(j) ==
    /\ At(j, "start")
    /\ Report(j, "done")
    /\ IF job[j].was THEN MmStart ELSE UNCHANGED procVars
    /\ UNCHANGED <<cancel, diskVars, restVars>>

\* The deferred mihomoInstallCancel = nil, whoever's function it is by now.
ClearCancel(j) ==
    /\ At(j, "clear")
    /\ cancel' = [cancel EXCEPT ![Kind(j)] = None]
    /\ job' = [job EXCEPT ![j] = IdleJob]
    /\ UNCHANGED <<status, diskVars, procVars, restVars>>

-----------------------------------------------------------------------------
(***************************************************************************)
(* Control, uninstallation, start at boot.                                  *)
(***************************************************************************)
OtherStep == UNCHANGED <<status, cancel, job, worldVars, overlapped>>

\* start (after the preflight check), stop, and restart, which does both.
Control ==
    /\ Request
    /\ MmStop \/ (Startable /\ MmStart)
    /\ OtherStep
    /\ UNCHANGED <<diskVars, un, autostart, wiped>>

UninstallStop(mode) ==
    /\ Request
    /\ un = "idle"
    /\ un' = mode
    /\ IF IsMihomoRunning THEN MmStop ELSE UNCHANGED procVars
    /\ wiped' = Kinds
    /\ OtherStep
    /\ UNCHANGED <<diskVars, autostart>>

\* os.RemoveAll
UninstallFull ==
    /\ un = "full"
    /\ un' = "idle"
    /\ dir' = FALSE
    /\ files' = [n \in Names |-> Absent]
    /\ part' = [t \in Targets |-> Absent]
    /\ version' = Absent
    /\ pidFile' = FALSE
    /\ OtherStep
    /\ UNCHANGED <<running, autostart, requests, wiped>>

\* It fails with some of the files removed.
UninstallFullFails ==
    /\ un = "full"
    /\ un' = "idle"
    /\ \E gone \in SUBSET {n \in Names : files[n] # Absent} :
          files' = [n \in Names |-> IF n \in gone THEN Absent ELSE files[n]]
    /\ \E gone \in SUBSET {t \in Targets : part[t] # Absent} :
          part' = [t \in Targets |-> IF t \in gone THEN Absent ELSE part[t]]
    /\ version' \in {version, Absent}
    /\ pidFile' \in {pidFile, FALSE}
    /\ OtherStep
    /\ UNCHANGED <<dir, running, autostart, requests, wiped>>

\* Neither of the two removals need succeed.
UninstallBak ==
    /\ un = "soft"
    /\ un' = "bin"
    /\ files' \in {files, [files EXCEPT !["bak"] = Absent]}
    /\ OtherStep
    /\ UNCHANGED <<dir, part, version, procVars, autostart, requests, wiped>>

UninstallBin ==
    /\ un = "bin"
    /\ un' = "idle"
    /\ files' \in {files, [files EXCEPT !["bin"] = Absent]}
    /\ OtherStep
    /\ UNCHANGED <<dir, part, version, procVars, autostart, requests, wiped>>

\* InitMihomoAutostart
AutostartRuns ==
    /\ autostart
    /\ autostart' = FALSE
    /\ IF files["mm.sh"] # Absent THEN MmStart ELSE UNCHANGED procVars
    /\ OtherStep
    /\ UNCHANGED <<diskVars, un, requests, wiped>>

\* mihomo ends by itself; mihomo.pid stays.
MihomoDies ==
    /\ running
    /\ running' = FALSE
    /\ OtherStep
    /\ UNCHANGED <<diskVars, pidFile, un, autostart, requests, wiped>>

Publish ==
    /\ remote < MaxVersion
    /\ remote' = remote + 1
    /\ overtaken' = (overtaken \/ \E j \in DataJobs : Active(j))
    /\ UNCHANGED <<status, cancel, job, diskVars, procVars, un, autostart, requests,
                   crashes, overlapped, wiped>>

\* The server ends at any point and is started again; mihomo goes on.  Whether the
\* .autostart file asks for a start is a choice.
Crash ==
    /\ crashes < MaxCrashes
    /\ crashes' = crashes + 1
    /\ status' = [k \in Kinds |-> "idle"]
    /\ cancel' = [k \in Kinds |-> None]
    /\ job' = [j \in Jobs |-> IdleJob]
    /\ un' = "idle"
    /\ autostart' \in BOOLEAN
    /\ UNCHANGED <<diskVars, procVars, remote, requests, overtaken, overlapped, wiped>>

-----------------------------------------------------------------------------
\* What a running job does next.
RunJob(j) ==
    \/ MkDir(j)
    \/ MkDirFails(j)
    \/ LineCanceled(j)
    \/ LineFails(j)
    \/ OpenFails(j)
    \/ \E answer \in Answers(j) : OpenFile(j, answer)
    \/ ReadCanceled(j)
    \/ ReadBreaks(j)
    \/ ReadEof(j)
    \/ Rename(j)
    \/ RenameFails(j)
    \/ WriteVersion(j)
    \/ ReloadIpset(j)
    \/ StopKernel(j)
    \/ Backup(j)
    \/ Swap(j)
    \/ SwapFails(j)
    \/ StartKernel(j)
    \/ ClearCancel(j)

Uninstall ==
    \/ \E mode \in {"soft", "full"} : UninstallStop(mode)
    \/ UninstallFull
    \/ UninstallFullFails
    \/ UninstallBak
    \/ UninstallBin

Next ==
    \/ \E j \in Jobs : Ask(j)
    \/ \E j \in Jobs : Begin(j)
    \/ \E j \in Jobs : RunJob(j)
    \/ \E k \in Kinds : Cancel(k)
    \/ Control
    \/ Uninstall
    \/ AutostartRuns
    \/ MihomoDies
    \/ Publish
    \/ Crash

Spec == Init /\ [][Next]_vars
-----------------------------------------------------------------------------
(***************************************************************************)
(* Properties                                                               *)
(***************************************************************************)

\* Every variable has its type; a job that downloads has a target and a line.
TypeOK ==
    /\ status \in [Kinds -> {"idle", "downloading", "installing", "done", "failed",
                             "canceled"}]
    /\ cancel \in [Kinds -> Jobs \cup {None}]
    /\ job \in [Jobs -> JobType]
    /\ dir \in BOOLEAN
    /\ files \in [Names -> Content]
    /\ part \in [Targets -> Content]
    /\ version \in 0..MaxVersion
    /\ running \in BOOLEAN
    /\ pidFile \in BOOLEAN
    /\ un \in {"idle", "soft", "full", "bin"}
    /\ autostart \in BOOLEAN
    /\ remote \in 1..MaxVersion
    /\ requests \in 0..MaxRequests
    /\ crashes \in 0..MaxCrashes
    /\ overtaken \in BOOLEAN
    /\ overlapped \in BOOLEAN
    /\ wiped \subseteq Kinds
    /\ \A j \in Jobs : job[j].pc \in {"line", "read", "rename"}
                          => job[j].target # "none" /\ job[j].tries > 0

\* No file that mihomo or mm.sh uses is ever a piece of what a line answered:
\* connections that break, cancels, a crash, an uninstall that removes the directory
\* under a running download, and the ".tmp" an earlier process left behind.  Only
\* overlapping requests, whose two jobs write one ".tmp", can tear a file.
FilesAreWhole == ~overlapped => \A n \in Names : files[n] # Torn

\* Only an uninstallation removes the last kernel: whatever fails, is canceled or
\* crashes during an installation, or during two at once, an old or a new one is in
\* place or in .bak.
KernelKept ==
    [][(files["bin"] # Absent \/ files["bak"] # Absent)
          => \/ files'["bin"] # Absent \/ files'["bak"] # Absent
             \/ un \in {"full", "soft", "bin"}]_vars

\* data_version.txt never claims more than a release among the data files holds, so
\* that an update that is due is offered, in spite of updates that fail or are
\* canceled after some files and of crashes.  Nothing is said of a file that is
\* missing or that some line answered with something else, nor after a release that
\* came out during an update, the version being read after the files, nor after
\* updates that overlapped.
VersionHonest ==
    ~overtaken /\ ~overlapped =>
        \A f \in DataNames : files[f] \in {Absent, Other} \/ files[f] >= version

\* A job that reports "done" has done it: the kernel, or every data file, is
\* there, unless an uninstallation or a second job of the kind came in between.
DoneMeansComplete ==
    ~overlapped =>
        /\ status["install"] = "done" /\ "install" \notin wiped => files["bin"] # Absent
        /\ status["data"] = "done" /\ "data" \notin wiped
              => \A f \in DataNames : files[f] # Absent

\* A status that says busy is backed by a goroutine that has yet to write its last
\* status, even when two ran at once: on none of its ways out does a job leave a
\* status behind that has every later installation or update refused.
Unwedged ==
    \A k \in Kinds : Busy(k) => \E j \in Jobs : Kind(j) = k /\ Active(j)
=============================================================================
