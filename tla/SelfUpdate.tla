----------------------------- MODULE SelfUpdate -----------------------------
(***************************************************************************)
(* Self-update of the program (gossh/main.go): UpdateRunHandler starts a    *)
(* download task, UpdateCancelHandler cancels it, runUpdateTask downloads   *)
(* the new binary into a file of the temporary directory and starts a shell *)
(* script that kills the server, replaces its binary and starts it again.   *)
(*                                                                          *)
(* updateStatus and updateCancel are each behind a mutex of their own, so   *)
(* every setUpdateStatus, setUpdateCancel and clearUpdateCancel is a step.  *)
(* All tasks write the same file: its name is made of the architecture and  *)
(* the version.  A file is the set of chunks that hold the bytes of the     *)
(* response being saved; a response need not be the whole new binary, for   *)
(* the code compares it neither with the size nor with a hash of the asset. *)
(***************************************************************************)
EXTENDS Naturals, FiniteSets

CONSTANTS
    Requests,   \* concurrently running UpdateRunHandlers
    Cancelers,  \* concurrently running UpdateCancelHandlers
    Tasks,      \* download tasks, a bound on the tasks ever started
    Lines,      \* download lines to try: mihomo, proxies, direct
    Chunks,     \* chunks of the longest response
    None        \* nil cancel function / no task

ASSUME BoundAssumption == Lines \in Nat \ {0} /\ Chunks \in Nat \ {0}
ASSUME NoneAssumption == None \notin Tasks

VARIABLES
    status,    \* updateStatus.State
    cancelFn,  \* updateCancel: the task it cancels
    req,       \* the UpdateRunHandlers
    can,       \* the UpdateCancelHandlers
    task,      \* the runUpdateTask goroutines
    file,      \* the temporary file
    script,    \* the update script each task started
    server,    \* the server process: the one at first, none, a restarted one
    binary     \* the installed program file

vars == <<status, cancelFn, req, can, task, file, script, server, binary>>

Busy == {"starting", "downloading", "installing", "restarting"}
States == Busy \cup {"idle", "failed", "canceled"}
AllChunks == 1..Chunks
Absent == {0}                 \* no file; an empty file is {}

TaskPcs == {"new", "begin", "line", "connect", "read", "stat", "install",
            "announce", "remove", "clear", "done", "killed"}

\* "fd" tells whether the file the task has open still has its name, "len" after
\* how many chunks the body that the line sends ends.
TaskType ==
    [pc : TaskPcs, ctx : {"live", "canceled"}, lines : 0..Lines,
     off : 0..Chunks, len : 0..Chunks, fd : {"none", "linked", "unlinked"}]

NewTask ==
    [pc |-> "new", ctx |-> "live", lines |-> Lines, off |-> 0, len |-> 0, fd |-> "none"]

Init ==
    /\ status = "idle"
    /\ cancelFn = None
    /\ req = [r \in Requests |-> [pc |-> "idle", task |-> None]]
    /\ can = [x \in Cancelers |-> [pc |-> "idle", task |-> None]]
    /\ task = [t \in Tasks |-> NewTask]
    /\ file = Absent
    /\ script = [t \in Tasks |-> "none"]
    /\ server = "old"
    /\ binary = "old"

-----------------------------------------------------------------------------
(***************************************************************************)
(* UpdateRunHandler.                                                        *)
(***************************************************************************)

\* isUpdateBusy: a busy answer changes nothing, so only the free case steps.
RunCheck(r) ==
    /\ server = "old"
    /\ req[r].pc = "idle"
    /\ status \notin Busy
    /\ req' = [req EXCEPT ![r].pc = "version"]
    /\ UNCHANGED <<status, cancelFn, can, task, file, script, server, binary>>

\* Bad parameters, version.txt unreachable, or nothing newer.
RunGivesUp(r) ==
    /\ req[r].pc = "version"
    /\ req' = [req EXCEPT ![r].pc = "idle"]
    /\ UNCHANGED <<status, cancelFn, can, task, file, script, server, binary>>

\* Mutation: the status is left alone until the task sets it.
RunStartBug(r) ==
    /\ req[r].pc = "version"
    /\ \E t \in Tasks :
          /\ task[t].pc = "new"
          /\ \A q \in Requests : req[q].task # t
          /\ req' = [req EXCEPT ![r] = [pc |-> "register", task |-> t]]
    /\ UNCHANGED <<status, cancelFn, can, task, file, script, server, binary>>

RunStart(r) ==
    /\ req[r].pc = "version"
    /\ status' = "starting"
    /\ \E t \in Tasks :
          /\ task[t].pc = "new"
          /\ \A q \in Requests : req[q].task # t
          /\ req' = [req EXCEPT ![r] = [pc |-> "register", task |-> t]]
    /\ UNCHANGED <<cancelFn, can, task, file, script, server, binary>>

\* setUpdateCancel, then go runUpdateTask.
RunRegister(r) ==
    /\ req[r].pc = "register"
    /\ cancelFn' = req[r].task
    /\ task' = [task EXCEPT ![req[r].task].pc = "begin"]
    /\ req' = [req EXCEPT ![r] = [pc |-> "idle", task |-> None]]
    /\ UNCHANGED <<status, can, file, script, server, binary>>

-----------------------------------------------------------------------------
(***************************************************************************)
(* UpdateCancelHandler: look at the state, take the function, call it.      *)
(***************************************************************************)
CancelCheck(x) ==
    /\ can[x].pc = "idle"
    /\ status \in {"starting", "downloading"}
    /\ can' = [can EXCEPT ![x].pc = "load"]
    /\ UNCHANGED <<status, cancelFn, req, task, file, script, server, binary>>

CancelLoad(x) ==
    /\ can[x].pc = "load"
    /\ can' = [can EXCEPT ![x] =
                  IF cancelFn = None THEN [pc |-> "idle", task |-> None]
                                     ELSE [pc |-> "call", task |-> cancelFn]]
    /\ UNCHANGED <<status, cancelFn, req, task, file, script, server, binary>>

\* cancel(), a new message in the status, and the answer "canceled".
CancelCall(x) ==
    /\ can[x].pc = "call"
    /\ task' = [task EXCEPT ![can[x].task].ctx = "canceled"]
    /\ can' = [can EXCEPT ![x] = [pc |-> "idle", task |-> None]]
    /\ UNCHANGED <<status, cancelFn, req, file, script, server, binary>>

-----------------------------------------------------------------------------
(***************************************************************************)
(* runUpdateTask and downloadFile.                                          *)
(***************************************************************************)
At(t, pc) == task[t].pc = pc

Goto(t, pc) == task' = [task EXCEPT ![t].pc = pc]

Canceled(t) == task[t].ctx = "canceled"

\* The task gives up: it says why, and goes to its cleanup at pc.
Report(t, s, pc) == status' = s /\ Goto(t, pc)

\* The path of the running program is found, or not.
Begin(t) ==
    /\ At(t, "begin")
    /\ \/ Goto(t, "line") /\ UNCHANGED status
       \/ Report(t, "failed", "clear")
    /\ UNCHANGED <<cancelFn, req, can, file, script, server, binary>>

\* Mutation: the end of the list of lines is not noticed.
NextLineBug(t) ==
    /\ At(t, "line")
    /\ ~Canceled(t)
    /\ status' = "downloading"
    /\ task' = [task EXCEPT ![t] = [task[t] EXCEPT !.pc = "connect", !.fd = "none",
                                                   !.lines = @ - 1]]
    /\ UNCHANGED <<cancelFn, req, can, file, script, server, binary>>

\* The head of the loop over the lines: context, then the next line.
NextLine(t) ==
    /\ At(t, "line")
    /\ IF task[t].lines = 0
       THEN Report(t, "failed", "remove")
       ELSE IF Canceled(t)
       THEN Report(t, "canceled", "remove")
       ELSE /\ status' = "downloading"
            /\ task' = [task EXCEPT ![t] = [task[t] EXCEPT !.pc = "connect", !.fd = "none",
                                                           !.lines = @ - 1]]
    /\ UNCHANGED <<cancelFn, req, can, file, script, server, binary>>

\* client.Do fails because of the context, or the line does not answer with 200.
LineFails(t) ==
    /\ At(t, "connect")
    /\ IF Canceled(t) THEN Report(t, "canceled", "remove")
                      ELSE Goto(t, "line") /\ UNCHANGED status
    /\ UNCHANGED <<cancelFn, req, can, file, script, server, binary>>

\* The line answers, and the file cannot be opened: downloadFile returns.
OpenFails(t) ==
    /\ At(t, "connect")
    /\ Report(t, "failed", "remove")
    /\ UNCHANGED <<cancelFn, req, can, file, script, server, binary>>

\* os.OpenFile(savePath, O_CREATE|O_WRONLY|O_TRUNC).  The body may be the binary, a
\* part of it, an error page with status 200, or nothing.
OpenFile(t) ==
    /\ At(t, "connect")
    /\ file' = {}
    /\ \E n \in 0..Chunks :
          task' = [task EXCEPT ![t] = [@ EXCEPT !.pc = "read", !.off = 0, !.len = n,
                                                !.fd = "linked"]]
    /\ UNCHANGED <<status, cancelFn, req, can, script, server, binary>>

\* One turn of the read loop: context, then a chunk to its offset.
ReadChunk(t) ==
    /\ At(t, "read")
    /\ ~Canceled(t)
    /\ task[t].off < task[t].len
    /\ task' = [task EXCEPT ![t].off = @ + 1]
    /\ file' = IF task[t].fd = "linked" THEN file \cup {task[t].off + 1} ELSE file
    /\ UNCHANGED <<status, cancelFn, req, can, script, server, binary>>

ReadCanceled(t) ==
    /\ At(t, "read")
    /\ Canceled(t)
    /\ Report(t, "canceled", "remove")
    /\ UNCHANGED <<cancelFn, req, can, file, script, server, binary>>

\* The connection breaks, a write fails, or the context ends the Read itself: the
\* next line.
ReadBreaks(t) ==
    /\ At(t, "read")
    /\ Goto(t, "line")
    /\ UNCHANGED <<status, cancelFn, req, can, file, script, server, binary>>

\* Mutation: a broken connection is taken for the end of the body.
ReadEofBug(t) ==
    /\ At(t, "read")
    /\ Goto(t, "stat")
    /\ UNCHANGED <<status, cancelFn, req, can, file, script, server, binary>>

\* io.EOF after the last chunk of the body, however much that is.  The last Read was
\* already under way when the context was canceled, or not.
ReadEof(t) ==
    /\ At(t, "read")
    /\ task[t].off = task[t].len
    /\ Goto(t, "stat")
    /\ UNCHANGED <<status, cancelFn, req, can, file, script, server, binary>>

\* os.Stat(savePath): no file or an empty one sends the task to the next line.
StatFile(t) ==
    /\ At(t, "stat")
    /\ IF file \in {Absent, {}}
       THEN Goto(t, "line") /\ UNCHANGED status
       ELSE Report(t, "installing", "install")
    /\ UNCHANGED <<cancelFn, req, can, file, script, server, binary>>

\* Mutation: this error path does not set the state.
InstallFailsBug(t) ==
    /\ At(t, "install")
    /\ Goto(t, "clear")
    /\ UNCHANGED <<status, cancelFn, req, can, file, script, server, binary>>

\* Chmod, createTempUpdateScript or cmd.Start fails; the file stays.
InstallFails(t) ==
    /\ At(t, "install")
    /\ Report(t, "failed", "clear")
    /\ UNCHANGED <<cancelFn, req, can, file, script, server, binary>>

StartScript(t) ==
    /\ At(t, "install")
    /\ file # Absent
    /\ script' = [script EXCEPT ![t] = "started"]
    /\ Goto(t, "announce")
    /\ UNCHANGED <<status, cancelFn, req, can, file, server, binary>>

Announce(t) ==
    /\ At(t, "announce")
    /\ Report(t, "restarting", "clear")
    /\ UNCHANGED <<cancelFn, req, can, file, script, server, binary>>

\* os.Remove(tmpNewBin): writers keep an unnamed file.
RemoveFile(t) ==
    /\ At(t, "remove")
    /\ file' = Absent
    /\ task' = [u \in Tasks |->
                   IF u = t THEN [task[u] EXCEPT !.pc = "clear", !.fd = "none"]
                   ELSE IF task[u].fd = "linked" THEN [task[u] EXCEPT !.fd = "unlinked"]
                   ELSE task[u]]
    /\ UNCHANGED <<status, cancelFn, req, can, script, server, binary>>

\* The deferred clearUpdateCancel, whosever function is there.
ClearCancel(t) ==
    /\ At(t, "clear")
    /\ cancelFn' = None
    /\ Goto(t, "done")
    /\ UNCHANGED <<status, req, can, file, script, server, binary>>

-----------------------------------------------------------------------------
(***************************************************************************)
(* The script: kill the server it was started by, give up if the new file   *)
(* is missing or empty, move it over the program, start the program.  The   *)
(* script looks at the result of no command: a mv that fails leaves the old *)
(* program, one that copies between filesystems and breaks off leaves a     *)
(* torn one, and what is there is started.                                  *)
(***************************************************************************)
ScriptKills(t) ==
    /\ script[t] = "started"
    /\ script' = [script EXCEPT ![t] = "killed"]
    /\ IF server = "old"
       THEN /\ server' = "down"
            /\ task' = [u \in Tasks |-> [NewTask EXCEPT !.pc = "killed",
                                                         !.len = task[u].len]]
            /\ req' = [r \in Requests |-> [pc |-> "idle", task |-> None]]
            /\ can' = [x \in Cancelers |-> [pc |-> "idle", task |-> None]]
            /\ status' = "idle"
            /\ cancelFn' = None
       ELSE UNCHANGED <<server, task, req, can, status, cancelFn>>
    /\ UNCHANGED <<file, binary>>

ScriptGivesUp(t) ==
    /\ script[t] = "killed"
    /\ file \in {Absent, {}}
    /\ script' = [script EXCEPT ![t] = "gaveUp"]
    /\ UNCHANGED <<status, cancelFn, req, can, task, file, server, binary>>

ScriptMoves(t) ==
    /\ script[t] = "killed"
    /\ file \notin {Absent, {}}
    /\ script' = [script EXCEPT ![t] = "moved"]
    /\ \/ /\ binary' = IF file = 1..task[t].len THEN "new" ELSE "mixed"
          /\ file' = Absent
       \/ UNCHANGED <<file, binary>>
       \/ binary' = "torn" /\ UNCHANGED file
    /\ UNCHANGED <<status, cancelFn, req, can, task, server>>

\* Anything but the old program may turn out not to run.
ScriptRestarts(t) ==
    /\ script[t] = "moved"
    /\ script' = [script EXCEPT ![t] = "ended"]
    /\ \/ server' = "new"
       \/ binary # "old" /\ server' = "down"
    /\ UNCHANGED <<status, cancelFn, req, can, task, file, binary>>

-----------------------------------------------------------------------------
RequestStep(r) == RunStart(r) \/ RunRegister(r)

\* A line through mihomo takes the same steps in downloadFileWithClient, whose
\* errors all lead to the next line.
Reads(t) == ReadChunk(t) \/ ReadBreaks(t) \/ ReadEof(t)

Proceeds(t) ==
    \/ Begin(t) \/ NextLine(t)
    \/ LineFails(t) \/ OpenFails(t) \/ OpenFile(t)
    \/ ReadCanceled(t) \/ StatFile(t)
    \/ InstallFails(t) \/ StartScript(t) \/ Announce(t)
    \/ RemoveFile(t) \/ ClearCancel(t)

TaskStep(t) == Reads(t) \/ Proceeds(t)

ScriptStep(t) ==
    ScriptKills(t) \/ ScriptGivesUp(t) \/ ScriptMoves(t) \/ ScriptRestarts(t)

Next ==
    \/ \E r \in Requests : RunCheck(r) \/ RunGivesUp(r) \/ RequestStep(r)
    \/ \E x \in Cancelers : CancelCheck(x) \/ CancelLoad(x) \/ CancelCall(x)
    \/ \E t \in Tasks : TaskStep(t) \/ ScriptStep(t)

\* Goroutines and the script run on.  The timeouts of the transport bound the way to
\* the head of a response; the body has none, as the client has no Timeout: a Read
\* need not return, unless the context ends it (ReadCanceled).  Browsers need not send anything.
Fairness ==
    /\ \A r \in Requests : WF_vars(RunRegister(r))
    /\ \A t \in Tasks :
          WF_vars(Proceeds(t)) /\ WF_vars(ScriptStep(t))

Spec == Init /\ [][Next]_vars

FairSpec == Spec /\ Fairness
-----------------------------------------------------------------------------
(***************************************************************************)
(* Properties                                                               *)
(***************************************************************************)

\* Every variable has its type; in particular a task never tries more lines than
\* buildUpdateTryURLs gave it and never writes past the end of the body.
TypeOK ==
    /\ status \in States
    /\ cancelFn \in Tasks \cup {None}
    /\ req \in [Requests -> [pc : {"idle", "version", "register"},
                            task : Tasks \cup {None}]]
    /\ can \in [Cancelers -> [pc : {"idle", "load", "call"}, task : Tasks \cup {None}]]
    /\ task \in [Tasks -> TaskType]
    /\ file = Absent \/ file \subseteq AllChunks
    /\ script \in [Tasks -> {"none", "started", "killed", "moved", "gaveUp", "ended"}]
    /\ server \in {"old", "down", "new"}
    /\ binary \in {"old", "new", "mixed", "torn"}

Downloading == {t \in Tasks : task[t].pc \in {"begin", "line", "connect", "read", "stat"}}

\* isUpdateBusy and the answer "an update task is already running": at most one
\* task downloads.  Holds while update requests come one after the other.
OneDownload == Cardinality(Downloading) <= 1

\* What the script moves over the program is one response from its first byte to the
\* end that its task saw, and never a mix of two or the part of one that broke off,
\* although all tasks share the temporary file, a failed line leaves its part there,
\* and a canceled task removes it after the next one may have started.  Holds while
\* requests are sequential.  (That the response is the release, or that mv succeeds,
\* is not checked by the code and not claimed.)
InstalledIsOneResponse == binary # "mixed"

\* A download whose line has gone silent: nothing but a cancel ends its Read.
Stalled(t) == At(t, "read") /\ ~Canceled(t)

\* No way out of runUpdateTask leaves the state busy in a server that goes on running,
\* and a canceled task comes to its end from wherever it is: the state stays busy for
\* ever only while a download that was not canceled waits for a silent line.
Unwedged == []<>(status \notin Busy) \/ <>[](\E t \in Tasks : Stalled(t))

\* What UpdateCancelHandler answers, "download canceled": a task whose
\* cancellation was acknowledged does not go on to install.
CanceledNeverInstalls == \A t \in Tasks : Canceled(t) => script[t] = "none"
=============================================================================
