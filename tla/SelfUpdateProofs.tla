-------------------------- MODULE SelfUpdateProofs --------------------------
(***************************************************************************)
(* Proofs about the self-update.                                            *)
(*                                                                          *)
(* TypeOK holds whatever the browsers send.  That only one task downloads   *)
(* and that what replaces the program is one response holds when update     *)
(* requests come one after the other (OneRequest): isUpdateBusy and         *)
(* setUpdateStatus are two steps, and two requests may both pass the first. *)
(* With one request at a time the status is a lock: it is busy from the     *)
(* moment a task is promised until the task says how it ended.  A task that *)
(* has said so may still remove the shared file, so the invariant follows   *)
(* what that does to the file of the next task.                             *)
(***************************************************************************)
EXTENDS SelfUpdate, FiniteSetTheorems, TLAPS

OneRequest == \A r, q \in Requests : r = q

DownloadPcs == {"begin", "line", "connect", "read", "stat"}
ActivePcs == DownloadPcs \cup {"install", "announce"}

Active(t) == task[t].pc \in ActivePcs

\* A task is known before it is started or canceled.
TasksNamed ==
    /\ \A r \in Requests : req[r].pc = "register" => req[r].task \in Tasks
    /\ \A x \in Cancelers : can[x].pc = "call" => can[x].task \in Tasks

\* A file that a task has open under its name is there: who removes or moves the
\* file leaves no task behind that still writes to it under that name.
LinkedIsThere == \A t \in Tasks : task[t].fd = "linked" => file # Absent

\* The goroutines of a killed server are gone, and only its end lets a script go on.
DeadServer ==
    /\ \A t \in Tasks : script[t] \notin {"none", "started"} => server # "old"
    /\ server # "old" =>
          /\ \A t \in Tasks : task[t].pc = "killed" /\ task[t].fd = "none"
          /\ \A r \in Requests : req[r].pc = "idle"

TInv == TypeOK /\ TasksNamed /\ LinkedIsThere /\ DeadServer

\* The status is a lock: one task at a time works between its start and its report.
StatusLocks ==
    /\ \A t, u \in Tasks : Active(t) /\ Active(u) => t = u
    /\ \A t \in Tasks : Active(t) => status \in Busy

\* A request past isUpdateBusy finds no task at work and no script started.
RequestAlone ==
    \A r \in Requests :
        /\ req[r].pc = "version" => status \notin Busy
        /\ req[r].pc = "register" => status \in Busy /\ \A t \in Tasks : ~Active(t)
        /\ req[r].pc # "idle" => \A t \in Tasks : script[t] = "none"

\* One script at most, after which nothing is started any more, and the file it
\* finds is the whole response of its task, or a canceled task has removed it.
ScriptOf(t) ==
    script[t] # "none" =>
        /\ \A u \in Tasks : /\ u # t => script[u] = "none"
                            /\ Active(u) => u = t /\ task[u].pc = "announce"
        /\ \A r \in Requests : req[r].pc = "idle"
        /\ script[t] = "started" => status \in Busy /\ server = "old"
        /\ script[t] \in {"started", "killed"} => file \in {Absent, 1..task[t].len}

ScriptAlone == \A t \in Tasks : ScriptOf(t)

\* What is in the file for a task with record x: what it wrote, or no file at all
\* once another task has removed it.
Written(x, f) ==
    /\ x.pc \in {"read", "stat"} => \/ x.fd = "linked" /\ f = 1..x.off
                                    \/ x.fd = "unlinked" /\ f = Absent
    /\ x.pc = "stat" => x.off = x.len
    /\ x.pc \in {"install", "announce"} => f \in {Absent, 1..x.len}

FileOK == \A t \in Tasks : Written(task[t], file)

SInv ==
    /\ TInv
    /\ StatusLocks
    /\ RequestAlone
    /\ ScriptAlone
    /\ FileOK
    /\ InstalledIsOneResponse
-----------------------------------------------------------------------------
(***************************************************************************)
(* Types.                                                                   *)
(***************************************************************************)
FileType == file = Absent \/ file \subseteq AllChunks

\* What the steps of one task have in common: they replace the task's record, and
\* touch besides it only the status and the file.
MovesTo(t, x) ==
    /\ x \in TaskType
    /\ task' = [task EXCEPT ![t] = x]
    /\ UNCHANGED <<req, can, script, server, binary>>

\* A step that gives a task a new record of the right type keeps the types.
LEMMA MoveTyped ==
    ASSUME TInv, NEW t \in Tasks, NEW x, MovesTo(t, x), cancelFn' \in Tasks \cup {None},
           status' \in States, FileType', server = "old",
           x.fd = "linked" => file' # Absent, file # Absent => file' # Absent
    PROVE  TInv'
  <1>1. task' \in [Tasks -> TaskType]
    BY DEF TInv, TypeOK, MovesTo
  <1>2. LinkedIsThere'
    BY DEF TInv, TypeOK, MovesTo, LinkedIsThere
  <1>. QED
    BY <1>1, <1>2 DEF TInv, TypeOK, TasksNamed, MovesTo, FileType, DeadServer

\* Moving a task's control leaves its other fields as they are.
LEMMA GotoMoves ==
    ASSUME TInv, NEW t \in Tasks, NEW pc \in TaskPcs, Goto(t, pc)
    PROVE  \E x \in TaskType :
              /\ task' = [task EXCEPT ![t] = x]
              /\ x.pc = pc /\ x.ctx = task[t].ctx /\ x.lines = task[t].lines
              /\ x.off = task[t].off /\ x.len = task[t].len /\ x.fd = task[t].fd
  <1>1. task \in [Tasks -> TaskType]
    BY DEF TInv, TypeOK
  <1>2. PICK x : x = [task[t] EXCEPT !.pc = pc]
    OBVIOUS
  <1>3. task' = [task EXCEPT ![t] = x]
    BY <1>2 DEF Goto
  <1>4. task[t] \in TaskType
    BY <1>1
  <1>5. /\ x \in TaskType
        /\ x.pc = pc /\ x.ctx = task[t].ctx /\ x.lines = task[t].lines
        /\ x.off = task[t].off /\ x.len = task[t].len /\ x.fd = task[t].fd
    BY <1>2, <1>4 DEF TaskType
  <1>. QED
    BY <1>3, <1>5
\* A step of a task between its start and its report or its script: while it has not
\* reported, the status stays busy, and what it finds in the file is its own writing.
Works(t, x) ==
    /\ Active(t) /\ task[t].pc # "announce"
    /\ MovesTo(t, x)
    /\ cancelFn' = cancelFn
    /\ status' \in States
    /\ FileType'
    /\ x.fd = "linked" => file' # Absent
    /\ file # Absent => file' # Absent
    /\ x.pc \in ActivePcs => x.pc # "announce" /\ (status \in Busy => status' \in Busy)
    /\ Written(task[t], file) => Written(x, file')

WorkStep(t) ==
    \/ Begin(t) \/ NextLine(t)
    \/ LineFails(t) \/ OpenFails(t) \/ OpenFile(t)
    \/ ReadChunk(t) \/ ReadCanceled(t) \/ ReadBreaks(t) \/ ReadEof(t) \/ StatFile(t)
    \/ InstallFails(t)

\* The steps that only move the control and set the status, stated once: the file is
\* what the new place in the code relies on.
LEMMA GotoWorks ==
    ASSUME TInv, NEW t \in Tasks, NEW pc \in TaskPcs, Goto(t, pc),
           task[t].pc \in ActivePcs \ {"announce"}, pc # "announce",
           UNCHANGED <<cancelFn, req, can, file, script, server, binary>>,
           status' \in States, pc \in ActivePcs /\ status \in Busy => status' \in Busy,
           pc # "read",
           pc = "stat" => task[t].pc = "read" /\ task[t].off = task[t].len,
           pc = "install" => task[t].pc = "stat" /\ file # {}
    PROVE  \E x : Works(t, x)
  <1>1. PICK x \in TaskType :
              /\ task' = [task EXCEPT ![t] = x]
              /\ x.pc = pc /\ x.ctx = task[t].ctx /\ x.lines = task[t].lines
              /\ x.off = task[t].off /\ x.len = task[t].len /\ x.fd = task[t].fd
    BY GotoMoves
  <1>2. MovesTo(t, x)
    BY <1>1 DEF MovesTo
  <1>3. FileType'
    BY DEF TInv, TypeOK, FileType, AllChunks, Absent
  <1>4. Written(task[t], file) => Written(x, file')
    BY <1>1 DEF Written, AllChunks, Absent
  <1>5. x.fd = "linked" => file # Absent
    BY <1>1 DEF TInv, LinkedIsThere
  <1>. QED
    BY <1>1, <1>2, <1>3, <1>4, <1>5 DEF Works, Active

\* Begin: the path of the running program is found or not.
LEMMA BeginWorks ==
    ASSUME TInv, NEW t \in Tasks, Begin(t)
    PROVE  \E x : Works(t, x)
  <1>1. CASE Goto(t, "line") /\ UNCHANGED status
    BY <1>1, GotoWorks DEF Begin, At, TInv, TypeOK, ActivePcs, DownloadPcs, TaskPcs
  <1>2. CASE Report(t, "failed", "clear")
    BY <1>2, GotoWorks
       DEF Begin, At, Report, ActivePcs, DownloadPcs, TaskPcs, States
  <1>. QED
    BY <1>1, <1>2 DEF Begin

\* The head of the loop: the lines are used up, the task is canceled, or the next
\* line is tried.
LEMMA NextLineWorks ==
    ASSUME TInv, NEW t \in Tasks, NextLine(t)
    PROVE  \E x : Works(t, x)
  <1>1. CASE task[t].lines = 0
    BY <1>1, GotoWorks
       DEF NextLine, At, Report, ActivePcs, DownloadPcs, TaskPcs, States
  <1>2. CASE task[t].lines # 0 /\ Canceled(t)
    BY <1>2, GotoWorks
       DEF NextLine, At, Report, ActivePcs, DownloadPcs, TaskPcs, States
  <1>3. CASE task[t].lines # 0 /\ ~Canceled(t)
    <2>1. PICK x : x = [task[t] EXCEPT !.pc = "connect", !.fd = "none", !.lines = @ - 1]
      OBVIOUS
    <2>2. /\ task' = [task EXCEPT ![t] = x]
          /\ status' = "downloading"
          /\ UNCHANGED <<cancelFn, req, can, file, script, server, binary>>
      BY <1>3, <2>1 DEF NextLine
    <2>3. task[t] \in TaskType
      BY DEF TInv, TypeOK
    <2>4. x \in TaskType /\ x.pc = "connect" /\ x.fd = "none"
      <3>1. x = [pc |-> "connect", ctx |-> task[t].ctx, lines |-> task[t].lines - 1,
                 off |-> task[t].off, len |-> task[t].len, fd |-> "none"]
        BY <2>1, <2>3 DEF TaskType
      <3>2. task[t].lines - 1 \in 0..Lines
        BY <1>3, <2>3, BoundAssumption DEF TaskType
      <3>. QED
        BY <2>3, <3>1, <3>2 DEF TaskType, TaskPcs
    <2>5. FileType'
      BY <2>2 DEF TInv, TypeOK, FileType, AllChunks, Absent
    <2>6. MovesTo(t, x)
      BY <2>2, <2>4 DEF MovesTo
    <2>7. Active(t) /\ task[t].pc # "announce"
      BY DEF NextLine, At, Active, ActivePcs, DownloadPcs
    <2>. QED
      BY <2>2, <2>4, <2>5, <2>6, <2>7 DEF Works, Written, Busy, States
  <1>. QED
    BY <1>1, <1>2, <1>3

\* The line does not answer, or the file cannot be opened.
LEMMA ConnectFails ==
    ASSUME TInv, NEW t \in Tasks, LineFails(t) \/ OpenFails(t)
    PROVE  \E x : Works(t, x)
  <1>1. CASE LineFails(t) /\ Canceled(t)
    BY <1>1, GotoWorks
       DEF LineFails, At, Report, ActivePcs, DownloadPcs, TaskPcs, States
  <1>2. CASE LineFails(t) /\ ~Canceled(t)
    BY <1>2, GotoWorks
       DEF LineFails, At, TInv, TypeOK, ActivePcs, DownloadPcs, TaskPcs
  <1>3. CASE OpenFails(t)
    BY <1>3, GotoWorks
       DEF OpenFails, At, Report, ActivePcs, DownloadPcs, TaskPcs, States
  <1>. QED
    BY <1>1, <1>2, <1>3

\* os.OpenFile gives the task an empty file under the shared name.
LEMMA OpenFileWorks ==
    ASSUME TInv, NEW t \in Tasks, OpenFile(t)
    PROVE  \E x : Works(t, x)
  <1>0. PICK n \in 0..Chunks :
            task' = [task EXCEPT ![t] = [@ EXCEPT !.pc = "read", !.off = 0, !.len = n,
                                                  !.fd = "linked"]]
    BY DEF OpenFile
  <1>1. PICK x : x = [task[t] EXCEPT !.pc = "read", !.off = 0, !.len = n, !.fd = "linked"]
    OBVIOUS
  <1>2. /\ task' = [task EXCEPT ![t] = x]
        /\ file' = {}
        /\ UNCHANGED <<status, cancelFn, req, can, script, server, binary>>
    BY <1>0, <1>1 DEF OpenFile
  <1>3. task[t] \in TaskType
    BY DEF TInv, TypeOK
  <1>4. x \in TaskType /\ x.pc = "read" /\ x.off = 0 /\ x.fd = "linked"
    <2>1. x = [pc |-> "read", ctx |-> task[t].ctx, lines |-> task[t].lines,
               off |-> 0, len |-> n, fd |-> "linked"]
      BY <1>1, <1>3 DEF TaskType
    <2>2. 0 \in 0..Chunks
      BY BoundAssumption
    <2>. QED
      BY <1>3, <2>1, <2>2 DEF TaskType, TaskPcs
  <1>5. FileType'
    BY <1>2 DEF FileType
  <1>6. MovesTo(t, x)
    BY <1>2, <1>4 DEF MovesTo
  <1>7. Written(x, file')
    BY <1>2, <1>4 DEF Written
  <1>8. Active(t) /\ task[t].pc # "announce" /\ status' \in States
    BY <1>2 DEF OpenFile, At, Active, ActivePcs, DownloadPcs, TInv, TypeOK
  <1>. QED
    BY <1>2, <1>4, <1>5, <1>6, <1>7, <1>8 DEF Works, Absent

\* One turn of the read loop puts the next chunk into the task's file.
LEMMA ReadChunkWorks ==
    ASSUME TInv, NEW t \in Tasks, ReadChunk(t)
    PROVE  \E x : Works(t, x)
  <1>1. PICK x : x = [task[t] EXCEPT !.off = @ + 1]
    OBVIOUS
  <1>2. /\ task' = [task EXCEPT ![t] = x]
        /\ file' = IF task[t].fd = "linked" THEN file \cup {task[t].off + 1} ELSE file
        /\ task[t].pc = "read" /\ task[t].off < task[t].len
        /\ UNCHANGED <<status, cancelFn, req, can, script, server, binary>>
    BY <1>1 DEF ReadChunk, At
  <1>3. task[t] \in TaskType
    BY DEF TInv, TypeOK
  <1>4. /\ x \in TaskType /\ x.pc = "read"
        /\ x.off = task[t].off + 1 /\ x.fd = task[t].fd
        /\ task[t].off \in 0..Chunks /\ task[t].off < Chunks
    BY <1>1, <1>2, <1>3, BoundAssumption DEF TaskType, TaskPcs
  <1>5. Written(task[t], file) => Written(x, file')
    <2>1. CASE task[t].fd = "linked" /\ file = 1..task[t].off
      <3>1. file' = 1..(task[t].off + 1)
        BY <1>2, <1>4, <2>1, BoundAssumption
      <3>. QED
        BY <1>4, <2>1, <3>1 DEF Written
    <2>2. CASE task[t].fd = "unlinked" /\ file = Absent
      BY <1>2, <1>4, <2>2 DEF Written
    <2>. QED
      BY <1>2, <2>1, <2>2 DEF Written
  <1>6. MovesTo(t, x)
    BY <1>2, <1>4 DEF MovesTo
  <1>7. Active(t) /\ task[t].pc # "announce" /\ status' \in States
    BY <1>2 DEF Active, ActivePcs, DownloadPcs, TInv, TypeOK
  <1>8. task[t].fd = "linked" => file # Absent /\ file \subseteq AllChunks
    BY DEF TInv, LinkedIsThere, TypeOK
  <1>9. FileType' /\ (file # Absent => file' # Absent)
                 /\ (task[t].fd = "linked" => file' # Absent)
    <2>1. CASE task[t].fd = "linked"
      <3>1. file' \subseteq AllChunks
        BY <1>2, <1>4, <1>8, <2>1, BoundAssumption DEF AllChunks
      <3>2. file' # Absent
        BY <3>1, BoundAssumption DEF AllChunks, Absent
      <3>. QED
        BY <3>1, <3>2 DEF FileType
    <2>2. CASE task[t].fd # "linked"
      BY <1>2, <2>2 DEF FileType, TInv, TypeOK, AllChunks, Absent
    <2>. QED
      BY <2>1, <2>2
  <1>. QED
    BY <1>2, <1>4, <1>5, <1>6, <1>7, <1>9 DEF Works
\* The other ends of the read loop, the look at the file, and a failed install.
LEMMA ReadEndsWorks ==
    ASSUME TInv, NEW t \in Tasks,
           ReadCanceled(t) \/ ReadBreaks(t) \/ ReadEof(t) \/ StatFile(t) \/ InstallFails(t)
    PROVE  \E x : Works(t, x)
  <1>1. CASE ReadCanceled(t)
    BY <1>1, GotoWorks
       DEF ReadCanceled, At, Report, ActivePcs, DownloadPcs, TaskPcs, States
  <1>2. CASE ReadBreaks(t)
    BY <1>2, GotoWorks
       DEF ReadBreaks, At, TInv, TypeOK, ActivePcs, DownloadPcs, TaskPcs
  <1>3. CASE ReadEof(t)
    BY <1>3, GotoWorks
       DEF ReadEof, At, TInv, TypeOK, ActivePcs, DownloadPcs, TaskPcs
  <1>4. CASE StatFile(t) /\ file \in {Absent, {}}
    BY <1>4, GotoWorks
       DEF StatFile, At, TInv, TypeOK, ActivePcs, DownloadPcs, TaskPcs
  <1>5. CASE StatFile(t) /\ file \notin {Absent, {}}
    BY <1>5, GotoWorks
       DEF StatFile, At, Report, ActivePcs, DownloadPcs, TaskPcs, States, Busy
  <1>6. CASE InstallFails(t)
    BY <1>6, GotoWorks
       DEF InstallFails, At, Report, ActivePcs, DownloadPcs, TaskPcs, States
  <1>. QED
    BY <1>1, <1>2, <1>3, <1>4, <1>5, <1>6

\* Every step between a task's start and its report or script is of the kind Works.
LEMMA WorkStepWorks ==
    ASSUME TInv, NEW t \in Tasks, WorkStep(t)
    PROVE  \E x : Works(t, x)
  BY BeginWorks, NextLineWorks, ConnectFails, OpenFileWorks, ReadChunkWorks, ReadEndsWorks
     DEF WorkStep

\* Such a step keeps the types.
LEMMA WorksTyped ==
    ASSUME TInv, NEW t \in Tasks, NEW x, Works(t, x)
    PROVE  TInv'
  <1>1. server = "old"
    BY DEF TInv, DeadServer, Works, Active, ActivePcs, DownloadPcs
  <1>2. cancelFn' \in Tasks \cup {None}
    BY DEF TInv, TypeOK, Works
  <1>. QED
    BY <1>1, <1>2, MoveTyped DEF Works

\* UpdateRunHandler and UpdateCancelHandler keep the types.
LEMMA HandlersTyped ==
    ASSUME TInv
    PROVE  /\ \A r \in Requests : RunCheck(r) \/ RunGivesUp(r) \/ RunStart(r) => TInv'
           /\ \A x \in Cancelers : CancelCheck(x) \/ CancelLoad(x) => TInv'
  <1>. USE NoneAssumption DEF TInv
  <1>1. ASSUME NEW r \in Requests, RunCheck(r) \/ RunGivesUp(r) \/ RunStart(r)
        PROVE  TInv'
    <2>1. server = "old" /\ UNCHANGED <<cancelFn, can, task, file, script, server, binary>>
      BY <1>1 DEF RunCheck, RunGivesUp, RunStart, DeadServer
    <2>2. status' \in States
      BY <1>1 DEF RunCheck, RunGivesUp, RunStart, TypeOK, States, Busy
    <2>3. /\ req' \in [Requests -> [pc : {"idle", "version", "register"},
                                   task : Tasks \cup {None}]]
          /\ \A q \in Requests : req'[q].pc = "register" => req'[q].task \in Tasks
      BY <1>1 DEF RunCheck, RunGivesUp, RunStart, TypeOK, TasksNamed
    <2>. QED
      BY <2>1, <2>2, <2>3 DEF TypeOK, TasksNamed, LinkedIsThere, DeadServer
  <1>2. ASSUME NEW x \in Cancelers, CancelCheck(x) \/ CancelLoad(x)
        PROVE  TInv'
    <2>1. UNCHANGED <<status, cancelFn, req, task, file, script, server, binary>>
      BY <1>2 DEF CancelCheck, CancelLoad
    <2>2. /\ can' \in [Cancelers -> [pc : {"idle", "load", "call"}, task : Tasks \cup {None}]]
          /\ \A y \in Cancelers : can'[y].pc = "call" => can'[y].task \in Tasks
      BY <1>2 DEF CancelCheck, CancelLoad, TypeOK, TasksNamed
    <2>. QED
      BY <2>1, <2>2 DEF TypeOK, TasksNamed, LinkedIsThere, DeadServer
  <1>. QED
    BY <1>1, <1>2

\* What starting the task of a request does to it.
LEMMA RegisterMoves ==
    ASSUME TInv, NEW r \in Requests, RunRegister(r)
    PROVE  /\ req[r].task \in Tasks
           /\ server = "old"
           /\ \E x \in TaskType : /\ task' = [task EXCEPT ![req[r].task] = x]
                                  /\ x.pc = "begin" /\ x.fd = task[req[r].task].fd
  <1>1. req[r].task \in Tasks /\ server = "old"
    BY DEF TInv, TasksNamed, RunRegister, DeadServer
  <1>2. PICK t \in Tasks : t = req[r].task
    BY <1>1
  <1>3. Goto(t, "begin")
    BY <1>2 DEF RunRegister, Goto
  <1>. QED
    BY <1>1, <1>2, <1>3, GotoMoves DEF TaskPcs

\* Calling a cancel function changes the context of one task, not where it is.
LEMMA CancelMoves ==
    ASSUME TInv, NEW c \in Cancelers, CancelCall(c)
    PROVE  \E t \in Tasks, x \in TaskType :
              /\ task' = [task EXCEPT ![t] = x]
              /\ x.pc = task[t].pc /\ x.off = task[t].off /\ x.len = task[t].len
              /\ x.fd = task[t].fd
  <1>1. PICK t \in Tasks : t = can[c].task
    BY DEF TInv, TasksNamed, CancelCall
  <1>2. PICK x : x = [task[t] EXCEPT !.ctx = "canceled"]
    OBVIOUS
  <1>3. task' = [task EXCEPT ![t] = x]
    BY <1>1, <1>2 DEF CancelCall
  <1>4. task[t] \in TaskType
    BY DEF TInv, TypeOK
  <1>5. /\ x \in TaskType /\ x.pc = task[t].pc /\ x.off = task[t].off
        /\ x.len = task[t].len /\ x.fd = task[t].fd
    BY <1>2, <1>4 DEF TaskType
  <1>. QED
    BY <1>3, <1>5

\* setUpdateCancel and the start of the task keep the types.
LEMMA RegisterTyped ==
    ASSUME TInv, NEW r \in Requests, RunRegister(r)
    PROVE  TInv'
  <1>1. PICK t \in Tasks, x \in TaskType :
              /\ task' = [task EXCEPT ![t] = x] /\ x.fd = task[t].fd
              /\ t = req[r].task /\ server = "old"
    BY RegisterMoves
  <1>2. task' \in [Tasks -> TaskType] /\ \A u \in Tasks : task'[u].fd = task[u].fd
    BY <1>1 DEF TInv, TypeOK
  <1>3. /\ req' \in [Requests -> [pc : {"idle", "version", "register"},
                                 task : Tasks \cup {None}]]
        /\ \A q \in Requests : req'[q].pc = "register" => req'[q].task \in Tasks
    BY DEF RunRegister, TInv, TypeOK, TasksNamed
  <1>4. cancelFn' \in Tasks
    BY <1>1 DEF RunRegister
  <1>5. UNCHANGED <<status, can, file, script, server, binary>>
    BY DEF RunRegister
  <1>. QED
    BY <1>1, <1>2, <1>3, <1>4, <1>5 DEF TInv, TypeOK, TasksNamed, LinkedIsThere, DeadServer

\* The call of a cancel function keeps the types.
LEMMA CancelTyped ==
    ASSUME TInv, NEW c \in Cancelers, CancelCall(c)
    PROVE  TInv'
  <1>1. PICK t \in Tasks, x \in TaskType :
              task' = [task EXCEPT ![t] = x] /\ x.pc = task[t].pc /\ x.fd = task[t].fd
    BY CancelMoves
  <1>2. /\ task' \in [Tasks -> TaskType]
        /\ \A u \in Tasks : task'[u].fd = task[u].fd /\ task'[u].pc = task[u].pc
    BY <1>1 DEF TInv, TypeOK
  <1>3. /\ can' \in [Cancelers -> [pc : {"idle", "load", "call"}, task : Tasks \cup {None}]]
        /\ \A y \in Cancelers : can'[y].pc = "call" => can'[y].task \in Tasks
    BY DEF CancelCall, TInv, TypeOK, TasksNamed
  <1>4. UNCHANGED <<status, cancelFn, req, file, script, server, binary>>
    BY DEF CancelCall
  <1>. QED
    BY <1>2, <1>3, <1>4 DEF TInv, TypeOK, TasksNamed, LinkedIsThere, DeadServer
\* What os.Remove of the shared file does to the tasks: the one that removes it goes
\* on to its end, the others keep their place and write to a file without a name.
LEMMA RemoveMoves ==
    ASSUME TInv, NEW t \in Tasks, RemoveFile(t)
    PROVE  /\ task' \in [Tasks -> TaskType]
           /\ task'[t].pc = "clear"
           /\ \A u \in Tasks :
                 /\ u # t => /\ task'[u].pc = task[u].pc /\ task'[u].off = task[u].off
                             /\ task'[u].fd = IF task[u].fd = "linked" THEN "unlinked"
                                              ELSE task[u].fd
                 /\ task'[u].fd # "linked" /\ task'[u].len = task[u].len
  <1>1. task \in [Tasks -> TaskType]
    BY DEF TInv, TypeOK
  <1>2. ASSUME NEW x \in TaskType, NEW y, y = [x EXCEPT !.pc = "clear", !.fd = "none"]
        PROVE  y \in TaskType /\ y.pc = "clear" /\ y.fd = "none" /\ y.len = x.len
    <2>1. y = [pc |-> "clear", ctx |-> x.ctx, lines |-> x.lines, off |-> x.off,
               len |-> x.len, fd |-> "none"]
      BY <1>2 DEF TaskType
    <2>. QED
      BY <2>1 DEF TaskType, TaskPcs
  <1>3. ASSUME NEW x \in TaskType, NEW y, y = [x EXCEPT !.fd = "unlinked"]
        PROVE  /\ y \in TaskType /\ y.pc = x.pc /\ y.off = x.off /\ y.len = x.len
               /\ y.fd = "unlinked"
    <2>1. y = [pc |-> x.pc, ctx |-> x.ctx, lines |-> x.lines, off |-> x.off,
               len |-> x.len, fd |-> "unlinked"]
      BY <1>3 DEF TaskType
    <2>. QED
      BY <2>1 DEF TaskType
  <1>4. task' = [u \in Tasks |->
                   IF u = t THEN [task[u] EXCEPT !.pc = "clear", !.fd = "none"]
                   ELSE IF task[u].fd = "linked" THEN [task[u] EXCEPT !.fd = "unlinked"]
                   ELSE task[u]]
    BY DEF RemoveFile
  <1>5. ASSUME NEW u \in Tasks
        PROVE  /\ task'[u] \in TaskType /\ task'[u].fd # "linked"
               /\ task'[u].len = task[u].len
               /\ u = t => task'[u].pc = "clear"
               /\ u # t => /\ task'[u].pc = task[u].pc /\ task'[u].off = task[u].off
                           /\ task'[u].fd = IF task[u].fd = "linked" THEN "unlinked"
                                            ELSE task[u].fd
    <2>1. CASE u = t
      <3>1. task'[u] = [task[u] EXCEPT !.pc = "clear", !.fd = "none"]
        BY <1>4, <2>1
      <3>2. /\ task'[u] \in TaskType /\ task'[u].pc = "clear" /\ task'[u].fd = "none"
            /\ task'[u].len = task[u].len
        BY <1>1, <1>2, <3>1
      <3>. QED
        BY <2>1, <3>2
    <2>2. CASE u # t /\ task[u].fd = "linked"
      <3>1. task'[u] = [task[u] EXCEPT !.fd = "unlinked"]
        BY <1>4, <2>2
      <3>. QED
        BY <1>1, <1>3, <2>2, <3>1
    <2>3. CASE u # t /\ task[u].fd # "linked"
      <3>1. task'[u] = task[u]
        BY <1>4, <2>3
      <3>. QED
        BY <1>1, <2>3, <3>1
    <2>. QED
      BY <2>1, <2>2, <2>3
  <1>6. task' \in [Tasks -> TaskType]
    <2>1. task' = [u \in Tasks |-> task'[u]]
      BY <1>4
    <2>. QED
      BY <1>5, <2>1
  <1>. QED
    BY <1>5, <1>6

\* Removing the file keeps the types.
LEMMA RemoveTyped ==
    ASSUME TInv, NEW t \in Tasks, RemoveFile(t)
    PROVE  TInv'
  <1>1. server = "old"
    BY DEF RemoveFile, At, TInv, DeadServer
  <1>2. UNCHANGED <<status, cancelFn, req, can, script, server, binary>> /\ file' = Absent
    BY DEF RemoveFile
  <1>. QED
    BY <1>1, <1>2, RemoveMoves DEF TInv, TypeOK, TasksNamed, LinkedIsThere, DeadServer

\* The start of the script, the last status and the deferred clearUpdateCancel.
LEMMA LeavesTyped ==
    ASSUME TInv, NEW t \in Tasks, StartScript(t) \/ Announce(t) \/ ClearCancel(t)
    PROVE  TInv'
  <1>1. server = "old"
    BY DEF StartScript, Announce, ClearCancel, At, TInv, DeadServer
  <1>2. PICK pc \in TaskPcs : Goto(t, pc)
    BY DEF StartScript, Announce, ClearCancel, Report, TaskPcs
  <1>3. PICK x \in TaskType : task' = [task EXCEPT ![t] = x] /\ x.fd = task[t].fd
    BY <1>2, GotoMoves
  <1>4. task' \in [Tasks -> TaskType] /\ \A u \in Tasks : task'[u].fd = task[u].fd
    BY <1>3 DEF TInv, TypeOK
  <1>5. /\ script' \in [Tasks -> {"none", "started", "killed", "moved", "gaveUp", "ended"}]
        /\ \A u \in Tasks : script'[u] \in {script[u], "started"}
    BY DEF StartScript, Announce, ClearCancel, TInv, TypeOK
  <1>6. status' \in States /\ cancelFn' \in Tasks \cup {None}
    BY DEF StartScript, Announce, ClearCancel, Report, TInv, TypeOK, States, Busy
  <1>7. UNCHANGED <<req, can, file, server, binary>>
    BY DEF StartScript, Announce, ClearCancel
  <1>. QED
    BY <1>1, <1>4, <1>5, <1>6, <1>7 DEF TInv, TypeOK, TasksNamed, LinkedIsThere, DeadServer

\* The kill ends every goroutine of the server, unless the server is gone already.
LEMMA KillTyped ==
    ASSUME TInv, NEW t \in Tasks, ScriptKills(t)
    PROVE  /\ TInv' /\ server' # "old"
           /\ \A u \in Tasks : task'[u].len = task[u].len
  <1>1. /\ script' \in [Tasks -> {"none", "started", "killed", "moved", "gaveUp", "ended"}]
        /\ UNCHANGED <<file, binary>>
    BY DEF ScriptKills, TInv, TypeOK
  <1>2. CASE server = "old"
    <2>1. task' = [u \in Tasks |-> [NewTask EXCEPT !.pc = "killed", !.len = task[u].len]]
      BY <1>2 DEF ScriptKills
    <2>2. ASSUME NEW u \in Tasks
          PROVE  /\ task'[u] \in TaskType /\ task'[u].len = task[u].len
                 /\ task'[u].pc = "killed" /\ task'[u].fd = "none"
      <3>1. task'[u] = [pc |-> "killed", ctx |-> "live", lines |-> Lines, off |-> 0,
                        len |-> task[u].len, fd |-> "none"]
        BY <2>1 DEF NewTask
      <3>2. task[u].len \in 0..Chunks
        BY DEF TInv, TypeOK, TaskType
      <3>3. 0 \in 0..Chunks /\ Lines \in 0..Lines
        BY BoundAssumption
      <3>. QED
        BY <3>1, <3>2, <3>3 DEF TaskType, TaskPcs
    <2>3. task' = [u \in Tasks |-> task'[u]]
      BY <2>1
    <2>4. task' \in [Tasks -> TaskType]
      BY <2>2, <2>3
    <2>5. /\ req' = [r \in Requests |-> [pc |-> "idle", task |-> None]]
          /\ can' = [c \in Cancelers |-> [pc |-> "idle", task |-> None]]
          /\ status' = "idle" /\ cancelFn' = None /\ server' = "down"
      BY <1>2 DEF ScriptKills
    <2>. QED
      BY <1>1, <2>2, <2>4, <2>5
         DEF TInv, TypeOK, TasksNamed, LinkedIsThere, DeadServer, States
  <1>3. CASE server # "old"
    <2>1. UNCHANGED <<server, task, req, can, status, cancelFn>>
      BY <1>3 DEF ScriptKills
    <2>. QED
      BY <1>1, <1>3, <2>1 DEF TInv, TypeOK, TasksNamed, LinkedIsThere, DeadServer
  <1>. QED
    BY <1>2, <1>3

\* The rest of the script runs when the server is gone.
LEMMA ScriptTyped ==
    ASSUME TInv, NEW t \in Tasks, ScriptGivesUp(t) \/ ScriptMoves(t) \/ ScriptRestarts(t)
    PROVE  TInv' /\ server # "old" /\ server' # "old"
  <1>1. /\ script' \in [Tasks -> {"none", "started", "killed", "moved", "gaveUp", "ended"}]
        /\ server' \in {server, "down", "new"}
        /\ binary' \in {"old", "new", "mixed", "torn"}
        /\ file' \in {file, Absent}
        /\ UNCHANGED <<status, cancelFn, req, can, task>>
    BY DEF ScriptGivesUp, ScriptMoves, ScriptRestarts, TInv, TypeOK
  <1>2. server # "old"
    BY DEF ScriptGivesUp, ScriptMoves, ScriptRestarts, TInv, DeadServer
  <1>3. server' # "old" /\ server' \in {"old", "down", "new"}
    BY <1>1, <1>2 DEF TInv, TypeOK
  <1>. QED
    BY <1>1, <1>2, <1>3 DEF TInv, TypeOK, TasksNamed, LinkedIsThere, DeadServer

\* Every step keeps the types.
LEMMA NextTyped == TInv /\ [Next]_vars => TInv'
  <1>. SUFFICES ASSUME TInv, [Next]_vars
                PROVE  TInv'
    OBVIOUS
  <1>1. ASSUME NEW r \in Requests, RunCheck(r) \/ RunGivesUp(r) \/ RequestStep(r)
        PROVE  TInv'
    BY <1>1, HandlersTyped, RegisterTyped DEF RequestStep
  <1>2. ASSUME NEW c \in Cancelers, CancelCheck(c) \/ CancelLoad(c) \/ CancelCall(c)
        PROVE  TInv'
    BY <1>2, HandlersTyped, CancelTyped
  <1>3. ASSUME NEW t \in Tasks, TaskStep(t)
        PROVE  TInv'
    BY <1>3, WorkStepWorks, WorksTyped, RemoveTyped, LeavesTyped DEF TaskStep, Reads, Proceeds, WorkStep
  <1>4. ASSUME NEW t \in Tasks, ScriptStep(t)
        PROVE  TInv'
    BY <1>4, KillTyped, ScriptTyped DEF ScriptStep
  <1>5. CASE UNCHANGED vars
    BY <1>5 DEF vars, TInv, TypeOK, TasksNamed, LinkedIsThere, DeadServer
  <1>. QED
    BY <1>1, <1>2, <1>3, <1>4, <1>5 DEF Next

\* Nothing runs at first.
LEMMA InitTyped == Init => TInv
  <1>1. NewTask \in TaskType /\ NewTask.fd = "none"
    BY BoundAssumption DEF NewTask, TaskType, TaskPcs
  <1>. QED
    BY <1>1 DEF Init, TInv, TypeOK, TasksNamed, LinkedIsThere, DeadServer, States

\* However update and cancel requests interleave, every variable has its type: no task
\* tries more lines than it was given, or writes past the end of a response, and
\* none brings back under its name a file that was removed or moved away.
THEOREM TypeCorrect == Spec => []TypeOK
  <1>1. TInv => TypeOK
    BY DEF TInv
  <1>. QED
    BY <1>1, InitTyped, NextTyped, PTL DEF Spec
-----------------------------------------------------------------------------
(***************************************************************************)
(* One update request at a time.                                            *)
(***************************************************************************)
Alone == StatusLocks /\ RequestAlone /\ ScriptAlone /\ FileOK /\ InstalledIsOneResponse

\* While a task works towards its script, nothing else is under way: no request is
\* past isUpdateBusy, no other task works and no script has been started.
LEMMA WorkerAlone ==
    ASSUME Alone, NEW t \in Tasks, Active(t), task[t].pc # "announce"
    PROVE  /\ \A u \in Tasks : script[u] = "none" /\ (u # t => ~Active(u))
           /\ \A r \in Requests : req[r].pc \notin {"version", "register"}
           /\ status \in Busy
  <1>1. status \in Busy /\ \A u \in Tasks : u # t => ~Active(u)
    BY DEF Alone, StatusLocks
  <1>2. \A u \in Tasks : script[u] = "none"
    BY DEF Alone, ScriptAlone, ScriptOf
  <1>3. \A r \in Requests : req[r].pc \notin {"version", "register"}
    BY <1>1 DEF Alone, RequestAlone
  <1>. QED
    BY <1>1, <1>2, <1>3

\* A step of the working task.
LEMMA WorksAlone ==
    ASSUME TInv, Alone, NEW t \in Tasks, NEW x, Works(t, x)
    PROVE  Alone'
  <1>1. /\ \A u \in Tasks : script[u] = "none" /\ (u # t => ~Active(u))
        /\ \A r \in Requests : req[r].pc \notin {"version", "register"}
        /\ status \in Busy
    BY WorkerAlone DEF Works
  <1>2. /\ task' = [task EXCEPT ![t] = x]
        /\ UNCHANGED <<req, script, server, binary>>
        /\ x.pc \in ActivePcs => status' \in Busy
        /\ Written(task[t], file) => Written(x, file')
    BY <1>1 DEF Works, MovesTo
  <1>3. /\ task'[t] = x
        /\ \A u \in Tasks : u # t => task'[u] = task[u] /\ ~Active(u)
    BY <1>1, <1>2 DEF TInv, TypeOK
  <1>4. StatusLocks'
    BY <1>2, <1>3 DEF StatusLocks, Active
  <1>5. RequestAlone' /\ ScriptAlone'
    <2>1. \A r \in Requests : req[r].pc = "idle"
      BY <1>1 DEF TInv, TypeOK
    <2>. QED
      BY <1>1, <1>2, <2>1 DEF RequestAlone, ScriptAlone, ScriptOf
  <1>6. FileOK'
    <2>1. Written(x, file')
      BY <1>2 DEF Alone, FileOK
    <2>2. \A u \in Tasks : u # t => Written(task'[u], file')
      BY <1>3 DEF Written, Active, ActivePcs, DownloadPcs
    <2>. QED
      BY <1>3, <2>1, <2>2 DEF FileOK
  <1>7. InstalledIsOneResponse'
    BY <1>2 DEF Alone, InstalledIsOneResponse
  <1>. QED
    BY <1>4, <1>5, <1>6, <1>7 DEF Alone

\* The steps of a request before its task starts.  Whoever passes isUpdateBusy in a
\* living server finds no script started: the status says so until the kill.
LEMMA RequestStaysAlone ==
    ASSUME OneRequest, TInv, Alone, NEW r \in Requests,
           RunCheck(r) \/ RunGivesUp(r) \/ RunStart(r)
    PROVE  Alone'
  <1>1. UNCHANGED <<task, file, script, server, binary>>
    BY DEF RunCheck, RunGivesUp, RunStart
  <1>2. \A q \in Requests : q = r
    BY DEF OneRequest
  <1>3. FileOK' /\ InstalledIsOneResponse'
    BY <1>1 DEF Alone, FileOK, InstalledIsOneResponse
  <1>4. CASE RunCheck(r)
    <2>1. /\ req' = [req EXCEPT ![r].pc = "version"]
          /\ server = "old" /\ status \notin Busy /\ status' = status
      BY <1>4 DEF RunCheck
    <2>2. \A t \in Tasks : script[t] = "none"
      BY <2>1 DEF Alone, ScriptAlone, ScriptOf, TInv, DeadServer
    <2>3. req'[r].pc = "version"
      BY <2>1 DEF TInv, TypeOK
    <2>. QED
      BY <1>1, <1>2, <1>3, <2>1, <2>2, <2>3
         DEF Alone, StatusLocks, Active, RequestAlone, ScriptAlone, ScriptOf
  <1>5. CASE RunGivesUp(r)
    <2>1. req' = [req EXCEPT ![r].pc = "idle"] /\ status' = status /\ req[r].pc = "version"
      BY <1>5 DEF RunGivesUp
    <2>2. req'[r].pc = "idle"
      BY <2>1 DEF TInv, TypeOK
    <2>. QED
      BY <1>1, <1>2, <1>3, <2>1, <2>2
         DEF Alone, StatusLocks, Active, RequestAlone, ScriptAlone, ScriptOf
  <1>6. CASE RunStart(r)
    <2>1. PICK t \in Tasks : req' = [req EXCEPT ![r] = [pc |-> "register", task |-> t]]
      BY <1>6 DEF RunStart
    <2>2. status' \in Busy /\ req[r].pc = "version"
      BY <1>6 DEF RunStart, Busy
    <2>3. req'[r].pc = "register"
      BY <2>1 DEF TInv, TypeOK
    <2>4. \A u \in Tasks : ~Active(u) /\ script[u] = "none"
      BY <2>2 DEF Alone, StatusLocks, RequestAlone
    <2>. QED
      BY <1>1, <1>2, <1>3, <2>2, <2>3, <2>4
         DEF Alone, StatusLocks, Active, RequestAlone, ScriptAlone, ScriptOf
  <1>. QED
    BY <1>4, <1>5, <1>6

\* The start of the task: nobody else was at work.
LEMMA RegisterStaysAlone ==
    ASSUME OneRequest, TInv, Alone, NEW r \in Requests, RunRegister(r)
    PROVE  Alone'
  <1>1. PICK t \in Tasks, x \in TaskType :
              task' = [task EXCEPT ![t] = x] /\ x.pc = "begin"
    BY RegisterMoves
  <1>2. /\ task'[t].pc = "begin"
        /\ \A u \in Tasks : u # t => task'[u] = task[u]
    BY <1>1 DEF TInv, TypeOK
  <1>3. /\ req[r].pc = "register"
        /\ req' = [req EXCEPT ![r] = [pc |-> "idle", task |-> None]]
        /\ UNCHANGED <<status, file, script, server, binary>>
    BY DEF RunRegister
  <1>4. \A q \in Requests : q = r
    BY DEF OneRequest
  <1>5. req'[r].pc = "idle"
    BY <1>3 DEF TInv, TypeOK
  <1>6. /\ \A u \in Tasks : ~Active(u) /\ script[u] = "none"
        /\ status \in Busy
    BY <1>3 DEF Alone, RequestAlone
  <1>7. StatusLocks'
    BY <1>2, <1>3, <1>6 DEF StatusLocks, Active
  <1>8. RequestAlone' /\ ScriptAlone'
    BY <1>3, <1>4, <1>5, <1>6 DEF RequestAlone, ScriptAlone, ScriptOf
  <1>9. FileOK'
    BY <1>2, <1>3 DEF Alone, FileOK, Written
  <1>. QED
    BY <1>3, <1>7, <1>8, <1>9 DEF Alone, InstalledIsOneResponse

\* UpdateCancelHandler changes nothing but the context of a task.
LEMMA CancelStaysAlone ==
    ASSUME TInv, Alone, NEW c \in Cancelers, CancelCheck(c) \/ CancelLoad(c) \/ CancelCall(c)
    PROVE  Alone'
  <1>1. UNCHANGED <<status, req, file, script, server, binary>>
    BY DEF CancelCheck, CancelLoad, CancelCall
  <1>2. \A u \in Tasks : /\ task'[u].pc = task[u].pc /\ task'[u].off = task[u].off
                         /\ task'[u].fd = task[u].fd /\ task'[u].len = task[u].len
    <2>1. CASE CancelCall(c)
      BY <2>1, CancelMoves DEF TInv, TypeOK
    <2>2. CASE CancelCheck(c) \/ CancelLoad(c)
      BY <2>2 DEF CancelCheck, CancelLoad
    <2>. QED
      BY <2>1, <2>2
  <1>3. FileOK'
    BY <1>1, <1>2 DEF Alone, FileOK, Written
  <1>4. StatusLocks' /\ RequestAlone'
    BY <1>1, <1>2 DEF Alone, StatusLocks, Active, RequestAlone
  <1>5. ScriptAlone'
    BY <1>1, <1>2 DEF Alone, ScriptAlone, ScriptOf, Active
  <1>. QED
    BY <1>1, <1>3, <1>4, <1>5 DEF Alone, InstalledIsOneResponse
\* The script starts on the file that its task found: its response, unless a
\* canceled task has removed it.
LEMMA StartStaysAlone ==
    ASSUME TInv, Alone, NEW t \in Tasks, StartScript(t)
    PROVE  Alone'
  <1>1. Goto(t, "announce") /\ task[t].pc = "install"
    BY DEF StartScript, At
  <1>2. PICK x \in TaskType : /\ task' = [task EXCEPT ![t] = x] /\ x.pc = "announce"
                              /\ x.len = task[t].len
    BY <1>1, GotoMoves DEF TaskPcs
  <1>3. /\ task'[t].pc = "announce" /\ task'[t].len = task[t].len
        /\ \A u \in Tasks : u # t => task'[u] = task[u]
    BY <1>2 DEF TInv, TypeOK
  <1>4. Active(t) /\ task[t].pc # "announce"
    BY <1>1 DEF Active, ActivePcs
  <1>5. /\ \A u \in Tasks : script[u] = "none" /\ (u # t => ~Active(u))
        /\ \A r \in Requests : req[r].pc \notin {"version", "register"}
        /\ status \in Busy
    BY <1>4, WorkerAlone
  <1>6. /\ script' = [script EXCEPT ![t] = "started"]
        /\ UNCHANGED <<status, req, file, server, binary>>
    BY DEF StartScript
  <1>7. script'[t] = "started" /\ \A u \in Tasks : u # t => script'[u] = "none"
    BY <1>5, <1>6 DEF TInv, TypeOK
  <1>8. \A r \in Requests : req[r].pc = "idle"
    BY <1>5 DEF TInv, TypeOK
  <1>9. file \in {Absent, 1..task[t].len}
    BY <1>1 DEF Alone, FileOK, Written
  <1>10. server = "old"
    BY <1>1 DEF TInv, DeadServer
  <1>11. StatusLocks' /\ RequestAlone'
    BY <1>3, <1>5, <1>6, <1>8 DEF StatusLocks, Active, RequestAlone
  <1>12. ScriptAlone'
    BY <1>3, <1>5, <1>6, <1>7, <1>8, <1>9, <1>10 DEF ScriptAlone, ScriptOf, Active
  <1>13. FileOK'
    BY <1>3, <1>6, <1>9 DEF Alone, FileOK, Written
  <1>. QED
    BY <1>6, <1>11, <1>12, <1>13 DEF Alone, InstalledIsOneResponse

\* A task that leaves: its last status is busy until the kill, and the deferred
\* clearUpdateCancel changes no status.
LEMMA LeaveStaysAlone ==
    ASSUME TInv, Alone, NEW t \in Tasks, Announce(t) \/ ClearCancel(t)
    PROVE  Alone'
  <1>1. PICK pc \in {"clear", "done"} : Goto(t, pc)
    BY DEF Announce, ClearCancel, Report
  <1>2. PICK x \in TaskType : /\ task' = [task EXCEPT ![t] = x] /\ x.pc = pc
                              /\ x.len = task[t].len
    BY <1>1, GotoMoves DEF TaskPcs
  <1>3. /\ task'[t].pc \notin ActivePcs /\ task'[t].len = task[t].len
        /\ \A u \in Tasks : u # t => task'[u] = task[u]
    BY <1>2 DEF TInv, TypeOK, ActivePcs, DownloadPcs
  <1>4. UNCHANGED <<req, file, script, server, binary>>
    BY DEF Announce, ClearCancel
  <1>5. CASE ClearCancel(t)
    <2>1. status' = status
      BY <1>5 DEF ClearCancel
    <2>2. StatusLocks' /\ RequestAlone'
      BY <1>3, <1>4, <2>1 DEF Alone, StatusLocks, Active, RequestAlone
    <2>3. ScriptAlone'
      BY <1>3, <1>4, <2>1 DEF Alone, ScriptAlone, ScriptOf, Active
    <2>4. FileOK'
      BY <1>3, <1>4 DEF Alone, FileOK, Written, ActivePcs, DownloadPcs
    <2>. QED
      BY <1>4, <2>2, <2>3, <2>4 DEF Alone, InstalledIsOneResponse
  <1>6. CASE Announce(t)
    <2>1. status' \in Busy /\ Active(t)
      BY <1>6 DEF Announce, At, Report, Busy, Active, ActivePcs
    <2>2. \A u \in Tasks : u # t => ~Active(u)
      BY <2>1 DEF Alone, StatusLocks
    <2>3. \A r \in Requests : req[r].pc = "idle"
      BY <2>1 DEF Alone, StatusLocks, RequestAlone, TInv, TypeOK
    <2>4. StatusLocks' /\ RequestAlone'
      BY <1>3, <1>4, <2>1, <2>2, <2>3 DEF StatusLocks, Active, RequestAlone
    <2>5. ScriptAlone'
      BY <1>3, <1>4, <2>1, <2>2 DEF Alone, ScriptAlone, ScriptOf, Active
    <2>6. FileOK'
      BY <1>3, <1>4 DEF Alone, FileOK, Written, ActivePcs, DownloadPcs
    <2>. QED
      BY <1>4, <2>4, <2>5, <2>6 DEF Alone, InstalledIsOneResponse
  <1>. QED
    BY <1>5, <1>6

\* A canceled task removes the shared file when the next task may already be writing
\* it: that one then writes to a file without a name, and finds none at the end.
LEMMA RemoveStaysAlone ==
    ASSUME TInv, Alone, NEW t \in Tasks, RemoveFile(t)
    PROVE  Alone'
  <1>1. /\ task[t].pc = "remove" /\ file' = Absent
        /\ UNCHANGED <<status, req, script, server, binary>>
    BY DEF RemoveFile, At
  <1>2. /\ task'[t].pc = "clear"
        /\ \A u \in Tasks : task'[u].len = task[u].len
        /\ \A u \in Tasks : u # t => /\ task'[u].pc = task[u].pc
                                     /\ task'[u].off = task[u].off
                                     /\ task'[u].fd = IF task[u].fd = "linked"
                                                      THEN "unlinked" ELSE task[u].fd
    BY RemoveMoves
  <1>3. StatusLocks' /\ RequestAlone'
    BY <1>1, <1>2 DEF Alone, StatusLocks, Active, ActivePcs, DownloadPcs, RequestAlone
  <1>4. ScriptAlone'
    BY <1>1, <1>2 DEF Alone, ScriptAlone, ScriptOf, Active, ActivePcs, DownloadPcs
  <1>5. FileOK'
    BY <1>1, <1>2 DEF Alone, FileOK, Written
  <1>. QED
    BY <1>1, <1>3, <1>4, <1>5 DEF Alone, InstalledIsOneResponse

\* The script is the only one, and what it moves over the program is the response
\* that its task saved.
LEMMA ScriptStaysAlone ==
    ASSUME TInv, Alone, NEW t \in Tasks, ScriptStep(t)
    PROVE  Alone'
  <1>1. script[t] # "none"
    BY DEF ScriptStep, ScriptKills, ScriptGivesUp, ScriptMoves, ScriptRestarts
  <1>2. /\ \A u \in Tasks : u # t => script[u] = "none"
        /\ \A r \in Requests : req[r].pc = "idle"
        /\ script[t] = "started" => server = "old"
        /\ script[t] \in {"started", "killed"} => file \in {Absent, 1..task[t].len}
    BY <1>1 DEF Alone, ScriptAlone, ScriptOf
  <1>3. PICK s \in {"killed", "gaveUp", "moved", "ended"} :
              /\ script' = [script EXCEPT ![t] = s]
              /\ s = "killed" => script[t] = "started" /\ file' = file
    <2>1. CASE ScriptKills(t)
      <3>1. /\ script[t] = "started" /\ script' = [script EXCEPT ![t] = "killed"]
            /\ file' = file
        BY <2>1 DEF ScriptKills
      <3>. QED
        BY <3>1
    <2>2. CASE ScriptGivesUp(t) \/ ScriptMoves(t) \/ ScriptRestarts(t)
      BY <2>2 DEF ScriptGivesUp, ScriptMoves, ScriptRestarts
    <2>. QED
      BY <2>1, <2>2 DEF ScriptStep
  <1>4. script'[t] = s /\ \A u \in Tasks : u # t => script'[u] = "none"
    BY <1>2, <1>3 DEF TInv, TypeOK
  <1>5. TInv' /\ server' # "old" /\ \A u \in Tasks : task'[u].len = task[u].len
    <2>1. CASE ScriptKills(t)
      BY <2>1, KillTyped
    <2>2. CASE ScriptGivesUp(t) \/ ScriptMoves(t) \/ ScriptRestarts(t)
      <3>1. task' = task
        BY <2>2 DEF ScriptGivesUp, ScriptMoves, ScriptRestarts
      <3>. QED
        BY <2>2, <3>1, ScriptTyped
    <2>. QED
      BY <2>1, <2>2 DEF ScriptStep
  <1>6. /\ \A u \in Tasks : ~Active(u)' /\ task'[u].pc = "killed"
        /\ \A r \in Requests : req'[r].pc = "idle"
    BY <1>5 DEF TInv, DeadServer, Active, ActivePcs, DownloadPcs
  <1>7. StatusLocks' /\ RequestAlone' /\ FileOK'
    BY <1>6 DEF StatusLocks, RequestAlone, FileOK, Written
  <1>8. ScriptAlone'
    BY <1>2, <1>3, <1>4, <1>5, <1>6 DEF ScriptAlone, ScriptOf
  <1>9. InstalledIsOneResponse'
    <2>1. CASE ScriptMoves(t)
      BY <1>2, <2>1 DEF ScriptMoves, Alone, InstalledIsOneResponse
    <2>2. CASE ScriptKills(t) \/ ScriptGivesUp(t) \/ ScriptRestarts(t)
      BY <2>2 DEF ScriptKills, ScriptGivesUp, ScriptRestarts, Alone, InstalledIsOneResponse
    <2>. QED
      BY <2>1, <2>2 DEF ScriptStep
  <1>. QED
    BY <1>7, <1>8, <1>9 DEF Alone

\* With one request at a time, every step keeps the invariant.
LEMMA Inductive ==
    ASSUME OneRequest
    PROVE  SInv /\ [Next]_vars => SInv'
  <1>. SUFFICES ASSUME SInv, [Next]_vars
                PROVE  SInv'
    OBVIOUS
  <1>1. TInv /\ Alone
    BY DEF SInv, Alone
  <1>2. TInv'
    BY <1>1, NextTyped
  <1>3. ASSUME NEW r \in Requests, RunCheck(r) \/ RunGivesUp(r) \/ RequestStep(r)
        PROVE  Alone'
    BY <1>1, <1>3, RequestStaysAlone, RegisterStaysAlone DEF RequestStep
  <1>4. ASSUME NEW c \in Cancelers, CancelCheck(c) \/ CancelLoad(c) \/ CancelCall(c)
        PROVE  Alone'
    BY <1>1, <1>4, CancelStaysAlone
  <1>5. ASSUME NEW t \in Tasks, TaskStep(t)
        PROVE  Alone'
    BY <1>1, <1>5, WorkStepWorks, WorksAlone, StartStaysAlone, LeaveStaysAlone,
       RemoveStaysAlone DEF TaskStep, Reads, Proceeds, WorkStep
  <1>6. ASSUME NEW t \in Tasks, ScriptStep(t)
        PROVE  Alone'
    BY <1>1, <1>6, ScriptStaysAlone
  <1>7. ASSUME UNCHANGED vars
        PROVE  Alone'
    <2>1. StatusLocks' /\ RequestAlone' /\ ScriptAlone'
      BY <1>1, <1>7
         DEF vars, Alone, StatusLocks, Active, RequestAlone, ScriptAlone, ScriptOf
    <2>. QED
      BY <1>1, <1>7, <2>1 DEF vars, Alone, FileOK, Written, InstalledIsOneResponse
  <1>8. Alone'
    BY <1>3, <1>4, <1>5, <1>6, <1>7 DEF Next
  <1>. QED
    BY <1>2, <1>8 DEF SInv, Alone

\* It holds at first.
LEMMA InitAlone == Init => SInv
  <1>. SUFFICES ASSUME Init
                PROVE  SInv
    OBVIOUS
  <1>1. \A t \in Tasks : task[t].pc = "new"
    BY DEF Init, NewTask
  <1>2. StatusLocks /\ RequestAlone /\ ScriptAlone /\ FileOK /\ InstalledIsOneResponse
    BY <1>1 DEF Init, StatusLocks, Active, ActivePcs, DownloadPcs, RequestAlone, ScriptAlone,
                ScriptOf, FileOK, Written, InstalledIsOneResponse
  <1>. QED
    BY <1>2, InitTyped DEF SInv

\* At most one task downloads, however many tasks are canceled and started again and
\* however late they clean up, when no two update requests overlap: the state that
\* isUpdateBusy looks at is a lock for a single requester.
THEOREM OneDownloadAlways ==
    ASSUME OneRequest
    PROVE  Spec => []OneDownload
  <1>1. SInv => OneDownload
    <2>. SUFFICES ASSUME SInv
                  PROVE  Cardinality(Downloading) <= 1
      BY DEF OneDownload
    <2>1. \A t, u \in Downloading : t = u
      BY DEF SInv, StatusLocks, Active, ActivePcs, DownloadPcs, Downloading
    <2>2. CASE Downloading = {}
      <3>1. Cardinality({}) = 0
        BY FS_EmptySet
      <3>. QED
        BY <2>2, <3>1
    <2>3. CASE Downloading # {}
      <3>1. PICK t : Downloading = {t}
        BY <2>1, <2>3
      <3>2. Cardinality({t}) = 1
        BY FS_Singleton, Zenon
      <3>. QED
        BY <3>1, <3>2
    <2>. QED
      BY <2>2, <2>3
  <1>. QED
    BY <1>1, InitAlone, Inductive, PTL DEF Spec

\* Nothing but one response, from its first byte to the end that its task saw, is moved
\* over the program, although every task and every line writes the same file, lines
\* break off in the middle, and a canceled task removes the file after the next one has
\* started, when no two update requests overlap.
THEOREM InstalledIsOneResponseAlways ==
    ASSUME OneRequest
    PROVE  Spec => []InstalledIsOneResponse
  <1>1. SInv => InstalledIsOneResponse
    BY DEF SInv
  <1>. QED
    BY <1>1, InitAlone, Inductive, PTL DEF Spec
=============================================================================
