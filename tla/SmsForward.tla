----------------------------- MODULE SmsForward -----------------------------
(***************************************************************************)
(* Forwarding of received text messages (gossh/app/service/system_tools.go).*)
(* A worker goroutine polls the modem for messages above the stored last_id,*)
(* holds the newest one of each number back until it has been quiet for a   *)
(* while, pushes it to Bark or Telegram, and moves last_id forward in       *)
(* config.json.  Browsers start and stop the worker and save the same file. *)
(*                                                                          *)
(* smsForwardMu protects smsForwardStop and the status, not the file: every *)
(* load, truncation and write of config.json is a step of its own.  Pushes  *)
(* and the modem are external and may fail.                                 *)
(***************************************************************************)
EXTENDS Integers, FiniteSets, FiniteSetsExt

CONSTANTS
    Workers,     \* worker goroutines, a bound on the workers ever started
    Numbers,     \* senders of messages
    Blank,       \* the sender of a message without a number
    MaxId,       \* bound: messages that arrive
    MaxRev,      \* bound: contents change until one message has changed this often
    Dests,       \* push targets a valid configuration may name
    Gaps,        \* time between the polls of a worker
    Quiet,       \* smsForwardCompleteQuietWindow
    MaxWait,     \* smsForwardCompleteMaxWait
    MaxSaves,    \* bound: configurations that browsers save
    MaxCrashes,  \* bound: ends of the server process
    CountTo,     \* bound: pushes of a message that the history tells apart
    DiskFails,   \* whether writing config.json can fail
    Mangled,     \* what cannot be parsed
    None

ASSUME TimeAssumption == Gaps \subseteq Nat \ {0} /\ Quiet \in Nat /\ MaxWait \in Nat
ASSUME BoundAssumption ==
    {MaxId, MaxRev, MaxSaves, MaxCrashes} \subseteq Nat /\ CountTo \in Nat \ {0}
ASSUME NoneAssumption ==
    /\ None \notin Workers \cup Numbers \cup {Blank} \cup Dests
    /\ Mangled \notin Dests \cup {None}

VARIABLES
    num,       \* the modem: who sent each message, None before it arrives
    rev,       \* the modem: the revision of each message's content
    file,      \* config.json
    stop,      \* smsForwardStop, named by the worker that listens to it
    worker,    \* the runSmsForwardWorker goroutines
    saver,     \* the SystemSmsForwardConfigHandler
    saves,     \* configurations saved so far
    crashes,   \* ends of the server process so far
    attempts,  \* history: pushes of each message, counted up to CountTo
    passed,    \* history: messages at or below a last_id not set by forwarding
    chosen,    \* history: the target in the configuration saved last
    high       \* history: the largest last_id ever written

device == <<num, rev>>
history == <<attempts, passed, chosen, high>>
vars == <<device, file, stop, worker, saver, saves, crashes, history>>

Ids == 1..MaxId
Empty == [mark |-> 0, dest |-> None]   \* an empty file loads as this configuration
Broken == [mark |-> 0, dest |-> Mangled]   \* a file that is not JSON
Config == [mark : 0..MaxId, dest : Dests \cup {None, Mangled}]
Arrived == {i \in Ids : num[i] # None}
Latest(floor) == Max(Arrived \cup {floor})

Batch == [id : Ids, rev : 0..MaxRev, first : 0..MaxWait, last : 0..Quiet]

WorkerPcs == {"new", "wait", "load", "fetch", "send", "open", "write", "exited"}

\* cfg is the configuration as smsForwardPollOnce loaded it; out are the batches
\* that ready() returned and that are still to be sent; base tells which of its
\* two calls of saveSmsForwardConfig the poll is in.
WorkerType ==
    [pc : WorkerPcs, closed : BOOLEAN, base : BOOLEAN, cfg : Config, pending : SUBSET Batch,
     completed : SUBSET Ids, out : SUBSET Batch]

NewWorker ==
    [pc |-> "new", closed |-> FALSE, base |-> FALSE, cfg |-> Empty, pending |-> {},
     completed |-> {}, out |-> {}]

Init ==
    /\ num = [i \in Ids |-> None]
    /\ rev = [i \in Ids |-> 0]
    /\ file \in [mark : {0}, dest : Dests]
    /\ stop = None
    /\ worker = [w \in Workers |-> NewWorker]
    /\ saver = [pc |-> "idle", cfg |-> Empty]
    /\ saves = 0
    /\ crashes = 0
    /\ attempts = [i \in Ids |-> 0]
    /\ passed = {}
    /\ chosen = file.dest
    /\ high = 0

-----------------------------------------------------------------------------
(***************************************************************************)
(* The modem.                                                               *)
(***************************************************************************)
Arrive ==
    /\ Cardinality(Arrived) < MaxId
    /\ \E n \in Numbers \cup {Blank} : num' = [num EXCEPT ![Cardinality(Arrived) + 1] = n]
    /\ UNCHANGED <<rev, file, stop, worker, saver, saves, crashes, history>>

\* A further part of a long message is added to a message already stored.
Grow ==
    /\ \A i \in Arrived : rev[i] < MaxRev
    /\ \E i \in Arrived : rev' = [rev EXCEPT ![i] = @ + 1]
    /\ UNCHANGED <<num, file, stop, worker, saver, saves, crashes, history>>

-----------------------------------------------------------------------------
(***************************************************************************)
(* Start and stop.  A restart is a stop and a start.                        *)
(***************************************************************************)

\* Mutation: nothing is validated.
ValidBug(cfg) == TRUE

\* loadSmsForwardConfig and validateSmsForwardConfig: the file can be parsed, and a target
\* is enabled and filled in.
Valid(cfg) == cfg.dest \in Dests

\* startSmsForwardWorker, also from InitSmsForwardAutostart, after a crash or at boot.
StartWorker(w) ==
    /\ stop = None
    /\ Valid(file)
    /\ worker[w].pc = "new"
    /\ stop' = w
    /\ worker' = [worker EXCEPT ![w].pc = "load"]
    /\ UNCHANGED <<device, file, saver, saves, crashes, history>>

StopWorker ==
    /\ stop # None
    /\ worker' = [worker EXCEPT ![stop].closed = TRUE]
    /\ stop' = None
    /\ UNCHANGED <<device, file, saver, saves, crashes, history>>

\* The select of the worker's loop: when both channels are ready, either.
Tick(w) ==
    /\ worker[w].pc = "wait"
    /\ worker' = [worker EXCEPT ![w].pc = "load"]
    /\ UNCHANGED <<device, file, stop, saver, saves, crashes, history>>

\* Mutation: the deferred function forgets to compare the channels.
ExitBug(w) ==
    /\ worker[w].pc = "wait"
    /\ worker[w].closed
    /\ worker' = [worker EXCEPT ![w] = [NewWorker EXCEPT !.pc = "exited"]]
    /\ stop' = None
    /\ UNCHANGED <<device, file, saver, saves, crashes, history>>

Exit(w) ==
    /\ worker[w].pc = "wait"
    /\ worker[w].closed
    /\ worker' = [worker EXCEPT ![w] = [NewWorker EXCEPT !.pc = "exited"]]
    /\ stop' = IF stop = w THEN None ELSE stop
    /\ UNCHANGED <<device, file, saver, saves, crashes, history>>

-----------------------------------------------------------------------------
(***************************************************************************)
(* smsForwardPollOnce.                                                      *)
(***************************************************************************)

\* The poll returns: its local variables are gone, the pending state stays.
Return(me) == [me EXCEPT !.pc = "wait", !.cfg = Empty, !.base = FALSE]

\* A file that is being written is empty.
PollLoad(w) ==
    /\ worker[w].pc = "load"
    /\ worker' = [worker EXCEPT ![w] = IF Valid(file)
                                       THEN [@ EXCEPT !.pc = "fetch", !.cfg = file]
                                       ELSE Return(@)]
    /\ UNCHANGED <<device, file, stop, saver, saves, crashes, history>>

\* Mutation: an error ends the worker instead of the poll.
FetchFailsBug(w) ==
    /\ worker[w].pc = "fetch"
    /\ worker' = [worker EXCEPT ![w] = [NewWorker EXCEPT !.pc = "exited"]]
    /\ UNCHANGED <<device, file, stop, saver, saves, crashes, history>>

\* loadSmsMessages fails.
FetchFails(w) ==
    /\ worker[w].pc = "fetch"
    /\ worker' = [worker EXCEPT ![w] = Return(@)]
    /\ UNCHANGED <<device, file, stop, saver, saves, crashes, history>>

\* Messages that last_id goes past without forwarding, now that it becomes mark.
Passes(mark) == passed \cup {i \in Arrived : high < i /\ i <= mark}

\* cfg.LastID == 0: everything in the inbox is old.  An empty inbox leaves the 0.
FetchBaseline(w) ==
    /\ worker[w].pc = "fetch"
    /\ worker[w].cfg.mark = 0
    /\ worker' = [worker EXCEPT ![w] =
                     [@ EXCEPT !.pc = "open", !.base = TRUE,
                               !.cfg = [mark |-> Latest(0), dest |-> worker[w].cfg.dest]]]
    /\ passed' = Passes(Latest(0))
    /\ UNCHANGED <<device, file, stop, saver, saves, crashes, attempts, chosen, high>>

\* smsForwardPendingKey
Key(i) == IF num[i] = Blank THEN <<Blank, i>> ELSE <<num[i], 0>>

Older(b, gap) ==
    [b EXCEPT !.first = Min({@ + gap, MaxWait}), !.last = Min({@ + gap, Quiet})]

Fresh(i) == [id |-> i, rev |-> rev[i], first |-> 0, last |-> 0]

\* What add() makes of batch b when it meets the targets of its number: the newest
\* message replaces it, and so does new content of the same message.
Absorb(b, targets) ==
    LET same == {i \in targets : Key(i) = Key(b.id) /\ i >= b.id}
        newest == Max(same \cup {b.id})
    IN  IF newest = b.id /\ (b.id \notin same \/ rev[b.id] = b.rev)
        THEN b
        ELSE [Fresh(newest) EXCEPT !.first = b.first]

\* Mutation: a message never finds the batch of its number.
AddAllBug(pending, targets) ==
    {Absorb(b, targets) : b \in pending} \cup {Fresh(i) : i \in targets}

\* pending.add for every target in turn, from the smallest id to the largest.
AddAll(pending, targets) ==
    LET keys == {Key(b.id) : b \in pending}
        new == {i \in targets : /\ Key(i) \notin keys
                                /\ \A j \in targets : Key(j) = Key(i) => j <= i}
    IN  {Absorb(b, targets) : b \in pending} \cup {Fresh(i) : i \in new}

IsReady(b) == b.last >= Quiet \/ b.first >= MaxWait

\* Collect the targets, add them, take what is ready out of the pending ones.
FetchTargets(w) ==
    /\ worker[w].pc = "fetch"
    /\ worker[w].cfg.mark > 0
    /\ \E gap \in Gaps :
          LET targets == {i \in Arrived : /\ i > worker[w].cfg.mark
                                          /\ i \notin worker[w].completed}
              all == AddAll({Older(b, gap) : b \in worker[w].pending}, targets)
              ready == {b \in all : IsReady(b)}
          IN  worker' = [worker EXCEPT ![w] =
                            [@ EXCEPT !.pc = "send", !.pending = all \ ready, !.out = ready]]
    /\ UNCHANGED <<device, file, stop, saver, saves, crashes, history>>

\* One push per enabled target; markSmsRead does not change what a poll sees.
SendSmsForwardBatch(b) == attempts' = [attempts EXCEPT ![b.id] = Min({@ + 1, CountTo})]

\* Mutation: what was sent is not recorded.
SendBug(w) ==
    /\ worker[w].pc = "send"
    /\ \E b \in worker[w].out :
          /\ \A other \in worker[w].out : b.id <= other.id
          /\ SendSmsForwardBatch(b)
          /\ worker' = [worker EXCEPT ![w].out = @ \ {b}]
    /\ UNCHANGED <<device, file, stop, saver, saves, crashes, passed, chosen, high>>

\* The ready batches in order of id.  A failed push is not tried again.
Send(w) ==
    /\ worker[w].pc = "send"
    /\ \E b \in worker[w].out :
          /\ \A other \in worker[w].out : b.id <= other.id
          /\ SendSmsForwardBatch(b)
          /\ worker' = [worker EXCEPT ![w] =
                           [@ EXCEPT !.out = worker[w].out \ {b},
                                     !.completed = worker[w].completed \cup {b.id}]]
    /\ UNCHANGED <<device, file, stop, saver, saves, crashes, passed, chosen, high>>

\* Mutation: the ids still pending do not hold last_id back.
NextLastIdBug(pending, completed, current) == Max(completed \cup {current})

\* nextLastID: the largest completed id below every pending one.
NextLastId(pending, completed, current) ==
    Max({current} \cup {i \in completed : i > current /\ \A b \in pending : i < b.id})

Advance(w) ==
    LET next == NextLastId(worker[w].pending, worker[w].completed, worker[w].cfg.mark)
    IN  /\ worker[w].pc = "send"
        /\ worker[w].out = {}
        /\ worker' = [worker EXCEPT ![w] =
                         IF next > worker[w].cfg.mark
                         THEN [@ EXCEPT !.pc = "open", !.base = FALSE,
                                        !.cfg = [mark |-> next, dest |-> worker[w].cfg.dest]]
                         ELSE Return(@)]
        /\ UNCHANGED <<device, file, stop, saver, saves, crashes, history>>

\* saveSmsForwardConfig: os.WriteFile truncates the file ...
SaveOpen(w) ==
    /\ worker[w].pc = "open"
    /\ file' = Empty
    /\ worker' = [worker EXCEPT ![w].pc = "write"]
    /\ UNCHANGED <<device, stop, saver, saves, crashes, history>>

\* ... and writes from its start.  Where somebody else has written since the truncation,
\* the end of a longer text stays behind a shorter one.
Write(cfg) == file' \in IF file = Empty THEN {cfg} ELSE {cfg, Broken}

\* A write that fails may have written a part.
WriteFails(pc) == file' \in IF pc = "write" THEN {file, Broken} ELSE {file}

\* The poll writes all of the configuration that it loaded, after which
\* discardCompletedThrough forgets what last_id stands for.
SaveWrite(w) ==
    /\ worker[w].pc = "write"
    /\ Write(worker[w].cfg)
    /\ high' = Max({high, worker[w].cfg.mark})
    /\ worker' = [worker EXCEPT ![w] =
                     [Return(@) EXCEPT !.completed = {i \in worker[w].completed :
                                                         \/ worker[w].base
                                                         \/ i > worker[w].cfg.mark}]]
    /\ UNCHANGED <<device, stop, saver, saves, crashes, attempts, passed, chosen>>

\* An error of MkdirAll or WriteFile, before or after the truncation.
SaveFails(w) ==
    /\ DiskFails
    /\ worker[w].pc \in {"open", "write"}
    /\ WriteFails(worker[w].pc)
    /\ worker' = [worker EXCEPT ![w] = Return(@)]
    /\ UNCHANGED <<device, stop, saver, saves, crashes, history>>

-----------------------------------------------------------------------------
(***************************************************************************)
(* SystemSmsForwardConfigHandler.  The page sends the last_id it knows, 0   *)
(* when it knows none: the stored one at some earlier time, or the newest   *)
(* id after it had the latest message sent.                                 *)
(***************************************************************************)
ConfigLoad ==
    /\ saver.pc = "idle"
    /\ saves < MaxSaves
    /\ saves' = saves + 1
    /\ \E mark \in 0..Latest(0), dest \in Dests :
          saver' = [pc |-> "open",
                    cfg |-> [mark |-> IF mark = 0 THEN file.mark ELSE mark, dest |-> dest]]
    /\ UNCHANGED <<device, file, stop, worker, crashes, history>>

ConfigOpen ==
    /\ saver.pc = "open"
    /\ file' = Empty
    /\ saver' = [saver EXCEPT !.pc = "write"]
    /\ UNCHANGED <<device, stop, worker, saves, crashes, history>>

\* The write, and the answer "ok".
ConfigWrite ==
    /\ saver.pc = "write"
    /\ Write(saver.cfg)
    /\ chosen' = saver.cfg.dest
    /\ passed' = Passes(saver.cfg.mark)
    /\ high' = Max({high, saver.cfg.mark})
    /\ saver' = [pc |-> "idle", cfg |-> Empty]
    /\ UNCHANGED <<device, stop, worker, saves, crashes, attempts>>

\* An error of MkdirAll or WriteFile, and the answer that says so.
ConfigFails ==
    /\ DiskFails
    /\ saver.pc \in {"open", "write"}
    /\ WriteFails(saver.pc)
    /\ saver' = [pc |-> "idle", cfg |-> Empty]
    /\ UNCHANGED <<device, stop, worker, saves, crashes, history>>

-----------------------------------------------------------------------------
\* The server process ends: its goroutines are gone, the file stays as it is.  Without
\* a goroutine nothing would change but the count.
Crash ==
    /\ crashes < MaxCrashes
    /\ saver.pc # "idle" \/ \E w \in Workers : worker[w].pc \notin {"new", "exited"}
    /\ crashes' = crashes + 1
    /\ stop' = None
    /\ worker' = [w \in Workers |-> IF worker[w].pc = "new" THEN NewWorker
                                    ELSE [NewWorker EXCEPT !.pc = "exited"]]
    /\ saver' = [pc |-> "idle", cfg |-> Empty]
    /\ UNCHANGED <<device, file, saves, history>>

PollStep(w) ==
    \/ PollLoad(w) \/ FetchBaseline(w) \/ FetchTargets(w)
    \/ Send(w) \/ Advance(w) \/ SaveOpen(w) \/ SaveWrite(w)

Fault(w) == FetchFails(w) \/ SaveFails(w)

Next ==
    \/ Arrive \/ Grow
    \/ \E w \in Workers : StartWorker(w) \/ Tick(w) \/ Exit(w) \/ PollStep(w) \/ Fault(w)
    \/ StopWorker
    \/ ConfigLoad \/ ConfigOpen \/ ConfigWrite \/ ConfigFails
    \/ Crash

\* The ticker fires again and again, every call of the worker and of a handler
\* returns (the push client has a timeout); the modem does not refuse to answer for
\* ever.
Fairness ==
    /\ WF_vars(ConfigOpen \/ ConfigWrite \/ ConfigFails)
    /\ \A w \in Workers :
          /\ WF_vars(Tick(w) \/ PollStep(w) \/ Fault(w))
          /\ SF_vars(FetchTargets(w))
          /\ SF_vars(FetchBaseline(w))

Spec == Init /\ [][Next]_vars

FairSpec == Spec /\ Fairness
-----------------------------------------------------------------------------
(***************************************************************************)
(* Properties                                                               *)
(***************************************************************************)

\* Every variable has its type, and a worker holds at most one batch per key.
TypeOK ==
    /\ num \in [Ids -> Numbers \cup {Blank, None}]
    /\ rev \in [Ids -> 0..MaxRev]
    /\ file \in Config
    /\ stop \in Workers \cup {None}
    /\ worker \in [Workers -> WorkerType]
    /\ saver \in [pc : {"idle", "open", "write"}, cfg : Config]
    /\ saves \in 0..MaxSaves
    /\ crashes \in 0..MaxCrashes
    /\ attempts \in [Ids -> 0..CountTo]
    /\ passed \subseteq Ids
    /\ chosen \in Dests
    /\ high \in 0..MaxId
    /\ \A w \in Workers : \A a, b \in worker[w].pending \cup worker[w].out :
          Key(a.id) = Key(b.id) => a = b

Newest(i) == i \in Arrived /\ \A j \in Arrived : Key(j) = Key(i) => j <= i

\* last_id never goes past a message that was neither pushed nor superseded by a
\* newer one of the same number (nor was in the inbox at the first poll, nor below
\* an id a browser saved): nextLastID waits for what is pending, whatever other
\* workers, browsers, failing writes and crashes do to the file in between.
NewestNeverSkipped ==
    \A i \in Ids : Newest(i) /\ i <= high => attempts[i] > 0 \/ i \in passed

\* A worker nobody has told to stop is the one that smsForwardStop stops: an old
\* worker that ends late does not leave a new one running without a way to stop it.
Stoppable ==
    \A w \in Workers :
        worker[w].pc \notin {"new", "exited"} /\ ~worker[w].closed => stop = w

\* While one worker runs and no browser saves the configuration, no message is
\* pushed twice, although last_id lags behind what was already pushed.
AtMostOnce == saves = 0 => \A i \in Ids : attempts[i] <= 1

\* While one worker runs and no browser saves the configuration, the inbox is taken
\* for old only once: a config.json that a failed write emptied is refused before its
\* last_id of 0 is looked at.
BaselineOnce == [][saves' = 0 /\ high > 0 => passed' = passed]_vars

Writing == saver.pc = "write" \/ \E w \in Workers : worker[w].pc = "write"

Lost == ~Valid(file) /\ ~Writing

\* Every message that arrives is pushed, superseded by a newer one of its number,
\* or passed over by the first last_id, unless forwarding is switched off, or a failed
\* write or two that overlapped have left a config.json that cannot be used.
EveryMessageHandled ==
    \A i \in Ids : num[i] # None ~>
        (attempts[i] > 0 \/ ~Newest(i) \/ i \in passed \/ stop = None \/ Lost)

\* What the page says after a save, "the configuration has been saved": once
\* answered, and while nobody is writing, the file names the saved target.
SavedConfigStays == ~Writing => file.dest = chosen
=============================================================================
