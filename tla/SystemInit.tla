----------------------------- MODULE SystemInit -----------------------------
(***************************************************************************)
(* One-time initialisation: the SysInit handler (sys_init.go) creates the   *)
(* rows of the database one by one, then rewrites the configuration file    *)
(* (config.go) and tells the built-in sshd to start (sshd_server.go,        *)
(* service_init.go).  The start of the server reads the file back.  The     *)
(* server may crash between any two writes; the rows are encrypted with the *)
(* AES secret of the configuration, which is random when there is no file.  *)
(***************************************************************************)
EXTENDS Naturals

CONSTANTS
    Requests,   \* concurrent SysInit handlers
    Names,      \* user names they ask for
    Dbs,        \* database files they ask for
    None,       \* no name, no database file
    MaxCrashes  \* bound on the crashes of the server

ASSUME NoneAssumption == None \notin Names \cup Dbs
ASSUME CrashAssumption == MaxCrashes \in Nat

VARIABLES
    mem,     \* config.DefaultConfig
    file,    \* GoWebSSH.toml
    db,      \* the rows of each database file
    cur,     \* the file behind model.Db
    req,     \* the SysInit handlers
    boot,    \* how far initApplication is
    app,     \* initApp's goroutine: about to read IsInit, to send the start signal, or past it
    sshd,    \* startSshServer's goroutine
    crashes, \* the crashes so far
    mixed,   \* history: overlapping SysInit requests named different database files
    unsent,  \* history: a SysInit of this process set IsInit and returned early
    late     \* history: a SysInit of this process set IsInit before initApp read it

vars == <<mem, file, db, cur, req, boot, app, sshd, crashes, mixed, unsent, late>>

Secrets == 0..MaxCrashes

Config == [isInit : BOOLEAN, secret : Secrets, db : Dbs \cup {None}]

\* What the package variable holds when a process starts: a random secret.
DefaultConfig(n) == [isInit |-> FALSE, secret |-> n, db |-> None]

\* A row is the secret it is encrypted with; no row, no secret.
Row == SUBSET Secrets

Rows == [users : [Names -> Row], sshdConf : Row, sshdUser : Row]

NoRows == [users |-> [n \in Names |-> {}], sshdConf |-> {}, sshdUser |-> {}]

\* The file is missing, or truncated and not yet written, or holds a
\* configuration.
Missing == [exists |-> FALSE, conf |-> {}]
Truncated == [exists |-> TRUE, conf |-> {}]
Holding(c) == [exists |-> TRUE, conf |-> {c}]

Handler ==
    [pc : {"idle", "migrate", "user", "policy", "sshdConf", "sshdUser", "conf",
           "remove", "open", "write", "sshConf", "send"},
     name : Names \cup {None}, db : Dbs \cup {None}]

IdleHandler == [pc |-> "idle", name |-> None, db |-> None]

At(r, pc) == req[r].pc = pc

Goto(r, pc) == req' = [req EXCEPT ![r].pc = pc]

Init ==
    /\ mem = DefaultConfig(0)
    /\ file = Missing
    /\ db = [d \in Dbs |-> NoRows]
    /\ cur = None
    /\ req = [r \in Requests |-> IdleHandler]
    /\ boot = "config"
    /\ app = "off"
    /\ sshd = "off"
    /\ crashes = 0
    /\ mixed = FALSE
    /\ unsent = FALSE
    /\ late = FALSE

-----------------------------------------------------------------------------
(***************************************************************************)
(* initApplication.  os.WriteFile truncates, then writes.  InitConfig just  *)
(* returns at an error, and the start goes on with what is in memory.       *)
(***************************************************************************)
Startup(from, to) ==
    /\ boot = from
    /\ boot' = to
    /\ UNCHANGED <<db, req, crashes, mixed, unsent, late>>

ConfigStep(from, to) ==
    /\ Startup(from, to)
    /\ UNCHANGED <<cur, app, sshd>>

BootMissing ==
    /\ ConfigStep("config", "default")
    /\ file = Missing
    /\ file' = Truncated
    /\ UNCHANGED mem

BootDefault ==
    /\ ConfigStep("default", "config")
    /\ file' = Holding(mem)
    /\ UNCHANGED mem

\* Mutation: an empty file gives an empty configuration.
BootReadBug(fix) ==
    /\ ConfigStep("config", fix)
    /\ file.exists
    /\ mem' = IF file = Truncated THEN None ELSE CHOOSE c \in file.conf : TRUE
    /\ UNCHANGED file

\* An empty file unmarshals to nothing and leaves the defaults in place.  Then
\* WebBaseDir is compared with the command line ("fix" when it differs).
BootRead(fix) ==
    /\ ConfigStep("config", fix)
    /\ file.exists
    /\ \/ file = Truncated /\ UNCHANGED mem
       \/ \E c \in file.conf : mem' = c
    /\ UNCHANGED file

BootFixOpen ==
    /\ ConfigStep("fix", "fixWrite")
    /\ file' = Truncated
    /\ UNCHANGED mem

BootFixWrite ==
    /\ ConfigStep("fixWrite", "database")
    /\ file' = Holding(mem)
    /\ UNCHANGED mem

\* The file cannot be read, or a write fails before or after it truncated the file.
BootConfigFails ==
    /\ boot \in {"config", "default", "fix", "fixWrite"}
    /\ ConfigStep(boot, "database")
    /\ UNCHANGED <<mem, file>>

\* Mutation: the signal is left to SysInit.
BootDatabaseBug ==
    /\ Startup("database", "up")
    /\ cur' = IF mem.isInit THEN mem.db ELSE None
    /\ app' = "loop"
    /\ sshd' = "wait"
    /\ UNCHANGED <<mem, file>>

\* InitDatabase, InitSessionClean and InitSshServer.
BootDatabase ==
    /\ Startup("database", "up")
    /\ cur' = IF mem.isInit THEN mem.db ELSE None
    /\ app' = "check"
    /\ sshd' = "wait"
    /\ UNCHANGED <<mem, file>>

\* initApp, in a goroutine of its own, reads IsInit when it gets to run.
AppChecks ==
    /\ app = "check"
    /\ app' = IF mem.isInit THEN "send" ELSE "loop"
    /\ UNCHANGED <<mem, file, db, cur, req, boot, sshd, crashes, mixed, unsent, late>>

-----------------------------------------------------------------------------
(***************************************************************************)
(* SysInit.  A handler returns at the first error ("Return"); the rows it   *)
(* has created stay.                                                        *)
(***************************************************************************)
InitStep == UNCHANGED <<boot, app, crashes, late>>

\* Mutation: the check of IsInit is missing.
SysInitBug(r, name, d) ==
    /\ boot = "up"
    /\ At(r, "idle")
    /\ req' = [req EXCEPT ![r] = [pc |-> "migrate", name |-> name, db |-> d]]
    /\ mixed' = (mixed \/ \E q \in Requests : ~At(q, "idle") /\ req[q].db # d)
    /\ InitStep
    /\ UNCHANGED <<mem, file, db, cur, sshd, unsent>>

SysInit(r, name, d) ==
    /\ boot = "up"
    /\ At(r, "idle")
    /\ ~mem.isInit
    /\ req' = [req EXCEPT ![r] = [pc |-> "migrate", name |-> name, db |-> d]]
    /\ mixed' = (mixed \/ \E q \in Requests : ~At(q, "idle") /\ req[q].db # d)
    /\ InitStep
    /\ UNCHANGED <<mem, file, db, cur, sshd, unsent>>

\* DbConnTestCheck and DbMigrate, which sets the global handle.
DbMigrate(r) ==
    /\ At(r, "migrate")
    /\ Goto(r, "user")
    /\ cur' = req[r].db
    /\ InitStep
    /\ UNCHANGED <<mem, file, db, sshd, mixed, unsent>>

Create(r, pc, next) ==
    /\ At(r, pc)
    /\ Goto(r, next)
    /\ InitStep
    /\ UNCHANGED <<mem, file, cur, sshd, mixed, unsent>>

\* The name is unique.
CreateUser(r) ==
    /\ Create(r, "user", "policy")
    /\ db[cur].users[req[r].name] = {}
    /\ db' = [db EXCEPT ![cur].users[req[r].name] = {mem.secret}]

\* The network policy and the new host key.
CreatePolicy(r) ==
    /\ Create(r, "policy", "sshdConf")
    /\ UNCHANGED db

\* Mutation: a row that is there already is kept and good enough.
CreateSshdConfBug(r) ==
    /\ Create(r, "sshdConf", "sshdUser")
    /\ db' = [db EXCEPT ![cur].sshdConf = IF @ = {} THEN {mem.secret} ELSE @]

\* The row has id 1.
CreateSshdConf(r) ==
    /\ Create(r, "sshdConf", "sshdUser")
    /\ db[cur].sshdConf = {}
    /\ db' = [db EXCEPT ![cur].sshdConf = {mem.secret}]

\* So has this one.
CreateSshdUser(r) ==
    /\ Create(r, "sshdUser", "conf")
    /\ db[cur].sshdUser = {}
    /\ db' = [db EXCEPT ![cur].sshdUser = {mem.secret}]

\* RewriteConfig changes the variable first, then removes and writes the file.
NewConf(r) == [isInit |-> TRUE, secret |-> mem.secret, db |-> req[r].db]

SetConf(r) ==
    /\ At(r, "conf")
    /\ Goto(r, "remove")
    /\ mem' = NewConf(r)
    /\ late' = (late \/ app = "check")
    /\ UNCHANGED <<file, db, cur, boot, app, sshd, crashes, mixed, unsent>>

RewriteStep(r, pc, next) ==
    /\ At(r, pc)
    /\ Goto(r, next)
    /\ InitStep
    /\ UNCHANGED <<mem, db, cur, sshd, mixed, unsent>>

RemoveFile(r) ==
    /\ RewriteStep(r, "remove", "open")
    /\ file.exists
    /\ file' = Missing

OpenFile(r) ==
    /\ RewriteStep(r, "open", "write")
    /\ file' = Truncated

WriteFile(r) ==
    /\ RewriteStep(r, "write", "sshConf")
    /\ file' = Holding(NewConf(r))

\* The stored connection to the built-in sshd.
CreateSshConf(r) ==
    /\ Create(r, "sshConf", "send")
    /\ UNCHANGED db

\* An error at any of these steps, a row that exists already among them.
Return(r) ==
    /\ ~At(r, "idle")
    /\ ~At(r, "send")
    /\ req' = [req EXCEPT ![r] = IdleHandler]
    /\ unsent' = (unsent \/ req[r].pc \in {"remove", "open", "write", "sshConf"})
    /\ InitStep
    /\ UNCHANGED <<mem, file, db, cur, sshd, mixed>>

-----------------------------------------------------------------------------
(***************************************************************************)
(* isStartSshd is unbuffered, and startSshServer receives from it once.     *)
(***************************************************************************)
SignalByInit(r) ==
    /\ At(r, "send")
    /\ sshd = "wait"
    /\ req' = [req EXCEPT ![r] = IdleHandler]
    /\ sshd' = "find"
    /\ InitStep
    /\ UNCHANGED <<mem, file, db, cur, mixed, unsent>>

SignalByApp ==
    /\ app = "send"
    /\ sshd = "wait"
    /\ app' = "loop"
    /\ sshd' = "find"
    /\ UNCHANGED <<mem, file, db, cur, req, boot, crashes, mixed, unsent, late>>

\* FindByID(1), NewServer with the decrypted key, Listen: any may fail.
SshdFind ==
    /\ sshd = "find"
    /\ sshd' \in IF db[cur].sshdConf = {mem.secret} THEN {"serving", "failed"}
                                                    ELSE {"failed"}
    /\ UNCHANGED <<mem, file, db, cur, req, boot, app, crashes, mixed, unsent, late>>

\* The process ends at any point and is started again.
Crash ==
    /\ crashes < MaxCrashes
    /\ crashes' = crashes + 1
    /\ mem' = DefaultConfig(crashes + 1)
    /\ cur' = None
    /\ req' = [r \in Requests |-> IdleHandler]
    /\ boot' = "config"
    /\ app' = "off"
    /\ sshd' = "off"
    /\ unsent' = FALSE
    /\ late' = FALSE
    /\ UNCHANGED <<file, db, mixed>>

-----------------------------------------------------------------------------
BootStep ==
    \/ BootMissing
    \/ BootDefault
    \/ \E fix \in {"fix", "database"} : BootRead(fix)
    \/ BootFixOpen
    \/ BootFixWrite
    \/ BootConfigFails
    \/ BootDatabase

HandlerStep(r) ==
    \/ DbMigrate(r)
    \/ CreateUser(r)
    \/ CreatePolicy(r)
    \/ CreateSshdConf(r)
    \/ CreateSshdUser(r)
    \/ SetConf(r)
    \/ RemoveFile(r)
    \/ OpenFile(r)
    \/ WriteFile(r)
    \/ CreateSshConf(r)
    \/ Return(r)
    \/ SignalByInit(r)

Next ==
    \/ BootStep
    \/ \E r \in Requests, n \in Names, d \in Dbs : SysInit(r, n, d)
    \/ \E r \in Requests : HandlerStep(r)
    \/ AppChecks
    \/ SignalByApp
    \/ SshdFind
    \/ Crash

Spec == Init /\ [][Next]_vars
-----------------------------------------------------------------------------
(***************************************************************************)
(* Properties                                                               *)
(***************************************************************************)

\* Every variable has its type; rows are written only through an open database.
TypeOK ==
    /\ mem \in Config
    /\ file \in {Missing, Truncated} \cup {Holding(c) : c \in Config}
    /\ db \in [Dbs -> Rows]
    /\ cur \in Dbs \cup {None}
    /\ req \in [Requests -> Handler]
    /\ boot \in {"config", "default", "fix", "fixWrite", "database", "up"}
    /\ app \in {"off", "check", "send", "loop"}
    /\ sshd \in {"off", "wait", "find", "serving", "failed"}
    /\ crashes \in 0..MaxCrashes
    /\ mixed \in BOOLEAN
    /\ unsent \in BOOLEAN
    /\ late \in BOOLEAN
    /\ \A r \in Requests : req[r].pc \notin {"idle", "migrate"} => cur \in Dbs

Readable(d, secret) ==
    /\ \E n \in Names : db[d].users[n] = {secret}
    /\ db[d].sshdConf = {secret}
    /\ db[d].sshdUser = {secret}

\* A system that calls itself initialised, in memory or in the file that the
\* next start reads, can be used: its database holds an administrator, the sshd
\* configuration and the sshd account, and all of them are encrypted with the
\* secret of that very configuration, whatever crashes, lost configuration files
\* and repeated or concurrent SysInit requests came before.  Requests that name
\* different database files must not overlap (model.Db is one variable).
InitialisedIsUsable ==
    ~mixed => /\ mem.isInit => Readable(mem.db, mem.secret)
              /\ \A c \in file.conf : c.isInit => Readable(c.db, c.secret)

Senders == {r \in Requests : At(r, "send")}

Committed == {r \in Requests : req[r].pc \in {"remove", "open", "write", "sshConf"}}

\* Nobody blocks for ever on the unbuffered start signal, although it is received
\* only once: whoever is about to send it, a SysInit handler (of which several
\* may have passed the IsInit check) or initApp, which would then never clean a
\* session, finds startSshServer waiting and has no competitor.  The exceptions are
\* requests that name different database files and an initApp that reads IsInit only
\* after a SysInit of the same process has set it: that one sends a second time.
SignalTaken ==
    ~mixed /\ ~late => /\ (Senders # {} \/ app = "send") => sshd = "wait"
                       /\ \A r, q \in Senders : r = q
                       /\ Senders # {} => app # "send"

\* The start signal is not forgotten either: while an initialised system has no
\* sshd yet, a handler or initApp is on its way to send it, or a handler gave up
\* after it had set IsInit and the next start of the server makes up for it.
SignalPending ==
    (boot = "up" /\ mem.isInit /\ sshd = "wait")
        => Senders # {} \/ Committed # {} \/ app \in {"check", "send"} \/ unsent
=============================================================================
