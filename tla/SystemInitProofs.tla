-------------------------- MODULE SystemInitProofs --------------------------
(***************************************************************************)
(* Proofs about SystemInit for any number of requests, names, database      *)
(* files and crashes.                                                       *)
(***************************************************************************)
EXTENDS SystemInit, TLAPS

\* The places of a handler behind each of the three rows it creates.
HasUser == {"policy", "sshdConf", "sshdUser", "conf", "remove", "open", "write",
            "sshConf", "send"}
HasConf == {"sshdUser", "conf", "remove", "open", "write", "sshConf", "send"}
HasAll == {"conf", "remove", "open", "write", "sshConf", "send"}
Announced == {"remove", "open", "write", "sshConf", "send"}

\* A running handler has its parameters.
HandlersOK ==
    \A r \in Requests : ~At(r, "idle") => req[r].name \in Names /\ req[r].db \in Dbs

\* Nothing runs before the start is complete.
BootOK ==
    /\ boot # "up" => (\A r \in Requests : At(r, "idle")) /\ app = "off" /\ sshd = "off"
    /\ boot = "up" => sshd # "off"

\* initApp sends only what it has read, and unless SysInit came before it, only when no
\* handler ever runs in this process.
AppOK ==
    /\ app = "send" => boot = "up" /\ mem.isInit
    /\ ~late /\ (app = "send" \/ (app = "check" /\ mem.isInit))
         => sshd = "wait" /\ \A r \in Requests : At(r, "idle")

\* IsInit stays set from RewriteConfig on.
AnnouncedOK == \A r \in Requests : req[r].pc \in Announced => mem.isInit

\* Overlapping handlers work on the same database file, which is the open one.
SameDb ==
    \A r, q \in Requests : ~At(r, "idle") /\ ~At(q, "idle") => req[r].db = req[q].db

CurOK == \A r \in Requests : req[r].pc \notin {"idle", "migrate"} => cur = req[r].db

\* The rows a handler has created are there, under the secret in memory.
RowsOK ==
    \A r \in Requests :
        /\ req[r].pc \in HasUser => db[req[r].db].users[req[r].name] = {mem.secret}
        /\ req[r].pc \in HasConf => db[req[r].db].sshdConf = {mem.secret}
        /\ req[r].pc \in HasAll => db[req[r].db].sshdUser = {mem.secret}

\* Row 1 can be created only once.
OneConf == \A r, q \in Requests : req[r].pc \in HasConf /\ req[q].pc \in HasConf => r = q

\* Once IsInit is set, handlers that passed the check before cannot create it.
BarredOK ==
    mem.isInit => \A r \in Requests : ~At(r, "idle") => db[req[r].db].sshdConf # {}

\* Once the signal was received, nobody comes to send it again.
StartedOK ==
    ~late /\ sshd \in {"find", "serving", "failed"}
        => mem.isInit /\ \A r \in Requests : req[r].pc \notin HasConf

UsableOK ==
    /\ mem.isInit => Readable(mem.db, mem.secret)
    /\ \A c \in file.conf : c.isInit => Readable(c.db, c.secret)

\* What holds as long as overlapping requests name the same database file.
Unmixed == SameDb /\ CurOK /\ RowsOK /\ OneConf /\ BarredOK /\ StartedOK /\ UsableOK

\* A configuration that says "initialised" names a database file.
NamesDb == /\ mem.isInit => mem.db \in Dbs
           /\ \A c \in file.conf : c.isInit => c.db \in Dbs

\* What holds in any case.
Base == TypeOK /\ HandlersOK /\ BootOK /\ AppOK /\ AnnouncedOK /\ NamesDb

IInv == Base /\ SignalPending /\ (~mixed => Unmixed)
-----------------------------------------------------------------------------
(***************************************************************************)
(* Helpers.                                                                 *)
(***************************************************************************)
Files == {Missing, Truncated} \cup {Holding(c) : c \in Config}

\* The three kinds of content of the file.
LEMMA FileConf ==
  /\ Missing.conf = {} /\ Truncated.conf = {}
  /\ \A c : Holding(c).conf = {c}
  BY DEF Missing, Truncated, Holding

\* No row that is there is ever changed.
RowsKept ==
    \A d \in Dbs :
        /\ \A n \in Names : db[d].users[n] # {} => db'[d].users[n] = db[d].users[n]
        /\ db[d].sshdConf # {} => db'[d].sshdConf = db[d].sshdConf
        /\ db[d].sshdUser # {} => db'[d].sshdUser = db[d].sshdUser

ReadableIn(rows, k) ==
    /\ \E n \in Names : rows.users[n] = {k}
    /\ rows.sshdConf = {k}
    /\ rows.sshdUser = {k}

\* What could be read can be read.
LEMMA StaysReadable ==
  ASSUME RowsKept, NEW d \in Dbs, NEW k, Readable(d, k)
  PROVE  Readable(d, k)'
<1>1. {k} # {}
  OBVIOUS
<1> QED
  BY <1>1 DEF RowsKept, Readable

\* A configuration that is neither changed nor joined by another stays usable.
LEMMA StaysUsable ==
  ASSUME NamesDb, UsableOK, RowsKept, mem' = mem, file'.conf \subseteq file.conf
  PROVE  UsableOK'
<1>1. \A d \in Dbs : \A k : Readable(d, k) => Readable(d, k)'
  BY StaysReadable
<1>2. mem.isInit => mem.db \in Dbs /\ Readable(mem.db, mem.secret)
  BY DEF NamesDb, UsableOK
<1>3. \A c \in file.conf : c.isInit => c.db \in Dbs /\ Readable(c.db, c.secret)
  BY DEF NamesDb, UsableOK
<1>4. \A d : \A k : Readable(d, k)' <=> ReadableIn(db'[d], k)
  BY DEF Readable, ReadableIn
<1>5. \A c \in file'.conf : c.isInit => ReadableIn(db'[c.db], c.secret)
  BY <1>1, <1>3, <1>4
<1>6. mem'.isInit => ReadableIn(db'[mem'.db], mem'.secret)
  BY <1>1, <1>2, <1>4
<1> QED
  BY <1>5, <1>6 DEF UsableOK, Readable, ReadableIn

\* The rows as they were.
LEMMA SameRows ==
  ASSUME db' = db
  PROVE  RowsKept
  BY DEF RowsKept

-----------------------------------------------------------------------------
(***************************************************************************)
(* The start.                                                               *)
(***************************************************************************)

\* Before the start is complete only memory and file matter.
LEMMA BootFrame ==
  ASSUME IInv, boot # "up", boot' \in {"config", "default", "fix", "fixWrite", "database"},
         UNCHANGED <<db, req, crashes, mixed, unsent, late, cur, app, sshd>>,
         mem' \in Config, file' \in Files, NamesDb', ~mixed => UsableOK'
  PROVE  IInv'
<1>1. \A r \in Requests : req'[r] = req[r] /\ req[r].pc = "idle"
  BY DEF IInv, Base, BootOK, At
<1>2. Base'
  BY <1>1 DEF IInv, Base, TypeOK, HandlersOK, BootOK, AppOK, AnnouncedOK, Announced, At,
     Files
<1>3. SignalPending'
  BY DEF SignalPending
<1>4. ~mixed' => Unmixed'
  BY <1>1 DEF Unmixed, SameDb, CurOK, RowsOK, OneConf, BarredOK, StartedOK, At,
     HasUser, HasConf, HasAll, IInv, Base, BootOK
<1> QED
  BY <1>2, <1>3, <1>4 DEF IInv

\* The configuration file at the start.
LEMMA BootConfigInv ==
  ASSUME IInv,
         \/ BootMissing \/ BootDefault \/ BootFixOpen \/ BootFixWrite \/ BootConfigFails
         \/ \E fix \in {"fix", "database"} : BootRead(fix)
  PROVE  IInv'
<1>1. /\ boot # "up"
      /\ boot' \in {"config", "default", "fix", "fixWrite", "database"}
      /\ UNCHANGED <<db, req, crashes, mixed, unsent, late, cur, app, sshd>>
  BY DEF BootMissing, BootDefault, BootFixOpen, BootFixWrite, BootConfigFails, BootRead,
     ConfigStep, Startup
<1>2. /\ mem' = mem \/ mem' \in file.conf
      /\ file' \in {file, Truncated, Holding(mem)}
  BY DEF BootMissing, BootDefault, BootFixOpen, BootFixWrite, BootConfigFails, BootRead
<1>3. mem \in Config /\ file \in Files /\ NamesDb
  BY DEF IInv, Base, TypeOK, Files
<1>4. file.conf \subseteq Config
  BY <1>3, FileConf DEF Files
<1>5. file'.conf \subseteq file.conf \cup {mem}
  BY <1>2, FileConf
<1>6. mem' \in Config /\ file' \in Files
  BY <1>2, <1>3, <1>4 DEF Files
<1>7. NamesDb'
  BY <1>2, <1>3, <1>5 DEF NamesDb
<1>8. ~mixed => UsableOK'
  <2> SUFFICES ASSUME UsableOK
               PROVE  UsableOK'
    BY DEF IInv, Unmixed
  <2>1. \A d, k : Readable(d, k)' = Readable(d, k)
    BY <1>1 DEF Readable
  <2> QED
    BY <1>2, <1>5, <2>1 DEF UsableOK
<1> QED
  BY <1>1, <1>6, <1>7, <1>8, BootFrame

\* The database is opened and the goroutines are started.
LEMMA BootDatabaseInv ==
  ASSUME IInv, BootDatabase
  PROVE  IInv'
<1>1. /\ boot = "database" /\ boot' = "up" /\ sshd' = "wait"
      /\ UNCHANGED <<db, req, crashes, mixed, unsent, late, mem, file>>
      /\ app' = "check"
      /\ cur' = IF mem.isInit THEN mem.db ELSE None
  BY DEF BootDatabase, Startup
<1>2. \A r \in Requests : req'[r] = req[r] /\ req[r].pc = "idle"
  BY <1>1 DEF IInv, Base, BootOK, At
<1>3. Base'
  BY <1>1, <1>2 DEF IInv, Base, TypeOK, Config, HandlersOK, BootOK, AppOK, AnnouncedOK,
     Announced, NamesDb, At
<1>4. SignalPending'
  BY <1>1 DEF SignalPending
<1>5. ~mixed' => Unmixed'
  <2>1. UsableOK => UsableOK'
    BY <1>1, StaysUsable, SameRows DEF IInv, Base
  <2> QED
    BY <1>1, <1>2, <2>1 DEF IInv, Unmixed, SameDb, CurOK, RowsOK, OneConf, BarredOK,
       StartedOK, At, HasUser, HasConf, HasAll
<1> QED
  BY <1>3, <1>4, <1>5 DEF IInv

-----------------------------------------------------------------------------
(***************************************************************************)
(* SysInit.                                                                 *)
(***************************************************************************)
Places == {"idle", "migrate", "user", "policy", "sshdConf", "sshdUser", "conf",
           "remove", "open", "write", "sshConf", "send"}

\* A handler that goes on keeps its parameters and leaves the others alone.
LEMMA Goes ==
  ASSUME TypeOK, NEW r \in Requests, NEW next \in Places, Goto(r, next)
  PROVE  /\ req' \in [Requests -> Handler]
         /\ \A q \in Requests : q # r => req'[q] = req[q]
         /\ req'[r].pc = next /\ req'[r].name = req[r].name /\ req'[r].db = req[r].db
<1>1. req \in [Requests -> Handler] /\ req' = [req EXCEPT ![r].pc = next]
  BY DEF TypeOK, Goto
<1>2. /\ \A q \in Requests : q # r => req'[q] = req[q]
      /\ req'[r] = [req[r] EXCEPT !.pc = next]
  BY <1>1
<1>3. req[r] \in Handler
  BY <1>1
<1>4. /\ req'[r] \in Handler
      /\ req'[r].pc = next /\ req'[r].name = req[r].name /\ req'[r].db = req[r].db
  BY <1>2, <1>3 DEF Handler, Places
<1> QED
  BY <1>1, <1>2, <1>4

\* The steps that create no row the proof is about, and change no memory.
LEMMA Move ==
  ASSUME IInv, NEW r \in Requests, NEW next \in Places, Goto(r, next),
         ~At(r, "idle"), ~At(r, "migrate"), next # "idle", next # "migrate",
         req[r].pc \in HasUser <=> next \in HasUser,
         req[r].pc \in HasConf <=> next \in HasConf,
         req[r].pc \in HasAll <=> next \in HasAll,
         req[r].pc \in Announced <=> next \in Announced,
         UNCHANGED <<boot, app, crashes, late, mem, db, cur, sshd, mixed, unsent>>,
         file' \in Files,
         file'.conf \subseteq file.conf \cup {c \in {NewConf(r)} : next \in Announced}
  PROVE  IInv'
<1>1. /\ req' \in [Requests -> Handler]
      /\ \A q \in Requests : q # r => req'[q] = req[q]
      /\ req'[r].pc = next /\ req'[r].name = req[r].name /\ req'[r].db = req[r].db
  BY Goes DEF IInv, Base
<1>2. \A q \in Requests :
        /\ req'[q].name = req[q].name /\ req'[q].db = req[q].db
        /\ req'[q].pc = "idle" <=> req[q].pc = "idle"
        /\ req'[q].pc \in {"idle", "migrate"} <=> req[q].pc \in {"idle", "migrate"}
        /\ req'[q].pc \in HasUser <=> req[q].pc \in HasUser
        /\ req'[q].pc \in HasConf <=> req[q].pc \in HasConf
        /\ req'[q].pc \in HasAll <=> req[q].pc \in HasAll
        /\ req'[q].pc \in Announced <=> req[q].pc \in Announced
  BY <1>1 DEF At
<1>3. NewConf(r).db = req[r].db /\ NewConf(r).secret = mem.secret
  BY DEF NewConf
<1>4. req[r].db \in Dbs
  BY DEF IInv, Base, HandlersOK
<1>5. TypeOK'
  BY <1>1, <1>2 DEF IInv, Base, TypeOK, Files
<1>6. HandlersOK' /\ BootOK' /\ AppOK' /\ AnnouncedOK'
  BY <1>2 DEF IInv, Base, HandlersOK, BootOK, AppOK, AnnouncedOK, At
<1>7. NamesDb'
  BY <1>3, <1>4 DEF IInv, Base, NamesDb
<1>8. SignalPending'
  <2>1. (Senders # {} \/ Committed # {}) <=> \E q \in Requests : req[q].pc \in Announced
    BY DEF Senders, Committed, Announced, At
  <2>2. (Senders # {} \/ Committed # {})' <=> \E q \in Requests : req'[q].pc \in Announced
    BY DEF Senders, Committed, Announced, At
  <2> QED
    BY <1>2, <2>1, <2>2 DEF IInv, SignalPending
<1>9. ~mixed' => Unmixed'
  <2> SUFFICES ASSUME Unmixed
               PROVE  Unmixed'
    BY DEF IInv
  <2>1. SameDb' /\ CurOK' /\ OneConf' /\ BarredOK' /\ StartedOK'
    BY <1>2 DEF Unmixed, SameDb, CurOK, OneConf, BarredOK, StartedOK, At
  <2>2. RowsOK'
    BY <1>2 DEF Unmixed, RowsOK
  <2>3. next \in Announced => Readable(req[r].db, mem.secret)
    BY DEF Unmixed, RowsOK, Readable, HasUser, HasConf, HasAll, Announced, IInv, Base,
       HandlersOK
  <2>4. UsableOK'
    BY <1>3, <2>3 DEF Unmixed, UsableOK, Readable
  <2> QED
    BY <2>1, <2>2, <2>4 DEF Unmixed
<1> QED
  BY <1>5, <1>6, <1>7, <1>8, <1>9 DEF IInv, Base

LEMMA RewriteInv ==
  ASSUME IInv, NEW r \in Requests,
         \/ CreatePolicy(r) \/ RemoveFile(r) \/ OpenFile(r) \/ WriteFile(r)
         \/ CreateSshConf(r)
  PROVE  IInv'
<1>0. mem \in Config /\ file \in Files
  BY DEF IInv, Base, TypeOK, Files
<1>1. CASE CreatePolicy(r)
  BY <1>0, <1>1, Move DEF CreatePolicy, Create, InitStep, At, Places, HasUser, HasConf,
     HasAll, Announced
<1>2. CASE RemoveFile(r)
  BY <1>0, <1>2, Move, FileConf DEF RemoveFile, RewriteStep, InitStep, At, Places, HasUser,
     HasConf, HasAll, Announced, Files
<1>3. CASE OpenFile(r)
  BY <1>0, <1>3, Move, FileConf DEF OpenFile, RewriteStep, InitStep, At, Places, HasUser,
     HasConf, HasAll, Announced, Files
<1>4. CASE WriteFile(r)
  <2>1. NewConf(r) \in Config
    <3>1. ~At(r, "idle")
      BY <1>4 DEF WriteFile, RewriteStep, At
    <3> QED
      BY <1>0, <3>1 DEF NewConf, Config, IInv, Base, HandlersOK
  <2>2. file' = Holding(NewConf(r))
    BY <1>4 DEF WriteFile
  <2> HIDE DEF NewConf
  <2>3. file' \in Files /\ file'.conf = {NewConf(r)}
    BY <2>1, <2>2, FileConf DEF Files
  <2> QED
    BY <1>4, <2>3, Move DEF WriteFile, RewriteStep, InitStep, At, Places, HasUser,
       HasConf, HasAll, Announced
<1>5. CASE CreateSshConf(r)
  BY <1>0, <1>5, Move DEF CreateSshConf, Create, InitStep, At, Places, HasUser, HasConf,
     HasAll, Announced
<1> QED
  BY <1>1, <1>2, <1>3, <1>4, <1>5

\* A new row: the handler was in front of it and is behind it now.
LEMMA Grow ==
  ASSUME IInv, NEW r \in Requests, NEW next \in Places, Goto(r, next),
         ~At(r, "idle"), ~At(r, "migrate"), next # "idle", next # "migrate",
         req[r].pc \notin Announced, next \notin Announced,
         UNCHANGED <<boot, app, crashes, late, mem, file, cur, sshd, mixed, unsent>>,
         db' \in [Dbs -> Rows], RowsKept,
         ~mixed /\ next \in HasUser => db'[cur].users[req[r].name] = {mem.secret},
         ~mixed /\ next \in HasConf => /\ db'[cur].sshdConf = {mem.secret}
                                       /\ req[r].pc \in HasConf \/ db[cur].sshdConf = {},
         ~mixed /\ next \in HasAll => db'[cur].sshdUser = {mem.secret}
  PROVE  IInv'
<1>1. /\ req' \in [Requests -> Handler]
      /\ \A q \in Requests : q # r => req'[q] = req[q]
      /\ req'[r].pc = next /\ req'[r].name = req[r].name /\ req'[r].db = req[r].db
  BY Goes DEF IInv, Base
<1>2. \A q \in Requests :
        /\ req'[q].name = req[q].name /\ req'[q].db = req[q].db
        /\ req'[q].pc = "idle" <=> req[q].pc = "idle"
        /\ req'[q].pc \in {"idle", "migrate"} <=> req[q].pc \in {"idle", "migrate"}
        /\ req'[q].pc \in Announced <=> req[q].pc \in Announced
  BY <1>1 DEF At
<1>3. \A q \in Requests :
        ~At(q, "idle") => req[q].db \in Dbs /\ req[q].name \in Names
  BY DEF IInv, Base, HandlersOK
<1>5. TypeOK'
  BY <1>1, <1>2 DEF IInv, Base, TypeOK
<1>6. HandlersOK' /\ BootOK' /\ AppOK' /\ AnnouncedOK' /\ NamesDb'
  BY <1>2 DEF IInv, Base, HandlersOK, BootOK, AppOK, AnnouncedOK, NamesDb, At
<1>8. SignalPending'
  <2>1. (Senders # {} \/ Committed # {}) <=> \E q \in Requests : req[q].pc \in Announced
    BY DEF Senders, Committed, Announced, At
  <2>2. (Senders # {} \/ Committed # {})' <=> \E q \in Requests : req'[q].pc \in Announced
    BY DEF Senders, Committed, Announced, At
  <2> QED
    BY <1>2, <2>1, <2>2 DEF IInv, SignalPending
<1>9. ~mixed' => Unmixed'
  <2> SUFFICES ASSUME Unmixed, ~mixed
               PROVE  Unmixed'
    BY DEF IInv
  <2>0. cur = req[r].db /\ cur \in Dbs
    BY <1>3 DEF Unmixed, CurOK, At
  <2>1. SameDb' /\ CurOK'
    BY <1>2 DEF Unmixed, SameDb, CurOK, At
  <2>2. RowsOK'
    <3> SUFFICES ASSUME NEW q \in Requests
                 PROVE  /\ req'[q].pc \in HasUser
                            => db'[req'[q].db].users[req'[q].name] = {mem.secret}
                        /\ req'[q].pc \in HasConf
                            => db'[req'[q].db].sshdConf = {mem.secret}
                        /\ req'[q].pc \in HasAll
                            => db'[req'[q].db].sshdUser = {mem.secret}
      BY DEF RowsOK
    <3>1. CASE q = r
      BY <1>1, <2>0, <3>1
    <3>2. CASE q # r
      <4>1. req'[q] = req[q]
        BY <1>1, <3>2
      <4>2. req[q].pc \in HasUser \cup HasConf \cup HasAll
              => req[q].db \in Dbs /\ req[q].name \in Names
        BY <1>3 DEF At, HasUser, HasConf, HasAll
      <4>3. {mem.secret} # {}
        OBVIOUS
      <4>4. /\ req[q].pc \in HasUser => db[req[q].db].users[req[q].name] = {mem.secret}
            /\ req[q].pc \in HasConf => db[req[q].db].sshdConf = {mem.secret}
            /\ req[q].pc \in HasAll => db[req[q].db].sshdUser = {mem.secret}
        BY DEF Unmixed, RowsOK
      <4>5. req[q].pc \in HasUser => db'[req[q].db].users[req[q].name] = {mem.secret}
        BY <4>2, <4>3, <4>4 DEF RowsKept
      <4>6. req[q].pc \in HasConf => db'[req[q].db].sshdConf = {mem.secret}
        BY <4>2, <4>3, <4>4 DEF RowsKept
      <4>7. req[q].pc \in HasAll => db'[req[q].db].sshdUser = {mem.secret}
        BY <4>2, <4>3, <4>4 DEF RowsKept
      <4> QED
        BY <4>1, <4>5, <4>6, <4>7
    <3> QED
      BY <3>1, <3>2
  <2>3. \A q \in Requests : req[q].pc \in HasConf => db[req[q].db].sshdConf # {}
    BY DEF Unmixed, RowsOK
  <2>4. next \in HasConf /\ req[r].pc \notin HasConf =>
            /\ \A q \in Requests : req[q].pc \notin HasConf
            /\ ~mem.isInit
    <3>1. \A q \in Requests : req[q].pc \in HasConf => req[q].db = req[r].db
      BY DEF Unmixed, SameDb, At, HasConf
    <3> QED
      BY <2>0, <2>3, <3>1 DEF Unmixed, BarredOK
  <2>5. OneConf'
    BY <1>1, <2>4 DEF Unmixed, OneConf
  <2>6. BarredOK'
    BY <1>2, <1>3 DEF Unmixed, BarredOK, RowsKept, At
  <2>7. StartedOK'
    BY <1>1, <2>4 DEF Unmixed, StartedOK
  <2>8. UsableOK'
    BY StaysUsable DEF Unmixed, IInv, Base
  <2> QED
    BY <2>1, <2>2, <2>5, <2>6, <2>7, <2>8 DEF Unmixed
<1> QED
  BY <1>5, <1>6, <1>8, <1>9 DEF IInv, Base

\* What the assignment to one of the rows of a database leaves alone.
LEMMA UserRow ==
  ASSUME NEW x \in Rows, NEW u \in [Names -> Row], NEW y, y = [x EXCEPT !.users = u]
  PROVE  /\ y \in Rows /\ y.users = u
         /\ y.sshdConf = x.sshdConf /\ y.sshdUser = x.sshdUser
  BY DEF Rows

LEMMA SshdConfRow ==
  ASSUME NEW x \in Rows, NEW k \in Row, NEW y, y = [x EXCEPT !.sshdConf = k]
  PROVE  y \in Rows /\ y.users = x.users /\ y.sshdConf = k /\ y.sshdUser = x.sshdUser
  BY DEF Rows

LEMMA SshdUserRow ==
  ASSUME NEW x \in Rows, NEW k \in Row, NEW y, y = [x EXCEPT !.sshdUser = k]
  PROVE  y \in Rows /\ y.users = x.users /\ y.sshdConf = x.sshdConf /\ y.sshdUser = k
  BY DEF Rows

\* The three rows SysInit creates.
LEMMA CreateUserInv ==
  ASSUME IInv, NEW r \in Requests, CreateUser(r)
  PROVE  IInv'
<1>1. /\ At(r, "user") /\ Goto(r, "policy") /\ db[cur].users[req[r].name] = {}
      /\ UNCHANGED <<boot, app, crashes, late, mem, file, cur, sshd, mixed, unsent>>
      /\ db' = [db EXCEPT ![cur].users[req[r].name] = {mem.secret}]
  BY DEF CreateUser, Create, InitStep
<1>2. cur \in Dbs /\ req[r].name \in Names /\ mem.secret \in Secrets /\ db \in [Dbs -> Rows]
  BY <1>1 DEF IInv, Base, TypeOK, HandlersOK, At, Config
<1>d. \A d \in Dbs : d # cur => db'[d] = db[d]
  BY <1>1, <1>2
<1>n. req[r].name \in Names
  BY <1>2
<1>3. /\ db'[cur] = [db[cur] EXCEPT !.users = [db[cur].users EXCEPT ![req[r].name] = {mem.secret}]]
      /\ db[cur] \in Rows
  BY <1>1, <1>2
<1>k. {mem.secret} \in Row
  BY <1>2 DEF Row
<1>u. /\ db[cur].users \in [Names -> Row]
      /\ [db[cur].users EXCEPT ![req[r].name] = {mem.secret}] \in [Names -> Row]
  BY <1>3, <1>k DEF Rows
<1>v. PICK u \in [Names -> Row] :
        /\ u = [db[cur].users EXCEPT ![req[r].name] = {mem.secret}]
        /\ db'[cur] = [db[cur] EXCEPT !.users = u]
  BY <1>3, <1>u
<1>w. /\ db'[cur] \in Rows /\ db'[cur].users = u
      /\ db'[cur].sshdConf = db[cur].sshdConf /\ db'[cur].sshdUser = db[cur].sshdUser
  <2>1. db[cur] \in Rows
    BY <1>3
  <2>2. db'[cur] = [db[cur] EXCEPT !.users = u]
    BY <1>v
  <2> QED
    BY <2>1, <2>2, UserRow
<1>4. /\ db'[cur].users = [db[cur].users EXCEPT ![req[r].name] = {mem.secret}]
      /\ db'[cur].sshdConf = db[cur].sshdConf /\ db'[cur].sshdUser = db[cur].sshdUser
      /\ db[cur].users \in [Names -> Row]
      /\ db'[cur] \in Rows
  BY <1>u, <1>v, <1>w
<1>5. db' \in [Dbs -> Rows]
  BY <1>1, <1>2, <1>4, <1>d
<1>6. db'[cur].users[req[r].name] = {mem.secret}
  BY <1>2, <1>4
<1>7. RowsKept
  BY <1>1, <1>2, <1>4, <1>d DEF RowsKept
<1> QED
  BY <1>1, <1>5, <1>6, <1>7, Grow DEF At, Places, HasUser, HasConf, HasAll, Announced

LEMMA CreateSshdConfInv ==
  ASSUME IInv, NEW r \in Requests, CreateSshdConf(r)
  PROVE  IInv'
<1>1. /\ At(r, "sshdConf") /\ Goto(r, "sshdUser") /\ db[cur].sshdConf = {}
      /\ UNCHANGED <<boot, app, crashes, late, mem, file, cur, sshd, mixed, unsent>>
      /\ db' = [db EXCEPT ![cur].sshdConf = {mem.secret}]
  BY DEF CreateSshdConf, Create, InitStep
<1>2. cur \in Dbs /\ req[r].name \in Names /\ mem.secret \in Secrets /\ db \in [Dbs -> Rows]
  BY <1>1 DEF IInv, Base, TypeOK, HandlersOK, At, Config
<1>d. \A d \in Dbs : d # cur => db'[d] = db[d]
  BY <1>1, <1>2
<1>n. req[r].name \in Names
  BY <1>2
<1>3. /\ db'[cur] = [db[cur] EXCEPT !.sshdConf = {mem.secret}]
      /\ db[cur] \in Rows
  BY <1>1, <1>2
<1>k. {mem.secret} \in Row
  BY <1>2 DEF Row
<1>4. /\ db'[cur].users = db[cur].users
      /\ db'[cur].sshdConf = {mem.secret} /\ db'[cur].sshdUser = db[cur].sshdUser
      /\ db'[cur] \in Rows
  BY <1>3, <1>k, SshdConfRow
<1>5. db' \in [Dbs -> Rows]
  BY <1>1, <1>2, <1>4, <1>d
<1>7. RowsKept
  BY <1>1, <1>2, <1>4, <1>d DEF RowsKept
<1>8. ~mixed => db[cur].users[req[r].name] = {mem.secret}
  BY <1>1 DEF IInv, Unmixed, RowsOK, CurOK, At, HasUser
<1> QED
  BY <1>1, <1>4, <1>5, <1>7, <1>8, Grow DEF At, Places, HasUser, HasConf, HasAll, Announced

LEMMA CreateSshdUserInv ==
  ASSUME IInv, NEW r \in Requests, CreateSshdUser(r)
  PROVE  IInv'
<1>1. /\ At(r, "sshdUser") /\ Goto(r, "conf") /\ db[cur].sshdUser = {}
      /\ UNCHANGED <<boot, app, crashes, late, mem, file, cur, sshd, mixed, unsent>>
      /\ db' = [db EXCEPT ![cur].sshdUser = {mem.secret}]
  BY DEF CreateSshdUser, Create, InitStep
<1>2. cur \in Dbs /\ req[r].name \in Names /\ mem.secret \in Secrets /\ db \in [Dbs -> Rows]
  BY <1>1 DEF IInv, Base, TypeOK, HandlersOK, At, Config
<1>d. \A d \in Dbs : d # cur => db'[d] = db[d]
  BY <1>1, <1>2
<1>n. req[r].name \in Names
  BY <1>2
<1>3. /\ db'[cur] = [db[cur] EXCEPT !.sshdUser = {mem.secret}]
      /\ db[cur] \in Rows
  BY <1>1, <1>2
<1>k. {mem.secret} \in Row
  BY <1>2 DEF Row
<1>4. /\ db'[cur].users = db[cur].users
      /\ db'[cur].sshdUser = {mem.secret} /\ db'[cur].sshdConf = db[cur].sshdConf
      /\ db'[cur] \in Rows
  BY <1>3, <1>k, SshdUserRow
<1>5. db' \in [Dbs -> Rows]
  BY <1>1, <1>2, <1>4, <1>d
<1>7. RowsKept
  BY <1>1, <1>2, <1>4, <1>d DEF RowsKept
<1>8. ~mixed => /\ db[cur].users[req[r].name] = {mem.secret}
                /\ db[cur].sshdConf = {mem.secret}
  BY <1>1 DEF IInv, Unmixed, RowsOK, CurOK, At, HasUser, HasConf
<1> QED
  BY <1>1, <1>4, <1>5, <1>7, <1>8, Grow DEF At, Places, HasUser, HasConf, HasAll, Announced

\* The request: the handler is idle, and IsInit is not set.
LEMMA SysInitInv ==
  ASSUME IInv, NEW r \in Requests, NEW n \in Names, NEW d \in Dbs, SysInit(r, n, d)
  PROVE  IInv'
<1>1. /\ boot = "up" /\ At(r, "idle") /\ ~mem.isInit
      /\ req' = [req EXCEPT ![r] = [pc |-> "migrate", name |-> n, db |-> d]]
      /\ mixed' = (mixed \/ \E q \in Requests : ~At(q, "idle") /\ req[q].db # d)
      /\ UNCHANGED <<boot, app, crashes, late, mem, file, db, cur, sshd, unsent>>
  BY DEF SysInit, InitStep
<1>2. req \in [Requests -> Handler]
  BY DEF IInv, Base, TypeOK
<1>3. /\ req'[r] = [pc |-> "migrate", name |-> n, db |-> d]
      /\ \A q \in Requests : q # r => req'[q] = req[q]
      /\ req' \in [Requests -> Handler]
  BY <1>1, <1>2 DEF Handler
<1>4. req'[r].pc = "migrate" /\ req'[r].name = n /\ req'[r].db = d
  BY <1>3
<1>5. mixed' \in BOOLEAN
  BY <1>1 DEF IInv, Base, TypeOK
<1>6. TypeOK'
  BY <1>1, <1>3, <1>4, <1>5 DEF IInv, Base, TypeOK
<1>7. HandlersOK' /\ BootOK' /\ AppOK' /\ AnnouncedOK' /\ NamesDb'
  BY <1>1, <1>3, <1>4 DEF IInv, Base, HandlersOK, BootOK, AppOK, AnnouncedOK, NamesDb, At,
     Announced
<1>8. SignalPending'
  BY <1>1 DEF SignalPending
<1>9. ~mixed' => Unmixed'
  <2> SUFFICES ASSUME Unmixed, \A q \in Requests : ~At(q, "idle") => req[q].db = d
               PROVE  Unmixed'
    BY <1>1 DEF IInv
  <2>1. SameDb'
    BY <1>3, <1>4 DEF SameDb, At
  <2>2. CurOK' /\ OneConf' /\ BarredOK' /\ StartedOK'
    BY <1>1, <1>3, <1>4 DEF Unmixed, CurOK, OneConf, BarredOK, StartedOK, At, HasConf
  <2>3. RowsOK'
    BY <1>1, <1>3, <1>4 DEF Unmixed, RowsOK, HasUser, HasConf, HasAll
  <2>4. UsableOK'
    BY <1>1, StaysUsable, SameRows DEF Unmixed, IInv, Base
  <2> QED
    BY <2>1, <2>2, <2>3, <2>4 DEF Unmixed
<1> QED
  BY <1>6, <1>7, <1>8, <1>9 DEF IInv, Base

\* The global database handle is the one of the last handler to come here.
LEMMA DbMigrateInv ==
  ASSUME IInv, NEW r \in Requests, DbMigrate(r)
  PROVE  IInv'
<1>1. /\ At(r, "migrate") /\ Goto(r, "user") /\ cur' = req[r].db
      /\ UNCHANGED <<boot, app, crashes, late, mem, file, db, sshd, mixed, unsent>>
  BY DEF DbMigrate, InitStep
<1>2. /\ req' \in [Requests -> Handler]
      /\ \A q \in Requests : q # r => req'[q] = req[q]
      /\ req'[r].pc = "user" /\ req'[r].name = req[r].name /\ req'[r].db = req[r].db
  BY <1>1, Goes DEF IInv, Base, Places
<1>3. \A q \in Requests :
        /\ req'[q].name = req[q].name /\ req'[q].db = req[q].db
        /\ req'[q].pc = "idle" <=> req[q].pc = "idle"
        /\ req'[q].pc \in HasUser <=> req[q].pc \in HasUser
        /\ req'[q].pc \in HasConf <=> req[q].pc \in HasConf
        /\ req'[q].pc \in HasAll <=> req[q].pc \in HasAll
        /\ req'[q].pc \in Announced <=> req[q].pc \in Announced
  BY <1>1, <1>2 DEF At, HasUser, HasConf, HasAll, Announced
<1>4. cur' \in Dbs
  BY <1>1 DEF IInv, Base, HandlersOK, At
<1>5. TypeOK'
  BY <1>1, <1>2, <1>4 DEF IInv, Base, TypeOK
<1>6. HandlersOK' /\ BootOK' /\ AppOK' /\ AnnouncedOK' /\ NamesDb'
  BY <1>1, <1>3 DEF IInv, Base, HandlersOK, BootOK, AppOK, AnnouncedOK, NamesDb, At
<1>7. SignalPending'
  <2>1. (Senders # {} \/ Committed # {}) <=> \E q \in Requests : req[q].pc \in Announced
    BY DEF Senders, Committed, Announced, At
  <2>2. (Senders # {} \/ Committed # {})' <=> \E q \in Requests : req'[q].pc \in Announced
    BY DEF Senders, Committed, Announced, At
  <2> QED
    BY <1>1, <1>3, <2>1, <2>2 DEF IInv, SignalPending
<1>8. ~mixed' => Unmixed'
  <2> SUFFICES ASSUME Unmixed
               PROVE  Unmixed'
    BY <1>1 DEF IInv
  <2>1. SameDb' /\ OneConf' /\ BarredOK' /\ StartedOK'
    BY <1>1, <1>3 DEF Unmixed, SameDb, OneConf, BarredOK, StartedOK, At
  <2>2. CurOK'
    BY <1>1, <1>3 DEF Unmixed, SameDb, CurOK, At
  <2>3. RowsOK'
    BY <1>1, <1>3 DEF Unmixed, RowsOK
  <2>4. UsableOK'
    BY <1>1, StaysUsable, SameRows DEF Unmixed, IInv, Base
  <2> QED
    BY <2>1, <2>2, <2>3, <2>4 DEF Unmixed
<1> QED
  BY <1>5, <1>6, <1>7, <1>8 DEF IInv, Base

\* RewriteConfig sets IsInit in memory: the three rows are there.
LEMMA SetConfInv ==
  ASSUME IInv, NEW r \in Requests, SetConf(r)
  PROVE  IInv'
<1>1. /\ At(r, "conf") /\ Goto(r, "remove") /\ mem' = NewConf(r)
      /\ late' = (late \/ app = "check")
      /\ UNCHANGED <<boot, app, crashes, file, db, cur, sshd, mixed, unsent>>
  BY DEF SetConf
<1>2. /\ req' \in [Requests -> Handler]
      /\ \A q \in Requests : q # r => req'[q] = req[q]
      /\ req'[r].pc = "remove" /\ req'[r].name = req[r].name /\ req'[r].db = req[r].db
  BY <1>1, Goes DEF IInv, Base, Places
<1>3. \A q \in Requests :
        /\ req'[q].name = req[q].name /\ req'[q].db = req[q].db
        /\ req'[q].pc = "idle" <=> req[q].pc = "idle"
        /\ req'[q].pc \in {"idle", "migrate"} <=> req[q].pc \in {"idle", "migrate"}
        /\ req'[q].pc \in HasUser <=> req[q].pc \in HasUser
        /\ req'[q].pc \in HasConf <=> req[q].pc \in HasConf
        /\ req'[q].pc \in HasAll <=> req[q].pc \in HasAll
  BY <1>1, <1>2 DEF At, HasUser, HasConf, HasAll
<1>4. req[r].db \in Dbs /\ req[r].name \in Names
  BY <1>1 DEF IInv, Base, HandlersOK, At
<1>5. mem'.isInit = TRUE /\ mem'.secret = mem.secret /\ mem'.db = req[r].db
  BY <1>1 DEF NewConf
<1>6. mem' \in Config
  BY <1>1, <1>4 DEF NewConf, Config, IInv, Base, TypeOK
<1>7. TypeOK'
  BY <1>1, <1>2, <1>3, <1>6 DEF IInv, Base, TypeOK
<1>8. HandlersOK' /\ BootOK' /\ AppOK' /\ AnnouncedOK' /\ NamesDb'
  BY <1>1, <1>3, <1>4, <1>5 DEF IInv, Base, HandlersOK, BootOK, AppOK, AnnouncedOK, NamesDb, At
<1>9. SignalPending'
  <2>1. Committed' # {}
    BY <1>2 DEF Committed
  <2> QED
    BY <2>1 DEF SignalPending
<1>10. ~mixed' => Unmixed'
  <2> SUFFICES ASSUME Unmixed
               PROVE  Unmixed'
    BY <1>1 DEF IInv
  <2>1. SameDb' /\ OneConf' /\ CurOK'
    BY <1>1, <1>3 DEF Unmixed, SameDb, OneConf, CurOK, At
  <2>2. RowsOK'
    BY <1>1, <1>3, <1>5 DEF Unmixed, RowsOK
  <2>3. /\ db[req[r].db].users[req[r].name] = {mem.secret}
        /\ db[req[r].db].sshdConf = {mem.secret}
        /\ db[req[r].db].sshdUser = {mem.secret}
    BY <1>1 DEF Unmixed, RowsOK, At, HasUser, HasConf, HasAll
  <2>4. BarredOK'
    BY <1>1, <1>3, <2>3 DEF Unmixed, BarredOK, SameDb, At
  <2>5. StartedOK'
    BY <1>1, <1>3 DEF Unmixed, StartedOK, At, HasConf
  <2>6. UsableOK'
    <3>1. Readable(req[r].db, mem.secret)
      BY <1>4, <2>3 DEF Readable
    <3>2. \A c \in file.conf : c.isInit => Readable(c.db, c.secret)
      BY DEF Unmixed, UsableOK
    <3> QED
      BY <1>1, <1>5, <3>1, <3>2 DEF UsableOK, Readable
  <2> QED
    BY <2>1, <2>2, <2>4, <2>5, <2>6 DEF Unmixed
<1> QED
  BY <1>7, <1>8, <1>9, <1>10 DEF IInv, Base

\* A handler ends: at an error, or with the start signal.
LEMMA Ends ==
  ASSUME IInv, NEW r \in Requests, req' = [req EXCEPT ![r] = IdleHandler], ~At(r, "idle"),
         UNCHANGED <<boot, app, crashes, late, mem, file, db, cur, mixed>>,
         unsent' \in BOOLEAN,
         \/ sshd' = sshd
         \/ sshd = "wait" /\ sshd' = "find" /\ req[r].pc = "send",
         SignalPending'
  PROVE  IInv'
<1>1. req \in [Requests -> Handler] /\ IdleHandler \in Handler
  BY DEF IInv, Base, TypeOK, IdleHandler, Handler
<1>2. /\ req' \in [Requests -> Handler]
      /\ \A q \in Requests : q # r => req'[q] = req[q]
      /\ req'[r] = IdleHandler
  BY <1>1
<1>3. req'[r].pc = "idle"
  BY <1>2 DEF IdleHandler
<1>4. TypeOK'
  BY <1>2, <1>3 DEF IInv, Base, TypeOK
<1>5. HandlersOK' /\ BootOK' /\ AppOK' /\ AnnouncedOK' /\ NamesDb'
  BY <1>2, <1>3 DEF IInv, Base, HandlersOK, BootOK, AppOK, AnnouncedOK, NamesDb, At, Announced
<1>6. ~mixed' => Unmixed'
  <2> SUFFICES ASSUME Unmixed
               PROVE  Unmixed'
    BY DEF IInv
  <2>1. SameDb' /\ OneConf' /\ CurOK' /\ BarredOK'
    BY <1>2, <1>3 DEF Unmixed, SameDb, OneConf, CurOK, BarredOK, At, HasConf
  <2>2. RowsOK'
    BY <1>2, <1>3 DEF Unmixed, RowsOK, HasUser, HasConf, HasAll
  <2>3. StartedOK'
    <3>1. CASE sshd' = sshd
      BY <1>2, <1>3, <3>1 DEF Unmixed, StartedOK, HasConf
    <3>2. CASE req[r].pc = "send"
      <4>1. mem.isInit
        BY <3>2 DEF IInv, Base, AnnouncedOK, Announced
      <4>2. \A q \in Requests : q # r => req[q].pc \notin HasConf
        BY <3>2 DEF Unmixed, OneConf, HasConf
      <4> QED
        BY <1>2, <1>3, <4>1, <4>2 DEF StartedOK, HasConf
    <3> QED
      BY <3>1, <3>2
  <2>4. UsableOK'
    BY StaysUsable, SameRows DEF Unmixed, IInv, Base
  <2> QED
    BY <2>1, <2>2, <2>3, <2>4 DEF Unmixed
<1> QED
  BY <1>4, <1>5, <1>6 DEF IInv, Base

LEMMA ReturnInv ==
  ASSUME IInv, NEW r \in Requests, Return(r)
  PROVE  IInv'
<1>1. /\ ~At(r, "idle") /\ ~At(r, "send") /\ req' = [req EXCEPT ![r] = IdleHandler]
      /\ unsent' = (unsent \/ req[r].pc \in {"remove", "open", "write", "sshConf"})
      /\ UNCHANGED <<boot, app, crashes, late, mem, file, db, cur, mixed, sshd>>
  BY DEF Return, InitStep
<1>2. \A q \in Requests : q # r => req'[q] = req[q]
  BY <1>1 DEF IInv, Base, TypeOK
<1>3. SignalPending'
  <2> SUFFICES ASSUME boot = "up", mem.isInit, sshd = "wait"
               PROVE  (Senders # {} \/ Committed # {} \/ app \in {"check", "send"} \/ unsent)'
    BY <1>1 DEF SignalPending
  <2>1. Senders # {} \/ Committed # {} \/ app \in {"check", "send"} \/ unsent
    BY DEF IInv, SignalPending
  <2>2. CASE Senders # {}
    <3>1. PICK q \in Requests : At(q, "send")
      BY <2>2 DEF Senders
    <3> QED
      BY <1>1, <1>2, <3>1 DEF Senders, At
  <2>3. CASE Committed # {}
    <3>1. PICK q \in Requests : req[q].pc \in {"remove", "open", "write", "sshConf"}
      BY <2>3 DEF Committed
    <3> QED
      BY <1>1, <1>2, <3>1 DEF Committed
  <2>4. CASE app \in {"check", "send"} \/ unsent
    BY <1>1, <2>4
  <2> QED
    BY <2>1, <2>2, <2>3, <2>4
<1>4. unsent' \in BOOLEAN
  BY <1>1 DEF IInv, Base, TypeOK
<1> QED
  BY <1>1, <1>3, <1>4, Ends

LEMMA SignalByInitInv ==
  ASSUME IInv, NEW r \in Requests, SignalByInit(r)
  PROVE  IInv'
<1>1. SignalPending'
  BY DEF SignalByInit, SignalPending
<1>2. unsent' \in BOOLEAN
  BY DEF SignalByInit, IInv, Base, TypeOK
<1> QED
  BY <1>1, <1>2, Ends DEF SignalByInit, InitStep, At

-----------------------------------------------------------------------------
(***************************************************************************)
(* The goroutines, the crash, and the whole.                                *)
(***************************************************************************)

\* initApp reads IsInit: it sends if the start found it set, or SysInit was faster.
LEMMA AppChecksInv ==
  ASSUME IInv, AppChecks
  PROVE  IInv'
<1>1. /\ app = "check" /\ app' = IF mem.isInit THEN "send" ELSE "loop"
      /\ UNCHANGED <<mem, file, db, cur, req, boot, sshd, crashes, mixed, unsent, late>>
  BY DEF AppChecks
<1>2. boot = "up"
  BY <1>1 DEF IInv, Base, BootOK, TypeOK
<1>3. TypeOK' /\ HandlersOK' /\ BootOK' /\ AnnouncedOK' /\ NamesDb'
  BY <1>1, <1>2 DEF IInv, Base, TypeOK, HandlersOK, BootOK, AnnouncedOK, NamesDb, At
<1>4. AppOK'
  BY <1>1, <1>2 DEF IInv, Base, AppOK, At
<1>5. SignalPending'
  BY <1>1 DEF SignalPending
<1>6. ~mixed' => Unmixed'
  BY <1>1 DEF IInv, Unmixed, SameDb, CurOK, OneConf, BarredOK, StartedOK, RowsOK, UsableOK,
     Readable, At
<1> QED
  BY <1>3, <1>4, <1>5, <1>6 DEF IInv, Base

\* initApp's signal: no handler runs, or SysInit was faster.
LEMMA SignalByAppInv ==
  ASSUME IInv, SignalByApp
  PROVE  IInv'
<1>1. /\ app = "send" /\ sshd = "wait" /\ app' = "loop" /\ sshd' = "find"
      /\ UNCHANGED <<mem, file, db, cur, req, boot, crashes, mixed, unsent, late>>
  BY DEF SignalByApp
<1>2. /\ mem.isInit /\ boot = "up"
      /\ ~late => \A r \in Requests : req[r].pc = "idle"
  BY <1>1 DEF IInv, Base, AppOK, At
<1>3. Base'
  BY <1>1, <1>2 DEF IInv, Base, TypeOK, HandlersOK, BootOK, AppOK, AnnouncedOK, NamesDb, At
<1>4. SignalPending'
  BY <1>1 DEF SignalPending
<1>5. ~mixed' => Unmixed'
  <2> SUFFICES ASSUME Unmixed
               PROVE  Unmixed'
    BY <1>1 DEF IInv
  <2>1. UsableOK'
    BY <1>1, StaysUsable, SameRows DEF Unmixed, IInv, Base
  <2>2. StartedOK'
    BY <1>1, <1>2 DEF StartedOK, HasConf
  <2>3. SameDb' /\ CurOK' /\ OneConf' /\ BarredOK'
    BY <1>1 DEF Unmixed, SameDb, CurOK, OneConf, BarredOK, At
  <2>4. RowsOK'
    BY <1>1 DEF Unmixed, RowsOK
  <2> QED
    BY <2>1, <2>2, <2>3, <2>4 DEF Unmixed
<1> QED
  BY <1>3, <1>4, <1>5 DEF IInv

\* The sshd reads its row, and starts or fails.
LEMMA SshdFindInv ==
  ASSUME IInv, SshdFind
  PROVE  IInv'
<1>1. /\ sshd = "find" /\ sshd' \in {"serving", "failed"}
      /\ UNCHANGED <<mem, file, db, cur, req, boot, app, crashes, mixed, unsent, late>>
  BY DEF SshdFind
<1>3. Base'
  BY <1>1 DEF IInv, Base, TypeOK, HandlersOK, BootOK, AppOK, AnnouncedOK, NamesDb, At
<1>4. SignalPending'
  BY <1>1 DEF SignalPending
<1>5. ~mixed' => Unmixed'
  <2> SUFFICES ASSUME Unmixed
               PROVE  Unmixed'
    BY <1>1 DEF IInv
  <2>1. UsableOK'
    BY <1>1, StaysUsable, SameRows DEF Unmixed, IInv, Base
  <2>2. StartedOK'
    BY <1>1 DEF Unmixed, StartedOK
  <2>3. SameDb' /\ CurOK' /\ OneConf' /\ BarredOK'
    BY <1>1 DEF Unmixed, SameDb, CurOK, OneConf, BarredOK, At
  <2>4. RowsOK'
    BY <1>1 DEF Unmixed, RowsOK
  <2> QED
    BY <2>1, <2>2, <2>3, <2>4 DEF Unmixed
<1> QED
  BY <1>3, <1>4, <1>5 DEF IInv

\* After a crash the rows and the file are all there is.
LEMMA CrashInv ==
  ASSUME IInv, Crash
  PROVE  IInv'
<1>1. /\ crashes < MaxCrashes /\ crashes' = crashes + 1
      /\ mem' = DefaultConfig(crashes + 1) /\ cur' = None
      /\ req' = [r \in Requests |-> IdleHandler]
      /\ boot' = "config" /\ app' = "off" /\ sshd' = "off" /\ unsent' = FALSE /\ late' = FALSE
      /\ UNCHANGED <<file, db, mixed>>
  BY DEF Crash
<1>2. crashes + 1 \in 0..MaxCrashes
  BY <1>1, CrashAssumption DEF IInv, Base, TypeOK
<1>3. mem' \in Config /\ mem'.isInit = FALSE
  BY <1>1, <1>2 DEF DefaultConfig, Config, Secrets
<1>4. /\ req' \in [Requests -> Handler]
      /\ \A r \in Requests : req'[r].pc = "idle"
  BY <1>1 DEF IdleHandler, Handler
<1>5. TypeOK'
  BY <1>1, <1>2, <1>3, <1>4 DEF IInv, Base, TypeOK
<1>6. HandlersOK' /\ BootOK' /\ AppOK' /\ AnnouncedOK' /\ NamesDb'
  BY <1>1, <1>3, <1>4 DEF IInv, Base, HandlersOK, BootOK, AppOK, AnnouncedOK, NamesDb, At,
     Announced
<1>7. SignalPending'
  BY <1>1 DEF SignalPending
<1>8. ~mixed' => Unmixed'
  <2> SUFFICES ASSUME Unmixed
               PROVE  Unmixed'
    BY <1>1 DEF IInv
  <2>1. UsableOK'
    <3>1. \A c \in file.conf : c.isInit => Readable(c.db, c.secret)
      BY DEF Unmixed, UsableOK
    <3> QED
      BY <1>1, <1>3, <3>1 DEF UsableOK, Readable
  <2>2. SameDb' /\ CurOK' /\ OneConf' /\ BarredOK' /\ StartedOK'
    BY <1>1, <1>3, <1>4 DEF SameDb, CurOK, OneConf, BarredOK, StartedOK, At, HasConf
  <2>3. RowsOK'
    BY <1>4 DEF RowsOK, HasUser, HasConf, HasAll
  <2> QED
    BY <2>1, <2>2, <2>3 DEF Unmixed
<1> QED
  BY <1>5, <1>6, <1>7, <1>8 DEF IInv, Base

LEMMA InitIInv == Init => IInv
<1> SUFFICES ASSUME Init
             PROVE  IInv
  OBVIOUS
<1>1. /\ req = [r \in Requests |-> IdleHandler] /\ mem = DefaultConfig(0)
      /\ file = Missing /\ cur = None /\ boot = "config" /\ app = "off"
      /\ sshd = "off" /\ crashes = 0 /\ mixed = FALSE /\ unsent = FALSE /\ late = FALSE
      /\ db = [d \in Dbs |-> NoRows]
  BY DEF Init
<1>2. 0 \in Secrets
  BY CrashAssumption DEF Secrets
<1>3. mem \in Config /\ mem.isInit = FALSE
  BY <1>1, <1>2 DEF DefaultConfig, Config
<1>4. /\ req \in [Requests -> Handler]
      /\ \A r \in Requests : req[r].pc = "idle"
  BY <1>1 DEF IdleHandler, Handler
<1>5. db \in [Dbs -> Rows]
  <2>1. {} \in Row
    BY DEF Row
  <2>2. NoRows \in Rows
    BY <2>1 DEF NoRows, Rows
  <2> QED
    BY <1>1, <2>2
<1>6. TypeOK
  BY <1>1, <1>2, <1>3, <1>4, <1>5 DEF TypeOK, Secrets
<1>7. HandlersOK /\ BootOK /\ AppOK /\ AnnouncedOK /\ NamesDb /\ SignalPending
  BY <1>1, <1>3, <1>4, FileConf DEF HandlersOK, BootOK, AppOK, AnnouncedOK, NamesDb, At,
     Announced, SignalPending
<1>8. Unmixed
  BY <1>1, <1>3, <1>4, FileConf DEF Unmixed, SameDb, CurOK, OneConf, BarredOK, StartedOK,
     RowsOK, UsableOK, At, HasUser, HasConf, HasAll
<1> QED
  BY <1>6, <1>7, <1>8 DEF IInv, Base

LEMMA StutterIInv ==
  ASSUME IInv, UNCHANGED vars
  PROVE  IInv'
<1>1. Base' /\ SignalPending'
  BY DEF IInv, Base, TypeOK, HandlersOK, BootOK, AppOK, AnnouncedOK, NamesDb, At, vars,
     SignalPending, Senders, Committed
<1>2. ~mixed' => Unmixed'
  BY DEF IInv, Unmixed, SameDb, CurOK, OneConf, BarredOK, StartedOK, RowsOK, UsableOK,
     Readable, At, vars
<1> QED
  BY <1>1, <1>2 DEF IInv

LEMMA NextIInv ==
  ASSUME IInv, [Next]_vars
  PROVE  IInv'
<1>1. CASE BootStep
  BY <1>1, BootConfigInv, BootDatabaseInv DEF BootStep
<1>2. CASE \E r \in Requests, n \in Names, d \in Dbs : SysInit(r, n, d)
  BY <1>2, SysInitInv
<1>3. ASSUME NEW r \in Requests, HandlerStep(r)
      PROVE  IInv'
  BY <1>3, DbMigrateInv, CreateUserInv, CreateSshdConfInv, CreateSshdUserInv, SetConfInv,
     RewriteInv, ReturnInv, SignalByInitInv DEF HandlerStep
<1>4. CASE AppChecks \/ SignalByApp
  BY <1>4, AppChecksInv, SignalByAppInv
<1>5. CASE SshdFind
  BY <1>5, SshdFindInv
<1>6. CASE Crash
  BY <1>6, CrashInv
<1>7. CASE UNCHANGED vars
  BY <1>7, StutterIInv
<1> QED
  BY <1>1, <1>2, <1>3, <1>4, <1>5, <1>6, <1>7 DEF Next

LEMMA Inductive == Spec => []IInv
  BY InitIInv, NextIInv, PTL DEF Spec
-----------------------------------------------------------------------------

\* Every variable has its type in every reachable state; a handler that is past
\* DbMigrate has an open database.
THEOREM TypeCorrect == Spec => []TypeOK
<1>1. IInv => TypeOK
  BY DEF IInv, Base
<1> QED
  BY <1>1, Inductive, PTL

\* A system that calls itself initialised, in memory or in the configuration
\* file, has its three rows, all readable with the secret of that configuration,
\* for any number of crashes and concurrent SysInit requests: no row is ever
\* written twice, and RewriteConfig comes after all three.
THEOREM InitialisedIsUsableAlways == Spec => []InitialisedIsUsable
<1>1. IInv => InitialisedIsUsable
  BY DEF IInv, Unmixed, UsableOK, InitialisedIsUsable
<1> QED
  BY <1>1, Inductive, PTL

\* Whoever sends on isStartSshd finds startSshServer waiting and has no
\* competitor, unless initApp read IsInit only after a SysInit had set it: row 1 of the
\* sshd configuration lets one handler through.
THEOREM SignalTakenAlways == Spec => []SignalTaken
<1>1. IInv => SignalTaken
  <2> SUFFICES ASSUME IInv, ~mixed, ~late
               PROVE  /\ (Senders # {} \/ app = "send") => sshd = "wait"
                      /\ \A r, q \in Senders : r = q
                      /\ Senders # {} => app # "send"
    BY DEF SignalTaken
  <2>1. \A r \in Senders : r \in Requests /\ req[r].pc = "send"
    BY DEF Senders, At
  <2>2. \A r, q \in Senders : r = q
    BY <2>1 DEF IInv, Unmixed, OneConf, HasConf
  <2>3. Senders # {} => app # "send"
    BY <2>1 DEF IInv, Base, AppOK, At
  <2>4. Senders # {} => sshd = "wait"
    BY <2>1 DEF IInv, Base, TypeOK, BootOK, Unmixed, StartedOK, HasConf, At
  <2>5. app = "send" => sshd = "wait"
    BY DEF IInv, Base, AppOK
  <2> QED
    BY <2>2, <2>3, <2>4, <2>5
<1> QED
  BY <1>1, Inductive, PTL

\* An initialised system whose sshd still waits has somebody on the way to send
\* the start signal, or a handler returned early after it had set IsInit.
THEOREM SignalPendingAlways == Spec => []SignalPending
<1>1. IInv => SignalPending
  BY DEF IInv
<1> QED
  BY <1>1, Inductive, PTL
=============================================================================
