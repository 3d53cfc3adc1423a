---------------------------- MODULE MihomoProofs ----------------------------
(***************************************************************************)
(* Proofs about Mihomo for any number of jobs, data files, download lines,  *)
(* versions, requests and crashes.                                          *)
(***************************************************************************)
EXTENDS Mihomo, TLAPS

\* A busy status has an active job.  Unless jobs of one kind overlapped, an active
\* job has a busy status and its kind to itself.
StatusOK ==
    /\ Unwedged
    /\ ~overlapped =>
          /\ \A j \in Jobs : Active(j) => Busy(Kind(j))
          /\ \A j, k \in Jobs : Active(j) /\ Active(k) /\ Kind(j) = Kind(k) => j = k

Downloading == {"line", "read", "rename"}

\* The files that only the jobs of one kind write.
Owned(j) == IF j \in DataJobs THEN DataNames ELSE {"bin", "bak", "download", "mm.sh"}

\* The data files in front of t.
Before(t) ==
    {f \in DataNames : \E i, k \in 1..Len(DataFiles) :
                           i < k /\ DataFiles[i] = f /\ DataFiles[k] = t}

\* The data files that an update has got.
Fetched(j) ==
    IF job[j].pc \in Downloading THEN Before(job[j].target)
    ELSE IF job[j].pc \in {"version", "reload"} THEN DataNames
    ELSE {}

\* What an update has got is there unless it was uninstalled, and if it is a release,
\* it is what the server offers unless a version was published meanwhile.
DataOK(j) ==
    ~overlapped =>
        /\ "data" \notin wiped => \A f \in Fetched(j) : files[f] # Absent
        /\ ~overtaken =>
              /\ \A f \in Fetched(j) : files[f] \in {Absent, Other, remote}
              /\ job[j].pc \in {"read", "rename"} => job[j].reads \in {Other, remote}
              /\ job[j].pc = "rename" => part[job[j].target] \in {Absent, Other, remote}

\* What a job knows of its files, as long as no other job writes them.
OwnFiles(j) ==
    ~overlapped =>
        /\ job[j].pc = "rename" => part[job[j].target] # Torn
        /\ job[j].pc = "start" /\ "install" \notin wiped => files["bin"] # Absent

JobOK(j) ==
    /\ job[j].pc \in Downloading => job[j].target \in Owned(j) \cap Targets
    /\ job[j].pc \in {"stop", "backup", "swap", "start"} => j \in InstallJobs
    /\ job[j].pc \in {"version", "reload"} => j \in DataJobs
    /\ OwnFiles(j)
    /\ j \in DataJobs => DataOK(j)

\* An uninstallation that runs is on record.
WipedOK == un # "idle" => wiped = Kinds

IInv ==
    /\ TypeOK
    /\ StatusOK
    /\ \A j \in Jobs : JobOK(j)
    /\ WipedOK
    /\ FilesAreWhole
    /\ version <= remote
    /\ VersionHonest
    /\ DoneMeansComplete

-----------------------------------------------------------------------------
(***************************************************************************)
(* The sequence of data files.                                              *)
(***************************************************************************)
LEMMA FirstFile ==
  /\ DataFiles[1] \in DataNames
  /\ Before(DataFiles[1]) = {}
<1>1. 1 \in 1..Len(DataFiles)
  BY FilesAssumption
<1>2. \A i, k \in 1..Len(DataFiles) : DataFiles[k] = DataFiles[1] => ~(i < k)
  BY <1>1, FilesAssumption
<1> QED
  BY <1>1, <1>2 DEF DataNames, Before

LEMMA SpecialNames ==
  /\ "bin" \notin DataNames /\ "bak" \notin DataNames /\ "download" \notin DataNames
  /\ "mm.sh" \notin DataNames /\ "none" \notin DataNames
  BY FilesAssumption DEF DataNames

\* mm.sh comes before the kernel, which is the last.
LEMMA FollowingInstall ==
  /\ Following("mm.sh") = "download"
  /\ Following("download") = "none"
<1>1. {i \in 1..Len(DataFiles) : i > 1 /\ DataFiles[i - 1] = "download"} = {}
  <2> SUFFICES ASSUME NEW i \in 1..Len(DataFiles), i > 1, DataFiles[i - 1] = "download"
               PROVE  FALSE
    OBVIOUS
  <2>1. i - 1 \in 1..Len(DataFiles)
    BY FilesAssumption
  <2> QED
    BY <2>1, FilesAssumption
<1> QED
  BY <1>1 DEF Following

\* After a data file comes the next one; after the last there is none, and all of
\* them have been tried.
LEMMA FollowingData ==
  ASSUME NEW t \in DataNames
  PROVE  /\ Following(t) = "none" => Before(t) \cup {t} = DataNames
         /\ Following(t) # "none" => /\ Following(t) \in DataNames
                                     /\ Before(Following(t)) = Before(t) \cup {t}
<1>1. PICK n \in 1..Len(DataFiles) : t = DataFiles[n]
  BY DEF DataNames
<1>2. Len(DataFiles) \in Nat
  BY FilesAssumption
<1>3. \A k \in 1..Len(DataFiles) : DataFiles[k] = t => k = n
  BY <1>1, FilesAssumption
<1> DEFINE next == {i \in 1..Len(DataFiles) : i > 1 /\ DataFiles[i - 1] = t}
<1>4. t # "mm.sh"
  BY SpecialNames
<1>5. Following(t) = IF next = {} THEN "none" ELSE DataFiles[CHOOSE i \in next : TRUE]
  BY <1>4 DEF Following
<1>6. \A i \in next : i = n + 1
  <2> TAKE i \in next
  <2>1. i \in 1..Len(DataFiles) /\ i > 1 /\ i - 1 \in 1..Len(DataFiles)
        /\ DataFiles[i - 1] = t
    BY <1>2
  <2>2. i - 1 = n
    BY <1>3, <2>1
  <2> QED
    BY <2>1, <2>2
<1>7. n < Len(DataFiles) => n + 1 \in next
  BY <1>1, <1>2
<1>8. \A f : f \in Before(t) <=> \E i \in 1..Len(DataFiles) : i < n /\ DataFiles[i] = f
  BY <1>1, <1>3 DEF Before, DataNames
<1>9. CASE n = Len(DataFiles)
  <2>1. next = {}
    BY <1>2, <1>6, <1>9
  <2>2. Following(t) = "none"
    BY <1>5, <2>1
  <2>3. \A f \in DataNames : f \in Before(t) \/ f = t
    BY <1>1, <1>2, <1>8, <1>9 DEF DataNames
  <2> QED
    BY <2>2, <2>3 DEF Before
<1>10. CASE n < Len(DataFiles)
  <2>1. next = {n + 1}
    BY <1>6, <1>7, <1>10
  <2>2. Following(t) = DataFiles[n + 1] /\ n + 1 \in 1..Len(DataFiles)
    BY <1>2, <1>5, <1>10, <2>1
  <2>3. Following(t) \in DataNames /\ Following(t) # "none"
    BY <2>2, SpecialNames DEF DataNames
  <2>4. \A k \in 1..Len(DataFiles) : DataFiles[k] = Following(t) => k = n + 1
    BY <2>2, FilesAssumption
  <2>5. \A f : f \in Before(Following(t))
                 <=> \E i \in 1..Len(DataFiles) : i < n + 1 /\ DataFiles[i] = f
    BY <2>2, <2>4 DEF Before, DataNames
  <2>6. \A i \in 1..Len(DataFiles) : i < n + 1 <=> i < n \/ i = n
    BY <1>2
  <2>7. \A f : f \in Before(Following(t)) <=> f \in Before(t) \/ f = t
    BY <1>1, <1>8, <2>5, <2>6
  <2> QED
    BY <2>3, <2>7
<1> QED
  BY <1>2, <1>9, <1>10

-----------------------------------------------------------------------------
(***************************************************************************)
(* One step of one job.                                                     *)
(***************************************************************************)
LEMMA Ownership ==
  ASSUME NEW j \in Jobs, NEW k \in Jobs, Kind(j) # Kind(k)
  PROVE  /\ Owned(j) \cap Owned(k) = {}
         /\ Owned(j) \subseteq Names
         /\ j \in DataJobs <=> k \notin DataJobs
         /\ k \in InstallJobs => "bin" \notin Owned(j)
         /\ k \in DataJobs => DataNames \cap Owned(j) = {}
  BY SpecialNames, JobsAssumption DEF Kind, Jobs, Owned, Names, Targets

\* What a step of one job means for a job of the other kind: nothing.
LEMMA OtherJob ==
  ASSUME IInv, NEW j \in Jobs, NEW k \in Jobs,
         overlapped \/ Kind(j) # Kind(k) \/ ~Active(k),
         UNCHANGED <<wiped, remote, overtaken, overlapped>>, job'[k] = job[k],
         \A n \in Names \ Owned(j) : files'[n] = files[n],
         \A t \in Targets \ Owned(j) : part'[t] = part[t]
  PROVE  JobOK(k)'
<1>1. JobOK(k) /\ Owned(k)' = Owned(k)
  BY DEF IInv, Owned
<1>2. CASE ~Active(k)
  BY <1>2 DEF Active, JobOK, OwnFiles, DataOK, Fetched, Downloading
<1>3. CASE overlapped
  BY <1>1, <1>3 DEF JobOK, OwnFiles, DataOK
<1>4. CASE Kind(j) # Kind(k)
  <2>1. \A n \in Owned(k) : files'[n] = files[n]
    BY <1>4, Ownership DEF Owned, Names, Targets
  <2>2. \A t \in Owned(k) \cap Targets : part'[t] = part[t]
    BY <1>4, Ownership
  <2>3. k \in InstallJobs => files'["bin"] = files["bin"]
    BY <2>1, JobsAssumption DEF Owned
  <2>4. k \in DataJobs => /\ Fetched(k)' = Fetched(k) /\ Fetched(k) \subseteq Owned(k)
                          /\ Fetched(k) \subseteq DataNames
    BY DEF Fetched, Before, Owned
  <2>5. job[k].pc = "rename" => part'[job[k].target] = part[job[k].target]
    BY <1>1, <2>2 DEF JobOK, Downloading
  <2>6. k \in DataJobs => DataOK(k)'
    <3> SUFFICES ASSUME k \in DataJobs
                 PROVE  DataOK(k)'
      OBVIOUS
    <3>1. DataOK(k)
      BY <1>1 DEF JobOK
    <3> HIDE DEF Fetched
    <3> QED
      BY <2>1, <2>4, <2>5, <3>1 DEF DataOK, Absent, Other
  <2>7. OwnFiles(k)'
    BY <1>1, <2>3, <2>5 DEF JobOK, OwnFiles, Absent, Torn
  <2> QED
    BY <1>1, <2>6, <2>7 DEF JobOK
<1> QED
  BY <1>2, <1>3, <1>4

\* The result a job of kind k reports with "done".
Complete(k) ==
    ~overlapped /\ k \notin wiped => IF k = "install" THEN files["bin"] # Absent
                                     ELSE \A f \in DataNames : files[f] # Absent

LEMMA DoneIsComplete ==
  DoneMeansComplete <=> \A k \in Kinds : status[k] = "done" => Complete(k)
  BY DEF DoneMeansComplete, Complete, Kinds

\* The job stays active with its status, or has found all its files and installs,
\* or reports its end.
StatusMoves(j) ==
    \/ /\ job'[j].pc \notin {"idle", "clear", "asked"}
       /\ status' = status
    \/ /\ job'[j].pc \notin {"idle", "clear", "asked"} /\ j \in InstallJobs
       /\ status' = [status EXCEPT !["install"] = "installing"]
    \/ /\ job'[j].pc = "clear"
       /\ \E s \in {"done", "failed", "canceled"} :
             /\ status' = [status EXCEPT ![Kind(j)] = s]
             /\ s = "done" => Complete(Kind(j))'

LEMMA KindIn == \A j \in Jobs : Kind(j) \in Kinds /\ (j \in InstallJobs <=> Kind(j) = "install")
  BY DEF Kind, Kinds

LEMMA JobStepInv ==
  ASSUME IInv, NEW j \in Jobs, Active(j), UNCHANGED <<cancel, restVars>>,
         dir' \in BOOLEAN, running' \in BOOLEAN, pidFile' \in BOOLEAN,
         version' \in 0..MaxVersion, files' \in [Names -> Content],
         part' \in [Targets -> Content], job' \in [Jobs -> JobType],
         \A k \in Jobs : k # j => job'[k] = job[k],
         \A n \in Names \ Owned(j) : files'[n] = files[n],
         \A t \in Targets \ Owned(j) : part'[t] = part[t],
         FilesAreWhole', VersionHonest', version' <= remote,
         job'[j].pc \in Downloading => job'[j].target # "none" /\ job'[j].tries > 0,
         JobOK(j)', StatusMoves(j)
  PROVE  IInv'
<1>1. /\ status \in [Kinds -> {"idle", "downloading", "installing", "done", "failed",
                               "canceled"}]
      /\ Kind(j) \in Kinds
  BY KindIn DEF IInv, TypeOK
<1>2. /\ status' \in [Kinds -> {"idle", "downloading", "installing", "done", "failed",
                                "canceled"}]
      /\ \A k \in Kinds : k # Kind(j) => status'[k] = status[k]
  BY <1>1, KindIn DEF StatusMoves
<1>3. TypeOK'
  BY <1>2 DEF IInv, TypeOK, restVars, worldVars, Downloading
<1>4. \A k \in Jobs : k # j => (Active(k)' <=> Active(k))
  BY DEF Active
<1>5. \A k \in Jobs : k # j => overlapped \/ Kind(k) # Kind(j) \/ ~Active(k)
  BY DEF IInv, StatusOK
<1>6. \A k \in Jobs : JobOK(k)'
  <2>1. \A k \in Jobs : k # j => JobOK(k)'
    BY <1>5, OtherJob DEF restVars, worldVars
  <2> QED
    BY <2>1
<1>7. \A k \in Kinds : k # Kind(j) => (Busy(k)' <=> Busy(k))
  BY <1>2 DEF Busy
<1>8. ~overlapped => Busy(Kind(j))
  BY DEF IInv, StatusOK
<1>9. /\ Busy(Kind(j))' => Active(j)'
      /\ ~overlapped => (Active(j)' => Busy(Kind(j))')
  <2>1. CASE status' = status /\ job'[j].pc \notin {"idle", "clear", "asked"}
    BY <1>8, <2>1 DEF Busy, Active
  <2>2. CASE /\ job'[j].pc \notin {"idle", "clear", "asked"} /\ j \in InstallJobs
             /\ status' = [status EXCEPT !["install"] = "installing"]
    BY <1>1, <2>2 DEF Busy, Active, Kind
  <2>3. CASE /\ job'[j].pc = "clear"
             /\ \E s \in {"done", "failed", "canceled"} :
                   status' = [status EXCEPT ![Kind(j)] = s]
    BY <1>1, <2>3 DEF Busy, Active
  <2> QED
    BY <2>1, <2>2, <2>3 DEF StatusMoves
<1>10. StatusOK'
  <2>1. ~overlapped => \A k \in Jobs : Active(k)' => Busy(Kind(k))'
    BY <1>4, <1>5, <1>7, <1>9, KindIn DEF IInv, StatusOK
  <2>2. ~overlapped => \A k, l \in Jobs :
                         Active(k)' /\ Active(l)' /\ Kind(k) = Kind(l) => k = l
    BY <1>4 DEF IInv, StatusOK
  <2>3. \A k \in Kinds : Busy(k)' => \E l \in Jobs : Kind(l) = k /\ Active(l)'
    <3> SUFFICES ASSUME NEW k \in Kinds, Busy(k)'
                 PROVE  \E l \in Jobs : Kind(l) = k /\ Active(l)'
      OBVIOUS
    <3>1. CASE k = Kind(j)
      BY <1>9, <3>1
    <3>2. CASE k # Kind(j)
      <4>1. PICK l \in Jobs : Kind(l) = k /\ Active(l)
        BY <1>7, <3>2 DEF IInv, StatusOK, Unwedged
      <4> QED
        BY <1>4, <3>2, <4>1
    <3> QED
      BY <3>1, <3>2
  <2>4. overlapped' = overlapped
    BY DEF restVars
  <2> QED
    BY <2>1, <2>2, <2>3, <2>4 DEF StatusOK, Unwedged, Kind
<1>11. DoneMeansComplete'
  <2> SUFFICES ASSUME ~overlapped, NEW k \in Kinds, status'[k] = "done"
               PROVE  Complete(k)'
    BY DEF DoneMeansComplete, Complete, Kinds, restVars
  <2>1. CASE k # Kind(j)
    <3>1. Complete(k)
      BY <1>2, <2>1, DoneIsComplete DEF IInv
    <3>2. k = "install" => "bin" \in Names \ Owned(j)
      BY <2>1, SpecialNames DEF Owned, Kind, Names, Jobs, Kinds
    <3>3. k = "data" => DataNames \subseteq Names \ Owned(j)
      BY <2>1, SpecialNames, JobsAssumption DEF Owned, Kind, Names, Jobs, Kinds, Targets
    <3> QED
      BY <3>1, <3>2, <3>3 DEF Complete, Kinds, restVars
  <2>2. CASE k = Kind(j)
    <3>1. status[k] # "done"
      BY <1>8, <2>2 DEF Busy
    <3>2. PICK s \in {"done", "failed", "canceled"} :
             /\ status' = [status EXCEPT ![Kind(j)] = s]
             /\ s = "done" => Complete(Kind(j))'
      BY <1>1, <2>2, <3>1, KindIn DEF StatusMoves
    <3> QED
      BY <1>1, <2>2, <3>2
  <2> QED
    BY <2>1, <2>2
<1>12. WipedOK' /\ version' <= remote'
  BY DEF IInv, WipedOK, restVars, worldVars
<1> QED
  BY <1>3, <1>6, <1>10, <1>11, <1>12 DEF IInv

-----------------------------------------------------------------------------
(***************************************************************************)
(* The ends of a step: another line, another file, or a report.             *)
(***************************************************************************)
LEMMA JobFacts ==
  ASSUME TypeOK, NEW j \in Jobs, NEW x \in JobType, job' = [job EXCEPT ![j] = x]
  PROVE  /\ job' \in [Jobs -> JobType] /\ job'[j] = x
         /\ \A k \in Jobs : k # j => job'[k] = job[k]
  BY DEF TypeOK

Places == {"idle", "asked", "mkdir", "line", "read", "rename", "stop", "backup", "swap",
           "start", "version", "reload", "clear"}

LEMMA GotoFacts ==
  ASSUME TypeOK, NEW j \in Jobs, NEW pc \in Places, Goto(j, pc)
  PROVE  /\ job' \in [Jobs -> JobType]
         /\ \A k \in Jobs : k # j => job'[k] = job[k]
         /\ job'[j].pc = pc /\ job'[j].target = job[j].target
         /\ job'[j].tries = job[j].tries /\ job'[j].reads = job[j].reads
<1>1. job[j] \in JobType /\ job' = [job EXCEPT ![j] = [job[j] EXCEPT !.pc = pc]]
  BY DEF TypeOK, Goto
<1>2. PICK x : x = [job[j] EXCEPT !.pc = pc]
  OBVIOUS
<1>3. /\ x \in JobType /\ x.pc = pc /\ x.target = job[j].target
      /\ x.tries = job[j].tries /\ x.reads = job[j].reads
  BY <1>1, <1>2 DEF JobType, Places
<1>4. job' = [job EXCEPT ![j] = x]
  BY <1>1, <1>2
<1> QED
  BY <1>3, <1>4, JobFacts

LEMMA DownloadFacts ==
  ASSUME TypeOK, NEW j \in Jobs, NEW t \in Targets, Download(j, t)
  PROVE  /\ job' \in [Jobs -> JobType]
         /\ \A k \in Jobs : k # j => job'[k] = job[k]
         /\ job'[j].pc = "line" /\ job'[j].target = t /\ job'[j].tries = Tries
<1>1. job[j] \in JobType
      /\ job' = [job EXCEPT ![j] = [job[j] EXCEPT !.pc = "line", !.target = t, !.tries = Tries]]
  BY DEF TypeOK, Download
<1>2. PICK x : x = [job[j] EXCEPT !.pc = "line", !.target = t, !.tries = Tries]
  OBVIOUS
<1>3. Tries \in 0..Tries
  BY BoundsAssumption
<1>4. x \in JobType /\ x.pc = "line" /\ x.target = t /\ x.tries = Tries
  BY <1>1, <1>2, <1>3 DEF JobType
<1>5. job' = [job EXCEPT ![j] = x]
  BY <1>1, <1>2
<1> QED
  BY <1>4, <1>5, JobFacts

LEMMA RetryFacts ==
  ASSUME TypeOK, NEW j \in Jobs, job[j].tries > 1,
         job' = [job EXCEPT ![j].tries = @ - 1, ![j].pc = "line"]
  PROVE  /\ job' \in [Jobs -> JobType]
         /\ \A k \in Jobs : k # j => job'[k] = job[k]
         /\ job'[j].pc = "line" /\ job'[j].target = job[j].target /\ job'[j].tries > 0
<1>1. job[j] \in JobType
      /\ job' = [job EXCEPT ![j] = [job[j] EXCEPT !.tries = job[j].tries - 1, !.pc = "line"]]
  BY DEF TypeOK
<1>2. PICK x : x = [job[j] EXCEPT !.tries = job[j].tries - 1, !.pc = "line"]
  OBVIOUS
<1>3. job[j].tries \in 0..Tries
  BY <1>1 DEF JobType
<1>4. job[j].tries - 1 \in 0..Tries /\ job[j].tries - 1 > 0
  BY <1>3, BoundsAssumption
<1>5. x \in JobType /\ x.pc = "line" /\ x.target = job[j].target /\ x.tries > 0
  BY <1>1, <1>2, <1>4 DEF JobType
<1>6. job' = [job EXCEPT ![j] = x]
  BY <1>1, <1>2
<1> QED
  BY <1>5, <1>6, JobFacts

\* What holds of the data files a job has got, for files fs.
Got(fs, S) ==
    ~overlapped =>
        /\ "data" \notin wiped => \A f \in S : fs[f] # Absent
        /\ ~overtaken => \A f \in S : fs[f] \in {Absent, Other, remote}

\* The disk after a step of job j that leaves the version alone.
DiskOK(j) ==
    /\ dir' \in BOOLEAN /\ version' = version /\ UNCHANGED procVars
    /\ files' \in [Names -> Content] /\ part' \in [Targets -> Content]
    /\ \A n \in Names \ Owned(j) : files'[n] = files[n]
    /\ \A t \in Targets \ Owned(j) : part'[t] = part[t]
    /\ FilesAreWhole' /\ VersionHonest'

\* The step ends in front of a line for target t.
LEMMA LineInv ==
  ASSUME IInv, NEW j \in Jobs, Active(j), UNCHANGED <<cancel, restVars>>, DiskOK(j),
         job' \in [Jobs -> JobType], \A k \in Jobs : k # j => job'[k] = job[k],
         job'[j].pc = "line", NEW t \in Owned(j) \cap Targets, job'[j].target = t,
         job'[j].tries > 0, status' = status,
         j \in DataJobs => Got(files', Before(t))
  PROVE  IInv'
<1>1. /\ running' \in BOOLEAN /\ pidFile' \in BOOLEAN
      /\ version' \in 0..MaxVersion /\ version' <= remote
  BY DEF DiskOK, IInv, TypeOK, procVars
<1>2. t # "none"
  BY SpecialNames DEF Owned
<1>3. JobOK(j)'
  <2>1. Owned(j)' = Owned(j)
    BY DEF Owned
  <2>2. Fetched(j)' = Before(t)
    BY DEF Fetched, Downloading, Before
  <2>3. j \in DataJobs => DataOK(j)'
    BY <2>2 DEF DataOK, Got, restVars, worldVars
  <2> QED
    BY <2>1, <2>3 DEF JobOK, OwnFiles
<1>4. StatusMoves(j)
  BY DEF StatusMoves
<1> QED
  BY <1>1, <1>2, <1>3, <1>4, JobStepInv DEF DiskOK

\* The step ends with a report of failure.
LEMMA QuitInv ==
  ASSUME IInv, NEW j \in Jobs, Active(j), UNCHANGED <<cancel, restVars>>, DiskOK(j),
         NEW s \in {"failed", "canceled"}, Report(j, s)
  PROVE  IInv'
<1>1. /\ running' \in BOOLEAN /\ pidFile' \in BOOLEAN
      /\ version' \in 0..MaxVersion /\ version' <= remote
  BY DEF DiskOK, IInv, TypeOK, procVars
<1>2. /\ job' \in [Jobs -> JobType] /\ \A k \in Jobs : k # j => job'[k] = job[k]
      /\ job'[j].pc = "clear"
  BY GotoFacts DEF IInv, Report, Places
<1>3. JobOK(j)'
  BY <1>2 DEF JobOK, OwnFiles, DataOK, Fetched, Downloading
<1>4. StatusMoves(j)
  BY <1>2 DEF StatusMoves, Report
<1> QED
  BY <1>1, <1>2, <1>3, <1>4, JobStepInv DEF DiskOK, Downloading

\* Only the ".tmp" of the job's target changes.
LEMMA PartDisk ==
  ASSUME IInv, NEW j \in Jobs, job[j].pc \in Downloading, dir' \in BOOLEAN,
         UNCHANGED <<version, procVars, files, remote, overtaken, overlapped>>,
         NEW c \in Content, part' \in {part, [part EXCEPT ![job[j].target] = c]}
  PROVE  DiskOK(j)
<1>1. job[j].target \in Owned(j) \cap Targets /\ part \in [Targets -> Content]
  BY DEF IInv, JobOK, TypeOK
<1> QED
  BY <1>1 DEF DiskOK, IInv, TypeOK, FilesAreWhole, VersionHonest

\* A data file is never touched when a download of the kernel is dropped.
LEMMA DropDisk ==
  ASSUME IInv, NEW j \in Jobs, j \in InstallJobs, dir' \in BOOLEAN,
         UNCHANGED <<version, procVars, remote, overtaken, overlapped>>,
         files' = [files EXCEPT !["download"] = Absent],
         part' \in [Targets -> Content], \A t \in Targets \ Owned(j) : part'[t] = part[t]
  PROVE  DiskOK(j)
<1>1. "download" \in Owned(j) /\ "download" \in Names /\ "download" \notin DataNames
  BY SpecialNames, JobsAssumption DEF Owned, Names, Targets
<1>2. files \in [Names -> Content]
  BY DEF IInv, TypeOK
<1>3. /\ files' \in [Names -> Content]
      /\ \A n \in Names : n # "download" => files'[n] = files[n]
      /\ files'["download"] = Absent
  BY <1>1, <1>2 DEF Content
<1>4. DataNames \subseteq Names
  BY DEF Names, Targets
<1>5. FilesAreWhole'
  BY <1>3 DEF IInv, FilesAreWhole, Absent, Torn
<1>6. VersionHonest'
  BY <1>1, <1>3, <1>4 DEF IInv, VersionHonest
<1> QED
  BY <1>1, <1>3, <1>5, <1>6 DEF DiskOK

-----------------------------------------------------------------------------
(***************************************************************************)
(* mihomoDownloadFile.                                                      *)
(***************************************************************************)

\* A download in progress, of which a step changes the ".tmp" at most.
Loading(j) ==
    /\ job[j].pc \in Downloading
    /\ UNCHANGED <<cancel, procVars, restVars, dir, version>>
    /\ part' \in {part, [part EXCEPT ![job[j].target] = Absent]}

LEMMA LoadingFacts ==
  ASSUME IInv, NEW j \in Jobs, Loading(j)
  PROVE  /\ Active(j) /\ dir' \in BOOLEAN
         /\ UNCHANGED <<cancel, restVars, version, procVars, remote, overtaken, overlapped>>
         /\ job[j].target \in Owned(j) \cap Targets
         /\ part' \in [Targets -> Content]
         /\ \A t \in Targets \ Owned(j) : part'[t] = part[t]
         /\ job[j].target \in {"download", "mm.sh"} => j \in InstallJobs
         /\ files' = files => DiskOK(j)
<1>1. /\ Active(j) /\ dir' \in BOOLEAN
      /\ UNCHANGED <<cancel, restVars, version, procVars, remote, overtaken, overlapped>>
  BY DEF Loading, Active, Downloading, IInv, TypeOK, restVars, worldVars
<1>2. job[j].target \in Owned(j) \cap Targets /\ part \in [Targets -> Content]
  BY DEF IInv, JobOK, TypeOK, Loading
<1>3. part' \in [Targets -> Content] /\ \A t \in Targets \ Owned(j) : part'[t] = part[t]
  BY <1>2 DEF Loading, Content
<1>4. job[j].target \in {"download", "mm.sh"} => j \in InstallJobs
  BY <1>2, SpecialNames DEF Owned, Jobs
<1>5. files' = files => DiskOK(j)
  <2>1. Absent \in Content
    BY DEF Content
  <2> QED
    BY <1>1, <2>1, PartDisk DEF Loading
<1> QED
  BY <1>1, <1>2, <1>3, <1>4, <1>5

LEMMA AbandonInv ==
  ASSUME IInv, NEW j \in Jobs, Loading(j), NEW s \in {"failed", "canceled"}, Abandon(j, s)
  PROVE  IInv'
<1>1. DiskOK(j)
  <2>1. CASE job[j].target = "download"
    <3>1. files' = [files EXCEPT !["download"] = Absent] /\ j \in InstallJobs
      BY <2>1, LoadingFacts DEF Abandon
    <3> QED
      BY <3>1, LoadingFacts, DropDisk
  <2>2. CASE job[j].target # "download"
    BY <2>2, LoadingFacts DEF Abandon
  <2> QED
    BY <2>1, <2>2
<1>2. Report(j, s)
  BY DEF Abandon
<1> QED
  BY <1>1, <1>2, LoadingFacts, QuitInv

\* The next file of the job, or the end of a canceled one.
LEMMA ContinueInv ==
  ASSUME IInv, NEW j \in Jobs, Active(j), UNCHANGED <<cancel, restVars>>, DiskOK(j),
         NEW t \in Owned(j) \cap Targets, Continue(j, t),
         j \in DataJobs => Got(files', Before(t))
  PROVE  IInv'
<1>1. CASE Report(j, "canceled")
  BY <1>1, QuitInv
<1>2. CASE Download(j, t) /\ UNCHANGED status
  <2>1. /\ job' \in [Jobs -> JobType] /\ \A k \in Jobs : k # j => job'[k] = job[k]
        /\ job'[j].pc = "line" /\ job'[j].target = t /\ job'[j].tries > 0
    BY <1>2, DownloadFacts, BoundsAssumption DEF IInv
  <2> QED
    BY <1>2, <2>1, LineInv
<1> QED
  BY <1>1, <1>2 DEF Continue

LEMMA FailedInv ==
  ASSUME IInv, NEW j \in Jobs, Loading(j), Failed(j)
  PROVE  IInv'
<1>1. CASE job[j].target = "mm.sh" /\ Continue(j, "download") /\ UNCHANGED files
  <2>1. j \in InstallJobs /\ DiskOK(j)
    BY <1>1, LoadingFacts
  <2>2. "download" \in Owned(j) \cap Targets /\ j \notin DataJobs
    BY <2>1, JobsAssumption DEF Owned, Targets
  <2> QED
    BY <1>1, <2>1, <2>2, LoadingFacts, ContinueInv
<1>2. CASE Abandon(j, "failed")
  BY <1>2, AbandonInv
<1> QED
  BY <1>1, <1>2 DEF Failed

LEMMA NextLineInv ==
  ASSUME IInv, NEW j \in Jobs, Loading(j), NextLine(j)
  PROVE  IInv'
<1>1. CASE /\ job[j].tries > 1 /\ UNCHANGED <<status, files>>
           /\ job' = [job EXCEPT ![j].tries = @ - 1, ![j].pc = "line"]
  <2>1. /\ job' \in [Jobs -> JobType] /\ \A k \in Jobs : k # j => job'[k] = job[k]
        /\ job'[j].pc = "line" /\ job'[j].target = job[j].target /\ job'[j].tries > 0
    BY <1>1, RetryFacts DEF IInv
  <2>2. j \in DataJobs => Got(files, Before(job[j].target))
    BY DEF IInv, JobOK, DataOK, Fetched, Loading, Got
  <2> QED
    BY <1>1, <2>1, <2>2, LoadingFacts, LineInv
<1>2. CASE Failed(j)
  BY <1>2, FailedInv
<1> QED
  BY <1>1, <1>2 DEF NextLine

\* The lines that fail, and the canceled ones.
LEMMA FailingInv ==
  ASSUME IInv, NEW j \in Jobs,
         \/ LineCanceled(j) \/ LineFails(j) \/ OpenFails(j) \/ ReadCanceled(j)
         \/ ReadBreaks(j) \/ RenameFails(j)
  PROVE  IInv'
<1>1. Loading(j)
  BY DEF LineCanceled, LineFails, OpenFails, ReadCanceled, ReadBreaks, RenameFails, JobStep,
     At, Discard, Loading, Downloading
<1>2. Abandon(j, "canceled") \/ NextLine(j) \/ Failed(j)
  BY DEF LineCanceled, LineFails, OpenFails, ReadCanceled, ReadBreaks, RenameFails
<1> QED
  BY <1>1, <1>2, AbandonInv, NextLineInv, FailedInv

\* The ".tmp" is opened: the job reads what the server offers now.
LEMMA OpenFileInv ==
  ASSUME IInv, NEW j \in Jobs, NEW new \in Answers(j), OpenFile(j, new)
  PROVE  IInv'
<1>1. /\ job[j].pc = "line" /\ UNCHANGED <<cancel, procVars, restVars>>
      /\ part' = [part EXCEPT ![job[j].target] = Torn]
      /\ UNCHANGED <<status, dir, files, version>>
  BY DEF OpenFile, JobStep, At
<1>2. /\ job[j].target \in Owned(j) \cap Targets /\ Active(j)
      /\ job[j].target # "none" /\ job[j].tries > 0
  BY <1>1 DEF IInv, JobOK, TypeOK, Downloading, Active
<1>3. new \in {Other} \cup 0..MaxVersion
  BY BoundsAssumption DEF IInv, TypeOK, Answers
<1>4. PICK x : x = [job[j] EXCEPT !.pc = "read", !.reads = new]
  OBVIOUS
<1>5. job[j] \in JobType /\ job' = [job EXCEPT ![j] = x]
  BY <1>4 DEF OpenFile, IInv, TypeOK
<1>6. /\ x \in JobType /\ x.pc = "read" /\ x.target = job[j].target
      /\ x.tries = job[j].tries /\ x.reads = new
  BY <1>3, <1>4, <1>5 DEF JobType
<1>7. /\ job' \in [Jobs -> JobType] /\ job'[j] = x
      /\ \A k \in Jobs : k # j => job'[k] = job[k]
  BY <1>5, <1>6, JobFacts DEF IInv
<1>8. DiskOK(j)
  <2>1. Torn \in Content
    BY DEF Content
  <2> QED
    BY <1>1, <2>1, PartDisk DEF IInv, TypeOK, Downloading, restVars, worldVars
<1>9. JobOK(j)'
  <2>1. j \in DataJobs => new \in {Other, remote}
    BY <1>2 DEF Owned, Answers
  <2>2. Fetched(j)' = Fetched(j)
    BY <1>1, <1>6, <1>7 DEF Fetched, Downloading, Before
  <2>3. j \in DataJobs => DataOK(j)
    BY DEF IInv, JobOK
  <2>4. j \in DataJobs => DataOK(j)'
    BY <1>1, <1>6, <1>7, <2>1, <2>2, <2>3 DEF DataOK, restVars, worldVars
  <2>5. Owned(j)' = Owned(j)
    BY DEF Owned
  <2> QED
    BY <1>2, <1>6, <1>7, <2>4, <2>5 DEF JobOK, OwnFiles
<1>10. StatusMoves(j)
  BY <1>1, <1>6, <1>7 DEF StatusMoves
<1>11. /\ running' \in BOOLEAN /\ pidFile' \in BOOLEAN
       /\ version' \in 0..MaxVersion /\ version' <= remote
  BY <1>1 DEF IInv, TypeOK, procVars
<1> QED
  BY <1>1, <1>2, <1>6, <1>7, <1>8, <1>9, <1>10, <1>11, JobStepInv DEF DiskOK

\* What others do to the content of a target: nothing, unless jobs overlapped.
LEMMA SharedFacts ==
  ASSUME IInv, NEW j \in Jobs, job[j].pc \in Downloading, NEW c, NEW d \in Shared(j, c)
  PROVE  d \in {c, Torn} /\ (~overlapped => d = c)
<1>1. d \in {c, Torn}
  BY DEF Shared
<1>2. ASSUME ~overlapped, NEW i \in Jobs \ {j}, job[i].pc \in {"read", "rename"}
      PROVE  job[i].target # job[j].target
  <2>1. Active(i) /\ Active(j)
    BY <1>2 DEF Active, Downloading
  <2>2. Kind(i) # Kind(j)
    BY <1>2, <2>1 DEF IInv, StatusOK
  <2>3. job[i].target \in Owned(i) /\ job[j].target \in Owned(j)
    BY <1>2 DEF IInv, JobOK, Downloading
  <2> QED
    BY <1>2, <2>2, <2>3, Ownership
<1>3. ~overlapped => d = c
  BY <1>2 DEF Shared
<1> QED
  BY <1>1, <1>3

\* The answer has ended; a ".tmp" that has gone does not come back.
LEMMA ReadEofInv ==
  ASSUME IInv, NEW j \in Jobs, ReadEof(j)
  PROVE  IInv'
<1>1. /\ job[j].pc = "read" /\ UNCHANGED <<cancel, procVars, restVars>>
      /\ UNCHANGED <<status, dir, files, version>> /\ Goto(j, "rename")
  BY DEF ReadEof, JobStep, At
<1>2. PICK c \in Shared(j, job[j].reads) :
         part' = [part EXCEPT ![job[j].target] = IF @ = Absent THEN @ ELSE c]
  BY DEF ReadEof
<1>3. c \in {job[j].reads, Torn} /\ (~overlapped => c = job[j].reads)
  BY <1>1, SharedFacts DEF Downloading
<1> DEFINE new == IF part[job[j].target] = Absent THEN Absent ELSE c
<1>4. /\ job[j].target \in Owned(j) \cap Targets /\ Active(j)
      /\ job[j].target # "none" /\ job[j].tries > 0
      /\ job[j].reads \in {Other} \cup 0..MaxVersion
      /\ part \in [Targets -> Content]
  BY <1>1 DEF IInv, JobOK, TypeOK, Downloading, Active, JobType
<1>5. part' = [part EXCEPT ![job[j].target] = new]
  BY <1>2, <1>4
<1>6. new \in Content /\ (~overlapped => new # Torn)
  BY <1>3, <1>4, BoundsAssumption DEF Content, Absent, Torn, Other
<1>7. part'[job[j].target] = new
  BY <1>4, <1>5
<1>8. /\ job' \in [Jobs -> JobType]
      /\ \A k \in Jobs : k # j => job'[k] = job[k]
      /\ job'[j].pc = "rename" /\ job'[j].target = job[j].target
      /\ job'[j].tries = job[j].tries /\ job'[j].reads = job[j].reads
  BY <1>1, GotoFacts DEF IInv, Places
<1>9. UNCHANGED <<remote, overtaken, overlapped, wiped>>
  BY <1>1 DEF restVars, worldVars
<1>10. DiskOK(j)
  BY <1>1, <1>5, <1>6, <1>9, PartDisk DEF IInv, TypeOK, Downloading
<1>11. JobOK(j)'
  <2>1. Fetched(j)' = Fetched(j)
    BY <1>1, <1>8 DEF Fetched, Downloading, Before
  <2>2. j \in DataJobs => DataOK(j)
    BY DEF IInv, JobOK
  <2>3. ~overlapped /\ ~overtaken /\ j \in DataJobs =>
          job[j].reads \in {Other, remote} /\ new \in {Absent, Other, remote}
    BY <1>1, <1>3, <2>2 DEF DataOK
  <2>4. j \in DataJobs => DataOK(j)'
    BY <1>1, <1>7, <1>8, <1>9, <2>1, <2>2, <2>3 DEF DataOK
  <2>5. Owned(j)' = Owned(j)
    BY DEF Owned
  <2>6. OwnFiles(j)'
    BY <1>6, <1>7, <1>8, <1>9 DEF OwnFiles
  <2> QED
    BY <1>4, <1>8, <2>4, <2>5, <2>6 DEF JobOK
<1>12. StatusMoves(j)
  BY <1>1, <1>8 DEF StatusMoves
<1>13. /\ running' \in BOOLEAN /\ pidFile' \in BOOLEAN
       /\ version' \in 0..MaxVersion /\ version' <= remote
  BY <1>1 DEF IInv, TypeOK, procVars
<1> QED
  BY <1>1, <1>4, <1>8, <1>10, <1>11, <1>12, <1>13, JobStepInv DEF DiskOK

\* The file has arrived: what is in the ".tmp" is whole, and it is what the server
\* offers; a data file gets at least the version data_version.txt claims.
LEMMA RenameInv ==
  ASSUME IInv, NEW j \in Jobs, Rename(j)
  PROVE  IInv'
<1> DEFINE t == job[j].target
<1>1. /\ job[j].pc = "rename" /\ UNCHANGED <<cancel, procVars, restVars>>
      /\ part[t] # Absent
      /\ Arrived(j) /\ UNCHANGED <<dir, version>>
      /\ part' = [part EXCEPT ![t] = Absent]
  BY DEF Rename, JobStep, At, Discard
<1>0. PICK c \in Shared(j, part[t]) : files' = [files EXCEPT ![t] = c]
  BY DEF Rename
<1>2. /\ t \in Owned(j) \cap Targets /\ Active(j)
      /\ t # "none" /\ job[j].tries > 0
      /\ part \in [Targets -> Content] /\ files \in [Names -> Content]
      /\ ~overlapped => part[t] # Torn
  BY <1>1 DEF IInv, JobOK, OwnFiles, TypeOK, Downloading, Active
<1>14. c \in Content /\ c # Absent /\ (~overlapped => c = part[t])
  <2>1. c \in {part[t], Torn} /\ (~overlapped => c = part[t])
    BY <1>1, SharedFacts DEF Downloading
  <2> QED
    BY <1>1, <1>2, <2>1 DEF Content, Absent, Torn
<1>3. t \in Names /\ DataNames \subseteq Names
  BY <1>2 DEF Names, Targets
<1>4. /\ files' \in [Names -> Content] /\ files'[t] = c
      /\ \A n \in Names : n # t => files'[n] = files[n]
      /\ part' \in [Targets -> Content]
      /\ \A u \in Targets : u # t => part'[u] = part[u]
  <2>1. Absent \in Content
    BY DEF Content
  <2> QED
    BY <1>0, <1>1, <1>2, <1>3, <1>14, <2>1
<1>5. UNCHANGED <<remote, overtaken, overlapped, wiped>>
  BY <1>1 DEF restVars, worldVars
<1>6. j \in DataJobs => DataOK(j)
  BY DEF IInv, JobOK
<1>7. ~overlapped /\ ~overtaken /\ t \in DataNames => c \in {Other, remote}
  <2>1. t \in DataNames => j \in DataJobs
    BY <1>2, SpecialNames DEF Owned
  <2> QED
    BY <1>1, <1>6, <1>14, <2>1 DEF DataOK
<1>8. VersionHonest'
  <2> SUFFICES ASSUME ~overtaken, ~overlapped, NEW f \in DataNames
               PROVE  files'[f] \in {Absent, Other} \/ files'[f] >= version
    BY <1>1, <1>5 DEF VersionHonest
  <2>1. CASE f = t
    BY <1>4, <1>7, <2>1 DEF IInv, TypeOK
  <2>2. CASE f # t
    BY <1>3, <1>4, <2>2 DEF IInv, VersionHonest
  <2> QED
    BY <2>1, <2>2
<1>9. DiskOK(j)
  <2>1. FilesAreWhole'
    BY <1>2, <1>4, <1>5, <1>14 DEF IInv, FilesAreWhole, Torn
  <2> QED
    BY <1>1, <1>2, <1>4, <1>8, <2>1 DEF DiskOK, IInv, TypeOK
<1>10. j \in DataJobs => Got(files', Before(t) \cup {t}) /\ t \in DataNames
  <2> SUFFICES ASSUME j \in DataJobs
               PROVE  Got(files', Before(t) \cup {t}) /\ t \in DataNames
    OBVIOUS
  <2>1. t \in DataNames
    BY <1>2 DEF Owned
  <2>2. Fetched(j) = Before(t) /\ Before(t) \subseteq DataNames
    BY <1>1 DEF Fetched, Downloading, Before
  <2>3. Got(files, Before(t))
    BY <1>6, <2>2 DEF DataOK, Got
  <2>4. \A f \in Before(t) \cup {t} :
            \/ files'[f] = files[f] /\ f \in Before(t)
            \/ files'[f] = c /\ f = t
    BY <1>3, <1>4, <2>2
  <2> QED
    BY <1>7, <1>14, <2>1, <2>3, <2>4 DEF Got
<1>11. j \notin DataJobs => t \in {"download", "mm.sh"} /\ j \in InstallJobs
  BY <1>2, SpecialNames DEF Owned, Targets, Jobs
<1>12. CASE Following(t) # "none"
  <2>1. Continue(j, Following(t))
    BY <1>1, <1>12 DEF Arrived
  <2>2. j \in DataJobs => /\ Following(t) \in Owned(j) \cap Targets
                          /\ Got(files', Before(Following(t)))
    BY <1>10, <1>12, FollowingData DEF Owned, Targets
  <2>3. j \notin DataJobs => Following(t) \in Owned(j) \cap Targets
    BY <1>11, <1>12, FollowingInstall DEF Owned, Targets
  <2> HIDE DEF t
  <2>4. PICK u : u = Following(t)
    OBVIOUS
  <2> QED
    BY <1>1, <1>2, <1>9, <2>1, <2>2, <2>3, <2>4, ContinueInv
<1>13. CASE Following(t) = "none"
  <2>1. /\ running' \in BOOLEAN /\ pidFile' \in BOOLEAN
        /\ version' \in 0..MaxVersion /\ version' <= remote
    BY <1>1 DEF IInv, TypeOK, procVars
  <2>2. CASE j \in DataJobs
    <3>1. Goto(j, "version") /\ UNCHANGED status
      BY <1>1, <1>13, <2>2, JobsAssumption DEF Arrived
    <3>2. /\ job' \in [Jobs -> JobType]
          /\ \A k \in Jobs : k # j => job'[k] = job[k]
          /\ job'[j].pc = "version"
      BY <3>1, GotoFacts DEF IInv, Places
    <3>3. Fetched(j)' = DataNames
      BY <3>2 DEF Fetched, Downloading
    <3>4. Got(files', DataNames)
      BY <1>10, <1>13, <2>2, FollowingData
    <3>5. DataOK(j)'
      BY <1>5, <3>2, <3>3, <3>4 DEF DataOK, Got
    <3>6. JobOK(j)'
      BY <2>2, <3>2, <3>5 DEF JobOK, OwnFiles, Downloading
    <3>7. StatusMoves(j)
      BY <3>1, <3>2 DEF StatusMoves
    <3> QED
      BY <1>1, <1>2, <1>9, <2>1, <3>2, <3>6, <3>7, JobStepInv DEF DiskOK, Downloading
  <2>3. CASE j \notin DataJobs
    <3>1. Goto(j, "stop") /\ status' = [status EXCEPT !["install"] = "installing"]
      BY <1>1, <1>11, <1>13, <2>3 DEF Arrived
    <3>2. /\ job' \in [Jobs -> JobType]
          /\ \A k \in Jobs : k # j => job'[k] = job[k]
          /\ job'[j].pc = "stop"
      BY <3>1, GotoFacts DEF IInv, Places
    <3>3. JobOK(j)'
      BY <1>11, <2>3, <3>2 DEF JobOK, OwnFiles, Downloading
    <3>4. StatusMoves(j)
      BY <1>11, <2>3, <3>1, <3>2 DEF StatusMoves
    <3> QED
      BY <1>1, <1>2, <1>9, <2>1, <3>2, <3>3, <3>4, JobStepInv DEF DiskOK, Downloading
  <2> QED
    BY <2>2, <2>3
<1> QED
  BY <1>12, <1>13

-----------------------------------------------------------------------------
(***************************************************************************)
(* runMihomoInstall and runMihomoDataUpdate around the downloads.           *)
(***************************************************************************)
LEMMA SameDisk ==
  ASSUME IInv, NEW j \in Jobs, dir' \in BOOLEAN,
         UNCHANGED <<version, procVars, files, part, remote, overtaken, overlapped>>
  PROVE  DiskOK(j)
  BY DEF DiskOK, IInv, TypeOK, FilesAreWhole, VersionHonest

LEMMA MkDirInv ==
  ASSUME IInv, NEW j \in Jobs, MkDir(j)
  PROVE  IInv'
<1> DEFINE t == IF j \in DataJobs THEN DataFiles[1]
                ELSE IF files["mm.sh"] = Absent THEN "mm.sh" ELSE "download"
<1>1. /\ Active(j) /\ UNCHANGED <<cancel, procVars, restVars>> /\ dir' = TRUE
      /\ Download(j, t) /\ UNCHANGED <<status, files, part, version>>
  BY DEF MkDir, JobStep, At, Active
<1>2. t \in Owned(j) \cap Targets
  BY FirstFile DEF Owned, Targets
<1>3. j \in DataJobs => Got(files, Before(t))
  BY FirstFile DEF Got
<1>4. DiskOK(j)
  BY <1>1, SameDisk DEF restVars, worldVars
<1> HIDE DEF t
<1>5. /\ job' \in [Jobs -> JobType] /\ \A k \in Jobs : k # j => job'[k] = job[k]
      /\ job'[j].pc = "line" /\ job'[j].target = t /\ job'[j].tries > 0
  BY <1>1, <1>2, DownloadFacts, BoundsAssumption DEF IInv
<1> QED
  BY <1>1, <1>2, <1>3, <1>4, <1>5, LineInv

LEMMA MkDirFailsInv ==
  ASSUME IInv, NEW j \in Jobs, MkDirFails(j)
  PROVE  IInv'
<1>1. /\ Active(j) /\ UNCHANGED <<cancel, procVars, restVars, diskVars>>
      /\ Report(j, "failed")
  BY DEF MkDirFails, JobStep, At, Active
<1>2. DiskOK(j)
  BY <1>1, SameDisk DEF restVars, worldVars, diskVars, IInv, TypeOK
<1> QED
  BY <1>1, <1>2, QuitInv

\* data_version.txt: every data file that is there has the version of the server.
LEMMA WriteVersionInv ==
  ASSUME IInv, NEW j \in Jobs, WriteVersion(j)
  PROVE  IInv'
<1>1. /\ job[j].pc = "version" /\ UNCHANGED <<cancel, procVars, restVars>>
      /\ version' \in {version} \cup 0..remote /\ Goto(j, "reload")
      /\ UNCHANGED <<status, dir, files, part>>
  BY DEF WriteVersion, JobStep, At
<1>2. /\ job' \in [Jobs -> JobType] /\ \A k \in Jobs : k # j => job'[k] = job[k]
      /\ job'[j].pc = "reload"
  BY <1>1, GotoFacts DEF IInv, Places
<1>3. /\ version' \in 0..MaxVersion /\ version' <= remote
      /\ running' \in BOOLEAN /\ pidFile' \in BOOLEAN /\ dir' \in BOOLEAN
      /\ files' \in [Names -> Content] /\ part' \in [Targets -> Content]
  <2>1. version \in 0..MaxVersion /\ version <= remote /\ remote \in 1..MaxVersion
    BY DEF IInv, TypeOK
  <2>2. version' \in 0..MaxVersion /\ version' <= remote
    BY <1>1, <2>1, BoundsAssumption
  <2> QED
    BY <1>1, <2>2 DEF IInv, TypeOK, procVars
<1>4. j \in DataJobs /\ DataOK(j) /\ Fetched(j) = DataNames
  BY <1>1 DEF IInv, JobOK, Fetched, Downloading
<1>5. VersionHonest'
  <2> SUFFICES ASSUME ~overtaken, ~overlapped, NEW f \in DataNames,
                      files[f] \notin {Absent, Other}
               PROVE  files[f] >= version'
    BY <1>1 DEF VersionHonest, restVars, worldVars
  <2>1. files[f] = remote
    BY <1>4 DEF DataOK
  <2>2. files[f] >= version
    BY DEF IInv, VersionHonest
  <2> QED
    BY <1>1, <2>1, <2>2 DEF IInv, TypeOK
<1>6. FilesAreWhole'
  BY <1>1 DEF IInv, FilesAreWhole, restVars
<1>7. JobOK(j)'
  <2>1. Fetched(j)' = DataNames
    BY <1>2 DEF Fetched, Downloading
  <2>2. DataOK(j)'
    BY <1>1, <1>2, <1>4, <2>1 DEF DataOK, restVars, worldVars
  <2> QED
    BY <1>2, <1>4, <2>2 DEF JobOK, OwnFiles, Downloading
<1>8. StatusMoves(j)
  BY <1>1, <1>2 DEF StatusMoves
<1>9. Active(j)
  BY <1>1 DEF Active
<1> QED
  BY <1>1, <1>2, <1>3, <1>5, <1>6, <1>7, <1>8, <1>9, JobStepInv DEF Downloading

\* A report of success, with what it promises in place.
LEMMA DoneInv ==
  ASSUME IInv, NEW j \in Jobs, Active(j), Report(j, "done"), Complete(Kind(j)),
         UNCHANGED <<cancel, restVars, diskVars>>,
         running' \in BOOLEAN, pidFile' \in BOOLEAN
  PROVE  IInv'
<1>1. /\ job' \in [Jobs -> JobType] /\ \A k \in Jobs : k # j => job'[k] = job[k]
      /\ job'[j].pc = "clear"
  BY GotoFacts DEF IInv, Report, Places
<1>2. JobOK(j)'
  BY <1>1 DEF JobOK, OwnFiles, DataOK, Fetched, Downloading
<1>3. Complete(Kind(j))'
  BY DEF Complete, restVars, diskVars, Kind
<1>4. StatusMoves(j)
  BY <1>1, <1>3 DEF StatusMoves, Report
<1>5. /\ version' \in 0..MaxVersion /\ version' <= remote /\ dir' \in BOOLEAN
      /\ files' \in [Names -> Content] /\ part' \in [Targets -> Content]
      /\ files' = files /\ part' = part
  BY DEF IInv, TypeOK, diskVars
<1>6. FilesAreWhole' /\ VersionHonest'
  BY DEF IInv, FilesAreWhole, VersionHonest, diskVars, restVars, worldVars
<1> QED
  BY <1>1, <1>2, <1>4, <1>5, <1>6, JobStepInv DEF Downloading

LEMMA ReloadIpsetInv ==
  ASSUME IInv, NEW j \in Jobs, ReloadIpset(j)
  PROVE  IInv'
<1>1. /\ job[j].pc = "reload" /\ UNCHANGED <<cancel, procVars, restVars, diskVars>>
      /\ Report(j, "done")
  BY DEF ReloadIpset, JobStep, At
<1>2. j \in DataJobs /\ DataOK(j) /\ Fetched(j) = DataNames
  BY <1>1 DEF IInv, JobOK, Fetched, Downloading
<1>3. Kind(j) = "data"
  BY <1>2, JobsAssumption DEF Kind
<1>4. Complete(Kind(j))
  BY <1>2, <1>3 DEF Complete, DataOK
<1>5. Active(j) /\ running' \in BOOLEAN /\ pidFile' \in BOOLEAN
  BY <1>1 DEF Active, IInv, TypeOK, procVars
<1> QED
  BY <1>1, <1>4, <1>5, DoneInv

LEMMA MmTypes ==
  ASSUME TypeOK, MmStop \/ MmStart \/ UNCHANGED procVars
  PROVE  running' \in BOOLEAN /\ pidFile' \in BOOLEAN
  BY DEF MmStop, MmStart, procVars, TypeOK

LEMMA StartKernelInv ==
  ASSUME IInv, NEW j \in Jobs, StartKernel(j)
  PROVE  IInv'
<1>1. /\ job[j].pc = "start" /\ UNCHANGED <<cancel, restVars, diskVars>>
      /\ Report(j, "done") /\ (MmStart \/ UNCHANGED procVars)
  BY DEF StartKernel, At
<1>2. Kind(j) = "install" /\ Complete(Kind(j)) /\ Active(j)
  BY <1>1 DEF IInv, JobOK, OwnFiles, Kind, Complete, Active
<1> QED
  BY <1>1, <1>2, DoneInv, MmTypes DEF IInv

LEMMA StopKernelInv ==
  ASSUME IInv, NEW j \in Jobs, StopKernel(j)
  PROVE  IInv'
<1>1. /\ job[j].pc = "stop" /\ UNCHANGED <<status, cancel, restVars, diskVars>>
      /\ MmStop \/ UNCHANGED procVars
  BY DEF StopKernel, At
<1>2. IsMihomoRunning \in BOOLEAN /\ job[j] \in JobType
  BY DEF IsMihomoRunning, IInv, TypeOK
<1>3. PICK x : x = [job[j] EXCEPT !.pc = "backup", !.was = IsMihomoRunning]
  OBVIOUS
<1> HIDE DEF IsMihomoRunning
<1>4. x \in JobType /\ x.pc = "backup"
  BY <1>2, <1>3 DEF JobType
<1>5. job' = [job EXCEPT ![j] = x]
  BY <1>2, <1>3 DEF StopKernel, IInv, TypeOK
<1>6. /\ job' \in [Jobs -> JobType] /\ \A k \in Jobs : k # j => job'[k] = job[k]
      /\ job'[j].pc = "backup"
  BY <1>4, <1>5, JobFacts DEF IInv
<1>7. JobOK(j)'
  <2>1. j \in InstallJobs /\ j \notin DataJobs
    BY <1>1, JobsAssumption DEF IInv, JobOK
  <2> QED
    BY <1>6, <2>1 DEF JobOK, OwnFiles, Downloading
<1>8. StatusMoves(j) /\ Active(j)
  BY <1>1, <1>6 DEF StatusMoves, Active
<1>9. /\ version' \in 0..MaxVersion /\ version' <= remote /\ dir' \in BOOLEAN
      /\ files' \in [Names -> Content] /\ part' \in [Targets -> Content]
      /\ files' = files /\ part' = part
  BY <1>1 DEF IInv, TypeOK, diskVars
<1>10. FilesAreWhole' /\ VersionHonest'
  BY <1>1 DEF IInv, FilesAreWhole, VersionHonest, diskVars, restVars, worldVars
<1>11. running' \in BOOLEAN /\ pidFile' \in BOOLEAN
  BY <1>1, MmTypes DEF IInv
<1> QED
  BY <1>1, <1>6, <1>7, <1>8, <1>9, <1>10, <1>11, JobStepInv DEF Downloading

\* The two renames: only files of the installation move, and a move is whole.
LEMMA RenamesInv ==
  ASSUME IInv, NEW j \in Jobs, Backup(j) \/ Swap(j)
  PROVE  IInv'
<1>1. /\ job[j].pc \in {"backup", "swap"} /\ UNCHANGED <<cancel, procVars, restVars>>
      /\ UNCHANGED <<status, dir, part, version>>
  BY DEF Backup, Swap, JobStep, At
<1>2. j \in InstallJobs /\ j \notin DataJobs /\ Active(j)
  BY <1>1, JobsAssumption DEF IInv, JobOK, Active
<1>3. files \in [Names -> Content] /\ {"bin", "bak", "download"} \subseteq Names
      /\ Absent \in Content
  BY DEF IInv, TypeOK, Names, Targets, Content
<1>4. /\ files' \in [Names -> Content]
      /\ \A n \in Names \ {"bin", "bak", "download"} : files'[n] = files[n]
      /\ \A n \in Names : files'[n] \in {Absent} \cup {files[m] : m \in Names}
  BY <1>3 DEF Backup, Swap
<1>5. {"bin", "bak", "download"} \subseteq Owned(j) \ DataNames
  BY <1>2, SpecialNames DEF Owned
<1>6. FilesAreWhole'
  BY <1>1, <1>4 DEF IInv, FilesAreWhole, Absent, Torn, restVars
<1>7. VersionHonest'
  <2>1. DataNames \subseteq Names \ {"bin", "bak", "download"}
    BY <1>5 DEF Names, Targets
  <2> QED
    BY <1>1, <1>4, <2>1 DEF IInv, VersionHonest, restVars, worldVars
<1>8. Goto(j, "swap") \/ (Goto(j, "start") /\ files'["bin"] # Absent)
  BY <1>3 DEF Backup, Swap
<1>9. /\ job' \in [Jobs -> JobType] /\ \A k \in Jobs : k # j => job'[k] = job[k]
      /\ \/ job'[j].pc = "swap"
         \/ job'[j].pc = "start" /\ files'["bin"] # Absent
  BY <1>8, GotoFacts DEF IInv, Places
<1>10. JobOK(j)'
  BY <1>2, <1>9 DEF JobOK, OwnFiles, Downloading
<1>11. StatusMoves(j)
  BY <1>1, <1>9 DEF StatusMoves
<1>12. /\ version' \in 0..MaxVersion /\ version' <= remote /\ dir' \in BOOLEAN
       /\ part' \in [Targets -> Content]
       /\ running' \in BOOLEAN /\ pidFile' \in BOOLEAN
  BY <1>1 DEF IInv, TypeOK, procVars
<1>13. \A n \in Names \ Owned(j) : files'[n] = files[n]
  BY <1>4, <1>5
<1> QED
  BY <1>1, <1>2, <1>4, <1>6, <1>7, <1>9, <1>10, <1>11, <1>12, <1>13, JobStepInv
     DEF Downloading

LEMMA SwapFailsInv ==
  ASSUME IInv, NEW j \in Jobs, SwapFails(j)
  PROVE  IInv'
<1>1. /\ job[j].pc = "swap" /\ UNCHANGED <<cancel, procVars, restVars>>
      /\ UNCHANGED <<dir, part, version>> /\ Report(j, "failed")
      /\ files' = [files EXCEPT !["download"] = Absent]
  BY DEF SwapFails, JobStep, At
<1>2. j \in InstallJobs /\ Active(j)
  BY <1>1 DEF IInv, JobOK, Active
<1>3. DiskOK(j)
  BY <1>1, <1>2, DropDisk DEF restVars, worldVars, IInv, TypeOK
<1> QED
  BY <1>1, <1>2, <1>3, QuitInv

-----------------------------------------------------------------------------
(***************************************************************************)
(* Everything around the jobs.                                              *)
(***************************************************************************)
SameJob(k) ==
    /\ job'[k].pc = job[k].pc /\ job'[k].target = job[k].target
    /\ job'[k].tries = job[k].tries /\ job'[k].reads = job[k].reads

\* Steps that move no job on; files go only while an uninstallation is on record.
LEMMA QuietInv ==
  ASSUME IInv, job' \in [Jobs -> JobType],
         \A k \in Jobs : SameJob(k) \/ (~Active(k) /\ job'[k].pc \in {"idle", "asked"}),
         UNCHANGED <<status, remote, overtaken, overlapped>>,
         files' \in [Names -> Content],
         \A n \in Names : files'[n] = files[n] \/ (files'[n] = Absent /\ wiped' = Kinds),
         part' \in [Targets -> Content],
         \A t \in Targets : part'[t] \in {part[t], Absent},
         version' \in {Absent, version}, wiped \subseteq wiped', wiped' \subseteq Kinds,
         WipedOK', cancel' \in [Kinds -> Jobs \cup {None}], dir' \in BOOLEAN,
         running' \in BOOLEAN, pidFile' \in BOOLEAN,
         un' \in {"idle", "soft", "full", "bin"}, autostart' \in BOOLEAN,
         requests' \in 0..MaxRequests, crashes' \in 0..MaxCrashes
  PROVE  IInv'
<1>1. \A k \in Jobs : Active(k)' <=> Active(k)
  BY DEF Active, SameJob
<1>2. version' \in 0..MaxVersion /\ version' <= remote' /\ version' <= version
  BY BoundsAssumption DEF IInv, TypeOK, Absent
<1>3. TypeOK'
  BY <1>2 DEF IInv, TypeOK, SameJob
<1>4. StatusOK'
  <2>1. \A k \in Kinds : Busy(k)' <=> Busy(k)
    BY DEF Busy
  <2>2. ~overlapped => \A k \in Jobs : Active(k)' => Busy(Kind(k))'
    BY <1>1, <2>1, KindIn DEF IInv, StatusOK
  <2>3. ~overlapped => \A k, l \in Jobs :
                         Active(k)' /\ Active(l)' /\ Kind(k) = Kind(l) => k = l
    BY <1>1 DEF IInv, StatusOK
  <2>4. \A k \in Kinds : Busy(k)' => \E l \in Jobs : Kind(l) = k /\ Active(l)'
    BY <1>1, <2>1 DEF IInv, StatusOK, Unwedged
  <2> QED
    BY <2>2, <2>3, <2>4 DEF StatusOK, Unwedged, Kind
<1>5. DataNames \subseteq Names /\ "bin" \in Names
  BY DEF Names, Targets
<1>6. FilesAreWhole'
  BY DEF IInv, FilesAreWhole, Absent, Torn
<1>7. VersionHonest'
  <2> SUFFICES ASSUME ~overtaken, ~overlapped, NEW f \in DataNames,
                      files'[f] \notin {Absent, Other}
               PROVE  files'[f] >= version'
    BY DEF VersionHonest
  <2>1. files'[f] = files[f] /\ files[f] >= version /\ files[f] \in Int
    BY <1>5 DEF IInv, VersionHonest, TypeOK, Content, Absent, Torn, Other
  <2> QED
    BY <1>2, <2>1 DEF IInv, TypeOK
<1>8. DoneMeansComplete'
  <2>1. \A n \in Names : files'[n] = Absent => files[n] = Absent \/ wiped' = Kinds
    OBVIOUS
  <2> QED
    BY <1>5, <2>1 DEF IInv, DoneMeansComplete, Kinds
<1>9. \A k \in Jobs : JobOK(k)'
  <2> TAKE k \in Jobs
  <2>1. JobOK(k)
    BY DEF IInv
  <2>2. CASE ~Active(k)
    BY <1>1, <2>2 DEF Active, JobOK, OwnFiles, DataOK, Fetched, Downloading
  <2>3. CASE SameJob(k)
    <3>1. Owned(k)' = Owned(k)
      BY DEF Owned
    <3>2. Fetched(k)' = Fetched(k) /\ (k \in DataJobs => Fetched(k) \subseteq DataNames)
      BY <2>3 DEF Fetched, Before, SameJob
    <3>3. k \in DataJobs => DataOK(k)'
      <4> SUFFICES ASSUME k \in DataJobs
                   PROVE  DataOK(k)'
        OBVIOUS
      <4>1. DataOK(k)
        BY <2>1 DEF JobOK
      <4>2. ~overlapped /\ "data" \notin wiped' => \A f \in Fetched(k) : files'[f] # Absent
        BY <1>5, <3>2, <4>1 DEF DataOK, Kinds
      <4>3. ~overlapped /\ ~overtaken =>
              \A f \in Fetched(k) : files'[f] \in {Absent, Other, remote}
        BY <1>5, <3>2, <4>1 DEF DataOK
      <4>4. ~overlapped /\ ~overtaken =>
              /\ job[k].pc \in {"read", "rename"} => job[k].reads \in {Other, remote}
              /\ job[k].pc = "rename" => part'[job[k].target] \in {Absent, Other, remote}
        BY <2>1, <4>1 DEF DataOK, JobOK, Downloading
      <4> QED
        BY <2>3, <3>2, <4>2, <4>3, <4>4 DEF DataOK, SameJob
    <3>4. ~overlapped /\ job[k].pc = "rename" => part'[job[k].target] # Torn
      BY <2>1 DEF JobOK, OwnFiles, Downloading, Absent, Torn
    <3>5. ~overlapped /\ job[k].pc = "start" /\ "install" \notin wiped'
            => files'["bin"] # Absent
      BY <1>5, <2>1 DEF JobOK, OwnFiles, Kinds
    <3>6. OwnFiles(k)'
      BY <2>3, <3>4, <3>5 DEF OwnFiles, SameJob
    <3> QED
      BY <2>1, <2>3, <3>1, <3>3, <3>6 DEF JobOK, SameJob
  <2> QED
    BY <1>1, <2>2, <2>3
<1> QED
  BY <1>2, <1>3, <1>4, <1>6, <1>7, <1>8, <1>9 DEF IInv

LEMMA RequestFacts ==
  ASSUME TypeOK, Request
  PROVE  requests' \in 0..MaxRequests
  BY BoundsAssumption DEF TypeOK, Request

\* The control handlers, the start at boot, the death of mihomo, and the first
\* step of an uninstallation: processes only.
LEMMA ProcessInv ==
  ASSUME IInv, OtherStep, UNCHANGED diskVars,
         running' \in BOOLEAN, pidFile' \in BOOLEAN,
         un' \in {"idle", "soft", "full", "bin"}, autostart' \in BOOLEAN,
         requests' \in 0..MaxRequests,
         \/ UNCHANGED <<un, wiped>>
         \/ wiped' = Kinds
  PROVE  IInv'
<1>1. /\ UNCHANGED <<status, cancel, job, dir, files, part, version>>
      /\ UNCHANGED <<remote, crashes, overtaken, overlapped>>
  BY DEF OtherStep, diskVars, worldVars
<1>2. /\ TypeOK /\ WipedOK
  BY DEF IInv
<1>3. wiped \subseteq wiped' /\ wiped' \subseteq Kinds /\ WipedOK'
  BY <1>2 DEF TypeOK, WipedOK
<1>4. \A k \in Jobs : SameJob(k)
  BY <1>1 DEF SameJob
<1>5. /\ job' \in [Jobs -> JobType] /\ files' \in [Names -> Content]
      /\ part' \in [Targets -> Content] /\ cancel' \in [Kinds -> Jobs \cup {None}]
      /\ dir' \in BOOLEAN /\ crashes' \in 0..MaxCrashes
  BY <1>1, <1>2 DEF TypeOK
<1> QED
  BY <1>1, <1>3, <1>4, <1>5, QuietInv

LEMMA ProcessesInv ==
  ASSUME IInv,
         \/ Control \/ AutostartRuns \/ MihomoDies
         \/ \E mode \in {"soft", "full"} : UninstallStop(mode)
  PROVE  IInv'
<1>0. TypeOK
  BY DEF IInv
<1>1. CASE Control
  BY <1>0, <1>1, MmTypes, RequestFacts, ProcessInv DEF Control, TypeOK
<1>2. CASE AutostartRuns
  BY <1>0, <1>2, MmTypes, ProcessInv DEF AutostartRuns, TypeOK
<1>3. CASE MihomoDies
  BY <1>0, <1>3, ProcessInv DEF MihomoDies, TypeOK
<1>4. CASE \E mode \in {"soft", "full"} : UninstallStop(mode)
  BY <1>0, <1>4, MmTypes, RequestFacts, ProcessInv DEF UninstallStop, TypeOK
<1> QED
  BY <1>1, <1>2, <1>3, <1>4

\* Files go while every job is on record as touched.
LEMMA UninstallInv ==
  ASSUME IInv, UninstallFull \/ UninstallFullFails \/ UninstallBak \/ UninstallBin
  PROVE  IInv'
<1>0. TypeOK /\ wiped = Kinds /\ wiped' = wiped
  BY DEF IInv, WipedOK, UninstallFull, UninstallFullFails, UninstallBak, UninstallBin
<1>1. /\ UNCHANGED <<status, cancel, job, remote, crashes, overtaken, overlapped>>
      /\ UNCHANGED <<requests, autostart>>
      /\ un' \in {"idle", "bin"} /\ running' = running
  BY DEF OtherStep, worldVars, UninstallFull, UninstallFullFails, UninstallBak, UninstallBin, procVars
<1>2. /\ dir' \in BOOLEAN /\ pidFile' \in BOOLEAN /\ version' \in {Absent, version}
  BY <1>0 DEF UninstallFull, UninstallFullFails, UninstallBak, UninstallBin, TypeOK, procVars
<1>3. /\ part' \in [Targets -> Content]
      /\ \A t \in Targets : part'[t] \in {part[t], Absent}
  BY <1>0 DEF UninstallFull, UninstallFullFails, UninstallBak, UninstallBin, TypeOK, Content
<1>4. /\ files' \in [Names -> Content]
      /\ \A n \in Names : files'[n] = files[n] \/ files'[n] = Absent
  BY <1>0 DEF UninstallFull, UninstallFullFails, UninstallBak, UninstallBin, TypeOK, Content
<1>5. \A k \in Jobs : SameJob(k)
  BY <1>1 DEF SameJob
<1>6. WipedOK'
  BY <1>0 DEF WipedOK
<1>7. /\ job' \in [Jobs -> JobType] /\ cancel' \in [Kinds -> Jobs \cup {None}]
      /\ crashes' \in 0..MaxCrashes /\ requests' \in 0..MaxRequests
      /\ running' \in BOOLEAN /\ autostart' \in BOOLEAN
  BY <1>0, <1>1 DEF TypeOK
<1> QED
  BY <1>0, <1>1, <1>2, <1>3, <1>4, <1>5, <1>6, <1>7, QuietInv

LEMMA CancelInv ==
  ASSUME IInv, NEW k \in Kinds, Cancel(k)
  PROVE  IInv'
<1>0. TypeOK
  BY DEF IInv
<1>1. PICK c : c = cancel[k]
  OBVIOUS
<1>2. c \in Jobs
  BY <1>0, <1>1 DEF Cancel, TypeOK
<1>3. PICK x : x = [job[c] EXCEPT !.canceled = TRUE]
  OBVIOUS
<1>4. job[c] \in JobType
  BY <1>0, <1>2 DEF TypeOK
<1>5. /\ x \in JobType /\ x.pc = job[c].pc /\ x.target = job[c].target
      /\ x.tries = job[c].tries /\ x.reads = job[c].reads
  BY <1>3, <1>4 DEF JobType
<1>6. job' = [job EXCEPT ![c] = x]
  BY <1>0, <1>1, <1>2, <1>3 DEF Cancel, TypeOK
<1>7. job' \in [Jobs -> JobType] /\ \A l \in Jobs : SameJob(l)
  BY <1>0, <1>2, <1>5, <1>6, JobFacts DEF SameJob
<1>8. /\ UNCHANGED <<status, cancel, dir, files, part, version, running, pidFile>>
      /\ UNCHANGED <<un, autostart, remote, crashes, overtaken, overlapped, wiped>>
      /\ requests' \in 0..MaxRequests
  BY <1>0, RequestFacts DEF Cancel, diskVars, procVars, worldVars
<1>9. WipedOK'
  BY <1>8 DEF IInv, WipedOK
<1> QED
  BY <1>0, <1>7, <1>8, <1>9, QuietInv DEF TypeOK

LEMMA IdleJobType == IdleJob \in JobType /\ IdleJob.pc = "idle"
<1>1. 0 \in 0..Tries /\ 0 \in 0..MaxVersion
  BY BoundsAssumption
<1> QED
  BY <1>1 DEF IdleJob, JobType

LEMMA ClearCancelInv ==
  ASSUME IInv, NEW j \in Jobs, ClearCancel(j)
  PROVE  IInv'
<1>0. TypeOK
  BY DEF IInv
<1>1. /\ job[j].pc = "clear" /\ job' = [job EXCEPT ![j] = IdleJob]
      /\ cancel' = [cancel EXCEPT ![Kind(j)] = None]
      /\ UNCHANGED <<status, dir, files, part, version, running, pidFile>>
      /\ UNCHANGED <<un, autostart, requests, remote, crashes, overtaken, overlapped, wiped>>
  BY DEF ClearCancel, At, diskVars, procVars, restVars, worldVars
<1>2. /\ job' \in [Jobs -> JobType] /\ job'[j] = IdleJob
      /\ \A k \in Jobs : k # j => job'[k] = job[k]
  BY <1>0, <1>1, IdleJobType, JobFacts
<1>3. \A k \in Jobs : SameJob(k) \/ (~Active(k) /\ job'[k].pc \in {"idle", "asked"})
  BY <1>1, <1>2, IdleJobType DEF SameJob, Active
<1>4. cancel' \in [Kinds -> Jobs \cup {None}]
  BY <1>0, <1>1, KindIn DEF TypeOK
<1>5. WipedOK'
  BY <1>1 DEF IInv, WipedOK
<1> QED
  BY <1>0, <1>1, <1>2, <1>3, <1>4, <1>5, QuietInv DEF TypeOK

\* The busy check starts nothing.
LEMMA AskInv ==
  ASSUME IInv, NEW j \in Jobs, Ask(j)
  PROVE  IInv'
<1>0. TypeOK
  BY DEF IInv
<1>1. /\ job[j].pc = "idle" /\ Goto(j, "asked")
      /\ UNCHANGED <<status, cancel, dir, files, part, version, running, pidFile>>
      /\ UNCHANGED <<un, autostart, remote, crashes, overtaken, overlapped, wiped>>
      /\ requests' \in 0..MaxRequests
  BY <1>0, RequestFacts DEF Ask, At, diskVars, procVars, worldVars
<1>2. /\ job' \in [Jobs -> JobType] /\ job'[j].pc = "asked"
      /\ \A k \in Jobs : k # j => job'[k] = job[k]
  BY <1>0, <1>1, GotoFacts DEF Places
<1>3. \A k \in Jobs : SameJob(k) \/ (~Active(k) /\ job'[k].pc \in {"idle", "asked"})
  BY <1>1, <1>2 DEF SameJob, Active
<1>4. WipedOK'
  BY <1>1 DEF IInv, WipedOK
<1> QED
  BY <1>0, <1>1, <1>2, <1>3, <1>4, QuietInv DEF TypeOK

\* A new job: another of its kind is active, and that is on record, or none is; its
\* record is new unless an uninstallation runs.
LEMMA BeginInv ==
  ASSUME IInv, NEW j \in Jobs, Begin(j)
  PROVE  IInv'
<1>0. TypeOK /\ Kind(j) \in Kinds
  BY KindIn DEF IInv
<1>1. /\ job[j].pc = "asked"
      /\ status' = [status EXCEPT ![Kind(j)] = "downloading"]
      /\ cancel' = [cancel EXCEPT ![Kind(j)] = j]
      /\ wiped' = IF un = "idle" THEN wiped \ {Kind(j)} ELSE wiped
      /\ UNCHANGED <<dir, files, part, version, running, pidFile>>
      /\ UNCHANGED <<un, autostart, remote, crashes, overtaken, requests>>
      /\ overlapped' = (overlapped \/ \E i \in Jobs : Kind(i) = Kind(j) /\ Active(i))
  BY DEF Begin, At, diskVars, procVars, worldVars
<1>2. PICK x : x = [IdleJob EXCEPT !.pc = "mkdir"]
  OBVIOUS
<1>3. x \in JobType /\ x.pc = "mkdir"
  BY <1>2, IdleJobType DEF JobType
<1>4. /\ job' \in [Jobs -> JobType] /\ job'[j] = x
      /\ \A k \in Jobs : k # j => job'[k] = job[k]
  <2>1. job' = [job EXCEPT ![j] = x]
    BY <1>2 DEF Begin
  <2> QED
    BY <1>0, <1>3, <2>1, JobFacts
<1>5. /\ status' \in [Kinds -> {"idle", "downloading", "installing", "done", "failed",
                                "canceled"}]
      /\ status'[Kind(j)] = "downloading"
      /\ \A k \in Kinds : k # Kind(j) => status'[k] = status[k]
      /\ cancel' \in [Kinds -> Jobs \cup {None}] /\ wiped' \subseteq Kinds
  BY <1>0, <1>1 DEF TypeOK
<1>6. TypeOK'
  <2>1. overlapped' \in BOOLEAN
    BY <1>0, <1>1 DEF TypeOK
  <2> QED
    BY <1>0, <1>1, <1>3, <1>4, <1>5, <2>1 DEF TypeOK
<1>7. ~overlapped' => ~overlapped /\ \A k \in Jobs : Kind(k) = Kind(j) => ~Active(k)
  BY <1>1
<1>8. /\ Active(j)' /\ \A k \in Jobs : k # j => (Active(k)' <=> Active(k))
  BY <1>3, <1>4 DEF Active
<1>9. StatusOK'
  <2>1. /\ Busy(Kind(j))' /\ \A k \in Kinds : k # Kind(j) => (Busy(k)' <=> Busy(k))
    BY <1>5 DEF Busy
  <2>2. ~overlapped' => \A k \in Jobs : Active(k)' => Busy(Kind(k))'
    BY <1>7, <1>8, <2>1, KindIn DEF IInv, StatusOK
  <2>3. ~overlapped' => \A k, l \in Jobs :
                          Active(k)' /\ Active(l)' /\ Kind(k) = Kind(l) => k = l
    BY <1>7, <1>8 DEF IInv, StatusOK
  <2>4. \A k \in Kinds : Busy(k)' => \E l \in Jobs : Kind(l) = k /\ Active(l)'
    <3> SUFFICES ASSUME NEW k \in Kinds, Busy(k)'
                 PROVE  \E l \in Jobs : Kind(l) = k /\ Active(l)'
      OBVIOUS
    <3>1. CASE k = Kind(j)
      BY <1>8, <3>1
    <3>2. CASE k # Kind(j)
      <4>1. PICK l \in Jobs : Kind(l) = k /\ Active(l)
        BY <2>1, <3>2 DEF IInv, StatusOK, Unwedged
      <4> QED
        BY <1>8, <3>2, <4>1
    <3> QED
      BY <3>1, <3>2
  <2> QED
    BY <2>2, <2>3, <2>4 DEF StatusOK, Unwedged, Kind
<1>10. \A k \in Kinds : k # Kind(j) => (k \in wiped' <=> k \in wiped)
  BY <1>1
<1>11. \A k \in Jobs : JobOK(k)'
  <2> TAKE k \in Jobs
  <2>1. CASE k = j
    BY <1>3, <1>4, <2>1 DEF JobOK, OwnFiles, DataOK, Fetched, Downloading
  <2>2. CASE k # j /\ ~Active(k)
    BY <1>8, <2>2 DEF Active, JobOK, OwnFiles, DataOK, Fetched, Downloading
  <2>3. CASE k # j /\ Active(k)
    <3>1. ~overlapped' => Kind(k) # Kind(j) /\ Kind(k) \in Kinds
      BY <1>7, <2>3, KindIn
    <3>2. ~overlapped' => (Kind(k) \in wiped' <=> Kind(k) \in wiped)
      BY <1>10, <3>1
    <3>3. job'[k] = job[k] /\ Owned(k)' = Owned(k) /\ Fetched(k)' = Fetched(k)
      BY <1>4, <2>3 DEF Owned, Fetched, Before
    <3>4. ~overlapped' /\ k \in DataJobs => ("data" \in wiped' <=> "data" \in wiped)
      BY <3>2, JobsAssumption DEF Kind
    <3>5. ~overlapped' /\ k \in InstallJobs => ("install" \in wiped' <=> "install" \in wiped)
      BY <3>2 DEF Kind
    <3>6. JobOK(k)
      BY DEF IInv
    <3>7. k \in DataJobs => DataOK(k)'
      BY <1>1, <1>7, <3>3, <3>4, <3>6 DEF JobOK, DataOK
    <3>8. OwnFiles(k)'
      BY <1>1, <1>7, <3>3, <3>5, <3>6 DEF JobOK, OwnFiles
    <3> QED
      BY <3>3, <3>6, <3>7, <3>8 DEF JobOK
  <2> QED
    BY <2>1, <2>2, <2>3
<1>12. DoneMeansComplete'
  <2> SUFFICES ASSUME NEW k \in Kinds, status'[k] = "done"
               PROVE  Complete(k)'
    BY DEF DoneMeansComplete, Complete, Kinds
  <2>1. k # Kind(j) /\ status[k] = "done"
    BY <1>5
  <2>2. Complete(k)
    BY <2>1, DoneIsComplete DEF IInv
  <2> QED
    BY <1>1, <1>7, <1>10, <2>1, <2>2 DEF Complete
<1>13. WipedOK' /\ FilesAreWhole' /\ VersionHonest' /\ version' <= remote'
  BY <1>1, <1>7 DEF IInv, WipedOK, FilesAreWhole, VersionHonest
<1> QED
  BY <1>6, <1>9, <1>11, <1>12, <1>13 DEF IInv

\* A new version on the server: an update that runs is overtaken.
LEMMA PublishInv ==
  ASSUME IInv, Publish
  PROVE  IInv'
<1>1. /\ remote < MaxVersion /\ remote' = remote + 1
      /\ overtaken' = (overtaken \/ \E j \in DataJobs : Active(j))
      /\ UNCHANGED <<status, cancel, job, dir, files, part, version, running, pidFile>>
      /\ UNCHANGED <<un, autostart, requests, crashes, overlapped, wiped>>
  BY DEF Publish, diskVars, procVars
<1>2. remote' \in 1..MaxVersion /\ version <= remote' /\ overtaken' \in BOOLEAN
  BY <1>1, BoundsAssumption DEF IInv, TypeOK
<1>3. TypeOK'
  BY <1>1, <1>2 DEF IInv, TypeOK
<1>4. StatusOK'
  BY <1>1 DEF IInv, StatusOK, Unwedged, Busy, Kind, Active
<1>5. \A j \in Jobs : JobOK(j)'
  <2> TAKE j \in Jobs
  <2>1. JobOK(j)
    BY DEF IInv
  <2>2. Owned(j)' = Owned(j) /\ Fetched(j)' = Fetched(j)
    BY <1>1 DEF Owned, Fetched, Before
  <2>3. j \in DataJobs => DataOK(j)'
    <3> SUFFICES ASSUME j \in DataJobs
                 PROVE  DataOK(j)'
      OBVIOUS
    <3>1. ~overtaken' => job[j].pc \in {"idle", "asked", "clear"} /\ Fetched(j) = {}
      BY <1>1 DEF Active, Fetched, Downloading
    <3>2. DataOK(j)
      BY <2>1 DEF JobOK
    <3> QED
      BY <1>1, <2>2, <3>1, <3>2 DEF DataOK
  <2> QED
    BY <1>1, <2>1, <2>2, <2>3 DEF JobOK, OwnFiles
<1>6. WipedOK' /\ FilesAreWhole' /\ DoneMeansComplete' /\ version' <= remote'
  BY <1>1, <1>2 DEF IInv, WipedOK, FilesAreWhole, DoneMeansComplete
<1>7. VersionHonest'
  BY <1>1 DEF IInv, VersionHonest
<1> QED
  BY <1>3, <1>4, <1>5, <1>6, <1>7 DEF IInv

\* After a crash there are no jobs; the files stay.
LEMMA NoJobs ==
  ASSUME \A j \in Jobs : job[j].pc = "idle", \A k \in Kinds : status[k] = "idle"
  PROVE  StatusOK /\ (\A j \in Jobs : JobOK(j)) /\ DoneMeansComplete
<1>1. StatusOK
  BY DEF StatusOK, Active, Unwedged, Busy
<1>2. \A j \in Jobs : JobOK(j)
  BY DEF JobOK, OwnFiles, DataOK, Fetched, Downloading
<1>3. DoneMeansComplete
  BY DEF DoneMeansComplete, Kinds
<1> QED
  BY <1>1, <1>2, <1>3

LEMMA NoJobsNext ==
  ASSUME \A j \in Jobs : job'[j].pc = "idle", \A k \in Kinds : status'[k] = "idle"
  PROVE  StatusOK' /\ (\A j \in Jobs : JobOK(j)') /\ DoneMeansComplete'
<1>1. StatusOK'
  BY DEF StatusOK, Active, Unwedged, Busy
<1>2. \A j \in Jobs : JobOK(j)'
  BY DEF JobOK, OwnFiles, DataOK, Fetched, Downloading
<1>3. DoneMeansComplete'
  BY DEF DoneMeansComplete, Kinds
<1> QED
  BY <1>1, <1>2, <1>3

LEMMA CrashInv ==
  ASSUME IInv, Crash
  PROVE  IInv'
<1>1. /\ crashes' \in 0..MaxCrashes /\ status' = [k \in Kinds |-> "idle"]
      /\ cancel' = [k \in Kinds |-> None] /\ job' = [j \in Jobs |-> IdleJob]
      /\ un' = "idle" /\ autostart' \in BOOLEAN
      /\ UNCHANGED <<dir, files, part, version, running, pidFile>>
      /\ UNCHANGED <<remote, requests, overtaken, overlapped, wiped>>
  BY BoundsAssumption DEF Crash, IInv, TypeOK, diskVars, procVars
<1>2. /\ job' \in [Jobs -> JobType] /\ \A j \in Jobs : job'[j].pc = "idle"
      /\ \A k \in Kinds : status'[k] = "idle"
  BY <1>1, IdleJobType
<1>3. TypeOK'
  BY <1>1, <1>2 DEF IInv, TypeOK
<1>4. WipedOK' /\ FilesAreWhole' /\ VersionHonest' /\ version' <= remote'
  BY <1>1 DEF IInv, WipedOK, FilesAreWhole, VersionHonest
<1> QED
  BY <1>2, <1>3, <1>4, NoJobsNext DEF IInv

LEMMA InitIInv == Init => IInv
<1> SUFFICES ASSUME NEW installed \in BOOLEAN,
                    status = [k \in Kinds |-> "idle"], cancel = [k \in Kinds |-> None],
                    job = [j \in Jobs |-> IdleJob], dir = installed,
                    files = [n \in Names |->
                               IF installed /\ n \in {"bin", "mm.sh"} \cup DataNames
                               THEN 1 ELSE Absent],
                    part = [t \in Targets |-> Absent],
                    version = IF installed THEN 1 ELSE Absent,
                    running \in {FALSE, installed}, pidFile = running, un = "idle",
                    autostart = FALSE, remote = 1, requests = 0, crashes = 0,
                    overtaken = FALSE, overlapped = FALSE, wiped = {}
             PROVE  IInv
  BY DEF Init
<1>1. /\ job \in [Jobs -> JobType] /\ \A j \in Jobs : job[j].pc = "idle"
      /\ \A k \in Kinds : status[k] = "idle"
  BY IdleJobType
<1>2. 1 \in Content /\ Absent \in Content /\ 1 \in 1..MaxVersion
  BY BoundsAssumption DEF Content
<1>3. files \in [Names -> Content] /\ part \in [Targets -> Content]
  BY <1>2
<1>4. version \in 0..MaxVersion /\ version <= remote
  BY BoundsAssumption DEF Absent
<1>5. requests \in 0..MaxRequests /\ crashes \in 0..MaxCrashes /\ remote \in 1..MaxVersion
  BY BoundsAssumption
<1>6. TypeOK
  BY <1>1, <1>3, <1>4, <1>5 DEF TypeOK
<1>7. FilesAreWhole
  BY DEF FilesAreWhole, Absent, Torn
<1>8. VersionHonest
  <2>1. \A f \in DataNames : f \in Names /\ files[f] = IF installed THEN 1 ELSE Absent
    BY DEF Names, Targets
  <2> QED
    BY <2>1 DEF VersionHonest
<1>9. WipedOK
  BY DEF WipedOK
<1> QED
  BY <1>1, <1>4, <1>6, <1>7, <1>8, <1>9, NoJobs DEF IInv

LEMMA RunJobInv ==
  ASSUME IInv, NEW j \in Jobs, RunJob(j)
  PROVE  IInv'
  BY MkDirInv, MkDirFailsInv, FailingInv, OpenFileInv, ReadEofInv, RenameInv,
     WriteVersionInv, ReloadIpsetInv, StopKernelInv, RenamesInv, SwapFailsInv,
     StartKernelInv, ClearCancelInv DEF RunJob

LEMMA StutterInv ==
  ASSUME IInv, UNCHANGED vars
  PROVE  IInv'
<1>1. /\ UNCHANGED <<status, cancel, job, dir, files, part, version, running, pidFile>>
      /\ UNCHANGED <<un, autostart, remote, requests, crashes, overtaken, overlapped, wiped>>
  BY DEF vars
<1>2. TypeOK' /\ WipedOK'
  BY <1>1 DEF IInv, TypeOK, WipedOK
<1>3. \A k \in Jobs : SameJob(k)
  BY <1>1 DEF SameJob
<1> QED
  BY <1>1, <1>2, <1>3, QuietInv DEF TypeOK

LEMMA NextIInv ==
  ASSUME IInv, [Next]_vars
  PROVE  IInv'
<1>1. ASSUME NEW j \in Jobs, Ask(j) \/ Begin(j) PROVE IInv'
  BY <1>1, AskInv, BeginInv
<1>2. ASSUME NEW j \in Jobs, RunJob(j) PROVE IInv'
  BY <1>2, RunJobInv
<1>3. ASSUME NEW k \in Kinds, Cancel(k) PROVE IInv'
  BY <1>3, CancelInv
<1>4. CASE Control \/ AutostartRuns \/ MihomoDies
  BY <1>4, ProcessesInv
<1>5. CASE Uninstall
  BY <1>5, ProcessesInv, UninstallInv DEF Uninstall
<1>6. CASE Publish
  BY <1>6, PublishInv
<1>7. CASE Crash
  BY <1>7, CrashInv
<1>8. CASE UNCHANGED vars
  BY <1>8, StutterInv
<1> QED
  BY <1>1, <1>2, <1>3, <1>4, <1>5, <1>6, <1>7, <1>8 DEF Next

LEMMA Inductive == Spec => []IInv
  BY InitIInv, NextIInv, PTL DEF Spec
-----------------------------------------------------------------------------

\* Every variable has its type, and a job that downloads has a target and a line.
THEOREM TypeCorrect == Spec => []TypeOK
<1>1. IInv => TypeOK
  BY DEF IInv
<1> QED
  BY <1>1, Inductive, PTL

\* No file that mihomo or mm.sh uses is a piece of an answer: unless two jobs of a
\* kind overlapped, one job writes the ".tmp" of a target, and it renames what it has
\* read to the end.
THEOREM FilesAreWholeAlways == Spec => []FilesAreWhole
<1>1. IInv => FilesAreWhole
  BY DEF IInv
<1> QED
  BY <1>1, Inductive, PTL

\* data_version.txt claims no more than a release among the data files holds, unless a
\* version was published during an update or updates overlapped: it is written after
\* the last of them.
THEOREM VersionHonestAlways == Spec => []VersionHonest
<1>1. IInv => VersionHonest
  BY DEF IInv
<1> QED
  BY <1>1, Inductive, PTL

\* "done" means that the kernel, or every data file, is there, unless an
\* uninstallation touched the job or a second one of its kind ran.
THEOREM DoneMeansCompleteAlways == Spec => []DoneMeansComplete
<1>1. IInv => DoneMeansComplete
  BY DEF IInv
<1> QED
  BY <1>1, Inductive, PTL

\* A busy status is backed by a job that has yet to write its last status, however
\* many jobs of a kind run at once.
THEOREM UnwedgedAlways == Spec => []Unwedged
<1>1. IInv => Unwedged
  BY DEF IInv, StatusOK
<1> QED
  BY <1>1, Inductive, PTL

-----------------------------------------------------------------------------
(***************************************************************************)
(* The last kernel.                                                         *)
(***************************************************************************)
HasKernel == files["bin"] # Absent \/ files["bak"] # Absent

KernelStep == HasKernel => HasKernel' \/ un \in {"full", "soft", "bin"}

\* A step that leaves both names alone.
LEMMA KernelAlone ==
  ASSUME files'["bin"] = files["bin"], files'["bak"] = files["bak"]
  PROVE  KernelStep
  BY DEF KernelStep, HasKernel

\* How a job that downloads changes the files.
LEMMA LoadingFiles ==
  ASSUME IInv, NEW j \in Jobs,
         \/ Abandon(j, "canceled") \/ NextLine(j) \/ Failed(j)
  PROVE  files' \in {files, [files EXCEPT !["download"] = Absent]}
  BY DEF Abandon, NextLine, Failed

LEMMA RunJobKernel ==
  ASSUME IInv, NEW j \in Jobs, RunJob(j)
  PROVE  KernelStep
<1>1. files \in [Names -> Content] /\ {"bin", "bak", "download"} \subseteq Names
  BY DEF IInv, TypeOK, Names, Targets
<1>2. CASE files' \in {files, [files EXCEPT !["download"] = Absent]}
  BY <1>1, <1>2, KernelAlone
<1>3. CASE \/ LineCanceled(j) \/ LineFails(j) \/ OpenFails(j) \/ ReadCanceled(j)
           \/ ReadBreaks(j) \/ RenameFails(j)
  <2>1. Abandon(j, "canceled") \/ NextLine(j) \/ Failed(j)
    BY <1>3 DEF LineCanceled, LineFails, OpenFails, ReadCanceled, ReadBreaks, RenameFails
  <2> QED
    BY <1>2, <2>1, LoadingFiles
<1>4. CASE Rename(j)
  <2>1. /\ job[j].target \in Targets
        /\ \E c : files' = [files EXCEPT ![job[j].target] = c]
    BY <1>4 DEF Rename, JobStep, At, IInv, JobOK, Downloading
  <2>2. "bin" \notin Targets /\ "bak" \notin Targets
    BY SpecialNames DEF Targets
  <2> QED
    BY <1>1, <2>1, <2>2, KernelAlone
<1>5. CASE Backup(j)
  <2>1. CASE files' = files
    BY <2>1, KernelAlone
  <2>2. CASE /\ files["bin"] # Absent
             /\ files' = [files EXCEPT !["bak"] = files["bin"], !["bin"] = Absent]
    <3>1. files'["bak"] = files["bin"]
      BY <1>1, <2>2
    <3> QED
      BY <2>2, <3>1 DEF KernelStep, HasKernel
  <2> QED
    BY <1>5, <2>1, <2>2 DEF Backup
<1>6. CASE Swap(j)
  <2>1. files'["bin"] = files["download"] /\ files["download"] # Absent
    BY <1>1, <1>6 DEF Swap
  <2> QED
    BY <2>1 DEF KernelStep, HasKernel
<1>7. CASE SwapFails(j)
  BY <1>2, <1>7 DEF SwapFails
<1>8. CASE \/ MkDir(j) \/ MkDirFails(j) \/ ReadEof(j)
           \/ \E answer \in Answers(j) : OpenFile(j, answer)
           \/ WriteVersion(j)
           \/ ReloadIpset(j) \/ StopKernel(j) \/ StartKernel(j) \/ ClearCancel(j)
  BY <1>2, <1>8 DEF MkDir, MkDirFails, OpenFile, ReadEof, WriteVersion, ReloadIpset,
     StopKernel, StartKernel, ClearCancel, diskVars
<1> QED
  BY <1>3, <1>4, <1>5, <1>6, <1>7, <1>8 DEF RunJob

LEMMA NextKernel ==
  ASSUME IInv, Next
  PROVE  KernelStep
<1>1. ASSUME NEW j \in Jobs, RunJob(j) PROVE KernelStep
  BY <1>1, RunJobKernel
<1>2. CASE UninstallFull \/ UninstallFullFails \/ UninstallBak \/ UninstallBin
  BY <1>2 DEF UninstallFull, UninstallFullFails, UninstallBak, UninstallBin, KernelStep
<1>3. CASE \/ \E j \in Jobs : Ask(j) \/ Begin(j)
           \/ \E k \in Kinds : Cancel(k)
           \/ \E mode \in {"soft", "full"} : UninstallStop(mode)
           \/ Control \/ AutostartRuns \/ MihomoDies \/ Publish \/ Crash
  <2>1. UNCHANGED diskVars
    BY <1>3 DEF Ask, Begin, Cancel, UninstallStop, Control, AutostartRuns, MihomoDies, Publish,
       Crash
  <2> QED
    BY <2>1, KernelAlone DEF diskVars
<1> QED
  BY <1>1, <1>2, <1>3 DEF Next, Uninstall

\* Only an uninstallation takes the last kernel away: an installation moves the old
\* one aside before the new one comes, nothing else touches either, and two
\* installations at once do no more than move kernels onto each other.
THEOREM KernelKeptAlways == Spec => KernelKept
<1>1. IInv /\ [Next]_vars =>
        [(files["bin"] # Absent \/ files["bak"] # Absent)
            => \/ files'["bin"] # Absent \/ files'["bak"] # Absent
               \/ un \in {"full", "soft", "bin"}]_vars
  BY NextKernel DEF KernelStep, HasKernel
<1> QED
  BY <1>1, Inductive, PTL DEF Spec, KernelKept
=============================================================================
