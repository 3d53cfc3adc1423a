-------------------------- MODULE SmsForwardProofs --------------------------
(***************************************************************************)
(* Proofs about the forwarding of text messages.                            *)
(*                                                                          *)
(* For any number of workers, saves, crashes and failing writes: types, a   *)
(* running worker can be stopped, and last_id passes no message that was    *)
(* not looked after.  The last needs what a worker knows at each place of   *)
(* its poll: everything up to the last_id it holds has been handled, and    *)
(* what is above it is either in one of its batches or has been handled.    *)
(* For one worker and no save: no message is pushed twice, and the inbox is *)
(* taken for old only once.                                                 *)
(***************************************************************************)
EXTENDS SmsForward, FiniteSetTheorems, WellFoundedInduction, TLAPS

\* A newer message of the same number has arrived.
Superseded(i) == \E j \in Arrived : i < j /\ Key(j) = Key(i)

\* Message i has been looked after, and remains so.
Handled(i) == attempts[i] > 0 \/ i \in passed \/ Superseded(i)

HandledUpTo(mark) == \A i \in Arrived : i <= mark => Handled(i)

\* A last_id that a message had, or none.
Seen(mark) == mark \in Arrived \cup {0}

\* The modem numbers the messages one after the other.
InboxPrefix == \E n \in 0..MaxId : Arrived = 1..n

FileOK == Seen(file.mark) /\ file.mark <= high

HighOK == Seen(high) /\ HandledUpTo(high)

SaverOK == Seen(saver.cfg.mark) /\ (saver.pc # "idle" => saver.cfg.dest \in Dests)

\* A worker holds at most one batch per key.
OnePerKey(me) ==
    \A a, b \in me.pending \cup me.out : Key(a.id) = Key(b.id) => a = b

\* Between fetching and moving last_id: a message above last_id but not above one
\* already pushed or about to be is in a batch, or has been handled.
Covered(me) ==
    \A i \in Arrived :
        /\ me.cfg.mark < i
        /\ \/ \E c \in me.completed : i <= c
           \/ \E b \in me.out : i <= b.id
        => Handled(i) \/ \E b \in me.pending \cup me.out : b.id = i

\* What holds of the record of a worker.
WorkerOK(me) ==
    /\ me \in WorkerType
    /\ OnePerKey(me)
    /\ me.pending \cap me.out = {}
    /\ me.out # {} => me.pc = "send"
    /\ \A b \in me.pending \cup me.out : b.id \in Arrived
    /\ \A i \in me.completed : i \in Arrived /\ attempts[i] > 0
    /\ Seen(me.cfg.mark)
    /\ HandledUpTo(me.cfg.mark)
    /\ me.pc = "send" => Covered(me)

WorkersOK == \A w \in Workers : WorkerOK(worker[w])

\* The types of what is not in a worker.
Typed ==
    /\ num \in [Ids -> Numbers \cup {Blank, None}]
    /\ rev \in [Ids -> 0..MaxRev]
    /\ file \in Config
    /\ stop \in Workers \cup {None}
    /\ worker \in [Workers -> WorkerType]
    /\ saver \in [pc : {"idle", "open", "write"}, cfg : Config]
    /\ saves \in 0..MaxSaves
    /\ crashes \in 0..MaxCrashes
    /\ attempts \in [Ids -> 0..CountTo]
    /\ passed \subseteq Ids
    /\ chosen \in Dests
    /\ high \in 0..MaxId

IInv ==
    /\ Typed
    /\ InboxPrefix
    /\ FileOK
    /\ HighOK
    /\ SaverOK
    /\ WorkersOK
    /\ Stoppable

-----------------------------------------------------------------------------
OneWorker == \A v, w \in Workers : v = w

\* A push of the worker is one it remembers, or below the last_id up to m.
Remembers(me, m) == \A i \in Ids : attempts[i] > 0 => i \in me.completed \/ i <= m

\* The only worker, while no browser saves: what it loaded is the file, what it holds
\* has not been pushed, and what was pushed it knows, unless the file is lost.
LoneOK(me) ==
    /\ me.pc \in {"fetch", "send"} => me.cfg = file
    /\ me.pc \in {"fetch", "send", "open"} => Valid(file)
    /\ me.pc \in {"open", "write"} => me.cfg.mark >= high /\ Remembers(me, me.cfg.mark)
    /\ me.pc = "new" => \A i \in Ids : attempts[i] = 0
    /\ me.pc # "exited" /\ Valid(file) => Remembers(me, file.mark)
    /\ \A b \in me.pending \cup me.out : attempts[b.id] = 0

Lone ==
    /\ saver.pc = "idle"
    /\ Valid(file) => file.mark = high
    /\ \A i \in Ids : attempts[i] <= 1
    /\ \A w \in Workers : LoneOK(worker[w])

LoneInv == saves = 0 => Lone
-----------------------------------------------------------------------------
(***************************************************************************)
(* Largest and smallest elements.                                           *)
(***************************************************************************)

\* A bounded set of numbers has a largest element, and Max gives it.
LEMMA MaxOf ==
    ASSUME NEW N \in Nat, NEW S \in SUBSET (0..N), S # {}
    PROVE  Max(S) \in S /\ \A y \in S : y <= Max(S)
  <1>1. PICK T : T = {N - x : x \in S}
    OBVIOUS
  <1>2. T \subseteq Nat /\ T # {}
    <2>1. \A x \in S : N - x \in Nat /\ N - x \in T
      BY <1>1
    <2>. QED
      BY <1>1, <2>1
  <1>3. PICK R : R = {ss \in Nat \X Nat : ss[1] < ss[2]}
    OBVIOUS
  <1>4. PICK t \in T : \A u \in T : ~(<<u, t>> \in R)
    <2>1. IsWellFoundedOn(R, Nat)
      BY <1>3, NatLessThanWellFounded DEF OpToRel
    <2>. QED
      BY <1>2, <2>1, WFMin
  <1>5. \A u \in T : t <= u
    <2>1. \A u, v \in Nat : u < v => <<u, v>> \in R
      BY <1>3
    <2>2. TAKE u \in T
    <2>3. u \in Nat /\ t \in Nat
      BY <1>2
    <2>4. ~(u < t)
      BY <1>4, <2>1, <2>3, Zenon
    <2>. QED
      BY <2>3, <2>4
  <1>6. PICK x \in S : t = N - x
    BY <1>1
  <1>7. \A y \in S : x >= y
    BY <1>1, <1>5, <1>6
  <1>. QED
    BY <1>6, <1>7 DEF Max

\* The larger of two numbers.
LEMMA MaxPair ==
    ASSUME NEW a \in Nat, NEW b \in Nat
    PROVE  Max({a, b}) = IF a >= b THEN a ELSE b
  <1>1. Max({a, b}) \in {a, b} /\ \A y \in {a, b} : Max({a, b}) >= y
    <2>1. \E x \in {a, b} : \A y \in {a, b} : x >= y
      BY a >= b \/ b >= a
    <2>. QED
      BY <2>1 DEF Max
  <1>. QED
    BY <1>1

\* The same for the smaller one.
LEMMA MinPair ==
    ASSUME NEW a \in Nat, NEW b \in Nat
    PROVE  Min({a, b}) = IF a <= b THEN a ELSE b
  <1>1. Min({a, b}) \in {a, b} /\ \A y \in {a, b} : Min({a, b}) <= y
    <2>1. \E x \in {a, b} : \A y \in {a, b} : x <= y
      BY a <= b \/ b <= a
    <2>. QED
      BY <2>1 DEF Min
  <1>. QED
    BY <1>1

-----------------------------------------------------------------------------
(***************************************************************************)
(* The operators of a poll.                                                 *)
(***************************************************************************)

\* Ids are numbers.
LEMMA IdsNat ==
    /\ MaxId \in Nat /\ MaxRev \in Nat /\ CountTo \in Nat /\ CountTo > 0
    /\ Quiet \in Nat /\ MaxWait \in Nat
    /\ Arrived \subseteq Ids
    /\ \A i \in Ids : i \in Nat /\ i > 0 /\ i <= MaxId
  BY BoundAssumption, TimeAssumption DEF Arrived, Ids

\* The newest message that has arrived.
LEMMA LatestFact ==
    /\ Seen(Latest(0))
    /\ Latest(0) \in 0..MaxId
    /\ \A i \in Arrived : i <= Latest(0)
  <1>1. PICK S : S = Arrived \cup {0}
    OBVIOUS
  <1>2. S \in SUBSET (0..MaxId) /\ S # {}
    BY <1>1, IdsNat
  <1>3. Max(S) \in S /\ \A y \in S : y <= Max(S)
    BY <1>2, IdsNat, MaxOf
  <1>4. Latest(0) = Max(S)
    BY <1>1 DEF Latest
  <1>. QED
    BY <1>1, <1>2, <1>3, <1>4 DEF Seen

\* nextLastID never goes back, and stops below what is pending.
LEMMA NextLastIdFact ==
    ASSUME NEW pending, NEW completed \in SUBSET Ids, NEW current \in 0..MaxId, NEW next,
           next = NextLastId(pending, completed, current)
    PROVE  /\ next \in 0..MaxId
           /\ next >= current
           /\ \/ next = current
              \/ next \in completed /\ \A b \in pending : next < b.id
  <1>1. PICK S : S = {current} \cup {i \in completed : i > current
                                                    /\ \A b \in pending : i < b.id}
    OBVIOUS
  <1>2. S \in SUBSET (0..MaxId) /\ S # {} /\ current \in S
    BY <1>1, IdsNat
  <1>3. Max(S) \in S /\ \A y \in S : y <= Max(S)
    BY <1>2, IdsNat, MaxOf
  <1>4. next = Max(S)
    BY <1>1 DEF NextLastId
  <1>5. next \in 0..MaxId /\ next >= current
    BY <1>2, <1>3, <1>4, IdsNat
  <1>6. next = current \/ (next \in completed /\ \A b \in pending : next < b.id)
    BY <1>1, <1>3, <1>4
  <1>. QED
    BY <1>5, <1>6

\* A batch that waits keeps its message.
LEMMA OlderFact ==
    ASSUME NEW b \in Batch, NEW gap \in Gaps
    PROVE  Older(b, gap) \in Batch /\ Older(b, gap).id = b.id
  <1>1. /\ b.first \in 0..MaxWait /\ b.last \in 0..Quiet /\ gap \in Nat
        /\ b.id \in Ids /\ b.rev \in 0..MaxRev
    BY TimeAssumption DEF Batch
  <1>2. PICK f : f = Min({b.first + gap, MaxWait})
    OBVIOUS
  <1>3. PICK l : l = Min({b.last + gap, Quiet})
    OBVIOUS
  <1>4. b.first + gap \in Nat /\ b.last + gap \in Nat
    BY <1>1, IdsNat
  <1>5. f = IF b.first + gap <= MaxWait THEN b.first + gap ELSE MaxWait
    BY <1>2, <1>4, IdsNat, MinPair
  <1>6. l = IF b.last + gap <= Quiet THEN b.last + gap ELSE Quiet
    BY <1>3, <1>4, IdsNat, MinPair
  <1>7. f \in 0..MaxWait /\ l \in 0..Quiet
    BY <1>4, <1>5, <1>6, IdsNat
  <1>8. Older(b, gap) = [id |-> b.id, rev |-> b.rev, first |-> f, last |-> l]
    <2>1. Older(b, gap) = [b EXCEPT !.first = f, !.last = l]
      BY <1>2, <1>3 DEF Older
    <2>. QED
      BY <2>1 DEF Batch
  <1>. QED
    BY <1>1, <1>7, <1>8 DEF Batch

\* A batch of message i made now.
LEMMA FreshFact ==
    ASSUME rev \in [Ids -> 0..MaxRev], NEW i \in Ids
    PROVE  Fresh(i) \in Batch /\ Fresh(i).id = i
  <1>1. rev[i] \in 0..MaxRev /\ 0 \in 0..MaxWait /\ 0 \in 0..Quiet
    BY IdsNat
  <1>. QED
    BY <1>1 DEF Fresh, Batch

\* add() moves a batch to the newest message of its number.
LEMMA AbsorbFact ==
    ASSUME rev \in [Ids -> 0..MaxRev], NEW b \in Batch, NEW targets \in SUBSET Ids,
           NEW x, x = Absorb(b, targets)
    PROVE  /\ x \in Batch
           /\ Key(x.id) = Key(b.id)
           /\ x.id = b.id \/ x.id \in targets
           /\ x.id >= b.id
           /\ \A i \in targets : Key(i) = Key(b.id) => i <= x.id
  <1>1. PICK same : same = {i \in targets : Key(i) = Key(b.id) /\ i >= b.id}
    OBVIOUS
  <1>2. PICK newest : newest = Max(same \cup {b.id})
    OBVIOUS
  <1>3. b.id \in Ids /\ b.first \in 0..MaxWait
    BY DEF Batch
  <1>4. newest \in same \cup {b.id} /\ \A y \in same \cup {b.id} : y <= newest
    <2>1. PICK S : S = same \cup {b.id}
      OBVIOUS
    <2>2. S \in SUBSET (0..MaxId) /\ S # {}
      BY <1>1, <1>3, <2>1, IdsNat
    <2>3. Max(S) \in S /\ \A y \in S : y <= Max(S)
      BY <2>2, IdsNat, MaxOf
    <2>. QED
      BY <1>2, <2>1, <2>3
  <1>5. newest \in Ids /\ newest >= b.id /\ Key(newest) = Key(b.id)
        /\ (newest = b.id \/ newest \in targets)
    BY <1>1, <1>3, <1>4, IdsNat
  <1>6. \A i \in targets : Key(i) = Key(b.id) => i <= newest
    <2>. SUFFICES ASSUME NEW i \in targets, Key(i) = Key(b.id)
                  PROVE  i <= newest
      OBVIOUS
    <2>1. i \in Nat /\ b.id \in Nat /\ newest \in Nat
      BY <1>3, <1>5, IdsNat
    <2>2. CASE i >= b.id
      BY <1>1, <1>4, <2>2
    <2>3. CASE ~(i >= b.id)
      BY <1>5, <2>1, <2>3
    <2>. QED
      BY <2>2, <2>3
  <1>7. x \in Batch /\ x.id = newest
    <2>1. x = IF newest = b.id /\ (b.id \notin same \/ rev[b.id] = b.rev)
              THEN b ELSE [Fresh(newest) EXCEPT !.first = b.first]
      BY <1>1, <1>2 DEF Absorb
    <2>2. PICK y : y = Fresh(newest)
      OBVIOUS
    <2>3. y \in Batch /\ y.id = newest
      BY <1>5, <2>2, FreshFact
    <2>4. PICK z : z = [y EXCEPT !.first = b.first]
      OBVIOUS
    <2>5. z \in Batch /\ z.id = newest
      <3>1. z = [id |-> y.id, rev |-> y.rev, first |-> b.first, last |-> y.last]
        BY <2>3, <2>4 DEF Batch
      <3>. QED
        BY <1>3, <2>3, <3>1 DEF Batch
    <2>6. (x = b /\ newest = b.id) \/ x = z
      BY <2>1, <2>2, <2>4
    <2>. QED
      BY <2>5, <2>6
  <1>. QED
    BY <1>5, <1>6, <1>7

\* The waiting batches, gap later.
Aged(pending, gap) == {Older(b, gap) : b \in pending}

\* At most one batch per key, each of a message of the inbox.
Apart(batches) ==
    /\ batches \in SUBSET Batch
    /\ \A b \in batches : b.id \in Arrived
    /\ \A a, b \in batches : Key(a.id) = Key(b.id) => a = b

\* What pending.add makes of the waiting batches and the targets: one batch per key,
\* each of a message that was waiting or is a target, and no target left out but those
\* with a newer message of their number.
LEMMA AddAllFact ==
    ASSUME rev \in [Ids -> 0..MaxRev],
           NEW pending, Apart(pending),
           NEW targets \in SUBSET Arrived, NEW gap \in Gaps,
           NEW old, old = Aged(pending, gap), NEW all, all = AddAll(old, targets)
    PROVE  /\ Apart(all)
           /\ \A x \in all : x.id \in targets \/ \E b \in pending : x.id = b.id
           /\ \A i \in targets : Superseded(i) \/ \E x \in all : x.id = i
  <1>. USE DEF Apart
  <1>1. old = {Older(b, gap) : b \in pending}
    BY DEF Aged
  <1>2. targets \in SUBSET Ids
    BY IdsNat
  <1>3. \A o \in old : o \in Batch /\ \E b \in pending : o = Older(b, gap) /\ o.id = b.id
    BY <1>1, OlderFact
  <1>4. \A o, p \in old : Key(o.id) = Key(p.id) => o = p
    <2>. SUFFICES ASSUME NEW o \in old, NEW p \in old, Key(o.id) = Key(p.id)
                  PROVE  o = p
      OBVIOUS
    <2>1. PICK b \in pending : o = Older(b, gap) /\ o.id = b.id
      BY <1>3
    <2>2. PICK c \in pending : p = Older(c, gap) /\ p.id = c.id
      BY <1>3
    <2>. QED
      BY <2>1, <2>2
  <1>5. PICK new : new = {i \in targets :
                             /\ Key(i) \notin {Key(b.id) : b \in old}
                             /\ \A j \in targets : Key(j) = Key(i) => j <= i}
    OBVIOUS
  <1>6. all = {Absorb(b, targets) : b \in old} \cup {Fresh(i) : i \in new}
    BY <1>1, <1>5 DEF AddAll
  <1>7. ASSUME NEW x \in all
        PROVE  \/ \E o \in old : x = Absorb(o, targets)
               \/ \E i \in new : x = Fresh(i)
    BY <1>6
  <1>8. ASSUME NEW o \in old, NEW x, x = Absorb(o, targets)
        PROVE  /\ x \in all /\ x \in Batch
               /\ Key(x.id) = Key(o.id)
               /\ x.id = o.id \/ x.id \in targets
               /\ x.id >= o.id
               /\ \A i \in targets : Key(i) = Key(o.id) => i <= x.id
    BY <1>2, <1>3, <1>6, <1>8, AbsorbFact
  <1>9. ASSUME NEW i \in new, NEW x, x = Fresh(i)
        PROVE  x \in all /\ x \in Batch /\ x.id = i /\ i \in targets
    BY <1>2, <1>5, <1>6, <1>9, FreshFact
  <1>10. all \in SUBSET Batch
    BY <1>7, <1>8, <1>9
  <1>11. ASSUME NEW x \in all
         PROVE  /\ x.id \in Arrived
                /\ x.id \in targets \/ \E b \in pending : x.id = b.id
    BY <1>3, <1>7, <1>8, <1>9
  <1>12. ASSUME NEW x \in all, NEW y \in all, Key(x.id) = Key(y.id)
         PROVE  x = y
    <2>1. CASE /\ \E o \in old : x = Absorb(o, targets)
               /\ \E o \in old : y = Absorb(o, targets)
      <3>1. PICK o \in old : x = Absorb(o, targets)
        BY <2>1
      <3>2. PICK p \in old : y = Absorb(p, targets)
        BY <2>1
      <3>3. Key(o.id) = Key(p.id)
        BY <1>8, <1>12, <3>1, <3>2
      <3>. QED
        BY <1>4, <3>1, <3>2, <3>3
    <2>2. CASE /\ \E i \in new : x = Fresh(i)
               /\ \E i \in new : y = Fresh(i)
      <3>1. PICK i \in new : x = Fresh(i)
        BY <2>2
      <3>2. PICK j \in new : y = Fresh(j)
        BY <2>2
      <3>3. /\ i \in targets /\ j \in targets /\ Key(i) = Key(j)
        BY <1>9, <1>12, <3>1, <3>2
      <3>4. i <= j /\ j <= i
        BY <1>5, <3>3
      <3>5. i = j
        BY <1>2, <3>3, <3>4, IdsNat
      <3>. QED
        BY <3>1, <3>2, <3>5
    <2>3. ASSUME NEW o \in old, NEW i \in new, NEW u, NEW v, u = Absorb(o, targets),
                 v = Fresh(i)
          PROVE  Key(u.id) # Key(v.id)
      <3>1. Key(u.id) = Key(o.id) /\ v.id = i
        BY <1>8, <1>9, <2>3
      <3>2. Key(i) # Key(o.id)
        BY <1>5
      <3>. QED
        BY <3>1, <3>2
    <2>4. CASE /\ \E o \in old : x = Absorb(o, targets)
               /\ \E i \in new : y = Fresh(i)
      BY <1>12, <2>3, <2>4
    <2>5. CASE /\ \E i \in new : x = Fresh(i)
               /\ \E o \in old : y = Absorb(o, targets)
      BY <1>12, <2>3, <2>5
    <2>. QED
      BY <1>7, <2>1, <2>2, <2>4, <2>5
  <1>13. ASSUME NEW i \in targets
         PROVE  Superseded(i) \/ \E x \in all : x.id = i
    <2>1. CASE \E o \in old : Key(o.id) = Key(i)
      <3>1. PICK o \in old : Key(o.id) = Key(i)
        BY <2>1
      <3>2. PICK x : x = Absorb(o, targets)
        OBVIOUS
      <3>3. x \in all /\ Key(x.id) = Key(i) /\ i <= x.id
        BY <1>8, <3>1, <3>2
      <3>4. x.id \in Arrived
        BY <1>11, <3>3
      <3>5. x.id = i \/ i < x.id
        BY <1>2, <3>3, <3>4, IdsNat
      <3>. QED
        BY <3>3, <3>4, <3>5 DEF Superseded
    <2>2. CASE i \in new
      BY <1>9, <2>2
    <2>3. CASE /\ ~\E o \in old : Key(o.id) = Key(i)
               /\ i \notin new
      <3>1. PICK j \in targets : Key(j) = Key(i) /\ ~(j <= i)
        BY <1>5, <2>3
      <3>2. i < j /\ j \in Arrived
        BY <1>2, <3>1, IdsNat
      <3>. QED
        BY <3>1, <3>2 DEF Superseded
    <2>. QED
      BY <2>1, <2>2, <2>3
  <1>. QED
    BY <1>10, <1>11, <1>12, <1>13

-----------------------------------------------------------------------------
(***************************************************************************)
(* What time does to a worker's record: messages arrive at the end of the   *)
(* inbox, pushes and passed messages are never taken back.                  *)
(***************************************************************************)
Later ==
    /\ Arrived \subseteq Arrived'
    /\ \A i \in Arrived : num'[i] = num[i]
    /\ \A i \in Arrived', j \in Arrived : i \notin Arrived => j < i
    /\ \A i \in Ids : attempts[i] > 0 => attempts'[i] > 0
    /\ passed \subseteq passed'

\* A step that leaves the inbox alone.
LEMMA SteadyLater ==
    ASSUME num' = num, passed \subseteq passed',
           \A i \in Ids : attempts[i] > 0 => attempts'[i] > 0
    PROVE  Later /\ Arrived' = Arrived
  BY DEF Later, Arrived

\* The key of a message stays.
LEMMA KeyLater ==
    ASSUME Later, NEW i \in Arrived
    PROVE  Key(i)' = Key(i) /\ i \in Arrived'
  BY DEF Later, Key

\* What has been handled remains handled.
LEMMA HandledLater ==
    ASSUME Later, NEW i \in Arrived, Handled(i)
    PROVE  Handled(i)'
  <1>1. CASE attempts[i] > 0 \/ i \in passed
    BY <1>1, IdsNat DEF Later, Handled
  <1>2. CASE Superseded(i)
    <2>1. PICK j \in Arrived : i < j /\ Key(j) = Key(i)
      BY <1>2 DEF Superseded
    <2>2. Key(i)' = Key(i) /\ Key(j)' = Key(j) /\ j \in Arrived'
      BY KeyLater
    <2>. QED
      BY <2>1, <2>2 DEF Handled, Superseded
  <1>. QED
    BY <1>1, <1>2 DEF Handled

\* A last_id that nothing was lost below stays such.
LEMMA MarkLater ==
    ASSUME Later, NEW m, Seen(m)
    PROVE  Seen(m)' /\ (HandledUpTo(m) => HandledUpTo(m)')
  <1>1. Seen(m)'
    BY DEF Later, Seen
  <1>2. ASSUME HandledUpTo(m), NEW i \in Arrived', i <= m
        PROVE  Handled(i)'
    <2>1. i \in Ids
      BY DEF Arrived
    <2>2. i \in Arrived
      BY <1>2, <2>1, IdsNat DEF Later, Seen
    <2>3. Handled(i)
      BY <1>2, <2>2 DEF HandledUpTo
    <2>. QED
      BY <2>2, <2>3, HandledLater
  <1>3. HandledUpTo(m) => HandledUpTo(m)'
    BY <1>2 DEF HandledUpTo
  <1>. QED
    BY <1>1, <1>3

\* A worker's record remains right while others act.
LEMMA WorkerLater ==
    ASSUME Later, NEW me, WorkerOK(me)
    PROVE  WorkerOK(me)'
  <1>1. /\ me \in WorkerType
        /\ OnePerKey(me)
        /\ me.pending \cap me.out = {}
        /\ me.out # {} => me.pc = "send"
        /\ \A b \in me.pending \cup me.out : b.id \in Arrived
        /\ \A i \in me.completed : i \in Arrived /\ attempts[i] > 0
        /\ Seen(me.cfg.mark)
        /\ HandledUpTo(me.cfg.mark)
        /\ me.pc = "send" => Covered(me)
    BY DEF WorkerOK
  <1>2. OnePerKey(me)'
    <2>. SUFFICES ASSUME NEW a \in me.pending \cup me.out, NEW b \in me.pending \cup me.out,
                         Key(a.id)' = Key(b.id)'
                  PROVE  a = b
      BY DEF OnePerKey
    <2>1. Key(a.id)' = Key(a.id) /\ Key(b.id)' = Key(b.id)
      BY <1>1, KeyLater
    <2>. QED
      BY <1>1, <2>1 DEF OnePerKey
  <1>3. /\ \A b \in me.pending \cup me.out : b.id \in Arrived'
        /\ \A i \in me.completed : i \in Arrived' /\ attempts'[i] > 0
    BY <1>1, IdsNat DEF Later
  <1>4. Seen(me.cfg.mark)' /\ HandledUpTo(me.cfg.mark)'
    BY <1>1, MarkLater
  <1>5. ASSUME me.pc = "send"
        PROVE  Covered(me)'
    <2>. SUFFICES ASSUME NEW i \in Arrived', me.cfg.mark < i,
                         \/ \E c \in me.completed : i <= c
                         \/ \E b \in me.out : i <= b.id
                  PROVE  Handled(i)' \/ \E b \in me.pending \cup me.out : b.id = i
      BY DEF Covered
    <2>1. i \in Arrived
      <3>1. i \in Ids
        BY DEF Arrived
      <3>2. PICK c \in Arrived : i <= c
        BY <1>1
      <3>. QED
        BY <3>1, <3>2, IdsNat DEF Later
    <2>2. Handled(i) \/ \E b \in me.pending \cup me.out : b.id = i
      BY <1>1, <1>5, <2>1 DEF Covered
    <2>. QED
      BY <2>1, <2>2, HandledLater
  <1>. QED
    BY <1>1, <1>2, <1>3, <1>4, <1>5 DEF WorkerOK

\* All workers, one of which has a new record.
LEMMA WorkersStep ==
    ASSUME IInv, Later, NEW w \in Workers, NEW x, worker' = [worker EXCEPT ![w] = x],
           WorkerOK(x)'
    PROVE  /\ WorkersOK' /\ worker' \in [Workers -> WorkerType]
           /\ worker'[w] = x /\ \A v \in Workers : v # w => worker'[v] = worker[v]
  <1>1. worker \in [Workers -> WorkerType] /\ x \in WorkerType
    BY DEF IInv, Typed, WorkerOK
  <1>2. /\ worker' \in [Workers -> WorkerType]
        /\ worker'[w] = x /\ \A v \in Workers : v # w => worker'[v] = worker[v]
    BY <1>1
  <1>3. ASSUME NEW v \in Workers, v # w
        PROVE  WorkerOK(worker[v])'
    <2>1. PICK me : me = worker[v]
      OBVIOUS
    <2>2. WorkerOK(me)
      BY <2>1 DEF IInv, WorkersOK
    <2>3. WorkerOK(me)'
      BY <2>2, WorkerLater
    <2>4. me = worker'[v]
      BY <1>2, <1>3, <2>1
    <2>. QED
      BY <2>3, <2>4
  <1>4. WorkerOK(worker[w])'
    BY <1>2
  <1>5. WorkersOK'
    BY <1>3, <1>4 DEF WorkersOK
  <1>. QED
    BY <1>2, <1>5

\* All workers, none of which has moved.
LEMMA WorkersStay ==
    ASSUME IInv, Later, worker' = worker
    PROVE  WorkersOK'
  <1>. SUFFICES ASSUME NEW v \in Workers
                PROVE  WorkerOK(worker[v])'
    BY DEF WorkersOK
  <1>1. PICK me : me = worker[v]
    OBVIOUS
  <1>2. WorkerOK(me)'
    BY <1>1, WorkerLater DEF IInv, WorkersOK
  <1>3. me = worker'[v]
    BY <1>1
  <1>. QED
    BY <1>2, <1>3

-----------------------------------------------------------------------------
(***************************************************************************)
(* The modem.                                                               *)
(***************************************************************************)

\* The next message gets the next id.
LEMMA ArriveLater ==
    ASSUME IInv, Arrive
    PROVE  /\ Later /\ InboxPrefix'
           /\ num' \in [Ids -> Numbers \cup {Blank, None}]
  <1>1. PICK n \in 0..MaxId : Arrived = 1..n
    BY DEF IInv, InboxPrefix
  <1>2. n \in Nat /\ Cardinality(Arrived) = n
    <2>1. n \in Int /\ 1 \in Int /\ n \in Nat
      BY IdsNat
    <2>2. Cardinality(1..n) = IF 1 > n THEN 0 ELSE n - 1 + 1
      BY <2>1, FS_Interval
    <2>. QED
      BY <1>1, <2>1, <2>2
  <1>3. n < MaxId /\ n + 1 \in Ids
    BY <1>2, IdsNat DEF Arrive, Ids
  <1>4. PICK s \in Numbers \cup {Blank} : num' = [num EXCEPT ![n + 1] = s]
    BY <1>2 DEF Arrive
  <1>5. num \in [Ids -> Numbers \cup {Blank, None}] /\ s # None
    BY NoneAssumption DEF IInv, Typed
  <1>6. /\ num' \in [Ids -> Numbers \cup {Blank, None}]
        /\ num'[n + 1] = s /\ \A i \in Ids : i # n + 1 => num'[i] = num[i]
    BY <1>3, <1>4, <1>5
  <1>7. Arrived' = Arrived \cup {n + 1}
    BY <1>3, <1>5, <1>6 DEF Arrived
  <1>8. n + 1 \notin Arrived /\ \A j \in Arrived : j < n + 1
    BY <1>1, <1>2
  <1>9. UNCHANGED <<attempts, passed>>
    BY DEF Arrive, history
  <1>10. Later
    BY <1>6, <1>7, <1>8, <1>9, IdsNat DEF Later
  <1>11. Arrived' = 1..(n + 1) /\ n + 1 \in 0..MaxId
    BY <1>1, <1>2, <1>3, <1>7, IdsNat
  <1>12. InboxPrefix'
    BY <1>11 DEF InboxPrefix
  <1>. QED
    BY <1>6, <1>10, <1>12

\* Marks that were in the inbox still are.
LEMMA MarksLater ==
    ASSUME IInv, Later, UNCHANGED <<file, high, saver>>
    PROVE  FileOK' /\ HighOK' /\ SaverOK'
  <1>1. PICK f, h, s : f = file.mark /\ h = high /\ s = saver.cfg.mark
    OBVIOUS
  <1>2. Seen(f) /\ Seen(h) /\ Seen(s) /\ HandledUpTo(h)
    BY <1>1 DEF IInv, FileOK, HighOK, SaverOK
  <1>3. Seen(f)' /\ Seen(h)' /\ Seen(s)' /\ HandledUpTo(h)'
    BY <1>2, MarkLater
  <1>4. f = file'.mark /\ h = high' /\ s = saver'.cfg.mark
    BY <1>1
  <1>. QED
    BY <1>3, <1>4 DEF IInv, FileOK, HighOK, SaverOK

\* The modem's steps.
LEMMA DeviceInv ==
    ASSUME IInv, Arrive \/ Grow
    PROVE  IInv'
  <1>1. UNCHANGED <<file, stop, worker, saver, saves, crashes, attempts, passed, chosen, high>>
    BY DEF Arrive, Grow, history
  <1>2. Later /\ InboxPrefix' /\ num' \in [Ids -> Numbers \cup {Blank, None}]
    <2>1. CASE Arrive
      BY <2>1, ArriveLater
    <2>2. CASE Grow
      <3>1. num' = num
        BY <2>2 DEF Grow
      <3>2. Later /\ Arrived' = Arrived
        BY <1>1, <3>1, SteadyLater
      <3>. QED
        BY <3>1, <3>2 DEF IInv, Typed, InboxPrefix
    <2>. QED
      BY <2>1, <2>2
  <1>3. rev' \in [Ids -> 0..MaxRev]
    <2>1. rev \in [Ids -> 0..MaxRev]
      BY DEF IInv, Typed
    <2>2. CASE Arrive
      BY <2>1, <2>2 DEF Arrive
    <2>3. CASE Grow
      <3>1. PICK i \in Arrived : rev[i] < MaxRev /\ rev' = [rev EXCEPT ![i] = rev[i] + 1]
        BY <2>3 DEF Grow
      <3>2. rev[i] + 1 \in 0..MaxRev
        BY <2>1, <3>1, IdsNat
      <3>. QED
        BY <2>1, <3>1, <3>2, IdsNat
    <2>. QED
      BY <2>2, <2>3
  <1>4. Typed'
    BY <1>1, <1>2, <1>3 DEF IInv, Typed
  <1>5. FileOK' /\ HighOK' /\ SaverOK'
    BY <1>1, <1>2, MarksLater
  <1>6. WorkersOK'
    BY <1>1, <1>2, WorkersStay
  <1>7. Stoppable'
    BY <1>1 DEF IInv, Stoppable
  <1>. QED
    BY <1>2, <1>4, <1>5, <1>6, <1>7 DEF IInv

-----------------------------------------------------------------------------
(***************************************************************************)
(* The steps of a poll.                                                     *)
(***************************************************************************)
Running(me) == me.pc \notin {"new", "exited"}

\* What the steps of a poll have in common.
LEMMA PollInv ==
    ASSUME IInv, NEW w \in Workers, NEW x, worker' = [worker EXCEPT ![w] = x],
           Running(worker[w]), x.closed = worker[w].closed,
           UNCHANGED <<num, rev, stop, saver, saves, crashes, chosen>>,
           attempts' \in [Ids -> 0..CountTo],
           \A i \in Ids : attempts[i] > 0 => attempts'[i] > 0,
           passed \subseteq passed', passed' \subseteq Ids,
           file' \in Config, high' \in 0..MaxId, FileOK', HighOK',
           WorkerOK(x)'
    PROVE  IInv'
  <1>1. Later /\ Arrived' = Arrived
    BY SteadyLater
  <1>2. /\ WorkersOK' /\ worker' \in [Workers -> WorkerType]
        /\ worker'[w] = x /\ \A v \in Workers : v # w => worker'[v] = worker[v]
    BY <1>1, WorkersStep
  <1>3. Typed'
    BY <1>2 DEF IInv, Typed
  <1>4. InboxPrefix'
    BY <1>1 DEF IInv, InboxPrefix
  <1>5. SaverOK'
    BY <1>1 DEF IInv, SaverOK, Seen
  <1>6. Stoppable'
    BY <1>2 DEF IInv, Stoppable, Running
  <1>. QED
    BY <1>2, <1>3, <1>4, <1>5, <1>6 DEF IInv

\* The same for the steps that change nothing but the worker's record.
LEMMA QuietInv ==
    ASSUME IInv, NEW w \in Workers, NEW x, worker' = [worker EXCEPT ![w] = x],
           Running(worker[w]), x.closed = worker[w].closed,
           UNCHANGED <<num, rev, file, stop, saver, saves, crashes, attempts, passed, chosen,
                       high>>,
           WorkerOK(x)
    PROVE  IInv'
  <1>1. Later /\ Arrived' = Arrived
    BY SteadyLater
  <1>2. FileOK' /\ HighOK' /\ SaverOK'
    BY <1>1, MarksLater
  <1>3. WorkerOK(x)'
    BY <1>1, WorkerLater
  <1>4. /\ attempts' \in [Ids -> 0..CountTo] /\ passed' \subseteq Ids
        /\ file' \in Config /\ high' \in 0..MaxId
    BY DEF IInv, Typed
  <1>. QED
    BY <1>2, <1>3, <1>4, PollInv

\* A record that keeps the batches, outside of sending.
LEMMA KeepsBatches ==
    ASSUME NEW me, WorkerOK(me), me.out = {}, NEW x \in WorkerType,
           x.pending = me.pending, x.out = me.out, x.completed \subseteq me.completed,
           x.pc # "send", Seen(x.cfg.mark), HandledUpTo(x.cfg.mark)
    PROVE  WorkerOK(x)
  BY DEF WorkerOK, OnePerKey

\* Nothing is below a last_id of 0.
LEMMA ZeroMark ==
    /\ Empty \in Config /\ Empty.mark = 0
    /\ Seen(0) /\ HandledUpTo(0)
  <1>1. Empty \in Config /\ Empty.mark = 0
    BY IdsNat DEF Empty, Config
  <1>2. Seen(0) /\ HandledUpTo(0)
    BY IdsNat DEF Seen, HandledUpTo
  <1>. QED
    BY <1>1, <1>2

\* A file that cannot be parsed has no last_id and is not valid; neither is an empty one.
LEMMA BrokenFile ==
    Broken \in Config /\ Broken.mark = 0 /\ ~Valid(Broken) /\ ~Valid(Empty)
  BY IdsNat, NoneAssumption DEF Broken, Empty, Config, Valid

\* The fields of a record after the poll has returned.
LEMMA ReturnFields ==
    ASSUME NEW me \in WorkerType, NEW x, x = Return(me)
    PROVE  /\ x \in WorkerType
           /\ x.pc = "wait" /\ x.cfg = Empty /\ x.base = FALSE
           /\ x.closed = me.closed /\ x.pending = me.pending
           /\ x.completed = me.completed /\ x.out = me.out
  <1>1. x = [pc |-> "wait", closed |-> me.closed, base |-> FALSE, cfg |-> Empty,
             pending |-> me.pending, completed |-> me.completed, out |-> me.out]
    BY DEF Return, WorkerType
  <1>2. "wait" \in WorkerPcs /\ Empty \in Config /\ FALSE \in BOOLEAN
    BY ZeroMark DEF WorkerPcs
  <1>. QED
    BY <1>1, <1>2 DEF WorkerType

\* The poll returns.
LEMMA ReturnOK ==
    ASSUME NEW me, WorkerOK(me), me.out = {}, NEW x, x = Return(me)
    PROVE  WorkerOK(x) /\ x.closed = me.closed
  <1>1. me \in WorkerType
    BY DEF WorkerOK
  <1>2. /\ x \in WorkerType
        /\ x.pc = "wait" /\ x.cfg = Empty
        /\ x.closed = me.closed /\ x.pending = me.pending
        /\ x.completed = me.completed /\ x.out = me.out
    BY <1>1, ReturnFields
  <1>. QED
    BY <1>2, ZeroMark, KeepsBatches

\* A record of which only the place in the code changes.
LEMMA PcFields ==
    ASSUME NEW me \in WorkerType, NEW pc \in WorkerPcs, NEW x, x = [me EXCEPT !.pc = pc]
    PROVE  /\ x \in WorkerType
           /\ x.pc = pc /\ x.cfg = me.cfg /\ x.base = me.base
           /\ x.closed = me.closed /\ x.pending = me.pending
           /\ x.completed = me.completed /\ x.out = me.out
  <1>1. x = [pc |-> pc, closed |-> me.closed, base |-> me.base, cfg |-> me.cfg,
             pending |-> me.pending, completed |-> me.completed, out |-> me.out]
    BY DEF WorkerType
  <1>. QED
    BY <1>1 DEF WorkerType

\* What the invariant says of one worker, by name.
LEMMA MyRecord ==
    ASSUME IInv, NEW w \in Workers
    PROVE  \E me : /\ me = worker[w] /\ WorkerOK(me) /\ me \in WorkerType
                   /\ me.pc # "send" => me.out = {}
                   /\ me.cfg \in Config /\ me.cfg.mark \in 0..MaxId
  <1>1. PICK me : me = worker[w]
    OBVIOUS
  <1>2. WorkerOK(me)
    BY <1>1 DEF IInv, WorkersOK
  <1>3. me \in WorkerType /\ (me.pc # "send" => me.out = {})
    BY <1>2 DEF WorkerOK
  <1>4. me.cfg \in Config
    BY <1>3 DEF WorkerType
  <1>5. me.cfg.mark \in 0..MaxId
    BY <1>4 DEF Config
  <1>. QED
    BY <1>1, <1>2, <1>3, <1>4, <1>5

\* The ticker, and the failures of the fetch and of the save.
LEMMA TickInv ==
    ASSUME IInv, NEW w \in Workers, Tick(w)
    PROVE  IInv'
  <1>1. PICK me : /\ me = worker[w] /\ WorkerOK(me) /\ me \in WorkerType
                  /\ me.pc # "send" => me.out = {}
    BY MyRecord
  <1>2. PICK x : x = [me EXCEPT !.pc = "load"]
    OBVIOUS
  <1>3. /\ me.pc = "wait" /\ worker' = [worker EXCEPT ![w] = x]
        /\ UNCHANGED <<num, rev, file, stop, saver, saves, crashes, attempts, passed, chosen,
                       high>>
    BY <1>1, <1>2 DEF Tick, device, history
  <1>4. /\ x \in WorkerType /\ x.pc = "load" /\ x.cfg = me.cfg
        /\ x.closed = me.closed /\ x.pending = me.pending
        /\ x.completed = me.completed /\ x.out = me.out
    BY <1>1, <1>2, PcFields DEF WorkerPcs
  <1>5. Seen(me.cfg.mark) /\ HandledUpTo(me.cfg.mark)
    BY <1>1 DEF WorkerOK
  <1>6. WorkerOK(x)
    BY <1>1, <1>3, <1>4, <1>5, KeepsBatches
  <1>. QED
    BY <1>1, <1>3, <1>4, <1>6, QuietInv DEF Running

\* A broken file is as good as a last_id of 0.
LEMMA BrokenMarks ==
    ASSUME IInv, file' = Broken, UNCHANGED <<num, attempts, passed, high>>
    PROVE  FileOK' /\ HighOK' /\ file' \in Config
  <1>1. Later /\ Arrived' = Arrived
    BY SteadyLater DEF IInv, Typed
  <1>2. PICK h : h = high
    OBVIOUS
  <1>3. Seen(h) /\ HandledUpTo(h) /\ h \in 0..MaxId
    BY <1>2 DEF IInv, HighOK, Typed
  <1>4. Seen(h)' /\ HandledUpTo(h)'
    BY <1>1, <1>3, MarkLater
  <1>5. file'.mark = 0 /\ 0 <= high'
    BY <1>2, <1>3, BrokenFile, IdsNat
  <1>. QED
    BY <1>2, <1>4, <1>5, BrokenFile DEF FileOK, HighOK, Seen

\* A fault ends the poll, not the worker.
LEMMA FaultInv ==
    ASSUME IInv, NEW w \in Workers, Fault(w)
    PROVE  IInv'
  <1>1. PICK me : /\ me = worker[w] /\ WorkerOK(me) /\ me \in WorkerType
                  /\ me.pc # "send" => me.out = {}
    BY MyRecord
  <1>2. PICK x : x = Return(me)
    OBVIOUS
  <1>3. /\ me.pc \in {"fetch", "open", "write"} /\ worker' = [worker EXCEPT ![w] = x]
        /\ UNCHANGED <<num, rev, stop, saver, saves, crashes, attempts, passed, chosen, high>>
        /\ file' = file \/ file' = Broken
    BY <1>1, <1>2 DEF Fault, FetchFails, SaveFails, WriteFails, device, history
  <1>4. WorkerOK(x) /\ x.closed = me.closed
    BY <1>1, <1>2, <1>3, ReturnOK
  <1>5. CASE file' = file
    BY <1>1, <1>3, <1>4, <1>5, QuietInv DEF Running
  <1>6. CASE file' = Broken
    <2>1. FileOK' /\ HighOK' /\ file' \in Config
      BY <1>3, <1>6, BrokenMarks
    <2>2. Later
      BY <1>3, SteadyLater DEF IInv, Typed
    <2>3. WorkerOK(x)'
      BY <1>4, <2>2, WorkerLater
    <2>4. attempts' \in [Ids -> 0..CountTo] /\ passed' \subseteq Ids /\ high' \in 0..MaxId
      BY <1>3 DEF IInv, Typed
    <2>. QED
      BY <1>1, <1>3, <1>4, <2>1, <2>3, <2>4, PollInv DEF Running
  <1>. QED
    BY <1>3, <1>5, <1>6

\* The configuration that is loaded is one that was stored.
LEMMA PollLoadInv ==
    ASSUME IInv, NEW w \in Workers, PollLoad(w)
    PROVE  IInv'
  <1>1. PICK me : /\ me = worker[w] /\ WorkerOK(me) /\ me \in WorkerType
                  /\ me.pc # "send" => me.out = {}
    BY MyRecord
  <1>2. /\ me.pc = "load"
        /\ UNCHANGED <<num, rev, file, stop, saver, saves, crashes, attempts, passed, chosen,
                       high>>
    BY <1>1 DEF PollLoad, device, history
  <1>3. CASE Valid(file)
    <2>1. PICK x : x = [me EXCEPT !.pc = "fetch", !.cfg = file]
      OBVIOUS
    <2>2. worker' = [worker EXCEPT ![w] = x]
      BY <1>1, <1>3, <2>1 DEF PollLoad
    <2>3. file \in Config /\ "fetch" \in WorkerPcs
      BY DEF IInv, Typed, WorkerPcs
    <2>4. /\ x \in WorkerType /\ x.pc = "fetch" /\ x.cfg = file
          /\ x.closed = me.closed /\ x.pending = me.pending
          /\ x.completed = me.completed /\ x.out = me.out
      <3>1. x = [pc |-> "fetch", closed |-> me.closed, base |-> me.base, cfg |-> file,
                 pending |-> me.pending, completed |-> me.completed, out |-> me.out]
        BY <1>1, <2>1 DEF WorkerType
      <3>. QED
        BY <1>1, <2>3, <3>1 DEF WorkerType
    <2>5. Seen(file.mark) /\ HandledUpTo(file.mark)
      <3>1. /\ Seen(file.mark) /\ file.mark <= high /\ HandledUpTo(high)
            /\ file.mark \in Nat /\ high \in Nat
        BY IdsNat DEF IInv, FileOK, HighOK, Typed, Config
      <3>2. \A i \in Arrived : i <= file.mark => i <= high
        BY <3>1, IdsNat
      <3>. QED
        BY <3>1, <3>2 DEF HandledUpTo
    <2>6. WorkerOK(x)
      BY <1>1, <1>2, <2>4, <2>5, KeepsBatches
    <2>. QED
      BY <1>1, <1>2, <2>2, <2>4, <2>6, QuietInv DEF Running
  <1>4. CASE ~Valid(file)
    <2>1. PICK x : x = Return(me)
      OBVIOUS
    <2>2. worker' = [worker EXCEPT ![w] = x]
      BY <1>1, <1>4, <2>1 DEF PollLoad
    <2>3. WorkerOK(x) /\ x.closed = me.closed
      BY <1>1, <1>2, <2>1, ReturnOK
    <2>. QED
      BY <1>1, <1>2, <2>2, <2>3, QuietInv DEF Running
  <1>. QED
    BY <1>3, <1>4

\* The first last_id: what it goes past is recorded as passed.
LEMMA FetchBaselineInv ==
    ASSUME IInv, NEW w \in Workers, FetchBaseline(w)
    PROVE  IInv'
  <1>1. PICK me : /\ me = worker[w] /\ WorkerOK(me) /\ me \in WorkerType
                  /\ me.pc # "send" => me.out = {}
                  /\ me.cfg \in Config
    BY MyRecord
  <1>2. PICK m : m = Latest(0)
    OBVIOUS
  <1>3. PICK cfg : cfg = [mark |-> m, dest |-> me.cfg.dest]
    OBVIOUS
  <1>4. PICK x : x = [me EXCEPT !.pc = "open", !.base = TRUE, !.cfg = cfg]
    OBVIOUS
  <1>5. /\ me.pc = "fetch" /\ worker' = [worker EXCEPT ![w] = x]
        /\ passed' = passed \cup {i \in Arrived : high < i /\ i <= m}
        /\ UNCHANGED <<num, rev, file, stop, saver, saves, crashes, attempts, chosen, high>>
    BY <1>1, <1>2, <1>3, <1>4 DEF FetchBaseline, Passes, device
  <1>6. Seen(m) /\ m \in 0..MaxId
    BY <1>2, LatestFact
  <1>7. cfg \in Config /\ cfg.mark = m
    BY <1>1, <1>3, <1>6 DEF Config
  <1>8. /\ x \in WorkerType /\ x.pc = "open" /\ x.cfg = cfg
        /\ x.closed = me.closed /\ x.pending = me.pending
        /\ x.completed = me.completed /\ x.out = me.out
    <2>1. x = [pc |-> "open", closed |-> me.closed, base |-> TRUE, cfg |-> cfg,
               pending |-> me.pending, completed |-> me.completed, out |-> me.out]
      BY <1>1, <1>4 DEF WorkerType
    <2>2. "open" \in WorkerPcs
      BY DEF WorkerPcs
    <2>. QED
      BY <1>1, <1>7, <2>1, <2>2 DEF WorkerType
  <1>9. passed \subseteq passed' /\ passed' \subseteq Ids
    BY <1>5, IdsNat DEF IInv, Typed
  <1>10. Later /\ Arrived' = Arrived
    BY <1>5, <1>9, SteadyLater
  <1>11. FileOK' /\ HighOK' /\ SaverOK'
    BY <1>5, <1>10, MarksLater
  <1>12. Seen(m)' /\ HandledUpTo(m)'
    <2>1. ASSUME NEW i \in Arrived', i <= m
          PROVE  Handled(i)'
      <3>1. i \in Arrived /\ i \in Nat /\ high \in Nat
        BY <1>10, IdsNat DEF IInv, Typed
      <3>2. CASE i <= high
        BY <1>5, <1>11, <3>2 DEF HighOK, HandledUpTo
      <3>3. CASE ~(i <= high)
        BY <1>5, <2>1, <3>1, <3>3 DEF Handled
      <3>. QED
        BY <3>2, <3>3
    <2>. QED
      BY <1>6, <1>10, <2>1 DEF Seen, HandledUpTo
  <1>13. WorkerOK(me)'
    BY <1>1, <1>10, WorkerLater
  <1>14. WorkerOK(x)'
    BY <1>1, <1>5, <1>7, <1>8, <1>12, <1>13 DEF WorkerOK, OnePerKey
  <1>15. /\ attempts' \in [Ids -> 0..CountTo] /\ file' \in Config /\ high' \in 0..MaxId
         /\ \A i \in Ids : attempts[i] > 0 => attempts'[i] > 0
    BY <1>5 DEF IInv, Typed
  <1>. QED
    BY <1>1, <1>5, <1>8, <1>9, <1>11, <1>14, <1>15, PollInv DEF Running

\* The messages that a poll is about.
Targets(me) == {i \in Arrived : i > me.cfg.mark /\ i \notin me.completed}

\* The batches of a worker after it has added what it fetched.
LEMMA FetchedBatches ==
    ASSUME IInv, NEW me, WorkerOK(me), NEW gap \in Gaps, NEW targets, targets = Targets(me),
           NEW old, old = Aged(me.pending, gap), NEW all, all = AddAll(old, targets)
    PROVE  /\ all \in SUBSET Batch
           /\ \A y \in all : /\ y.id \in Arrived
                             /\ y.id \in targets \/ \E b \in me.pending : y.id = b.id
           /\ \A y, z \in all : Key(y.id) = Key(z.id) => y = z
           /\ \A i \in targets : Superseded(i) \/ \E y \in all : y.id = i
  <1>1. PICK pend : pend = me.pending
    OBVIOUS
  <1>2. rev \in [Ids -> 0..MaxRev]
    BY DEF IInv, Typed
  <1>3. Apart(pend)
    BY <1>1 DEF WorkerOK, OnePerKey, WorkerType, Apart
  <1>4. targets \in SUBSET Arrived
    BY DEF Targets
  <1>5. old = Aged(pend, gap)
    BY <1>1
  <1>6. /\ Apart(all)
        /\ \A y \in all : y.id \in targets \/ \E b \in pend : y.id = b.id
        /\ \A i \in targets : Superseded(i) \/ \E y \in all : y.id = i
    BY <1>2, <1>3, <1>4, <1>5, AddAllFact
  <1>. QED
    BY <1>1, <1>6 DEF Apart

\* The batches after the fetch, and why every message above last_id is in one of them
\* or has been handled.
LEMMA FetchTargetsInv ==
    ASSUME IInv, NEW w \in Workers, FetchTargets(w)
    PROVE  IInv'
  <1>1. PICK me : /\ me = worker[w] /\ WorkerOK(me) /\ me \in WorkerType
                  /\ me.pc # "send" => me.out = {}
                  /\ me.cfg \in Config /\ me.cfg.mark \in 0..MaxId
    BY MyRecord
  <1>2. me.pc = "fetch" /\ me.out = {}
    BY <1>1 DEF FetchTargets
  <1>3. PICK targets : targets = {i \in Arrived : i > me.cfg.mark /\ i \notin me.completed}
    OBVIOUS
  <1>4. PICK gap \in Gaps :
           LET all == AddAll({Older(b, gap) : b \in me.pending}, targets)
               ready == {b \in all : IsReady(b)}
           IN  worker' = [worker EXCEPT ![w] =
                  [me EXCEPT !.pc = "send", !.pending = all \ ready, !.out = ready]]
    BY <1>1, <1>3 DEF FetchTargets
  <1>5. PICK old, all : /\ old = {Older(b, gap) : b \in me.pending}
                        /\ all = AddAll(old, targets)
    OBVIOUS
  <1>6. PICK ready : ready = {b \in all : IsReady(b)}
    OBVIOUS
  <1>7. PICK x : x = [me EXCEPT !.pc = "send", !.pending = all \ ready, !.out = ready]
    OBVIOUS
  <1>8. worker' = [worker EXCEPT ![w] = x]
    BY <1>4, <1>5, <1>6, <1>7
  <1>9. UNCHANGED <<num, rev, file, stop, saver, saves, crashes, attempts, passed, chosen, high>>
    BY DEF FetchTargets, device, history
  <1>10. /\ all \in SUBSET Batch
         /\ \A y \in all : /\ y.id \in Arrived
                           /\ y.id \in targets \/ \E b \in me.pending : y.id = b.id
         /\ \A y, z \in all : Key(y.id) = Key(z.id) => y = z
         /\ \A i \in targets : Superseded(i) \/ \E y \in all : y.id = i
    <2>1. targets = Targets(me) /\ old = Aged(me.pending, gap) /\ all = AddAll(old, targets)
      BY <1>3, <1>5 DEF Targets, Aged
    <2>. QED
      BY <1>1, <2>1, FetchedBatches
  <1>11. (all \ ready) \cup ready = all /\ ready \in SUBSET Batch /\ all \ ready \in SUBSET Batch
    BY <1>6, <1>10
  <1>12. /\ x \in WorkerType /\ x.pc = "send" /\ x.cfg = me.cfg
         /\ x.closed = me.closed /\ x.pending = all \ ready
         /\ x.completed = me.completed /\ x.out = ready
    <2>1. x = [pc |-> "send", closed |-> me.closed, base |-> me.base, cfg |-> me.cfg,
               pending |-> all \ ready, completed |-> me.completed, out |-> ready]
      BY <1>1, <1>7 DEF WorkerType
    <2>2. "send" \in WorkerPcs
      BY DEF WorkerPcs
    <2>. QED
      BY <1>1, <1>11, <2>1, <2>2 DEF WorkerType
  <1>13. x.pending \cup x.out = all /\ x.pending \cap x.out = {}
    BY <1>11, <1>12
  <1>14. Covered(x)
    <2>. SUFFICES ASSUME NEW i \in Arrived, x.cfg.mark < i
                  PROVE  Handled(i) \/ \E b \in x.pending \cup x.out : b.id = i
      BY DEF Covered
    <2>1. CASE i \in me.completed
      BY <1>1, <2>1 DEF WorkerOK, Handled
    <2>2. CASE i \notin me.completed
      <3>1. i > me.cfg.mark
        BY <1>1, <1>12, IdsNat
      <3>2. i \in targets
        BY <1>3, <2>2, <3>1
      <3>. QED
        BY <1>10, <1>13, <3>2 DEF Handled
    <2>. QED
      BY <2>1, <2>2
  <1>15. WorkerOK(x)
    BY <1>1, <1>10, <1>12, <1>13, <1>14 DEF WorkerOK, OnePerKey
  <1>. QED
    BY <1>1, <1>2, <1>8, <1>9, <1>12, <1>15, QuietInv DEF Running

\* A push: the message has been handled, and the others wait as before.
LEMMA SendInv ==
    ASSUME IInv, NEW w \in Workers, Send(w)
    PROVE  IInv'
  <1>1. PICK me : me = worker[w] /\ WorkerOK(me) /\ me \in WorkerType
    BY MyRecord
  <1>2. me.pc = "send"
    BY <1>1 DEF Send
  <1>3. PICK b \in me.out :
           /\ attempts' = [attempts EXCEPT ![b.id] = Min({attempts[b.id] + 1, CountTo})]
           /\ worker' = [worker EXCEPT ![w] =
                  [me EXCEPT !.out = me.out \ {b}, !.completed = me.completed \cup {b.id}]]
    BY <1>1 DEF Send, SendSmsForwardBatch
  <1>4. UNCHANGED <<num, rev, file, stop, saver, saves, crashes, passed, chosen, high>>
    BY DEF Send, device
  <1>5. PICK x : x = [me EXCEPT !.out = me.out \ {b}, !.completed = me.completed \cup {b.id}]
    OBVIOUS
  <1>6. worker' = [worker EXCEPT ![w] = x]
    BY <1>3, <1>5
  <1>7. b \in Batch /\ b.id \in Ids /\ b.id \in Arrived
    BY <1>1, IdsNat DEF WorkerOK, WorkerType
  <1>8. /\ attempts' \in [Ids -> 0..CountTo]
        /\ attempts'[b.id] > 0 /\ \A i \in Ids : i # b.id => attempts'[i] = attempts[i]
    <2>1. attempts \in [Ids -> 0..CountTo] /\ attempts[b.id] \in 0..CountTo
      BY <1>7 DEF IInv, Typed
    <2>2. PICK n : n = Min({attempts[b.id] + 1, CountTo})
      OBVIOUS
    <2>3. attempts[b.id] + 1 \in Nat
      BY <2>1, IdsNat
    <2>4. n = IF attempts[b.id] + 1 <= CountTo THEN attempts[b.id] + 1 ELSE CountTo
      BY <2>2, <2>3, IdsNat, MinPair
    <2>5. n \in 0..CountTo /\ n > 0
      BY <2>1, <2>4, IdsNat
    <2>6. attempts' = [attempts EXCEPT ![b.id] = n]
      BY <1>3, <2>2
    <2>. QED
      BY <1>7, <2>1, <2>5, <2>6
  <1>9. Later /\ Arrived' = Arrived
    BY <1>4, <1>8, SteadyLater
  <1>10. /\ x \in WorkerType /\ x.pc = "send" /\ x.cfg = me.cfg
         /\ x.closed = me.closed /\ x.pending = me.pending
         /\ x.completed = me.completed \cup {b.id} /\ x.out = me.out \ {b}
    <2>1. x = [pc |-> "send", closed |-> me.closed, base |-> me.base, cfg |-> me.cfg,
               pending |-> me.pending, completed |-> me.completed \cup {b.id},
               out |-> me.out \ {b}]
      BY <1>1, <1>2, <1>5 DEF WorkerType
    <2>. QED
      BY <1>1, <1>2, <1>7, <2>1 DEF WorkerType
  <1>11. WorkerOK(me)'
    BY <1>1, <1>9, WorkerLater
  <1>12. Covered(x)'
    <2>. SUFFICES ASSUME NEW i \in Arrived', x.cfg.mark < i,
                         \/ \E c \in x.completed : i <= c
                         \/ \E a \in x.out : i <= a.id
                  PROVE  Handled(i)' \/ \E a \in x.pending \cup x.out : a.id = i
      BY DEF Covered
    <2>1. \/ \E c \in me.completed : i <= c
          \/ \E a \in me.out : i <= a.id
      BY <1>10
    <2>2. Handled(i)' \/ \E a \in me.pending \cup me.out : a.id = i
      BY <1>2, <1>10, <1>11, <2>1 DEF WorkerOK, Covered
    <2>3. CASE \E a \in me.pending \cup me.out : a.id = i
      <3>1. PICK a \in me.pending \cup me.out : a.id = i
        BY <2>3
      <3>2. CASE a = b
        BY <1>8, <3>1, <3>2 DEF Handled
      <3>3. CASE a # b
        BY <1>10, <3>1, <3>3
      <3>. QED
        BY <3>2, <3>3
    <2>. QED
      BY <2>2, <2>3
  <1>13. WorkerOK(x)'
    <2>1. x.pending \cup x.out \subseteq me.pending \cup me.out
      BY <1>10
    <2>2. OnePerKey(x)'
      BY <1>11, <2>1 DEF WorkerOK, OnePerKey
    <2>3. /\ x.pending \cap x.out = {}
          /\ \A a \in x.pending \cup x.out : a.id \in Arrived'
          /\ \A i \in x.completed : i \in Arrived' /\ attempts'[i] > 0
          /\ Seen(x.cfg.mark)' /\ HandledUpTo(x.cfg.mark)'
      BY <1>7, <1>8, <1>9, <1>10, <1>11, <2>1 DEF WorkerOK
    <2>. QED
      BY <1>10, <1>12, <2>2, <2>3 DEF WorkerOK
  <1>14. FileOK' /\ HighOK' /\ SaverOK'
    BY <1>4, <1>9, MarksLater
  <1>15. /\ passed' \subseteq Ids /\ file' \in Config /\ high' \in 0..MaxId
         /\ \A i \in Ids : attempts[i] > 0 => attempts'[i] > 0
    BY <1>4, <1>8 DEF IInv, Typed
  <1>. QED
    BY <1>1, <1>2, <1>4, <1>6, <1>8, <1>10, <1>13, <1>14, <1>15, PollInv DEF Running

\* last_id moves to a message below which everything was pushed or superseded.
LEMMA AdvanceInv ==
    ASSUME IInv, NEW w \in Workers, Advance(w)
    PROVE  IInv'
  <1>1. PICK me : /\ me = worker[w] /\ WorkerOK(me) /\ me \in WorkerType
                  /\ me.cfg \in Config /\ me.cfg.mark \in 0..MaxId
    BY MyRecord
  <1>2. PICK next : next = NextLastId(me.pending, me.completed, me.cfg.mark)
    OBVIOUS
  <1>3. /\ me.pc = "send" /\ me.out = {}
        /\ UNCHANGED <<num, rev, file, stop, saver, saves, crashes, attempts, passed, chosen,
                       high>>
    BY <1>1 DEF Advance, device, history
  <1>4. me.completed \in SUBSET Ids
    BY <1>1 DEF WorkerType
  <1>5. /\ next \in 0..MaxId /\ next >= me.cfg.mark
        /\ next = me.cfg.mark \/ (next \in me.completed /\ \A b \in me.pending : next < b.id)
    BY <1>1, <1>2, <1>4, NextLastIdFact
  <1>6. CASE next > me.cfg.mark
    <2>1. PICK cfg : cfg = [mark |-> next, dest |-> me.cfg.dest]
      OBVIOUS
    <2>2. PICK x : x = [me EXCEPT !.pc = "open", !.base = FALSE, !.cfg = cfg]
      OBVIOUS
    <2>3. worker' = [worker EXCEPT ![w] = x]
      BY <1>1, <1>2, <1>6, <2>1, <2>2 DEF Advance
    <2>4. cfg \in Config /\ cfg.mark = next
      BY <1>1, <1>5, <2>1 DEF Config
    <2>5. /\ x \in WorkerType /\ x.pc = "open" /\ x.cfg = cfg
          /\ x.closed = me.closed /\ x.pending = me.pending
          /\ x.completed = me.completed /\ x.out = me.out
      <3>1. x = [pc |-> "open", closed |-> me.closed, base |-> FALSE, cfg |-> cfg,
                 pending |-> me.pending, completed |-> me.completed, out |-> me.out]
        BY <1>1, <2>2 DEF WorkerType
      <3>2. "open" \in WorkerPcs
        BY DEF WorkerPcs
      <3>. QED
        BY <1>1, <2>4, <3>1, <3>2 DEF WorkerType
    <2>6. next \in me.completed /\ \A b \in me.pending : next < b.id
      BY <1>1, <1>5, <1>6
    <2>7. Seen(next)
      BY <1>1, <2>6 DEF WorkerOK, Seen
    <2>8. ASSUME NEW i \in Arrived, i <= next
          PROVE  Handled(i)
      <3>1. CASE i <= me.cfg.mark
        BY <1>1, <3>1 DEF WorkerOK, HandledUpTo
      <3>2. CASE ~(i <= me.cfg.mark)
        <4>1. me.cfg.mark < i /\ i \in Nat /\ next \in Nat
          BY <1>1, <1>5, <3>2, IdsNat
        <4>2. Handled(i) \/ \E b \in me.pending \cup me.out : b.id = i
          BY <1>1, <1>3, <2>6, <2>8, <4>1 DEF WorkerOK, Covered
        <4>3. \A b \in me.pending \cup me.out : b.id # i
          BY <1>3, <2>6, <2>8, <4>1
        <4>. QED
          BY <4>2, <4>3
      <3>. QED
        BY <3>1, <3>2
    <2>9. HandledUpTo(next)
      BY <2>8 DEF HandledUpTo
    <2>10. WorkerOK(x)
      BY <1>1, <1>3, <2>4, <2>5, <2>7, <2>9, KeepsBatches
    <2>. QED
      BY <1>1, <1>3, <2>3, <2>5, <2>10, QuietInv DEF Running
  <1>7. CASE ~(next > me.cfg.mark)
    <2>1. PICK x : x = Return(me)
      OBVIOUS
    <2>2. worker' = [worker EXCEPT ![w] = x]
      BY <1>1, <1>2, <1>7, <2>1 DEF Advance
    <2>3. WorkerOK(x) /\ x.closed = me.closed
      BY <1>1, <1>3, <2>1, ReturnOK
    <2>. QED
      BY <1>1, <1>3, <2>2, <2>3, QuietInv DEF Running
  <1>. QED
    BY <1>6, <1>7

\* The truncation: an empty file stands for a last_id of 0.
LEMMA SaveOpenInv ==
    ASSUME IInv, NEW w \in Workers, SaveOpen(w)
    PROVE  IInv'
  <1>1. PICK me : /\ me = worker[w] /\ WorkerOK(me) /\ me \in WorkerType
                  /\ me.pc # "send" => me.out = {}
    BY MyRecord
  <1>2. PICK x : x = [me EXCEPT !.pc = "write"]
    OBVIOUS
  <1>3. /\ me.pc = "open" /\ worker' = [worker EXCEPT ![w] = x] /\ file' = Empty
        /\ UNCHANGED <<num, rev, stop, saver, saves, crashes, attempts, passed, chosen, high>>
    BY <1>1, <1>2 DEF SaveOpen, device, history
  <1>4. /\ x \in WorkerType /\ x.pc = "write" /\ x.cfg = me.cfg
        /\ x.closed = me.closed /\ x.pending = me.pending
        /\ x.completed = me.completed /\ x.out = me.out
    BY <1>1, <1>2, PcFields DEF WorkerPcs
  <1>5. Seen(me.cfg.mark) /\ HandledUpTo(me.cfg.mark)
    BY <1>1 DEF WorkerOK
  <1>6. WorkerOK(x)
    BY <1>1, <1>3, <1>4, <1>5, KeepsBatches
  <1>7. Later /\ Arrived' = Arrived
    BY <1>3, SteadyLater
  <1>8. WorkerOK(x)'
    BY <1>6, <1>7, WorkerLater
  <1>9. /\ attempts' \in [Ids -> 0..CountTo] /\ passed' \subseteq Ids
        /\ file' \in Config /\ file'.mark = 0 /\ high' \in 0..MaxId /\ 0 <= high'
    BY <1>3, ZeroMark, IdsNat DEF IInv, Typed
  <1>10. FileOK'
    BY <1>9 DEF FileOK, Seen
  <1>11. HighOK'
    <2>1. PICK h : h = high
      OBVIOUS
    <2>2. Seen(h) /\ HandledUpTo(h)
      BY <2>1 DEF IInv, HighOK
    <2>3. Seen(h)' /\ HandledUpTo(h)'
      BY <1>7, <2>2, MarkLater
    <2>. QED
      BY <1>3, <2>1, <2>3 DEF HighOK
  <1>. QED
    BY <1>1, <1>3, <1>4, <1>8, <1>9, <1>10, <1>11, PollInv DEF Running

\* What is stored is a last_id below which everything has been handled.
LEMMA StoreFact ==
    ASSUME IInv, NEW cfg \in Config, file' = cfg \/ file' = Broken,
           high' = Max({high, cfg.mark}), Later,
           Arrived' = Arrived, Seen(cfg.mark), HandledUpTo(cfg.mark)'
    PROVE  FileOK' /\ HighOK' /\ high' \in 0..MaxId /\ file' \in Config
  <1>1. PICK m : m = cfg.mark
    OBVIOUS
  <1>2. PICK h : h = high
    OBVIOUS
  <1>3. m \in 0..MaxId /\ h \in 0..MaxId
    BY <1>1, <1>2 DEF IInv, Typed, Config
  <1>4. m \in Nat /\ h \in Nat
    BY <1>3, IdsNat
  <1>5. Max({h, m}) = IF h >= m THEN h ELSE m
    BY <1>4, MaxPair
  <1>6. high' = IF h >= m THEN h ELSE m
    BY <1>1, <1>2, <1>5
  <1>7. Seen(h) /\ HandledUpTo(h)
    BY <1>2 DEF IInv, HighOK
  <1>8. Seen(h)' /\ HandledUpTo(h)'
    BY <1>7, MarkLater
  <1>9. Seen(m)' /\ HandledUpTo(m)'
    BY <1>1 DEF Seen
  <1>10. HighOK' /\ high' \in 0..MaxId /\ m <= high'
    BY <1>3, <1>4, <1>6, <1>8, <1>9 DEF HighOK
  <1>11. /\ file'.mark = m \/ file'.mark = 0
         /\ file' \in Config /\ 0 <= high'
    BY <1>1, <1>10, BrokenFile, IdsNat
  <1>. QED
    BY <1>9, <1>10, <1>11 DEF FileOK, Seen

\* The write.
LEMMA SaveWriteInv ==
    ASSUME IInv, NEW w \in Workers, SaveWrite(w)
    PROVE  IInv'
  <1>1. PICK me : /\ me = worker[w] /\ WorkerOK(me) /\ me \in WorkerType
                  /\ me.pc # "send" => me.out = {}
                  /\ me.cfg \in Config /\ me.cfg.mark \in 0..MaxId
    BY MyRecord
  <1>2. PICK y : y = Return(me)
    OBVIOUS
  <1>3. PICK kept : kept = {i \in me.completed : me.base \/ i > me.cfg.mark}
    OBVIOUS
  <1>4. PICK x : x = [y EXCEPT !.completed = kept]
    OBVIOUS
  <1>5. /\ me.pc = "write" /\ worker' = [worker EXCEPT ![w] = x]
        /\ file' = me.cfg \/ file' = Broken
        /\ high' = Max({high, me.cfg.mark})
        /\ UNCHANGED <<num, rev, stop, saver, saves, crashes, attempts, passed, chosen>>
    BY <1>1, <1>2, <1>3, <1>4 DEF SaveWrite, Write, device
  <1>6. /\ y \in WorkerType /\ y.pc = "wait" /\ y.cfg = Empty /\ y.closed = me.closed
        /\ y.pending = me.pending /\ y.completed = me.completed /\ y.out = me.out
    BY <1>1, <1>2, ReturnFields
  <1>7. /\ x \in WorkerType /\ x.pc = "wait" /\ x.cfg = Empty
        /\ x.closed = me.closed /\ x.pending = me.pending
        /\ x.completed = kept /\ x.out = me.out
    <2>1. x = [pc |-> "wait", closed |-> me.closed, base |-> y.base, cfg |-> Empty,
               pending |-> me.pending, completed |-> kept, out |-> me.out]
      BY <1>4, <1>6 DEF WorkerType
    <2>2. kept \subseteq me.completed
      BY <1>3
    <2>. QED
      BY <1>6, <2>1, <2>2 DEF WorkerType
  <1>8. kept \subseteq me.completed
    BY <1>3
  <1>9. WorkerOK(x)
    BY <1>1, <1>5, <1>7, <1>8, ZeroMark, KeepsBatches
  <1>10. Later /\ Arrived' = Arrived
    BY <1>5, SteadyLater
  <1>11. WorkerOK(x)' /\ WorkerOK(me)'
    BY <1>1, <1>9, <1>10, WorkerLater
  <1>12. FileOK' /\ HighOK' /\ high' \in 0..MaxId /\ file' \in Config
    <2>1. Seen(me.cfg.mark)
      BY <1>1 DEF WorkerOK
    <2>2. HandledUpTo(me.cfg.mark)'
      BY <1>11 DEF WorkerOK
    <2>. QED
      BY <1>1, <1>5, <1>10, <2>1, <2>2, StoreFact
  <1>13. attempts' \in [Ids -> 0..CountTo] /\ passed' \subseteq Ids
    BY <1>1, <1>5 DEF IInv, Typed
  <1>. QED
    BY <1>1, <1>5, <1>7, <1>11, <1>12, <1>13, PollInv DEF Running

-----------------------------------------------------------------------------
(***************************************************************************)
(* Start and stop, the browsers' saves, and the end of the process.         *)
(***************************************************************************)

\* A worker that has not started, or that has ended, holds nothing.
LEMMA BlankWorkers ==
    /\ WorkerOK(NewWorker) /\ NewWorker.pc = "new"
    /\ WorkerOK([NewWorker EXCEPT !.pc = "exited"])
    /\ [NewWorker EXCEPT !.pc = "exited"].pc = "exited"
  <1>1. PICK x : x = NewWorker
    OBVIOUS
  <1>2. /\ x \in WorkerType /\ x.pc = "new" /\ x.cfg = Empty /\ x.pending = {}
        /\ x.completed = {} /\ x.out = {}
    BY <1>1, ZeroMark DEF NewWorker, WorkerType, WorkerPcs
  <1>3. WorkerOK(x)
    BY <1>2, ZeroMark DEF WorkerOK, OnePerKey
  <1>4. PICK y : y = [x EXCEPT !.pc = "exited"]
    OBVIOUS
  <1>5. /\ y \in WorkerType /\ y.pc = "exited" /\ y.cfg = x.cfg
        /\ y.pending = x.pending /\ y.completed = x.completed /\ y.out = x.out
    BY <1>2, <1>4, PcFields DEF WorkerPcs
  <1>6. WorkerOK(y)
    BY <1>2, <1>5, ZeroMark DEF WorkerOK, OnePerKey
  <1>. QED
    BY <1>1, <1>2, <1>3, <1>4, <1>5, <1>6

\* What the steps that start, stop and end a worker have in common.
LEMMA ControlInv ==
    ASSUME IInv, NEW w \in Workers, NEW x, worker' = [worker EXCEPT ![w] = x],
           UNCHANGED <<num, rev, file, saver, saves, crashes, attempts, passed, chosen, high>>,
           stop' \in Workers \cup {None},
           \A v \in Workers : v # w /\ stop = v => stop' = v,
           Running(x) /\ ~x.closed => stop' = w,
           WorkerOK(x)
    PROVE  IInv'
  <1>1. Later /\ Arrived' = Arrived
    BY SteadyLater
  <1>2. WorkerOK(x)'
    BY <1>1, WorkerLater
  <1>3. /\ WorkersOK' /\ worker' \in [Workers -> WorkerType]
        /\ worker'[w] = x /\ \A v \in Workers : v # w => worker'[v] = worker[v]
    BY <1>1, <1>2, WorkersStep
  <1>4. Typed'
    BY <1>3 DEF IInv, Typed
  <1>5. FileOK' /\ HighOK' /\ SaverOK'
    BY <1>1, MarksLater
  <1>6. InboxPrefix'
    BY <1>1 DEF IInv, InboxPrefix
  <1>7. ASSUME NEW v \in Workers, worker'[v].pc \notin {"new", "exited"}, ~worker'[v].closed
        PROVE  stop' = v
    <2>1. CASE v = w
      BY <1>3, <1>7, <2>1 DEF Running
    <2>2. CASE v # w
      <3>1. stop = v
        BY <1>3, <1>7, <2>2 DEF IInv, Stoppable
      <3>. QED
        BY <2>2, <3>1
    <2>. QED
      BY <2>1, <2>2
  <1>8. Stoppable'
    BY <1>7 DEF Stoppable
  <1>. QED
    BY <1>3, <1>4, <1>5, <1>6, <1>8 DEF IInv

\* A worker starts when no channel is registered, and registers its own.
LEMMA StartWorkerInv ==
    ASSUME IInv, NEW w \in Workers, StartWorker(w)
    PROVE  IInv'
  <1>1. PICK me : /\ me = worker[w] /\ WorkerOK(me) /\ me \in WorkerType
                  /\ me.pc # "send" => me.out = {}
    BY MyRecord
  <1>2. PICK x : x = [me EXCEPT !.pc = "load"]
    OBVIOUS
  <1>3. /\ me.pc = "new" /\ worker' = [worker EXCEPT ![w] = x] /\ stop = None /\ stop' = w
        /\ UNCHANGED <<num, rev, file, saver, saves, crashes, attempts, passed, chosen, high>>
    BY <1>1, <1>2 DEF StartWorker, device, history
  <1>4. /\ x \in WorkerType /\ x.pc = "load" /\ x.cfg = me.cfg
        /\ x.closed = me.closed /\ x.pending = me.pending
        /\ x.completed = me.completed /\ x.out = me.out
    BY <1>1, <1>2, PcFields DEF WorkerPcs
  <1>5. Seen(me.cfg.mark) /\ HandledUpTo(me.cfg.mark)
    BY <1>1 DEF WorkerOK
  <1>6. WorkerOK(x)
    BY <1>1, <1>3, <1>4, <1>5, KeepsBatches
  <1>7. \A v \in Workers : stop # v
    BY <1>3, NoneAssumption
  <1>. QED
    BY <1>3, <1>6, <1>7, ControlInv

\* The registered worker is told to stop.
LEMMA StopWorkerInv ==
    ASSUME IInv, StopWorker
    PROVE  IInv'
  <1>1. PICK w \in Workers : stop = w
    BY DEF IInv, Typed, StopWorker
  <1>2. PICK me : /\ me = worker[w] /\ WorkerOK(me) /\ me \in WorkerType
    BY MyRecord
  <1>3. PICK x : x = [me EXCEPT !.closed = TRUE]
    OBVIOUS
  <1>4. /\ worker' = [worker EXCEPT ![w] = x] /\ stop' = None
        /\ UNCHANGED <<num, rev, file, saver, saves, crashes, attempts, passed, chosen, high>>
    BY <1>1, <1>2, <1>3 DEF StopWorker, device, history
  <1>5. /\ x \in WorkerType /\ x.pc = me.pc /\ x.cfg = me.cfg
        /\ x.closed = TRUE /\ x.pending = me.pending
        /\ x.completed = me.completed /\ x.out = me.out
    <2>1. x = [pc |-> me.pc, closed |-> TRUE, base |-> me.base, cfg |-> me.cfg,
               pending |-> me.pending, completed |-> me.completed, out |-> me.out]
      BY <1>2, <1>3 DEF WorkerType
    <2>. QED
      BY <1>2, <2>1 DEF WorkerType
  <1>6. WorkerOK(x)
    BY <1>2, <1>5 DEF WorkerOK, OnePerKey, Covered
  <1>. QED
    BY <1>1, <1>4, <1>5, <1>6, ControlInv

\* A worker that ends withdraws its own channel only.
LEMMA ExitInv ==
    ASSUME IInv, NEW w \in Workers, Exit(w)
    PROVE  IInv'
  <1>1. PICK x : x = [NewWorker EXCEPT !.pc = "exited"]
    OBVIOUS
  <1>2. /\ worker' = [worker EXCEPT ![w] = x] /\ stop' = (IF stop = w THEN None ELSE stop)
        /\ UNCHANGED <<num, rev, file, saver, saves, crashes, attempts, passed, chosen, high>>
    BY <1>1 DEF Exit, device, history
  <1>3. WorkerOK(x) /\ x.pc = "exited"
    BY <1>1, BlankWorkers
  <1>4. stop \in Workers \cup {None}
    BY DEF IInv, Typed
  <1>. QED
    BY <1>2, <1>3, <1>4, ControlInv DEF Running

\* What the steps of a save by a browser have in common.
LEMMA SaverInv ==
    ASSUME IInv, UNCHANGED <<num, rev, stop, worker, crashes, attempts>>,
           passed \subseteq passed', passed' \subseteq Ids,
           file' \in Config, high' \in 0..MaxId, chosen' \in Dests, saves' \in 0..MaxSaves,
           saver' \in [pc : {"idle", "open", "write"}, cfg : Config],
           FileOK', HighOK', SaverOK'
    PROVE  IInv'
  <1>1. Later /\ Arrived' = Arrived
    BY SteadyLater
  <1>2. WorkersOK'
    BY <1>1, WorkersStay
  <1>3. Typed'
    BY DEF IInv, Typed
  <1>4. InboxPrefix'
    BY <1>1 DEF IInv, InboxPrefix
  <1>5. Stoppable'
    BY DEF IInv, Stoppable
  <1>. QED
    BY <1>2, <1>3, <1>4, <1>5 DEF IInv

\* Marks that are left alone, when the inbox is too.
LEMMA SameMarks ==
    ASSUME IInv, UNCHANGED <<num, attempts, passed>>
    PROVE  /\ \A m : Seen(m)' = Seen(m)
           /\ \A m : HandledUpTo(m)' = HandledUpTo(m)
           /\ high' = high => HighOK'
           /\ high' = high /\ file' = file => FileOK'
  <1>1. Arrived' = Arrived
    BY DEF Arrived
  <1>2. \A m : Seen(m)' = Seen(m)
    BY <1>1 DEF Seen
  <1>3. \A m : HandledUpTo(m)' = HandledUpTo(m)
    BY <1>1 DEF HandledUpTo, Handled, Superseded, Key
  <1>4. (high' = high => HighOK') /\ (high' = high /\ file' = file => FileOK')
    BY <1>1 DEF IInv, HighOK, FileOK, Seen, HandledUpTo, Handled, Superseded, Key
  <1>. QED
    BY <1>2, <1>3, <1>4

\* The handler's configuration has a last_id that a message had.
LEMMA ConfigLoadInv ==
    ASSUME IInv, ConfigLoad
    PROVE  IInv'
  <1>1. UNCHANGED <<num, rev, file, stop, worker, crashes, attempts, passed, chosen, high>>
    BY DEF ConfigLoad, device, history
  <1>2. PICK mark \in 0..Latest(0), dest \in Dests :
           saver' = [pc |-> "open",
                     cfg |-> [mark |-> IF mark = 0 THEN file.mark ELSE mark, dest |-> dest]]
    BY DEF ConfigLoad
  <1>3. PICK m : m = IF mark = 0 THEN file.mark ELSE mark
    OBVIOUS
  <1>4. Seen(m) /\ m \in 0..MaxId
    <2>1. CASE mark = 0
      BY <1>3, <2>1 DEF IInv, FileOK, Typed, Config
    <2>2. CASE mark # 0
      <3>1. PICK n \in 0..MaxId : Arrived = 1..n
        BY DEF IInv, InboxPrefix
      <3>2. Latest(0) \in Arrived \cup {0} /\ Latest(0) \in 0..MaxId
        BY LatestFact DEF Seen
      <3>3. mark \in 1..n
        BY <2>2, <3>1, <3>2, IdsNat
      <3>. QED
        BY <1>3, <2>2, <3>1, <3>3, IdsNat DEF Seen
    <2>. QED
      BY <2>1, <2>2
  <1>5. PICK cfg : cfg = [mark |-> m, dest |-> dest]
    OBVIOUS
  <1>6. cfg \in Config /\ cfg.mark = m /\ cfg.dest \in Dests
    BY <1>4, <1>5 DEF Config
  <1>7. saver' = [pc |-> "open", cfg |-> cfg]
    BY <1>2, <1>3, <1>5
  <1>8. /\ saver' \in [pc : {"idle", "open", "write"}, cfg : Config]
        /\ saver'.cfg = cfg /\ saver'.pc = "open"
    BY <1>6, <1>7
  <1>9. SaverOK'
    <2>1. Seen(m)'
      BY <1>1, <1>4, SameMarks
    <2>2. saver'.cfg.mark = m /\ saver'.cfg.dest \in Dests
      BY <1>6, <1>8
    <2>. QED
      BY <2>1, <2>2 DEF SaverOK
  <1>10. saves' \in 0..MaxSaves
    BY BoundAssumption DEF IInv, Typed, ConfigLoad
  <1>11. FileOK' /\ HighOK'
    BY <1>1, SameMarks
  <1>12. file' \in Config /\ high' \in 0..MaxId /\ chosen' \in Dests /\ passed' \subseteq Ids
    BY <1>1 DEF IInv, Typed
  <1>. QED
    BY <1>1, <1>8, <1>9, <1>10, <1>11, <1>12, SaverInv

\* The handler's truncation.
LEMMA ConfigOpenInv ==
    ASSUME IInv, ConfigOpen
    PROVE  IInv'
  <1>1. /\ saver.pc = "open" /\ file' = Empty /\ saver' = [saver EXCEPT !.pc = "write"]
        /\ UNCHANGED <<num, rev, stop, worker, saves, crashes, attempts, passed, chosen, high>>
    BY DEF ConfigOpen, device, history
  <1>2. saver \in [pc : {"idle", "open", "write"}, cfg : Config]
    BY DEF IInv, Typed
  <1>3. saver' = [pc |-> "write", cfg |-> saver.cfg]
    BY <1>1, <1>2
  <1>4. /\ saver' \in [pc : {"idle", "open", "write"}, cfg : Config]
        /\ saver'.cfg = saver.cfg
    BY <1>2, <1>3
  <1>5. SaverOK'
    <2>1. PICK m : m = saver.cfg.mark
      OBVIOUS
    <2>2. Seen(m) /\ saver.cfg.dest \in Dests
      BY <1>1, <2>1 DEF IInv, SaverOK
    <2>3. Seen(m)'
      BY <1>1, <2>2, SameMarks
    <2>. QED
      BY <1>4, <2>1, <2>2, <2>3 DEF SaverOK
  <1>6. /\ file' \in Config /\ file'.mark = 0
        /\ high' \in 0..MaxId /\ 0 <= high' /\ chosen' \in Dests
        /\ passed' \subseteq Ids /\ saves' \in 0..MaxSaves
    BY <1>1, ZeroMark, IdsNat DEF IInv, Typed
  <1>7. FileOK' /\ HighOK'
    <2>1. HighOK'
      BY <1>1, SameMarks
    <2>. QED
      BY <1>6, <2>1 DEF FileOK, Seen
  <1>. QED
    BY <1>1, <1>4, <1>5, <1>6, <1>7, SaverInv

\* The handler is idle again.
LEMMA IdleFact ==
    ASSUME NEW s, s = [pc |-> "idle", cfg |-> Empty]
    PROVE  /\ s \in [pc : {"idle", "open", "write"}, cfg : Config]
           /\ s.cfg.mark = 0 /\ s.pc = "idle"
  BY ZeroMark

\* The handler's write: what last_id goes past is recorded as passed.
LEMMA ConfigWriteInv ==
    ASSUME IInv, ConfigWrite
    PROVE  IInv'
  <1>1. PICK cfg : cfg = saver.cfg
    OBVIOUS
  <1>2. /\ saver.pc = "write" /\ chosen' = cfg.dest
        /\ file' = cfg \/ file' = Broken
        /\ passed' = passed \cup {i \in Arrived : high < i /\ i <= cfg.mark}
        /\ high' = Max({high, cfg.mark})
        /\ saver' = [pc |-> "idle", cfg |-> Empty]
        /\ UNCHANGED <<num, rev, stop, worker, saves, crashes, attempts>>
    BY <1>1 DEF ConfigWrite, Write, Passes, device
  <1>3. cfg \in Config /\ Seen(cfg.mark) /\ cfg.dest \in Dests
    BY <1>1, <1>2 DEF IInv, Typed, SaverOK
  <1>4. passed \subseteq passed' /\ passed' \subseteq Ids
    BY <1>2, IdsNat DEF IInv, Typed
  <1>5. Later /\ Arrived' = Arrived
    BY <1>2, <1>4, SteadyLater
  <1>6. HandledUpTo(cfg.mark)'
    <2>1. PICK h : h = high
      OBVIOUS
    <2>2. Seen(h) /\ HandledUpTo(h) /\ h \in 0..MaxId
      BY <2>1 DEF IInv, HighOK, Typed
    <2>3. HandledUpTo(h)'
      BY <1>5, <2>2, MarkLater
    <2>4. ASSUME NEW i \in Arrived', i <= cfg.mark
          PROVE  Handled(i)'
      <3>1. i \in Arrived /\ i \in Nat /\ h \in Nat
        BY <1>5, <2>2, IdsNat
      <3>2. CASE i <= h
        BY <2>3, <3>2 DEF HandledUpTo
      <3>3. CASE ~(i <= h)
        BY <1>2, <2>1, <2>4, <3>1, <3>3 DEF Handled
      <3>. QED
        BY <3>2, <3>3
    <2>. QED
      BY <2>4 DEF HandledUpTo
  <1>7. FileOK' /\ HighOK' /\ high' \in 0..MaxId /\ file' \in Config
    BY <1>2, <1>3, <1>5, <1>6, StoreFact
  <1>8. /\ saver' \in [pc : {"idle", "open", "write"}, cfg : Config]
        /\ saver'.cfg.mark = 0 /\ saver'.pc = "idle"
    BY <1>2, IdleFact
  <1>9. SaverOK'
    BY <1>8 DEF SaverOK, Seen
  <1>10. chosen' \in Dests /\ saves' \in 0..MaxSaves
    BY <1>2, <1>3 DEF IInv, Typed
  <1>. QED
    BY <1>2, <1>4, <1>7, <1>8, <1>9, <1>10, SaverInv

\* The handler's error.
LEMMA ConfigFailsInv ==
    ASSUME IInv, ConfigFails
    PROVE  IInv'
  <1>1. /\ saver' = [pc |-> "idle", cfg |-> Empty]
        /\ UNCHANGED <<num, rev, stop, worker, saves, crashes, attempts, passed, chosen, high>>
        /\ file' = file \/ file' = Broken
    BY DEF ConfigFails, WriteFails, device, history
  <1>2. /\ saver' \in [pc : {"idle", "open", "write"}, cfg : Config]
        /\ saver'.cfg.mark = 0 /\ saver'.pc = "idle"
    BY <1>1, IdleFact
  <1>3. SaverOK'
    BY <1>2 DEF SaverOK, Seen
  <1>4. FileOK' /\ HighOK' /\ file' \in Config
    BY <1>1, SameMarks, BrokenMarks DEF IInv, Typed
  <1>5. /\ high' \in 0..MaxId /\ chosen' \in Dests
        /\ passed' \subseteq Ids /\ saves' \in 0..MaxSaves
    BY <1>1 DEF IInv, Typed
  <1>. QED
    BY <1>1, <1>2, <1>3, <1>4, <1>5, SaverInv

\* The end of the process.
LEMMA CrashInv ==
    ASSUME IInv, Crash
    PROVE  IInv'
  <1>1. PICK gone : gone = [NewWorker EXCEPT !.pc = "exited"]
    OBVIOUS
  <1>2. /\ worker' = [w \in Workers |-> IF worker[w].pc = "new" THEN NewWorker ELSE gone]
        /\ stop' = None /\ saver' = [pc |-> "idle", cfg |-> Empty]
        /\ UNCHANGED <<num, rev, file, saves, attempts, passed, chosen, high>>
    BY <1>1 DEF Crash, device, history
  <1>3. /\ WorkerOK(NewWorker) /\ NewWorker.pc = "new" /\ WorkerOK(gone) /\ gone.pc = "exited"
    BY <1>1, BlankWorkers
  <1>4. Later /\ Arrived' = Arrived
    BY <1>2, SteadyLater
  <1>5. PICK new : new = NewWorker
    OBVIOUS
  <1>6. WorkerOK(new)' /\ WorkerOK(gone)'
    BY <1>3, <1>4, <1>5, WorkerLater
  <1>7. \A w \in Workers : worker'[w] = new \/ worker'[w] = gone
    BY <1>2, <1>5
  <1>8. WorkersOK'
    BY <1>6, <1>7 DEF WorkersOK
  <1>9. Stoppable'
    BY <1>3, <1>5, <1>7 DEF Stoppable
  <1>10. /\ saver' \in [pc : {"idle", "open", "write"}, cfg : Config]
         /\ saver'.cfg.mark = 0 /\ saver'.pc = "idle"
    BY <1>2, IdleFact
  <1>11. SaverOK'
    BY <1>10 DEF SaverOK, Seen
  <1>12. FileOK' /\ HighOK'
    BY <1>2, SameMarks
  <1>13. InboxPrefix'
    BY <1>4 DEF IInv, InboxPrefix
  <1>14. crashes' \in 0..MaxCrashes
    BY BoundAssumption DEF IInv, Typed, Crash
  <1>15. worker' \in [Workers -> WorkerType]
    BY <1>2, <1>3 DEF WorkerOK
  <1>16. Typed'
    BY <1>2, <1>10, <1>14, <1>15 DEF IInv, Typed
  <1>. QED
    BY <1>8, <1>9, <1>11, <1>12, <1>13, <1>16 DEF IInv

-----------------------------------------------------------------------------
(***************************************************************************)
(* The invariant, and what follows for any number of workers.               *)
(***************************************************************************)

\* The invariant holds at the start: nothing has arrived.
LEMMA InitInv == Init => IInv
  <1>. SUFFICES ASSUME Init PROVE IInv
    OBVIOUS
  <1>1. Arrived = {}
    BY DEF Init, Arrived
  <1>2. /\ file \in Config /\ file.mark = 0 /\ file.dest \in Dests
        /\ high = 0 /\ high \in 0..MaxId
    BY IdsNat DEF Init, Config
  <1>3. \A w \in Workers : worker[w] = NewWorker
    BY DEF Init
  <1>4. WorkersOK
    BY <1>3, BlankWorkers DEF WorkersOK
  <1>5. Stoppable
    BY <1>3, BlankWorkers DEF Stoppable
  <1>6. /\ saver \in [pc : {"idle", "open", "write"}, cfg : Config]
        /\ saver.cfg.mark = 0 /\ saver.pc = "idle"
    BY IdleFact DEF Init
  <1>7. worker \in [Workers -> WorkerType]
    <2>1. NewWorker \in WorkerType
      BY BlankWorkers DEF WorkerOK
    <2>. QED
      BY <2>1 DEF Init
  <1>8. /\ num \in [Ids -> Numbers \cup {Blank, None}] /\ rev \in [Ids -> 0..MaxRev]
        /\ attempts \in [Ids -> 0..CountTo]
        /\ saves \in 0..MaxSaves /\ crashes \in 0..MaxCrashes
    BY BoundAssumption DEF Init
  <1>9. Typed
    BY <1>2, <1>6, <1>7, <1>8 DEF Typed, Init
  <1>10. InboxPrefix
    <2>1. Arrived = 1..0 /\ 0 \in 0..MaxId
      BY <1>1, IdsNat
    <2>. QED
      BY <2>1 DEF InboxPrefix
  <1>11. FileOK /\ HighOK /\ SaverOK
    BY <1>1, <1>2, <1>6 DEF FileOK, HighOK, SaverOK, Seen, HandledUpTo
  <1>. QED
    BY <1>4, <1>5, <1>9, <1>10, <1>11 DEF IInv

\* A stuttering step.
LEMMA StutterInv ==
    ASSUME IInv, UNCHANGED vars
    PROVE  IInv'
  <1>1. UNCHANGED <<num, rev, file, stop, worker, saver, saves, crashes, attempts, passed, chosen,
                    high>>
    BY DEF vars, device, history
  <1>2. SaverOK'
    BY <1>1, SameMarks DEF IInv, SaverOK, Seen, Arrived
  <1>3. FileOK' /\ HighOK'
    BY <1>1, SameMarks
  <1>4. /\ passed \subseteq passed' /\ passed' \subseteq Ids
        /\ file' \in Config /\ high' \in 0..MaxId /\ chosen' \in Dests /\ saves' \in 0..MaxSaves
        /\ saver' \in [pc : {"idle", "open", "write"}, cfg : Config]
    BY <1>1 DEF IInv, Typed
  <1>. QED
    BY <1>1, <1>2, <1>3, <1>4, SaverInv

\* Every step preserves the invariant.
LEMMA Inductive == IInv /\ [Next]_vars => IInv'
  <1>. SUFFICES ASSUME IInv, [Next]_vars PROVE IInv'
    OBVIOUS
  <1>1. CASE Arrive \/ Grow
    BY <1>1, DeviceInv
  <1>2. ASSUME NEW w \in Workers,
               StartWorker(w) \/ Tick(w) \/ Exit(w) \/ PollStep(w) \/ Fault(w)
        PROVE  IInv'
    <2>1. CASE StartWorker(w)
      BY <2>1, StartWorkerInv
    <2>2. CASE Tick(w)
      BY <2>2, TickInv
    <2>3. CASE Exit(w)
      BY <2>3, ExitInv
    <2>4. CASE Fault(w)
      BY <2>4, FaultInv
    <2>5. CASE PollLoad(w)
      BY <2>5, PollLoadInv
    <2>6. CASE FetchBaseline(w)
      BY <2>6, FetchBaselineInv
    <2>7. CASE FetchTargets(w)
      BY <2>7, FetchTargetsInv
    <2>8. CASE Send(w)
      BY <2>8, SendInv
    <2>9. CASE Advance(w)
      BY <2>9, AdvanceInv
    <2>10. CASE SaveOpen(w)
      BY <2>10, SaveOpenInv
    <2>11. CASE SaveWrite(w)
      BY <2>11, SaveWriteInv
    <2>. QED
      BY <1>2, <2>1, <2>2, <2>3, <2>4, <2>5, <2>6, <2>7, <2>8, <2>9, <2>10, <2>11 DEF PollStep
  <1>3. CASE StopWorker
    BY <1>3, StopWorkerInv
  <1>4. CASE ConfigLoad
    BY <1>4, ConfigLoadInv
  <1>5. CASE ConfigOpen
    BY <1>5, ConfigOpenInv
  <1>6. CASE ConfigWrite
    BY <1>6, ConfigWriteInv
  <1>7. CASE ConfigFails
    BY <1>7, ConfigFailsInv
  <1>8. CASE Crash
    BY <1>8, CrashInv
  <1>9. CASE UNCHANGED vars
    BY <1>9, StutterInv
  <1>. QED
    BY <1>1, <1>2, <1>3, <1>4, <1>5, <1>6, <1>7, <1>8, <1>9 DEF Next

\* The invariant holds in every state.
LEMMA Invariant == Spec => []IInv
  BY InitInv, Inductive, PTL DEF Spec

\* Every variable keeps its type and a worker holds one batch per key, for any number
\* of workers, messages and saves, whatever fails.
THEOREM TypeCorrect == Spec => []TypeOK
  <1>1. IInv => TypeOK
    BY DEF IInv, Typed, WorkersOK, WorkerOK, OnePerKey, TypeOK
  <1>. QED
    BY <1>1, Invariant, PTL

\* A worker that nobody has told to stop is the registered one: stopSmsForwardWorker
\* always reaches the worker that runs, however late the one before it ends.
THEOREM StoppableAlways == Spec => []Stoppable
  <1>1. IInv => Stoppable
    BY DEF IInv
  <1>. QED
    BY <1>1, Invariant, PTL

\* last_id passes no message that was neither pushed, superseded nor passed over by an
\* id that was not reached by forwarding, with several workers, saves of browsers,
\* failing writes and crashes.
THEOREM NewestNeverSkippedAlways == Spec => []NewestNeverSkipped
  <1>1. IInv => NewestNeverSkipped
    <2>. SUFFICES ASSUME IInv, NEW i \in Ids, Newest(i), i <= high
                  PROVE  attempts[i] > 0 \/ i \in passed
      BY DEF NewestNeverSkipped
    <2>1. i \in Arrived /\ \A j \in Arrived : Key(j) = Key(i) => j <= i
      BY DEF Newest
    <2>2. Handled(i)
      BY <2>1 DEF IInv, HighOK, HandledUpTo
    <2>3. ~Superseded(i)
      BY <2>1, IdsNat DEF Superseded
    <2>. QED
      BY <2>2, <2>3 DEF Handled
  <1>. QED
    BY <1>1, Invariant, PTL

-----------------------------------------------------------------------------
(***************************************************************************)
(* One worker, and no browser that saves.                                   *)
(***************************************************************************)

\* What a step of the only worker has to show.
LEMMA LoneStep ==
    ASSUME OneWorker, IInv, Lone, NEW w \in Workers, NEW x,
           worker' = [worker EXCEPT ![w] = x], saver' = saver,
           Valid(file)' => file'.mark = high',
           \A i \in Ids : attempts'[i] <= 1,
           LoneOK(x)'
    PROVE  Lone'
  <1>1. worker'[w] = x
    BY DEF IInv, Typed
  <1>2. ASSUME NEW v \in Workers
        PROVE  LoneOK(worker[v])'
    <2>1. v = w
      BY DEF OneWorker
    <2>2. worker'[v] = x
      BY <1>1, <2>1
    <2>. QED
      BY <2>2
  <1>3. saver'.pc = "idle"
    BY DEF Lone
  <1>. QED
    BY <1>2, <1>3 DEF Lone

\* The same for a step that leaves the file and the history alone.
LEMMA LoneQuiet ==
    ASSUME OneWorker, IInv, Lone, NEW w \in Workers, NEW x,
           worker' = [worker EXCEPT ![w] = x],
           UNCHANGED <<file, saver, attempts, high>>,
           LoneOK(x)
    PROVE  Lone'
  <1>1. LoneOK(x)'
    BY DEF LoneOK, Remembers, Valid
  <1>2. /\ Valid(file)' => file'.mark = high'
        /\ \A i \in Ids : attempts'[i] <= 1
    BY DEF Lone, Valid
  <1>. QED
    BY <1>1, <1>2, LoneStep

\* Steps of others that the worker does not notice.
LEMMA LoneStays ==
    ASSUME Lone, UNCHANGED <<file, saver, attempts, high, worker>>
    PROVE  Lone'
  BY DEF Lone, LoneOK, Remembers, Valid

\* The worker's record, by name, and what is known of it.
LEMMA LoneRecord ==
    ASSUME IInv, Lone, NEW w \in Workers
    PROVE  \E me : /\ me = worker[w] /\ WorkerOK(me) /\ me \in WorkerType
                   /\ me.pc # "send" => me.out = {}
                   /\ me.cfg \in Config /\ me.cfg.mark \in 0..MaxId
                   /\ LoneOK(me)
  <1>1. PICK me : /\ me = worker[w] /\ WorkerOK(me) /\ me \in WorkerType
                  /\ me.pc # "send" => me.out = {}
                  /\ me.cfg \in Config /\ me.cfg.mark \in 0..MaxId
    BY MyRecord
  <1>2. LoneOK(me)
    BY <1>1 DEF Lone
  <1>. QED
    BY <1>1, <1>2

\* The start, the ticker and the stop channel.
LEMMA LoneMoves ==
    ASSUME OneWorker, IInv, Lone, NEW w \in Workers, StartWorker(w) \/ Tick(w)
    PROVE  Lone'
  <1>1. PICK me : me = worker[w] /\ me \in WorkerType /\ LoneOK(me)
    BY LoneRecord
  <1>2. PICK x : x = [me EXCEPT !.pc = "load"]
    OBVIOUS
  <1>3. /\ me.pc \in {"new", "wait"} /\ worker' = [worker EXCEPT ![w] = x]
        /\ UNCHANGED <<file, saver, attempts, high>>
    BY <1>1, <1>2 DEF StartWorker, Tick, history
  <1>4. /\ x.pc = "load" /\ x.cfg = me.cfg /\ x.pending = me.pending
        /\ x.completed = me.completed /\ x.out = me.out
    BY <1>1, <1>2, PcFields DEF WorkerPcs
  <1>5. LoneOK(x)
    BY <1>1, <1>3, <1>4 DEF LoneOK, Remembers
  <1>. QED
    BY <1>3, <1>5, LoneQuiet

\* The stop channel is closed.
LEMMA LoneStop ==
    ASSUME OneWorker, IInv, Lone, StopWorker
    PROVE  Lone'
  <1>1. PICK w \in Workers : stop = w
    BY DEF IInv, Typed, StopWorker
  <1>2. PICK me : me = worker[w] /\ me \in WorkerType /\ LoneOK(me)
    BY LoneRecord
  <1>3. PICK x : x = [me EXCEPT !.closed = TRUE]
    OBVIOUS
  <1>4. worker' = [worker EXCEPT ![w] = x] /\ UNCHANGED <<file, saver, attempts, high>>
    BY <1>1, <1>2, <1>3 DEF StopWorker, history
  <1>5. /\ x.pc = me.pc /\ x.cfg = me.cfg /\ x.pending = me.pending
        /\ x.completed = me.completed /\ x.out = me.out
    BY <1>2, <1>3 DEF WorkerType
  <1>6. LoneOK(x)
    BY <1>2, <1>5 DEF LoneOK, Remembers
  <1>. QED
    BY <1>4, <1>6, LoneQuiet

\* A worker that has ended.
LEMMA LoneGone ==
    ASSUME NEW x, x = [NewWorker EXCEPT !.pc = "exited"]
    PROVE  x.pc = "exited" /\ LoneOK(x)
  <1>1. x.pc = "exited" /\ x.pending = {} /\ x.out = {}
    BY DEF NewWorker
  <1>. QED
    BY <1>1 DEF LoneOK

\* The worker ends.
LEMMA LoneExit ==
    ASSUME OneWorker, IInv, Lone, NEW w \in Workers, Exit(w)
    PROVE  Lone'
  <1>1. PICK x : x = [NewWorker EXCEPT !.pc = "exited"]
    OBVIOUS
  <1>2. worker' = [worker EXCEPT ![w] = x] /\ UNCHANGED <<file, saver, attempts, high>>
    BY <1>1 DEF Exit, history
  <1>. QED
    BY <1>1, <1>2, LoneGone, LoneQuiet

\* The process ends: the only worker has not started, or has ended.
LEMMA LoneCrash ==
    ASSUME OneWorker, IInv, Lone, Crash
    PROVE  Lone'
  <1>1. PICK gone : gone = [NewWorker EXCEPT !.pc = "exited"]
    OBVIOUS
  <1>2. /\ worker' = [w \in Workers |-> IF worker[w].pc = "new" THEN NewWorker ELSE gone]
        /\ saver' = [pc |-> "idle", cfg |-> Empty]
        /\ UNCHANGED <<file, attempts, high>>
    BY <1>1 DEF Crash, history
  <1>3. ASSUME NEW v \in Workers
        PROVE  LoneOK(worker[v])'
    <2>1. PICK me : me = worker[v] /\ LoneOK(me)
      BY LoneRecord
    <2>2. CASE me.pc = "new"
      <3>1. PICK x : x = NewWorker
        OBVIOUS
      <3>2. x.pc = "new" /\ x.pending = {} /\ x.out = {}
        BY <3>1 DEF NewWorker
      <3>3. \A i \in Ids : attempts'[i] = 0
        BY <1>2, <2>1, <2>2 DEF LoneOK
      <3>4. LoneOK(x)'
        BY <3>2, <3>3 DEF LoneOK, Remembers
      <3>5. worker'[v] = x
        BY <1>2, <2>1, <2>2, <3>1
      <3>. QED
        BY <3>4, <3>5
    <2>3. CASE me.pc # "new"
      <3>1. worker'[v] = gone
        BY <1>2, <2>1, <2>3
      <3>2. gone.pc = "exited" /\ gone.pending = {} /\ gone.out = {}
        BY <1>1 DEF NewWorker
      <3>3. LoneOK(gone)'
        BY <3>2 DEF LoneOK
      <3>. QED
        BY <3>1, <3>3
    <2>. QED
      BY <2>2, <2>3
  <1>4. saver'.pc = "idle"
    BY <1>2
  <1>. QED
    BY <1>2, <1>3, <1>4 DEF Lone, Valid

\* A poll that returns without having stored anything.
LEMMA LoneReturn ==
    ASSUME NEW me \in WorkerType, LoneOK(me), me.pc # "exited", NEW x, x = Return(me)
    PROVE  LoneOK(x)
  <1>1. /\ x.pc = "wait" /\ x.pending = me.pending
        /\ x.completed = me.completed /\ x.out = me.out
    BY ReturnFields
  <1>. QED
    BY <1>1 DEF LoneOK, Remembers

\* Faults.
LEMMA LoneFault ==
    ASSUME OneWorker, IInv, Lone, NEW w \in Workers, Fault(w)
    PROVE  Lone'
  <1>1. PICK me : me = worker[w] /\ me \in WorkerType /\ LoneOK(me)
    BY LoneRecord
  <1>2. PICK x : x = Return(me)
    OBVIOUS
  <1>3. /\ me.pc \in {"fetch", "open", "write"} /\ worker' = [worker EXCEPT ![w] = x]
        /\ UNCHANGED <<saver, attempts, high>>
        /\ file' = file \/ file' = Broken
    BY <1>1, <1>2 DEF Fault, FetchFails, SaveFails, WriteFails, history
  <1>4. LoneOK(x)
    BY <1>1, <1>2, <1>3, LoneReturn
  <1>5. CASE file' = file
    BY <1>3, <1>4, <1>5, LoneQuiet
  <1>6. CASE file' = Broken
    <2>1. ~Valid(file)'
      BY <1>6, BrokenFile DEF Valid
    <2>2. x.pc = "wait"
      BY <1>1, <1>2, ReturnFields
    <2>3. LoneOK(x)'
      BY <1>3, <1>4, <2>1, <2>2 DEF LoneOK, Remembers
    <2>4. \A i \in Ids : attempts'[i] <= 1
      BY <1>3 DEF Lone
    <2>. QED
      BY <1>3, <2>1, <2>3, <2>4, LoneStep
  <1>. QED
    BY <1>3, <1>5, <1>6

\* The file is loaded.
LEMMA LoneLoad ==
    ASSUME OneWorker, IInv, Lone, NEW w \in Workers, PollLoad(w)
    PROVE  Lone'
  <1>1. PICK me : me = worker[w] /\ me \in WorkerType /\ LoneOK(me)
    BY LoneRecord
  <1>2. me.pc = "load" /\ UNCHANGED <<file, saver, attempts, high>>
    BY <1>1 DEF PollLoad, history
  <1>3. CASE Valid(file)
    <2>1. PICK x : x = [me EXCEPT !.pc = "fetch", !.cfg = file]
      OBVIOUS
    <2>2. worker' = [worker EXCEPT ![w] = x]
      BY <1>1, <1>3, <2>1 DEF PollLoad
    <2>3. /\ x.pc = "fetch" /\ x.cfg = file /\ x.pending = me.pending
          /\ x.completed = me.completed /\ x.out = me.out
      BY <1>1, <2>1 DEF WorkerType
    <2>4. LoneOK(x)
      BY <1>1, <1>2, <1>3, <2>3 DEF LoneOK, Remembers
    <2>. QED
      BY <1>2, <2>2, <2>4, LoneQuiet
  <1>4. CASE ~Valid(file)
    <2>1. PICK x : x = Return(me)
      OBVIOUS
    <2>2. worker' = [worker EXCEPT ![w] = x]
      BY <1>1, <1>4, <2>1 DEF PollLoad
    <2>3. LoneOK(x)
      BY <1>1, <1>2, <2>1, LoneReturn
    <2>. QED
      BY <1>2, <2>2, <2>3, LoneQuiet
  <1>. QED
    BY <1>3, <1>4

\* At the fetch the worker knows the file: its last_id is the largest ever stored.
LEMMA LoneFetch ==
    ASSUME IInv, Lone, NEW me, LoneOK(me), me.pc \in {"fetch", "send"}
    PROVE  /\ me.cfg = file /\ Valid(file) /\ me.cfg.mark = high
           /\ Remembers(me, me.cfg.mark)
           /\ high \in 0..MaxId /\ high <= Latest(0)
  <1>1. me.cfg = file /\ Valid(file) /\ Remembers(me, file.mark)
    BY DEF LoneOK
  <1>2. file.mark = high
    BY <1>1 DEF Lone
  <1>3. high \in 0..MaxId /\ Seen(high)
    BY DEF IInv, Typed, HighOK
  <1>4. high <= Latest(0)
    BY <1>3, LatestFact, IdsNat DEF Seen
  <1>. QED
    BY <1>1, <1>2, <1>3, <1>4

\* A last_id that is not lower is as good a reminder.
LEMMA RemembersMore ==
    ASSUME NEW me, NEW x, NEW m \in Nat, NEW n \in Nat, m <= n, Remembers(me, m),
           x.completed = me.completed
    PROVE  Remembers(x, n)
  BY IdsNat DEF Remembers

\* A record about to be saved.
LEMMA LoneOpen ==
    ASSUME NEW me, LoneOK(me), me.pc \in {"fetch", "send"}, Valid(file), NEW x,
           x.pc = "open", x.pending = me.pending, x.out = me.out,
           x.completed = me.completed, x.cfg.mark >= high, Remembers(x, x.cfg.mark)
    PROVE  LoneOK(x)
  BY DEF LoneOK, Remembers

\* The first last_id.
LEMMA LoneBaseline ==
    ASSUME OneWorker, IInv, Lone, NEW w \in Workers, FetchBaseline(w)
    PROVE  Lone'
  <1>1. PICK me : me = worker[w] /\ me \in WorkerType /\ LoneOK(me)
    BY LoneRecord
  <1>2. PICK m : m = Latest(0)
    OBVIOUS
  <1>3. PICK cfg : cfg = [mark |-> m, dest |-> me.cfg.dest]
    OBVIOUS
  <1>4. PICK x : x = [me EXCEPT !.pc = "open", !.base = TRUE, !.cfg = cfg]
    OBVIOUS
  <1>5. /\ me.pc = "fetch" /\ worker' = [worker EXCEPT ![w] = x]
        /\ UNCHANGED <<file, saver, attempts, high>>
    BY <1>1, <1>2, <1>3, <1>4 DEF FetchBaseline
  <1>6. /\ x.pc = "open" /\ x.cfg = cfg /\ x.pending = me.pending
        /\ x.completed = me.completed /\ x.out = me.out
    BY <1>1, <1>4 DEF WorkerType
  <1>7. /\ Valid(file) /\ me.cfg.mark = high /\ Remembers(me, high)
        /\ high \in Nat /\ high <= m /\ m \in Nat
    BY <1>1, <1>2, <1>5, LoneFetch, LatestFact, IdsNat
  <1>8. x.cfg.mark = m
    BY <1>3, <1>6
  <1>9. Remembers(x, m)
    BY <1>6, <1>7, RemembersMore
  <1>10. m >= high
    BY <1>7
  <1>11. LoneOK(x)
    BY <1>1, <1>5, <1>6, <1>7, <1>8, <1>9, <1>10, LoneOpen
  <1>. QED
    BY <1>5, <1>11, LoneQuiet

\* What is fetched has not been pushed: a message above last_id that was is among the
\* completed ones.
LEMMA LoneTargets ==
    ASSUME OneWorker, IInv, Lone, NEW w \in Workers, FetchTargets(w)
    PROVE  Lone'
  <1>1. PICK me : /\ me = worker[w] /\ WorkerOK(me) /\ me \in WorkerType
                  /\ me.pc # "send" => me.out = {}
                  /\ me.cfg \in Config /\ me.cfg.mark \in 0..MaxId
                  /\ LoneOK(me)
    BY LoneRecord
  <1>2. me.pc = "fetch" /\ UNCHANGED <<file, saver, attempts, high>>
    BY <1>1 DEF FetchTargets, history
  <1>3. PICK targets : targets = {i \in Arrived : i > me.cfg.mark /\ i \notin me.completed}
    OBVIOUS
  <1>4. PICK gap \in Gaps :
           LET all == AddAll({Older(b, gap) : b \in me.pending}, targets)
               ready == {b \in all : IsReady(b)}
           IN  worker' = [worker EXCEPT ![w] =
                  [me EXCEPT !.pc = "send", !.pending = all \ ready, !.out = ready]]
    BY <1>1, <1>3 DEF FetchTargets
  <1>5. PICK old, all : /\ old = {Older(b, gap) : b \in me.pending}
                        /\ all = AddAll(old, targets)
    OBVIOUS
  <1>6. PICK ready : ready = {b \in all : IsReady(b)}
    OBVIOUS
  <1>7. PICK x : x = [me EXCEPT !.pc = "send", !.pending = all \ ready, !.out = ready]
    OBVIOUS
  <1>8. worker' = [worker EXCEPT ![w] = x]
    BY <1>4, <1>5, <1>6, <1>7
  <1>9. \A y \in all : y.id \in targets \/ \E b \in me.pending : y.id = b.id
    <2>1. targets = Targets(me) /\ old = Aged(me.pending, gap) /\ all = AddAll(old, targets)
      BY <1>3, <1>5 DEF Targets, Aged
    <2>. QED
      BY <1>1, <2>1, FetchedBatches
  <1>10. /\ x.pc = "send" /\ x.cfg = me.cfg /\ x.pending = all \ ready
         /\ x.completed = me.completed /\ x.out = ready
    BY <1>1, <1>7 DEF WorkerType
  <1>11. /\ me.cfg = file /\ Valid(file) /\ Remembers(me, me.cfg.mark)
    BY <1>1, <1>2, LoneFetch
  <1>12. \A i \in targets : attempts[i] = 0
    <2>. SUFFICES ASSUME NEW i \in targets PROVE attempts[i] = 0
      OBVIOUS
    <2>1. i \in Ids /\ i > me.cfg.mark /\ i \notin me.completed /\ i \in Nat
      BY <1>3, IdsNat
    <2>2. ~(attempts[i] > 0)
      BY <1>1, <1>11, <2>1, IdsNat DEF Remembers
    <2>3. attempts[i] \in 0..CountTo
      BY <2>1 DEF IInv, Typed
    <2>. QED
      BY <2>2, <2>3, IdsNat
  <1>13. \A y \in x.pending \cup x.out : attempts[y.id] = 0
    <2>1. x.pending \cup x.out \subseteq all
      BY <1>6, <1>10
    <2>2. \A b \in me.pending : attempts[b.id] = 0
      BY <1>1 DEF LoneOK
    <2>. QED
      BY <1>9, <1>12, <2>1, <2>2
  <1>14. LoneOK(x)
    BY <1>10, <1>11, <1>13 DEF LoneOK, Remembers
  <1>. QED
    BY <1>2, <1>8, <1>14, LoneQuiet

\* A push is the first one of its message.
LEMMA LoneSend ==
    ASSUME OneWorker, IInv, Lone, NEW w \in Workers, Send(w)
    PROVE  Lone'
  <1>1. PICK me : me = worker[w] /\ WorkerOK(me) /\ me \in WorkerType /\ LoneOK(me)
    BY LoneRecord
  <1>2. me.pc = "send" /\ UNCHANGED <<file, saver, high>>
    BY <1>1 DEF Send
  <1>3. PICK b \in me.out :
           /\ attempts' = [attempts EXCEPT ![b.id] = Min({attempts[b.id] + 1, CountTo})]
           /\ worker' = [worker EXCEPT ![w] =
                  [me EXCEPT !.out = me.out \ {b}, !.completed = me.completed \cup {b.id}]]
    BY <1>1 DEF Send, SendSmsForwardBatch
  <1>4. PICK x : x = [me EXCEPT !.out = me.out \ {b}, !.completed = me.completed \cup {b.id}]
    OBVIOUS
  <1>5. worker' = [worker EXCEPT ![w] = x]
    BY <1>3, <1>4
  <1>6. /\ x.pc = "send" /\ x.cfg = me.cfg /\ x.pending = me.pending
        /\ x.completed = me.completed \cup {b.id} /\ x.out = me.out \ {b}
    BY <1>1, <1>2, <1>4 DEF WorkerType
  <1>7. b.id \in Ids /\ attempts[b.id] = 0
    BY <1>1, IdsNat DEF WorkerOK, LoneOK
  <1>8. attempts'[b.id] = 1 /\ \A i \in Ids : i # b.id => attempts'[i] = attempts[i]
    <2>1. PICK n : n = Min({attempts[b.id] + 1, CountTo})
      OBVIOUS
    <2>2. n = Min({1, CountTo})
      BY <1>7, <2>1
    <2>3. n = IF 1 <= CountTo THEN 1 ELSE CountTo
      BY <2>2, IdsNat, MinPair
    <2>4. n = 1
      BY <2>3, IdsNat
    <2>. QED
      BY <1>3, <1>7, <2>1, <2>4 DEF IInv, Typed
  <1>9. \A a \in x.pending \cup x.out : attempts'[a.id] = 0
    <2>. SUFFICES ASSUME NEW a \in x.pending \cup x.out PROVE attempts'[a.id] = 0
      OBVIOUS
    <2>1. a \in me.pending \cup me.out
      BY <1>6
    <2>2. attempts[a.id] = 0 /\ a.id \in Ids
      BY <1>1, <2>1, IdsNat DEF LoneOK, WorkerOK
    <2>3. CASE a.id # b.id
      BY <1>8, <2>2, <2>3
    <2>4. CASE a.id = b.id
      <3>1. a = b
        BY <1>1, <2>1, <2>4 DEF WorkerOK, OnePerKey
      <3>2. \A c \in x.out : c # b
        BY <1>6
      <3>3. b \in me.pending
        BY <1>6, <3>1, <3>2
      <3>. QED
        BY <1>1, <3>3 DEF WorkerOK
    <2>. QED
      BY <2>3, <2>4
  <1>10. \A i \in Ids : attempts'[i] <= 1
    BY <1>7, <1>8 DEF Lone
  <1>11. ASSUME NEW m, Remembers(me, m)
         PROVE  Remembers(x, m)'
    BY <1>6, <1>8, <1>11 DEF Remembers
  <1>12. LoneOK(x)'
    <2>1. me.cfg = file /\ Valid(file) /\ Remembers(me, file.mark)
      BY <1>1, <1>2 DEF LoneOK
    <2>2. PICK m : m = file.mark
      OBVIOUS
    <2>3. Remembers(x, m)'
      BY <1>11, <2>1, <2>2
    <2>4. m = file'.mark /\ x.cfg = file' /\ Valid(file)'
      BY <1>2, <1>6, <2>1, <2>2 DEF Valid
    <2>. QED
      BY <1>6, <1>9, <2>3, <2>4 DEF LoneOK
  <1>13. Valid(file)' => file'.mark = high'
    BY <1>2 DEF Lone, Valid
  <1>. QED
    BY <1>2, <1>5, <1>10, <1>12, <1>13, LoneStep

\* last_id moves on.
LEMMA LoneAdvance ==
    ASSUME OneWorker, IInv, Lone, NEW w \in Workers, Advance(w)
    PROVE  Lone'
  <1>1. PICK me : /\ me = worker[w] /\ WorkerOK(me) /\ me \in WorkerType
                  /\ me.cfg \in Config /\ me.cfg.mark \in 0..MaxId
                  /\ LoneOK(me)
    BY LoneRecord
  <1>2. PICK next : next = NextLastId(me.pending, me.completed, me.cfg.mark)
    OBVIOUS
  <1>3. me.pc = "send" /\ UNCHANGED <<file, saver, attempts, high>>
    BY <1>1 DEF Advance, history
  <1>4. me.completed \in SUBSET Ids
    BY <1>1 DEF WorkerType
  <1>5. next \in 0..MaxId /\ next >= me.cfg.mark
    BY <1>1, <1>2, <1>4, NextLastIdFact
  <1>6. CASE next > me.cfg.mark
    <2>1. PICK cfg : cfg = [mark |-> next, dest |-> me.cfg.dest]
      OBVIOUS
    <2>2. PICK x : x = [me EXCEPT !.pc = "open", !.base = FALSE, !.cfg = cfg]
      OBVIOUS
    <2>3. worker' = [worker EXCEPT ![w] = x]
      BY <1>1, <1>2, <1>6, <2>1, <2>2 DEF Advance
    <2>4. /\ x.pc = "open" /\ x.cfg = cfg /\ x.pending = me.pending
          /\ x.completed = me.completed /\ x.out = me.out
      BY <1>1, <2>2 DEF WorkerType
    <2>5. /\ Valid(file) /\ me.cfg.mark = high /\ Remembers(me, high) /\ high \in Nat
      BY <1>1, <1>3, LoneFetch, IdsNat
    <2>6. next \in Nat /\ high <= next /\ next >= high
      BY <1>5, <2>5, IdsNat
    <2>7. Remembers(x, next)
      BY <2>4, <2>5, <2>6, RemembersMore
    <2>8. x.cfg.mark = next
      BY <2>1, <2>4
    <2>9. LoneOK(x)
      BY <1>1, <1>3, <2>4, <2>5, <2>6, <2>7, <2>8, LoneOpen
    <2>. QED
      BY <1>3, <2>3, <2>9, LoneQuiet
  <1>7. CASE ~(next > me.cfg.mark)
    <2>1. PICK x : x = Return(me)
      OBVIOUS
    <2>2. worker' = [worker EXCEPT ![w] = x]
      BY <1>1, <1>2, <1>7, <2>1 DEF Advance
    <2>3. LoneOK(x)
      BY <1>1, <1>3, <2>1, LoneReturn
    <2>. QED
      BY <1>3, <2>2, <2>3, LoneQuiet
  <1>. QED
    BY <1>6, <1>7

\* The truncation: the empty file is not valid.
LEMMA LoneSaveOpen ==
    ASSUME OneWorker, IInv, Lone, NEW w \in Workers, SaveOpen(w)
    PROVE  Lone'
  <1>1. PICK me : me = worker[w] /\ me \in WorkerType /\ LoneOK(me)
    BY LoneRecord
  <1>2. PICK x : x = [me EXCEPT !.pc = "write"]
    OBVIOUS
  <1>3. /\ me.pc = "open" /\ worker' = [worker EXCEPT ![w] = x] /\ file' = Empty
        /\ UNCHANGED <<saver, attempts, high>>
    BY <1>1, <1>2 DEF SaveOpen, history
  <1>4. /\ x.pc = "write" /\ x.cfg = me.cfg /\ x.pending = me.pending
        /\ x.completed = me.completed /\ x.out = me.out
    BY <1>1, <1>2, PcFields DEF WorkerPcs
  <1>5. ~Valid(file)'
    BY <1>3, BrokenFile DEF Valid
  <1>6. LoneOK(x)'
    BY <1>1, <1>3, <1>4, <1>5 DEF LoneOK, Remembers
  <1>7. \A i \in Ids : attempts'[i] <= 1
    BY <1>3 DEF Lone
  <1>. QED
    BY <1>3, <1>5, <1>6, <1>7, LoneStep

\* The write: what last_id stands for is forgotten, the rest is remembered.
LEMMA LoneSaveWrite ==
    ASSUME OneWorker, IInv, Lone, NEW w \in Workers, SaveWrite(w)
    PROVE  Lone'
  <1>1. PICK me : /\ me = worker[w] /\ WorkerOK(me) /\ me \in WorkerType
                  /\ me.cfg \in Config /\ me.cfg.mark \in 0..MaxId
                  /\ LoneOK(me)
    BY LoneRecord
  <1>2. PICK y : y = Return(me)
    OBVIOUS
  <1>3. PICK kept : kept = {i \in me.completed : me.base \/ i > me.cfg.mark}
    OBVIOUS
  <1>4. PICK x : x = [y EXCEPT !.completed = kept]
    OBVIOUS
  <1>5. /\ me.pc = "write" /\ worker' = [worker EXCEPT ![w] = x]
        /\ file' = me.cfg \/ file' = Broken
        /\ high' = Max({high, me.cfg.mark})
        /\ UNCHANGED <<saver, attempts>>
    BY <1>1, <1>2, <1>3, <1>4 DEF SaveWrite, Write
  <1>6. /\ y \in WorkerType /\ y.pc = "wait" /\ y.cfg = Empty
        /\ y.pending = me.pending /\ y.out = me.out
    BY <1>1, <1>2, ReturnFields
  <1>7. /\ x.pc = "wait" /\ x.pending = me.pending /\ x.completed = kept /\ x.out = me.out
    BY <1>4, <1>6 DEF WorkerType
  <1>8. PICK m : m = me.cfg.mark
    OBVIOUS
  <1>9. m >= high /\ Remembers(me, m) /\ m \in Nat /\ high \in Nat
    BY <1>1, <1>5, <1>8, IdsNat DEF LoneOK, IInv, Typed
  <1>10. high' = m
    <2>1. Max({high, m}) = IF high >= m THEN high ELSE m
      BY <1>9, MaxPair
    <2>. QED
      BY <1>5, <1>8, <1>9, <2>1
  <1>11. Remembers(x, m)
    <2>. SUFFICES ASSUME NEW i \in Ids, attempts[i] > 0, ~(i <= m)
                  PROVE  i \in x.completed
      BY DEF Remembers
    <2>1. i \in me.completed
      BY <1>9 DEF Remembers
    <2>2. i > m
      BY <1>9, IdsNat
    <2>. QED
      BY <1>3, <1>7, <1>8, <2>1, <2>2
  <1>12. Valid(file)' => file'.mark = m
    BY <1>5, <1>8, BrokenFile DEF Valid
  <1>13. Remembers(x, m)'
    BY <1>5, <1>11 DEF Remembers
  <1>14. \A b \in x.pending \cup x.out : attempts'[b.id] = 0
    BY <1>1, <1>5, <1>7 DEF LoneOK
  <1>15. LoneOK(x)'
    BY <1>7, <1>12, <1>13, <1>14 DEF LoneOK
  <1>16. \A i \in Ids : attempts'[i] <= 1
    BY <1>5 DEF Lone
  <1>. QED
    BY <1>5, <1>10, <1>12, <1>15, <1>16, LoneStep

\* At the start nothing was pushed, and no last_id was stored.
LEMMA LoneInit == Init => LoneInv
  <1>. SUFFICES ASSUME Init PROVE Lone
    BY DEF LoneInv
  <1>1. saver.pc = "idle" /\ file.mark = high /\ \A i \in Ids : attempts[i] = 0
    BY DEF Init
  <1>2. PICK x : x = NewWorker
    OBVIOUS
  <1>3. x.pc = "new" /\ x.pending = {} /\ x.out = {}
    BY <1>2 DEF NewWorker
  <1>4. LoneOK(x)
    BY <1>1, <1>3 DEF LoneOK, Remembers
  <1>5. \A w \in Workers : worker[w] = x
    BY <1>2 DEF Init
  <1>. QED
    BY <1>1, <1>4, <1>5 DEF Lone

\* A save that has begun is counted.
LEMMA LoneSaves ==
    ASSUME IInv, LoneInv, [Next]_vars, saves' = 0
    PROVE  /\ saves = 0 /\ Lone
           /\ ~ConfigLoad /\ ~ConfigOpen /\ ~ConfigWrite /\ ~ConfigFails
  <1>1. saves \in Nat
    BY BoundAssumption DEF IInv, Typed
  <1>2. ~ConfigLoad
    BY <1>1 DEF ConfigLoad
  <1>3. saves = 0
    BY <1>2 DEF Next, Arrive, Grow, StartWorker, Tick, Exit, PollStep, PollLoad, FetchBaseline,
                FetchTargets, Send, Advance, SaveOpen, SaveWrite, Fault, FetchFails, SaveFails,
                StopWorker, ConfigOpen, ConfigWrite, ConfigFails, Crash, vars
  <1>4. Lone
    BY <1>3 DEF LoneInv
  <1>5. ~ConfigOpen /\ ~ConfigWrite /\ ~ConfigFails
    BY <1>4 DEF Lone, ConfigOpen, ConfigWrite, ConfigFails
  <1>. QED
    BY <1>2, <1>3, <1>4, <1>5

\* Every step of the only worker preserves what it knows.
LEMMA LoneInductive ==
    ASSUME OneWorker
    PROVE  IInv /\ LoneInv /\ [Next]_vars => LoneInv'
  <1>. SUFFICES ASSUME IInv, LoneInv, [Next]_vars, saves' = 0 PROVE Lone'
    BY DEF LoneInv
  <1>1. Lone /\ ~ConfigLoad /\ ~ConfigOpen /\ ~ConfigWrite /\ ~ConfigFails
    BY LoneSaves
  <1>2. CASE Arrive \/ Grow \/ UNCHANGED vars
    <2>1. UNCHANGED <<file, saver, attempts, high, worker>>
      BY <1>2 DEF Arrive, Grow, vars, history
    <2>. QED
      BY <1>1, <2>1, LoneStays
  <1>3. ASSUME NEW w \in Workers,
               StartWorker(w) \/ Tick(w) \/ Exit(w) \/ PollStep(w) \/ Fault(w)
        PROVE  Lone'
    <2>1. CASE StartWorker(w) \/ Tick(w)
      BY <1>1, <2>1, LoneMoves
    <2>2. CASE Exit(w)
      BY <1>1, <2>2, LoneExit
    <2>3. CASE Fault(w)
      BY <1>1, <2>3, LoneFault
    <2>4. CASE PollLoad(w)
      BY <1>1, <2>4, LoneLoad
    <2>5. CASE FetchBaseline(w)
      BY <1>1, <2>5, LoneBaseline
    <2>6. CASE FetchTargets(w)
      BY <1>1, <2>6, LoneTargets
    <2>7. CASE Send(w)
      BY <1>1, <2>7, LoneSend
    <2>8. CASE Advance(w)
      BY <1>1, <2>8, LoneAdvance
    <2>9. CASE SaveOpen(w)
      BY <1>1, <2>9, LoneSaveOpen
    <2>10. CASE SaveWrite(w)
      BY <1>1, <2>10, LoneSaveWrite
    <2>. QED
      BY <1>3, <2>1, <2>2, <2>3, <2>4, <2>5, <2>6, <2>7, <2>8, <2>9, <2>10 DEF PollStep
  <1>4. CASE StopWorker
    BY <1>1, <1>4, LoneStop
  <1>5. CASE Crash
    BY <1>1, <1>5, LoneCrash
  <1>. QED
    BY <1>1, <1>2, <1>3, <1>4, <1>5 DEF Next

\* Both invariants, in every state.
LEMMA LoneInvariant ==
    ASSUME OneWorker
    PROVE  Spec => [](IInv /\ LoneInv)
  <1>1. IInv /\ LoneInv /\ [Next]_vars => (IInv /\ LoneInv)'
    BY Inductive, LoneInductive
  <1>2. Init => IInv /\ LoneInv
    BY InitInv, LoneInit
  <1>. QED
    BY <1>1, <1>2, PTL DEF Spec

\* With one worker and while no browser has saved, no message is pushed twice: what
\* was pushed above the stored last_id is in completed, also when a write fails.
THEOREM AtMostOnceAlways ==
    ASSUME OneWorker
    PROVE  Spec => []AtMostOnce
  <1>1. LoneInv => AtMostOnce
    BY DEF LoneInv, Lone, AtMostOnce
  <1>. QED
    BY <1>1, LoneInvariant, PTL

\* With one worker and while no browser has saved, a poll takes the inbox for old only
\* before the first last_id above 0 is stored.
THEOREM BaselineOnceAlways ==
    ASSUME OneWorker
    PROVE  Spec => BaselineOnce
  <1>1. ASSUME IInv, LoneInv, [Next]_vars, saves' = 0, high > 0
        PROVE  passed' = passed
    <2>1. Lone /\ ~ConfigLoad /\ ~ConfigOpen /\ ~ConfigWrite /\ ~ConfigFails
      BY <1>1, LoneSaves
    <2>2. ASSUME NEW w \in Workers, FetchBaseline(w)
          PROVE  FALSE
      <3>1. PICK me : me = worker[w] /\ LoneOK(me)
        BY <1>1, <2>1, LoneRecord
      <3>2. me.pc = "fetch" /\ me.cfg.mark = 0
        BY <2>2, <3>1 DEF FetchBaseline
      <3>3. me.cfg.mark = high /\ high \in 0..MaxId
        BY <1>1, <2>1, <3>1, <3>2, LoneFetch
      <3>. QED
        BY <1>1, <3>2, <3>3
    <2>. QED
      BY <1>1, <2>1, <2>2 DEF Next, Arrive, Grow, StartWorker, Tick, Exit, PollStep, PollLoad,
         FetchTargets, Send, Advance, SaveOpen, SaveWrite, Fault, FetchFails, SaveFails,
         StopWorker, Crash, vars, history
  <1>2. IInv /\ LoneInv /\ [Next]_vars => [saves' = 0 /\ high > 0 => passed' = passed]_vars
    BY <1>1
  <1>3. Spec => [](IInv /\ LoneInv)
    BY LoneInvariant
  <1>. QED
    BY <1>2, <1>3, PTL DEF Spec, BaselineOnce
=============================================================================
