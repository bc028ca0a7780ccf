---------------------------- MODULE RecordsProofs ----------------------------
(***************************************************************************)
(* What survives when handlers write back whole records they read earlier, *)
(* for any number of handlers: the grants a client polls for, for any      *)
(* lifetimes and intervals; logins through an external provider, for any   *)
(* identities and accounts; rows a directory sync writes back, and the     *)
(* memberships it leaves.                                                  *)
(***************************************************************************)
EXTENDS MCRecords, FiniteSetTheorems, TLAPS

RecState == [user : Users \cup {Nobody}, authorized : BOOLEAN, denied : BOOLEAN,
             polled : Nat, interval : Nat]
EntryState == [rec : RecState, exp : Nat]
PCs == {"idle", "write", "authenticate", "mirror", "lock", "slow", "pace", "decide", "unlock",
        "user", "consume", "clean", "issue"}
TaskState == [pc : PCs, orig : RecState, rec : RecState, ttl : Nat]
HistState == [tokens : Nat, late : Nat, owners : SUBSET (Users \cup {Nobody}),
              approvers : SUBSET (Users \cup {Nobody}), denied : BOOLEAN, decisions : Nat,
              clobbered : Nat, gap : Int, last : Nat, polls : Nat, forms : Nat, lost : Nat]

\* The steps that only one of the grants has.
CibaOnly   == {"lock", "slow", "pace", "decide", "unlock"}
DeviceOnly == {"write", "authenticate", "mirror", "clean"}

\* The steps that only polls have.
PollSteps == {"lock", "slow", "pace", "user", "consume", "clean", "issue"}

\* Every variable has its shape, and a handler is one of the grant that runs.
TypeOK ==
    /\ flow \in Flows /\ now \in Nat /\ lock \in Nat
    /\ entry \in EntryState /\ mirror \in EntryState
    /\ task \in [Tasks -> TaskState]
    /\ hist \in HistState
    /\ \A t \in Tasks :
        /\ task[t].pc \in CibaOnly => flow = "ciba"
        /\ task[t].pc \in DeviceOnly => flow = "device"
        /\ task[t].pc = "authenticate" => t \in Approvers
        /\ task[t].pc \in PollSteps => t \in Polls

-----------------------------------------------------------------------------
(* What is true of a CIBA request. *)

\* A handler's new record differs from the one it has read in what it stores.
CibaTask(x) ==
    /\ x.orig.interval >= Interval
    /\ x.pc = "slow" =>
        /\ x.rec.authorized = x.orig.authorized /\ x.rec.denied = x.orig.denied
        /\ x.rec.polled = x.orig.polled /\ x.rec.interval >= Interval
    /\ x.pc = "pace" =>
        /\ x.rec.authorized = x.orig.authorized /\ x.rec.denied = x.orig.denied
        /\ x.rec.interval >= Interval
        /\ x.orig.polled = Never \/ x.rec.polled - x.orig.polled >= Interval
    /\ x.pc = "decide" =>
        /\ Undecided(x.orig) /\ ~Undecided(x.rec)
        /\ x.rec.polled = x.orig.polled /\ x.rec.interval >= Interval
    /\ x.pc \in {"user", "consume"} => x.rec.authorized /\ ~x.rec.denied

\* The stored request tells what the history says of it, until it is taken.
CibaStored ==
    /\ entry.exp <= Lifetime + StoreDelay
    /\ entry.exp # 0 =>
        /\ entry.rec.interval >= Interval /\ entry.rec.polled = hist.last
        /\ hist.denied => entry.rec.denied
        /\ Undecided(entry.rec) <=> hist.decisions = 0
        /\ hist.tokens = 0

\* Only the poll that has taken it, approved, gives tokens.
CibaIssuing ==
    \A t \in Tasks : task[t].pc = "issue" =>
        /\ entry.exp = 0 /\ hist.tokens = 0 /\ hist.decisions = 1 /\ ~hist.denied
        /\ \A u \in Tasks : task[u].pc = "issue" => u = t

CibaHist ==
    /\ hist.decisions <= 1 /\ hist.tokens <= 1
    /\ hist.tokens > 0 => hist.decisions = 1 /\ ~hist.denied
    /\ hist.gap < Never => hist.gap >= Interval
    /\ hist.late <= StoreDelay

CibaInv ==
    flow = "ciba" =>
        /\ \A t \in Tasks : CibaTask(task[t])
        /\ CibaStored /\ CibaIssuing /\ CibaHist

-----------------------------------------------------------------------------
(* What is true of a device code. *)

\* A poll keeps an approval it has read, and a form stores one.
DeviceTask(t, x) ==
    /\ t \in Polls /\ x.rec.authorized => x.rec.user \in hist.approvers
    /\ x.pc = "write" =>
        IF t \in Polls THEN x.rec.authorized = x.orig.authorized ELSE x.rec.authorized
    /\ x.pc \in {"user", "consume", "clean", "issue"} => x.rec.authorized

DeviceStored ==
    /\ entry.rec.authorized => entry.rec.user \in hist.approvers
    /\ hist.approvers # {} /\ hist.clobbered = 0 /\ entry.exp # 0 => entry.rec.authorized

\* The polls that have taken a record and have not answered yet.
Holders == {t \in Polls : task[t].pc \in {"clean", "issue"}}

\* A token is paid for by the record that was first there or by a write that
\* put one where none was.
DevicePaid ==
    hist.tokens + Cardinality(Holders) + (IF entry.exp = 0 THEN 0 ELSE 1) <= 1 + hist.clobbered

DeviceInv ==
    flow = "device" =>
        /\ \A t \in Tasks : DeviceTask(t, task[t])
        /\ DeviceStored /\ DevicePaid
        /\ hist.owners \subseteq hist.approvers /\ hist.late = 0

PolledInv == TypeOK /\ CibaInv /\ DeviceInv

-----------------------------------------------------------------------------
(* What the operators keep. *)

\* What is assumed of the constants, and that polls are no forms.
LEMMA Constants ==
    /\ Lifetime \in Nat /\ StoreDelay \in Nat /\ Interval \in Nat /\ SlowDown \in Nat /\ LockTTL \in Nat
    /\ MaxTime \in Nat /\ Never \in Nat
    /\ IsFiniteSet(Polls) /\ Polls \cap Approvers = {} /\ Tasks = Polls \cup Approvers
    /\ NewRecord \in RecState /\ NoEntry \in EntryState /\ IdleTask \in TaskState
    /\ NoEntry.exp = 0 /\ ~NewRecord.authorized /\ NewRecord.interval = Interval
    /\ IdleTask.pc = "idle" /\ IdleTask.orig = NewRecord /\ IdleTask.rec = NewRecord
    /\ NoEntry.rec = NewRecord
BY PolledAssumption DEF Never, Tasks, NewRecord, NoEntry, IdleTask, RecState, EntryState,
                        TaskState, PCs

\* A handler moves on to pc with what it knows.
LEMMA GotoEffect ==
    ASSUME TypeOK, NEW t \in Tasks, NEW pc \in PCs, Goto(t, pc)
    PROVE  \E x \in TaskState :
              /\ task' = [task EXCEPT ![t] = x] /\ x.pc = pc
              /\ x.orig = task[t].orig /\ x.rec = task[t].rec /\ x.ttl = task[t].ttl
<1> DEFINE x == [task[t] EXCEPT !.pc = pc]
<1>1. task[t] \in TaskState
    BY DEF TypeOK
<1>2. /\ x \in TaskState /\ x.pc = pc
      /\ x.orig = task[t].orig /\ x.rec = task[t].rec /\ x.ttl = task[t].ttl
    BY <1>1 DEF TaskState
<1>3. task' = [task EXCEPT ![t] = x]
    BY DEF Goto
<1> QED
    BY <1>2, <1>3

\* Failures, polls and forms change nothing of the history but the bounds.
SameHist ==
    /\ hist'.tokens = hist.tokens /\ hist'.late = hist.late /\ hist'.owners = hist.owners
    /\ hist'.approvers = hist.approvers /\ hist'.denied = hist.denied
    /\ hist'.decisions = hist.decisions /\ hist'.clobbered = hist.clobbered
    /\ hist'.gap = hist.gap /\ hist'.last = hist.last

\* Steps that count against a bound change nothing else of the history.
LEMMA BoundsOnly ==
    ASSUME TypeOK, UNCHANGED hist \/ hist' = Fail(hist) \/ Polled \/ Opened
    PROVE  hist' \in HistState /\ SameHist
<1>1. hist \in HistState
    BY DEF TypeOK
<1>2. CASE UNCHANGED hist
    BY <1>1, <1>2 DEF SameHist
<1>3. CASE hist' = Fail(hist)
    BY <1>1, <1>3 DEF Fail, SameHist, HistState
<1>4. CASE hist' = [hist EXCEPT !.polls = @ + 1]
    BY <1>1, <1>4 DEF SameHist, HistState
<1>5. CASE hist' = [hist EXCEPT !.forms = @ + 1]
    BY <1>1, <1>5 DEF SameHist, HistState
<1> QED
    BY <1>2, <1>3, <1>4, <1>5 DEF Polled, Opened

\* Handler t of the running grant may be at x.
Belongs(t, x) ==
    /\ x.pc \in CibaOnly => flow = "ciba"
    /\ x.pc \in DeviceOnly => flow = "device"
    /\ x.pc = "authenticate" => t \in Approvers
    /\ x.pc \in PollSteps => t \in Polls

\* One handler moves, and every variable keeps its shape.
LEMMA TypeStep ==
    ASSUME TypeOK, NEW t \in Tasks, NEW x \in TaskState, task' = [task EXCEPT ![t] = x],
           Belongs(t, x), flow' = flow, now' = now, lock' \in Nat,
           entry' \in EntryState, mirror' \in EntryState, hist' \in HistState
    PROVE  TypeOK'
<1>1. \A u \in Tasks : task'[u] = IF u = t THEN x ELSE task[u]
    BY DEF TypeOK
<1>2. task' \in [Tasks -> TaskState]
    BY DEF TypeOK
<1>3. \A u \in Tasks :
        /\ task'[u].pc \in CibaOnly => flow = "ciba"
        /\ task'[u].pc \in DeviceOnly => flow = "device"
        /\ task'[u].pc = "authenticate" => u \in Approvers
        /\ task'[u].pc \in PollSteps => u \in Polls
    BY <1>1 DEF TypeOK, Belongs
<1> QED
    BY <1>2, <1>3 DEF TypeOK

\* A record that was taken is held by one poll more, an answer given by one less.
LEMMA HolderStep ==
    ASSUME TypeOK, NEW t \in Tasks, NEW x \in TaskState, task' = [task EXCEPT ![t] = x],
           Belongs(t, x)
    PROVE  /\ Cardinality(Holders) \in Nat /\ Cardinality(Holders') \in Nat
           /\ Cardinality(Holders') <= Cardinality(Holders) + 1
           /\ x.pc \notin {"clean", "issue"} \/ task[t].pc \in {"clean", "issue"} =>
                 Cardinality(Holders') <= Cardinality(Holders)
           /\ x.pc \notin {"clean", "issue"} /\ task[t].pc \in {"clean", "issue"} =>
                 Cardinality(Holders') = Cardinality(Holders) - 1
<1>1. IsFiniteSet(Holders) /\ IsFiniteSet(Holders') /\ IsFiniteSet(Holders \cup {t})
    BY Constants, FS_Subset, FS_AddElement DEF Holders
<1>2. \A u \in Tasks : task'[u] = IF u = t THEN x ELSE task[u]
    BY DEF TypeOK
<1>3. Polls \subseteq Tasks
    BY Constants
<1>4. /\ Cardinality(Holders) \in Nat /\ Cardinality(Holders') \in Nat
      /\ Cardinality(Holders \cup {t}) \in Nat
      /\ Cardinality(Holders \cup {t}) <= Cardinality(Holders) + 1
    BY <1>1, FS_CardinalityType, FS_AddElement
<1>5. Holders' \subseteq Holders \cup {t}
    BY <1>2, <1>3 DEF Holders
<1>6. Cardinality(Holders') <= Cardinality(Holders \cup {t})
    BY <1>1, <1>5, FS_Subset
<1>7. ASSUME x.pc \notin {"clean", "issue"} \/ task[t].pc \in {"clean", "issue"}
      PROVE  Cardinality(Holders') <= Cardinality(Holders)
    <2>1. Holders' \subseteq Holders
        BY <1>2, <1>3, <1>7 DEF Holders, TypeOK
    <2> QED
        BY <1>1, <2>1, FS_Subset
<1>8. ASSUME x.pc \notin {"clean", "issue"}, task[t].pc \in {"clean", "issue"}
      PROVE  Cardinality(Holders') = Cardinality(Holders) - 1
    <2>1. Holders' = Holders \ {t} /\ t \in Holders
        BY <1>2, <1>3, <1>8 DEF Holders, TypeOK, PollSteps
    <2> QED
        BY <1>1, <2>1, FS_RemoveElement
<1> QED
    BY <1>4, <1>6, <1>7, <1>8

\* Initially the request is stored, undecided.
LEMMA InitPolled == Init => PolledInv
<1> SUFFICES ASSUME Init PROVE PolledInv
    OBVIOUS
<1>0. PICK d \in 0 .. StoreDelay : entry = [rec |-> NewRecord, exp |-> d + Lifetime]
    BY DEF Init
<1>1. /\ lock = 0 /\ task = [t \in Tasks |-> IdleTask] /\ hist = InitHist /\ flow \in Flows
    BY DEF Init
<1>2. /\ entry \in EntryState /\ entry.exp \in Nat /\ entry.exp = d + Lifetime
      /\ entry.exp <= Lifetime + StoreDelay /\ entry.rec = NewRecord
    BY <1>0, Constants DEF EntryState
<1>9. mirror \in EntryState /\ now \in Nat
    <2>1. CASE mirror = NoEntry /\ now = entry.exp - Lifetime
        BY <1>2, <2>1, Constants
    <2>2. CASE \E k \in entry.exp - Lifetime .. StoreDelay :
                  mirror = [rec |-> NewRecord, exp |-> k + Lifetime] /\ now = k
        <3>1. PICK k \in entry.exp - Lifetime .. StoreDelay :
                  mirror = [rec |-> NewRecord, exp |-> k + Lifetime] /\ now = k
            BY <2>2
        <3>2. k \in Nat
            BY <1>2, Constants
        <3> QED
            BY <3>1, <3>2, Constants DEF EntryState
    <2> QED
        BY <2>1, <2>2 DEF Init
<1>3. hist \in HistState
    BY <1>1, Constants DEF InitHist, HistState
<1>4. TypeOK
    BY <1>1, <1>2, <1>3, <1>9, Constants DEF TypeOK, CibaOnly, DeviceOnly, PollSteps
<1>5. /\ hist.tokens = 0 /\ hist.late = 0 /\ hist.owners = {} /\ hist.approvers = {}
      /\ ~hist.denied /\ hist.decisions = 0 /\ hist.clobbered = 0 /\ hist.gap = Never
      /\ hist.last = Never
    BY <1>1 DEF InitHist
<1>6. NewRecord.polled = Never /\ ~NewRecord.denied
    BY DEF NewRecord
<1>7. CibaInv
    BY <1>1, <1>2, <1>5, <1>6, Constants
       DEF CibaInv, CibaTask, CibaStored, CibaIssuing, CibaHist, Undecided
<1>8. DeviceInv
    <2>1. Holders = {}
        BY <1>1, Constants DEF Holders
    <2>2. Cardinality(Holders) = 0
        BY <2>1, FS_EmptySet
    <2> QED
        BY <1>1, <1>2, <1>5, <2>2, Constants DEF DeviceInv, DeviceTask, DeviceStored, DevicePaid
<1> QED
    BY <1>4, <1>7, <1>8 DEF PolledInv

-----------------------------------------------------------------------------
(* Steps that store nothing. *)

\* A handler moves on and the stored request stays.
LEMMA QuietStep ==
    ASSUME PolledInv, NEW t \in Tasks, NEW x \in TaskState, task' = [task EXCEPT ![t] = x],
           Belongs(t, x), flow' = flow, now' = now, lock' \in Nat,
           entry' = entry, mirror' \in EntryState, hist' \in HistState, SameHist,
           flow = "ciba" => CibaTask(x) /\ x.pc # "issue",
           flow = "device" => DeviceTask(t, x)
                              /\ (x.pc \in {"clean", "issue"} => task[t].pc \in {"clean", "issue"})
    PROVE  PolledInv'
<1>1. TypeOK'
    BY TypeStep DEF PolledInv, TypeOK
<1>2. \A u \in Tasks : task'[u] = IF u = t THEN x ELSE task[u]
    BY DEF PolledInv, TypeOK
<1>3. CASE flow = "ciba"
    <2>1. \A u \in Tasks : CibaTask(task'[u])
        BY <1>2, <1>3 DEF PolledInv, CibaInv
    <2>2. CibaIssuing'
        BY <1>2, <1>3 DEF PolledInv, CibaInv, CibaIssuing, SameHist
    <2>3. CibaStored' /\ CibaHist'
        BY <1>3 DEF PolledInv, CibaInv, CibaStored, CibaHist, SameHist
    <2>4. CibaInv'
        BY <2>1, <2>2, <2>3 DEF CibaInv, CibaTask
    <2> QED
        BY <1>1, <1>3, <2>4 DEF PolledInv, DeviceInv
<1>4. CASE flow = "device"
    <2>1. \A u \in Tasks : DeviceTask(u, task'[u])
        BY <1>2, <1>4 DEF PolledInv, DeviceInv
    <2>2. DeviceStored' /\ hist'.owners \subseteq hist'.approvers /\ hist'.late = 0
        BY <1>4 DEF PolledInv, DeviceInv, DeviceStored, SameHist
    <2>3. DevicePaid'
        <3>1. /\ Cardinality(Holders) \in Nat /\ Cardinality(Holders') \in Nat
              /\ Cardinality(Holders') <= Cardinality(Holders)
            BY <1>4, HolderStep DEF PolledInv
        <3>2. hist.tokens \in Nat /\ hist.clobbered \in Nat
            BY DEF PolledInv, TypeOK, HistState
        <3>3. DevicePaid
            BY <1>4 DEF PolledInv, DeviceInv
        <3> QED
            BY <3>1, <3>2, <3>3 DEF DevicePaid, SameHist
    <2>4. DeviceInv'
        BY <2>1, <2>2, <2>3 DEF DeviceInv, DeviceTask, SameHist
    <2> QED
        BY <1>1, <1>4, <2>4 DEF PolledInv, CibaInv
<1> QED
    BY <1>3, <1>4, PolledAssumption DEF PolledInv, TypeOK

\* A handler that ends.
LEMMA EndStep ==
    ASSUME PolledInv, NEW t \in Tasks, Done(t), flow' = flow, now' = now, lock' \in Nat,
           entry' = entry, mirror' \in EntryState,
           UNCHANGED hist \/ hist' = Fail(hist)
    PROVE  PolledInv'
<1>1. task' = [task EXCEPT ![t] = IdleTask]
    BY DEF Done
<1>2. Belongs(t, IdleTask) /\ CibaTask(IdleTask) /\ DeviceTask(t, IdleTask)
    BY Constants DEF PollSteps, Belongs, CibaTask, DeviceTask, CibaOnly, DeviceOnly
<1>3. hist' \in HistState /\ SameHist
    BY BoundsOnly DEF PolledInv
<1> QED
    BY <1>1, <1>2, <1>3, QuietStep, Constants

\* A poll of a device code takes a copy of the record as it is.
LEMMA DevicePollStep ==
    ASSUME PolledInv, NEW t \in Tasks, DevicePoll(t), flow' = flow
    PROVE  PolledInv'
<1> DEFINE r == entry.rec
           x == [pc |-> "write", orig |-> r, rec |-> Paced(r), ttl |-> Remaining]
<1>1. /\ flow = "device" /\ t \in Polls /\ task' = [task EXCEPT ![t] = x]
      /\ Polled /\ ~Expired /\ UNCHANGED <<now, entry, mirror, lock>>
    BY DEF DevicePoll
<1>2. r \in RecState /\ now \in Nat /\ mirror \in EntryState /\ lock \in Nat
    BY DEF PolledInv, TypeOK, EntryState
<1>3. Paced(r) \in RecState /\ Paced(r).authorized = r.authorized /\ Paced(r).user = r.user
    BY <1>2 DEF Paced, RecState
<1>4. Remaining \in Nat
    BY <1>1, <1>2, Constants DEF Remaining, Expired
<1>5. x \in TaskState
    BY <1>2, <1>3, <1>4 DEF TaskState, PCs
<1>6. DeviceTask(t, x) /\ Belongs(t, x)
    BY <1>1, <1>3 DEF PollSteps, DeviceTask, Belongs, PolledInv, DeviceInv, DeviceStored, CibaOnly
<1>7. hist' \in HistState /\ SameHist
    BY <1>1, BoundsOnly DEF PolledInv
<1> QED
    BY <1>1, <1>2, <1>5, <1>6, <1>7, QuietStep

\* A form takes a copy of the mirror.
LEMMA VerifyReadStep ==
    ASSUME PolledInv, NEW t \in Tasks, VerifyRead(t), flow' = flow
    PROVE  PolledInv'
<1> DEFINE x == [task[t] EXCEPT !.pc = "authenticate", !.orig = mirror.rec]
<1>1. /\ flow = "device" /\ t \in Approvers /\ task' = [task EXCEPT ![t] = x]
      /\ Opened /\ UNCHANGED <<now, entry, mirror, lock>>
    BY DEF VerifyRead
<1>2. mirror.rec \in RecState /\ mirror \in EntryState /\ lock \in Nat /\ task[t] \in TaskState
    BY DEF PolledInv, TypeOK, EntryState
<1>3. x \in TaskState /\ x.pc = "authenticate"
    BY <1>2 DEF TaskState, PCs
<1>4. DeviceTask(t, x) /\ Belongs(t, x)
    BY <1>1, <1>3, Constants DEF PollSteps, DeviceTask, Belongs, CibaOnly
<1>5. hist' \in HistState /\ SameHist
    BY <1>1, BoundsOnly DEF PolledInv
<1> QED
    BY <1>1, <1>2, <1>3, <1>4, <1>5, QuietStep

\* Only who signed in is written into the copy.
LEMMA VerifyAuthenticateStep ==
    ASSUME PolledInv, NEW t \in Tasks, VerifyAuthenticate(t), flow' = flow
    PROVE  PolledInv'
<1>1. task[t].pc = "authenticate" /\ UNCHANGED <<now, entry, mirror, lock, hist>>
    BY DEF VerifyAuthenticate
<1>2. mirror \in EntryState /\ lock \in Nat /\ task[t] \in TaskState /\ flow = "device"
      /\ now \in Nat
    BY <1>1 DEF PolledInv, TypeOK, DeviceOnly
<1>3. CASE Done(t)
    BY <1>1, <1>2, <1>3, EndStep
<1>4. ASSUME ~Expired, NEW u \in Users,
             task' = [task EXCEPT ![t] =
                [task[t] EXCEPT !.pc = "write", !.ttl = Remaining,
                                !.rec = [task[t].orig EXCEPT !.user = u, !.authorized = TRUE,
                                                              !.polled = Never]]]
      PROVE  PolledInv'
    <2> DEFINE y == [task[t].orig EXCEPT !.user = u, !.authorized = TRUE, !.polled = Never]
               x == [task[t] EXCEPT !.pc = "write", !.ttl = Remaining, !.rec = y]
    <2>1. y \in RecState /\ y.authorized /\ y.user = u
        BY <1>2, Constants DEF TaskState, RecState
    <2>2. Remaining \in Nat
        BY <1>2, <1>4, Constants DEF Remaining, Expired
    <2>3. x \in TaskState /\ x.pc = "write" /\ x.rec = y
        <3> HIDE DEF y
        <3> QED
            BY <1>2, <2>1, <2>2 DEF TaskState, PCs
    <2>4. task' = [task EXCEPT ![t] = x]
        BY <1>4
    <2>5. t \in Approvers /\ t \notin Polls
        BY <1>1, Constants DEF PolledInv, TypeOK
    <2> HIDE DEF x, y
    <2>6. DeviceTask(t, x) /\ Belongs(t, x)
        BY <1>2, <2>1, <2>3, <2>5 DEF PollSteps, DeviceTask, Belongs, CibaOnly
    <2>7. hist' \in HistState /\ SameHist
        BY <1>1, BoundsOnly DEF PolledInv
    <2> QED
        BY <1>1, <1>2, <2>3, <2>4, <2>6, <2>7, QuietStep
<1> QED
    BY <1>1, <1>3, <1>4 DEF VerifyAuthenticate

\* A handler that goes on, or, of a poll, learns nothing new.
LEMMA OnStep ==
    ASSUME PolledInv, NEW t \in Tasks, NEW pc \in PCs, Goto(t, pc),
           flow' = flow, now' = now, lock' \in Nat, entry' = entry, mirror' \in EntryState,
           UNCHANGED hist \/ hist' = Fail(hist),
           \/ pc = "unlock" /\ flow = "ciba"
           \/ pc = "mirror" /\ flow = "device"
           \/ pc = "user" /\ flow = "device" /\ t \in Polls /\ task[t].rec.authorized
           \/ pc = "consume" /\ task[t].pc = "user"
           \/ pc = "issue" /\ task[t].pc = "clean"
    PROVE  PolledInv'
<1>1. PICK x \in TaskState :
          /\ task' = [task EXCEPT ![t] = x] /\ x.pc = pc
          /\ x.orig = task[t].orig /\ x.rec = task[t].rec
    BY GotoEffect DEF PolledInv
<1>2. Belongs(t, x)
    BY <1>1 DEF PollSteps, Belongs, PolledInv, TypeOK, CibaOnly, DeviceOnly
<1>3. flow = "ciba" => CibaTask(x) /\ x.pc # "issue"
    BY <1>1 DEF CibaTask, PolledInv, CibaInv, TypeOK, DeviceOnly
<1>4. flow = "device" => DeviceTask(t, x)
                         /\ (x.pc \in {"clean", "issue"} => task[t].pc \in {"clean", "issue"})
    BY <1>1 DEF DeviceTask, PolledInv, DeviceInv
<1>5. hist' \in HistState /\ SameHist
    BY BoundsOnly DEF PolledInv
<1> QED
    BY <1>1, <1>2, <1>3, <1>4, <1>5, QuietStep

\* The mirror gets what the entry got.
LEMMA DeviceWriteMirrorStep ==
    ASSUME PolledInv, NEW t \in Tasks, DeviceWriteMirror(t), flow' = flow
    PROVE  PolledInv'
<1>1. /\ task[t].pc = "mirror" /\ UNCHANGED <<now, entry, lock>>
      /\ UNCHANGED hist \/ hist' = Fail(hist)
      /\ mirror' = mirror \/ mirror' = [rec |-> task[t].rec, exp |-> now + task[t].ttl]
      /\ (t \in Polls /\ task[t].rec.authorized /\ Goto(t, "user")) \/ Done(t)
    BY DEF DeviceWriteMirror
<1>2. mirror \in EntryState /\ lock \in Nat /\ task[t] \in TaskState /\ flow = "device"
      /\ now \in Nat
    BY <1>1 DEF PolledInv, TypeOK, DeviceOnly
<1>3. [rec |-> task[t].rec, exp |-> now + task[t].ttl] \in EntryState
    BY <1>2 DEF TaskState, EntryState
<1>4. mirror' \in EntryState
    BY <1>1, <1>2, <1>3
<1>5. "user" \in PCs
    BY DEF PCs
<1> QED
    BY <1>1, <1>2, <1>4, <1>5, OnStep, EndStep

\* The mirror goes, the right to tokens stays.
LEMMA DeviceCleanStep ==
    ASSUME PolledInv, NEW t \in Tasks, DeviceClean(t), flow' = flow
    PROVE  PolledInv'
<1>1. /\ task[t].pc = "clean" /\ Goto(t, "issue") /\ UNCHANGED <<now, entry, lock>>
      /\ UNCHANGED hist \/ hist' = Fail(hist)
      /\ mirror' = mirror \/ mirror' = NoEntry
    BY DEF DeviceClean
<1>2. mirror' \in EntryState /\ lock \in Nat /\ "issue" \in PCs
    BY <1>1, Constants DEF PolledInv, TypeOK, PCs
<1> QED
    BY <1>1, <1>2, OnStep

\* The user is there, or the poll ends without tokens.
LEMMA LoadUserStep ==
    ASSUME PolledInv, NEW t \in Tasks, LoadUser(t), flow' = flow
    PROVE  PolledInv'
<1>1. /\ task[t].pc = "user" /\ UNCHANGED <<now, entry, mirror, lock, hist>>
      /\ Goto(t, "consume") \/ Done(t) \/ (flow # "device" /\ Goto(t, "unlock"))
    BY DEF LoadUser
<1>2. /\ mirror \in EntryState /\ lock \in Nat /\ "consume" \in PCs /\ "unlock" \in PCs
      /\ flow # "device" => flow = "ciba"
    BY PolledAssumption DEF PolledInv, TypeOK, PCs
<1> QED
    BY <1>1, <1>2, OnStep, EndStep

\* A request that is lost leaves what it wrote.
LEMMA LoseStep ==
    ASSUME PolledInv, NEW t \in Tasks, Lose(t), flow' = flow
    PROVE  PolledInv'
<1>1. hist' = Fail(hist) /\ Done(t) /\ UNCHANGED <<now, entry, mirror, lock>>
    BY DEF Lose
<1>2. mirror \in EntryState /\ lock \in Nat
    BY DEF PolledInv, TypeOK
<1> QED
    BY <1>1, <1>2, EndStep

\* The lock goes, whoever has it by now.
LEMMA CibaUnlockStep ==
    ASSUME PolledInv, NEW t \in Tasks, CibaUnlock(t), flow' = flow
    PROVE  PolledInv'
<1>1. lock' = 0 /\ Done(t) /\ UNCHANGED <<now, entry, mirror, hist>>
    BY DEF CibaUnlock
<1>2. mirror \in EntryState
    BY DEF PolledInv, TypeOK
<1> QED
    BY <1>1, <1>2, EndStep

\* A poll takes a copy, and does not hold the lock yet.
LEMMA CibaPollStep ==
    ASSUME PolledInv, NEW t \in Tasks, CibaPoll(t), flow' = flow
    PROVE  PolledInv'
<1> DEFINE x == [task[t] EXCEPT !.pc = "lock", !.orig = entry.rec]
<1>1. /\ flow = "ciba" /\ t \in Polls /\ task' = [task EXCEPT ![t] = x] /\ Polled /\ Live(entry)
      /\ UNCHANGED <<now, entry, mirror, lock>>
    BY DEF CibaPoll
<1>2. /\ entry.rec \in RecState /\ mirror \in EntryState /\ lock \in Nat /\ task[t] \in TaskState
      /\ now \in Nat
    BY DEF PolledInv, TypeOK, EntryState
<1>3. x \in TaskState /\ x.pc = "lock" /\ x.orig = entry.rec
    BY <1>2 DEF TaskState, PCs
<1>4. entry.rec.interval >= Interval
    BY <1>1, <1>2 DEF PolledInv, CibaInv, CibaStored, Live
<1> HIDE DEF x
<1>5. CibaTask(x) /\ Belongs(t, x)
    BY <1>1, <1>3, <1>4 DEF PollSteps, CibaTask, Belongs, DeviceOnly
<1>6. hist' \in HistState /\ SameHist
    BY <1>1, BoundsOnly DEF PolledInv
<1> QED
    BY <1>1, <1>2, <1>3, <1>5, <1>6, QuietStep

\* The holder of the lock compares its copy's time with the clock.
LEMMA CibaLockStep ==
    ASSUME PolledInv, NEW t \in Tasks, CibaLock(t), flow' = flow
    PROVE  PolledInv'
<1> DEFINE r == task[t].orig
           early == r.polled # Never /\ now - r.polled < r.interval
           s == [r EXCEPT !.interval = @ + SlowDown]
           x == [task[t] EXCEPT !.pc = "slow", !.rec = s]
           y == [task[t] EXCEPT !.pc = "pace", !.rec = Paced(r)]
<1>1. /\ task[t].pc = "lock" /\ UNCHANGED <<now, entry, mirror, hist>>
      /\ \/ Done(t) /\ lock' = lock
         \/ /\ lock' = now + LockTTL
            /\ early /\ task' = [task EXCEPT ![t] = x]
         \/ /\ lock' = now + LockTTL
            /\ ~early /\ task' = [task EXCEPT ![t] = y]
    BY DEF CibaLock
<1>2. /\ flow = "ciba" /\ mirror \in EntryState /\ lock \in Nat /\ task[t] \in TaskState
      /\ now \in Nat /\ r \in RecState /\ r.interval >= Interval /\ t \in Polls
    BY <1>1 DEF PolledInv, CibaInv, CibaTask, TypeOK, CibaOnly, PollSteps, TaskState
<1>3. lock' \in Nat
    BY <1>1, <1>2, Constants
<1>4. hist' \in HistState /\ SameHist
    BY <1>1, BoundsOnly DEF PolledInv
<1>5. CASE Done(t)
    BY <1>1, <1>2, <1>3, <1>5, EndStep
<1>6. CASE task' = [task EXCEPT ![t] = x]
    <2>1. /\ s \in RecState /\ s.authorized = r.authorized /\ s.denied = r.denied
          /\ s.polled = r.polled /\ s.interval = r.interval + SlowDown
        BY <1>2, Constants DEF RecState
    <2>2. s.interval >= Interval
        BY <1>2, <2>1, Constants DEF RecState
    <2> HIDE DEF s
    <2>3. x \in TaskState /\ x.pc = "slow" /\ x.orig = r /\ x.rec = s
        BY <1>2, <2>1 DEF TaskState, PCs
    <2> HIDE DEF x
    <2>4. CibaTask(x) /\ Belongs(t, x)
        BY <1>2, <2>1, <2>2, <2>3 DEF PollSteps, CibaTask, Belongs, DeviceOnly
    <2> QED
        BY <1>1, <1>2, <1>3, <1>4, <1>6, <2>3, <2>4, QuietStep
<1>7. CASE ~early /\ task' = [task EXCEPT ![t] = y]
    <2>1. /\ Paced(r) \in RecState /\ Paced(r).authorized = r.authorized
          /\ Paced(r).denied = r.denied /\ Paced(r).polled = now
          /\ Paced(r).interval = r.interval
        BY <1>2 DEF Paced, RecState
    <2>2. r.polled = Never \/ now - r.polled >= Interval
        BY <1>2, <1>7, Constants DEF RecState
    <2>3. y \in TaskState /\ y.pc = "pace" /\ y.orig = r /\ y.rec = Paced(r)
        BY <1>2, <2>1 DEF TaskState, PCs
    <2> HIDE DEF y
    <2>4. CibaTask(y) /\ Belongs(t, y)
        BY <1>2, <2>1, <2>2, <2>3 DEF PollSteps, CibaTask, Belongs, DeviceOnly
    <2> QED
        BY <1>1, <1>2, <1>3, <1>4, <1>7, <2>3, <2>4, QuietStep
<1> QED
    BY <1>1, <1>5, <1>6, <1>7

\* A form takes a copy of an undecided request.
LEMMA DecideReadStep ==
    ASSUME PolledInv, NEW t \in Tasks, DecideRead(t), flow' = flow
    PROVE  PolledInv'
<1>1. /\ flow = "ciba" /\ Live(entry) /\ Undecided(entry.rec) /\ Opened
      /\ UNCHANGED <<now, entry, mirror, lock>>
    BY DEF DecideRead
<1>2. PICK yes \in BOOLEAN :
          task' = [task EXCEPT ![t] =
            [task[t] EXCEPT !.pc = "decide", !.orig = entry.rec,
                !.rec = [entry.rec EXCEPT !.authorized = @ \/ yes, !.denied = @ \/ ~yes]]]
    BY DEF DecideRead
<1> DEFINE r == entry.rec
           s == [r EXCEPT !.authorized = @ \/ yes, !.denied = @ \/ ~yes]
           x == [task[t] EXCEPT !.pc = "decide", !.orig = r, !.rec = s]
<1>3. /\ r \in RecState /\ mirror \in EntryState /\ lock \in Nat /\ task[t] \in TaskState
      /\ now \in Nat
    BY DEF PolledInv, TypeOK, EntryState
<1>4. r.interval >= Interval
    BY <1>1, <1>3 DEF PolledInv, CibaInv, CibaStored, Live
<1>5. s \in RecState /\ s.polled = r.polled /\ s.interval = r.interval
    BY <1>3 DEF RecState
<1>6. s.authorized = (r.authorized \/ yes) /\ s.denied = (r.denied \/ ~yes)
    BY <1>3 DEF RecState
<1>7. task' = [task EXCEPT ![t] = x]
    BY <1>2
<1> HIDE DEF s
<1>8. ~Undecided(s)
    BY <1>6 DEF Undecided
<1>9. x \in TaskState /\ x.pc = "decide" /\ x.orig = r /\ x.rec = s
    BY <1>3, <1>5 DEF TaskState, PCs
<1> HIDE DEF x
<1>10. CibaTask(x) /\ Belongs(t, x)
    BY <1>1, <1>4, <1>5, <1>8, <1>9 DEF PollSteps, CibaTask, Belongs, DeviceOnly
<1>11. hist' \in HistState /\ SameHist
    BY <1>1, BoundsOnly DEF PolledInv
<1> QED
    BY <1>1, <1>3, <1>7, <1>9, <1>10, <1>11, QuietStep

-----------------------------------------------------------------------------
(* Steps that change the stored request. *)

\* A CIBA handler swaps the record it has read for record y, and the history
\* is told.
LEMMA SwapStep ==
    ASSUME PolledInv, flow = "ciba", NEW t \in Tasks, NEW x \in TaskState,
           task' = [task EXCEPT ![t] = x], Belongs(t, x), CibaTask(x), x.pc # "issue",
           flow' = flow, now' = now, mirror' = mirror, lock' = lock, Live(entry),
           NEW y \in RecState, entry' = [entry EXCEPT !.rec = y],
           y.interval >= Interval, y.polled = hist'.last, hist'.denied => y.denied,
           Undecided(y) <=> hist'.decisions = 0,
           hist' \in HistState, hist'.decisions <= 1, hist'.tokens = hist.tokens,
           hist'.gap < Never => hist'.gap >= Interval, hist'.late = hist.late
    PROVE  PolledInv'
<1>1. entry.exp # 0 /\ entry' \in EntryState /\ entry'.rec = y /\ entry'.exp = entry.exp
    BY DEF Live, PolledInv, TypeOK, EntryState
<1>2. TypeOK'
    BY <1>1, TypeStep DEF PolledInv, TypeOK
<1>3. \A u \in Tasks : task'[u] = IF u = t THEN x ELSE task[u]
    BY DEF PolledInv, TypeOK
<1>4. \A u \in Tasks : CibaTask(task'[u])
    BY <1>3 DEF PolledInv, CibaInv
<1>5. CibaStored'
    BY <1>1 DEF PolledInv, CibaInv, CibaStored, Undecided
<1>6. CibaIssuing'
    BY <1>1, <1>3 DEF PolledInv, CibaInv, CibaIssuing
<1>7. CibaHist'
    BY <1>1 DEF PolledInv, CibaInv, CibaStored, CibaHist
<1>8. CibaInv'
    BY <1>4, <1>5, <1>6, <1>7 DEF CibaInv, CibaTask
<1> QED
    BY <1>2, <1>8 DEF PolledInv, DeviceInv

\* What a handler that swaps knows.
LEMMA SwapFacts ==
    ASSUME PolledInv, flow = "ciba", NEW t \in Tasks, Swaps(t)
    PROVE  /\ Live(entry) /\ entry.rec = task[t].orig /\ task[t].rec \in RecState
           /\ entry' = Swapped(t) => entry' = [entry EXCEPT !.rec = task[t].rec]
           /\ entry.exp # 0 /\ CibaTask(task[t]) /\ CibaStored /\ CibaHist
           /\ hist \in HistState /\ hist.last \in Nat /\ hist.gap \in Int
           /\ hist.decisions \in Nat /\ hist.denied \in BOOLEAN
BY DEF Swaps, Swapped, Live, PolledInv, TypeOK, TaskState, CibaInv, HistState, EntryState

\* The longer interval is swapped for the one that was read.
LEMMA CibaSlowStep ==
    ASSUME PolledInv, NEW t \in Tasks, CibaSlow(t), flow' = flow
    PROVE  PolledInv'
<1>1. /\ task[t].pc = "slow" /\ Goto(t, "unlock") /\ UNCHANGED <<now, mirror, lock, hist>>
      /\ entry' = IF Swaps(t) THEN Swapped(t) ELSE entry
    BY DEF CibaSlow
<1>2. flow = "ciba" /\ "unlock" \in PCs /\ mirror \in EntryState /\ lock \in Nat
    BY <1>1 DEF PolledInv, TypeOK, CibaOnly, PCs
<1>3. CASE ~Swaps(t)
    BY <1>1, <1>2, <1>3, OnStep
<1>4. CASE Swaps(t)
    <2>1. PICK x \in TaskState :
              /\ task' = [task EXCEPT ![t] = x] /\ x.pc = "unlock" /\ x.orig = task[t].orig
        BY <1>1, <1>2, GotoEffect DEF PolledInv
    <2>2. Belongs(t, x) /\ CibaTask(x)
        BY <1>2, <1>4, <2>1, SwapFacts DEF PollSteps, Belongs, CibaTask, DeviceOnly
    <2>3. /\ task[t].rec.interval >= Interval /\ task[t].rec.polled = hist.last
          /\ hist.denied => task[t].rec.denied
          /\ Undecided(task[t].rec) <=> hist.decisions = 0
        BY <1>1, <1>2, <1>4, SwapFacts DEF CibaTask, CibaStored, Undecided
    <2>4. hist.decisions <= 1 /\ (hist.gap < Never => hist.gap >= Interval)
        BY <1>2, <1>4, SwapFacts DEF CibaHist
    <2> QED
        BY <1>1, <1>2, <1>4, <2>1, <2>2, <2>3, <2>4, SwapFacts, SwapStep
<1> QED
    BY <1>3, <1>4

\* A poll is let through: its time was compared with that of the record it
\* replaces, which is the time of the last one.
LEMMA CibaPaceStep ==
    ASSUME PolledInv, NEW t \in Tasks, CibaPace(t), flow' = flow
    PROVE  PolledInv'
<1> DEFINE r == task[t].rec
           gap == r.polled - hist.last
           h == [hist EXCEPT !.last = r.polled,
                             !.gap = IF hist.last # Never /\ gap < @ THEN gap ELSE @]
<1>1. /\ task[t].pc = "pace" /\ UNCHANGED <<now, mirror, lock>>
      /\ Swaps(t) => entry' = Swapped(t) /\ hist' = h
      /\ ~Swaps(t) => UNCHANGED <<entry, hist>>
      /\ \/ Goto(t, "unlock")
         \/ Swaps(t) /\ r.authorized /\ ~r.denied /\ Goto(t, "user")
    BY DEF CibaPace
<1>2. flow = "ciba" /\ {"unlock", "user"} \subseteq PCs /\ mirror \in EntryState /\ lock \in Nat
    BY <1>1 DEF PolledInv, TypeOK, CibaOnly, PCs
<1>3. CASE ~Swaps(t)
    BY <1>1, <1>2, <1>3, OnStep
<1>4. CASE Swaps(t)
    <2>1. PICK x \in TaskState :
              /\ task' = [task EXCEPT ![t] = x] /\ x.pc \in {"unlock", "user"}
              /\ x.orig = task[t].orig /\ x.rec = r
              /\ x.pc = "user" => r.authorized /\ ~r.denied
        BY <1>1, <1>2, GotoEffect DEF PolledInv
    <2>2. CibaTask(x)
        BY <1>2, <1>4, <2>1, SwapFacts DEF CibaTask
    <2>3. Belongs(t, x)
        <3>1. t \in Polls
            BY <1>1 DEF PolledInv, TypeOK, PollSteps
        <3> QED
            BY <1>2, <2>1, <3>1 DEF PollSteps, Belongs, DeviceOnly
    <2>4. /\ r.interval >= Interval /\ r.polled \in Nat
          /\ hist.denied => r.denied
          /\ Undecided(r) <=> hist.decisions = 0
          /\ hist.last = Never \/ gap >= Interval
        BY <1>1, <1>2, <1>4, SwapFacts DEF CibaTask, CibaStored, Undecided, RecState
    <2>5. gap \in Int
        BY <1>2, <1>4, <2>4, SwapFacts
    <2>6. hist.decisions <= 1 /\ (hist.gap < Never => hist.gap >= Interval)
        BY <1>2, <1>4, SwapFacts DEF CibaHist
    <2> HIDE DEF gap, r
    <2>7. /\ h \in HistState /\ h.last = r.polled /\ h.tokens = hist.tokens /\ h.late = hist.late
          /\ h.denied = hist.denied /\ h.decisions = hist.decisions
          /\ h.gap = IF hist.last # Never /\ gap < hist.gap THEN gap ELSE hist.gap
        BY <1>2, <1>4, <2>4, <2>5, SwapFacts DEF HistState
    <2>8. hist' = h
        BY <1>1, <1>4 DEF r, gap
    <2> HIDE DEF h
    <2>9. h.gap < Never => h.gap >= Interval
        BY <2>4, <2>6, <2>7
    <2>10. Live(entry) /\ r \in RecState /\ entry' = [entry EXCEPT !.rec = r]
        BY <1>1, <1>2, <1>4, SwapFacts DEF r
    <2> QED
        BY <1>1, <1>2, <2>1, <2>2, <2>3, <2>4, <2>6, <2>7, <2>8, <2>9, <2>10, SwapStep
<1> QED
    BY <1>3, <1>4

\* A decision is stored in place of the undecided record its form was for.
LEMMA DecideSwapStep ==
    ASSUME PolledInv, NEW t \in Tasks, DecideSwap(t), flow' = flow
    PROVE  PolledInv'
<1> DEFINE r == task[t].rec
           h == [hist EXCEPT !.decisions = @ + 1, !.denied = @ \/ r.denied]
<1>1. /\ task[t].pc = "decide" /\ Done(t) /\ UNCHANGED <<now, mirror, lock>>
      /\ \/ Swaps(t) /\ entry' = Swapped(t) /\ hist' = h
         \/ UNCHANGED <<entry, hist>>
    BY DEF DecideSwap
<1>2. flow = "ciba" /\ mirror \in EntryState /\ lock \in Nat
    BY <1>1 DEF PolledInv, TypeOK, CibaOnly
<1>3. CASE UNCHANGED <<entry, hist>>
    BY <1>1, <1>2, <1>3, EndStep
<1>4. CASE Swaps(t) /\ entry' = Swapped(t) /\ hist' = h
    <2>1. /\ task' = [task EXCEPT ![t] = IdleTask] /\ IdleTask \in TaskState
          /\ Belongs(t, IdleTask) /\ CibaTask(IdleTask) /\ IdleTask.pc # "issue"
        BY <1>1, Constants DEF PollSteps, Done, Belongs, CibaTask, CibaOnly, DeviceOnly
    <2>2. /\ r.interval >= Interval /\ r.polled = hist.last
          /\ ~Undecided(r) /\ hist.decisions = 0
          /\ r \in RecState
        BY <1>1, <1>2, <1>4, SwapFacts DEF CibaTask, CibaStored, Undecided
    <2>3. ~hist.denied
        BY <1>1, <1>2, <1>4, SwapFacts DEF CibaTask, CibaStored, Undecided
    <2>4. hist.gap < Never => hist.gap >= Interval
        BY <1>2, <1>4, SwapFacts DEF CibaHist
    <2>5. r.denied \in BOOLEAN
        BY <2>2 DEF RecState
    <2> HIDE DEF r
    <2>6. PICK b \in BOOLEAN : b = (hist.denied \/ r.denied)
        BY <1>2, <1>4, <2>5, SwapFacts
    <2>7. hist' = [hist EXCEPT !.decisions = @ + 1, !.denied = b]
        BY <1>4, <2>6 DEF r
    <2>8. hist \in HistState
        BY <1>2, <1>4, SwapFacts
    <2>9. /\ hist' \in HistState /\ hist'.last = hist.last /\ hist'.tokens = hist.tokens
          /\ hist'.late = hist.late /\ hist'.gap = hist.gap
          /\ hist'.decisions = hist.decisions + 1 /\ hist'.denied = b
        <3> DEFINE k == [hist EXCEPT !.decisions = @ + 1, !.denied = b]
        <3>1. k \in HistState
            <4> DEFINE j == [hist EXCEPT !.decisions = @ + 1]
            <4>1. j \in HistState
                BY <2>8 DEF HistState
            <4>2. [j EXCEPT !.denied = TRUE] \in HistState /\ [j EXCEPT !.denied = FALSE] \in HistState
                <5> HIDE DEF j
                <5> QED
                    BY <4>1 DEF HistState
            <4>3. k = [j EXCEPT !.denied = b]
                BY <2>8 DEF HistState
            <4> HIDE DEF j, k
            <4> QED
                BY <4>2, <4>3
        <3>2. /\ k.last = hist.last /\ k.tokens = hist.tokens /\ k.gap = hist.gap
              /\ k.decisions = hist.decisions + 1
            BY <2>8 DEF HistState
        <3>3. k.late = hist.late /\ k.denied = b
            BY <2>8, Zenon DEF HistState
        <3> QED
            BY <2>7, <3>1, <3>2, <3>3
    <2>10. hist'.denied => r.denied
        BY <2>3, <2>6, <2>9
    <2>11. Live(entry) /\ entry' = [entry EXCEPT !.rec = r]
        BY <1>1, <1>2, <1>4, SwapFacts DEF r
    <2>12. /\ hist'.decisions <= 1 /\ (Undecided(r) <=> hist'.decisions = 0)
           /\ r.polled = hist'.last /\ (hist'.gap < Never => hist'.gap >= Interval)
        BY <2>2, <2>4, <2>9
    <2> QED
        BY <1>1, <1>2, <2>1, <2>2, <2>9, <2>10, <2>11, <2>12, SwapStep
<1> QED
    BY <1>1, <1>3, <1>4

\* The poll that takes the request finds it as it left it, approved.
LEMMA CibaConsumeStep ==
    ASSUME PolledInv, NEW t \in Tasks, CibaConsume(t), flow' = flow
    PROVE  PolledInv'
<1>1. /\ flow = "ciba" /\ task[t].pc = "consume" /\ UNCHANGED <<now, mirror, lock>>
      /\ \/ Goto(t, "unlock") /\ UNCHANGED <<entry, hist>>
         \/ /\ Takes(t) /\ entry' = NoEntry /\ Goto(t, "issue")
            /\ hist' = Taking(hist)
    BY DEF CibaConsume
<1>2. {"unlock", "issue"} \subseteq PCs /\ mirror \in EntryState /\ lock \in Nat
    BY DEF PolledInv, TypeOK, PCs
<1>3. CASE Goto(t, "unlock") /\ UNCHANGED <<entry, hist>>
    BY <1>1, <1>2, <1>3, OnStep
<1>4. CASE /\ Takes(t) /\ entry' = NoEntry /\ Goto(t, "issue")
           /\ hist' = Taking(hist)
    <2>1. PICK x \in TaskState :
              /\ task' = [task EXCEPT ![t] = x] /\ x.pc = "issue"
              /\ x.orig = task[t].orig /\ x.rec = task[t].rec
        BY <1>2, <1>4, GotoEffect DEF PolledInv
    <2>2. /\ Live(entry) /\ entry.rec = task[t].rec /\ CibaTask(task[t]) /\ CibaStored /\ CibaHist
          /\ CibaIssuing /\ hist \in HistState /\ entry.exp \in Nat /\ now \in Nat /\ t \in Polls
        BY <1>1, <1>4 DEF Takes, PolledInv, TypeOK, CibaInv, EntryState, PollSteps
    <2>3. entry.exp # 0 /\ now < Lifetime + StoreDelay
        BY <2>2, Constants DEF Live, CibaStored
    <2>4. /\ hist' \in HistState /\ hist'.late <= StoreDelay
          /\ hist'.tokens = hist.tokens /\ hist'.denied = hist.denied
          /\ hist'.decisions = hist.decisions /\ hist'.gap = hist.gap /\ hist'.last = hist.last
        <3>1. hist.late \in Nat /\ hist.late <= StoreDelay
            BY <2>2 DEF CibaHist, HistState
        <3>2. Lateness \in Nat /\ Lateness <= StoreDelay
            BY <2>2, <2>3, Constants DEF Lateness, Expired
        <3>3. PICK n \in Nat : n <= StoreDelay /\ hist' = [hist EXCEPT !.late = n]
            BY <1>4, <3>1, <3>2 DEF Taking
        <3> QED
            BY <2>2, <3>3 DEF HistState
    <2>5. ~hist.denied /\ hist.tokens = 0 /\ hist.decisions = 1
        BY <1>1, <2>2, <2>3 DEF CibaTask, CibaStored, CibaHist, Undecided, HistState
    <2>6. Belongs(t, x) /\ CibaTask(x)
        BY <1>1, <2>1, <2>2 DEF PollSteps, Belongs, CibaTask, CibaOnly, DeviceOnly
    <2>7. TypeOK'
        BY <1>1, <1>2, <1>4, <2>1, <2>2, <2>4, <2>6, TypeStep, Constants DEF PolledInv
    <2>8. \A u \in Tasks : task'[u] = IF u = t THEN x ELSE task[u]
        BY <2>1 DEF PolledInv, TypeOK
    <2>9. \A u \in Tasks : CibaTask(task'[u])
        BY <1>1, <2>6, <2>8 DEF PolledInv, CibaInv
    <2>10. CibaIssuing'
        BY <1>4, <2>2, <2>3, <2>4, <2>5, <2>8, Constants DEF CibaIssuing
    <2>11. CibaStored' /\ CibaHist'
        BY <1>4, <2>2, <2>4, Constants DEF CibaStored, CibaHist
    <2>12. CibaInv'
        BY <2>9, <2>10, <2>11 DEF CibaInv, CibaTask
    <2> QED
        BY <1>1, <2>7, <2>12 DEF PolledInv, DeviceInv
<1> QED
    BY <1>1, <1>3, <1>4

\* Tokens are counted by the one who consumed the record.
LEMMA IssueStep ==
    ASSUME PolledInv, NEW t \in Tasks, Issue(t), flow' = flow
    PROVE  PolledInv'
<1>1. /\ task[t].pc = "issue" /\ UNCHANGED <<now, entry, mirror, lock>>
      /\ hist' = [hist EXCEPT !.tokens = @ + 1, !.owners = @ \cup {task[t].rec.user}]
      /\ flow = "device" => Done(t)
      /\ flow # "device" => Goto(t, "unlock")
    BY DEF Issue
<1>2. /\ hist \in HistState /\ task[t] \in TaskState /\ task[t].rec.user \in Users \cup {Nobody}
      /\ hist.tokens \in Nat /\ t \in Polls /\ mirror \in EntryState /\ lock \in Nat
      /\ entry \in EntryState /\ flow \in {"device", "ciba"}
    BY <1>1, PolledAssumption DEF PolledInv, TypeOK, HistState, TaskState, RecState, PollSteps
<1>3. /\ hist' \in HistState /\ hist'.tokens = hist.tokens + 1
      /\ hist'.owners = hist.owners \cup {task[t].rec.user}
      /\ hist'.approvers = hist.approvers /\ hist'.clobbered = hist.clobbered
      /\ hist'.decisions = hist.decisions /\ hist'.gap = hist.gap /\ hist'.last = hist.last
    <2>1. PICK n \in Nat, O \in SUBSET (Users \cup {Nobody}) :
              n = hist.tokens + 1 /\ O = hist.owners \cup {task[t].rec.user}
        <3>1. hist.owners \in SUBSET (Users \cup {Nobody}) /\ hist.tokens + 1 \in Nat
            BY <1>2 DEF HistState
        <3>2. hist.owners \cup {task[t].rec.user} \in SUBSET (Users \cup {Nobody})
            BY <1>2, <3>1
        <3> QED
            BY <3>1, <3>2
    <2>2. hist' = [hist EXCEPT !.tokens = n, !.owners = O]
        BY <1>1, <2>1
    <2>3. [hist EXCEPT !.tokens = n, !.owners = O] \in HistState
        BY <1>2 DEF HistState
    <2>4. /\ hist'.tokens = n /\ hist'.owners = O
          /\ hist'.approvers = hist.approvers /\ hist'.clobbered = hist.clobbered
          /\ hist'.decisions = hist.decisions /\ hist'.gap = hist.gap /\ hist'.last = hist.last
        BY <1>2, <2>2 DEF HistState
    <2> QED
        BY <2>1, <2>2, <2>3, <2>4
<1>4. hist'.late = hist.late /\ hist'.denied = hist.denied
    BY <1>1, <1>2 DEF HistState
<1>5. CASE flow = "device"
    <2>1. task' = [task EXCEPT ![t] = IdleTask] /\ IdleTask \in TaskState
        BY <1>1, <1>5, Constants DEF Done
    <2>2. Belongs(t, IdleTask) /\ DeviceTask(t, IdleTask) /\ IdleTask.pc = "idle"
        BY Constants DEF PollSteps, Belongs, DeviceTask, CibaOnly, DeviceOnly
    <2>3. TypeOK'
        BY <1>1, <1>2, <1>3, <2>1, <2>2, TypeStep DEF PolledInv
    <2>4. \A u \in Tasks : DeviceTask(u, task'[u])
        BY <1>5, <2>1, <2>2 DEF PolledInv, DeviceInv, TypeOK
    <2>5. DeviceStored' /\ hist'.late = 0
        BY <1>1, <1>3, <1>4, <1>5 DEF PolledInv, DeviceInv, DeviceStored
    <2>6. hist'.owners \subseteq hist'.approvers
        BY <1>1, <1>2, <1>3, <1>5 DEF PolledInv, DeviceInv, DeviceTask
    <2>7. DevicePaid'
        <3>1. /\ Cardinality(Holders) \in Nat /\ Cardinality(Holders') \in Nat
              /\ Cardinality(Holders') = Cardinality(Holders) - 1
            BY <1>1, <2>1, <2>2, HolderStep DEF PolledInv
        <3>2. hist.clobbered \in Nat /\ DevicePaid
            BY <1>2, <1>5 DEF PolledInv, DeviceInv, HistState
        <3> QED
            BY <1>1, <1>2, <1>3, <3>1, <3>2 DEF DevicePaid
    <2>8. DeviceInv'
        BY <1>3, <2>4, <2>5, <2>6, <2>7 DEF DeviceInv, DeviceTask
    <2> QED
        BY <1>5, <2>3, <2>8 DEF PolledInv, CibaInv
<1>6. CASE flow = "ciba"
    <2>1. PICK x \in TaskState :
              /\ task' = [task EXCEPT ![t] = x] /\ x.pc = "unlock"
              /\ x.orig = task[t].orig /\ x.rec = task[t].rec
        BY <1>1, <1>6, GotoEffect DEF PolledInv, PCs
    <2>2. CibaTask(task[t]) /\ CibaStored /\ CibaHist /\ CibaIssuing
        BY <1>6 DEF PolledInv, CibaInv
    <2>3. entry.exp = 0 /\ hist.tokens = 0 /\ hist.decisions = 1 /\ ~hist.denied
        BY <1>1, <2>2 DEF CibaIssuing
    <2>4. Belongs(t, x) /\ CibaTask(x)
        BY <1>6, <2>1, <2>2 DEF PollSteps, Belongs, CibaTask, DeviceOnly
    <2>5. TypeOK'
        BY <1>1, <1>2, <1>3, <2>1, <2>4, TypeStep DEF PolledInv
    <2>6. \A u \in Tasks : task'[u] = IF u = t THEN x ELSE task[u]
        BY <2>1 DEF PolledInv, TypeOK
    <2>7. \A u \in Tasks : CibaTask(task'[u])
        BY <1>6, <2>4, <2>6 DEF PolledInv, CibaInv
    <2>8. CibaIssuing'
        BY <1>1, <2>1, <2>2, <2>6 DEF CibaIssuing
    <2>9. CibaStored' /\ CibaHist'
        BY <1>1, <1>3, <1>4, <2>2, <2>3 DEF CibaStored, CibaHist
    <2>10. CibaInv'
        BY <2>7, <2>8, <2>9 DEF CibaInv, CibaTask
    <2> QED
        BY <1>6, <2>5, <2>10 DEF PolledInv, DeviceInv
<1> QED
    BY <1>2, <1>5, <1>6

\* A device write replaces the record: one it has read, or at the cost of a
\* clobber.
LEMMA DeviceWriteStep ==
    ASSUME PolledInv, NEW t \in Tasks, DeviceWrite(t), flow' = flow
    PROVE  PolledInv'
<1> DEFINE clobbers == entry.rec # task[t].orig \/ ~Live(entry)
           approves == t \in Approvers
           e == [rec |-> task[t].rec, exp |-> now + task[t].ttl]
           n == IF clobbers THEN hist.clobbered + 1 ELSE hist.clobbered
           A == IF approves THEN hist.approvers \cup {task[t].rec.user} ELSE hist.approvers
           m == IF approves THEN hist.decisions + 1 ELSE hist.decisions
<1>1. /\ task[t].pc = "write" /\ UNCHANGED <<now, mirror, lock>>
      /\ task' = [task EXCEPT ![t] = [@ EXCEPT !.pc = "mirror", !.orig = NewRecord]]
      /\ \/ entry' = e /\ hist' = [hist EXCEPT !.clobbered = n, !.approvers = A, !.decisions = m]
         \/ UNCHANGED entry /\ hist' = Fail(hist)
    BY DEF DeviceWrite
<1>2. /\ flow = "device" /\ hist \in HistState /\ task[t] \in TaskState /\ now \in Nat
      /\ task[t].rec \in RecState /\ task[t].rec.user \in Users \cup {Nobody} /\ task[t].ttl \in Nat
      /\ mirror \in EntryState /\ lock \in Nat /\ "mirror" \in PCs
      /\ hist.clobbered \in Nat /\ hist.decisions \in Nat
      /\ hist.approvers \in SUBSET (Users \cup {Nobody})
    BY <1>1 DEF PolledInv, TypeOK, HistState, TaskState, RecState, PCs, DeviceOnly
<1>5. PICK x \in TaskState :
          task' = [task EXCEPT ![t] = x] /\ x.pc = "mirror" /\ x.rec = task[t].rec
    <2> DEFINE y == [task[t] EXCEPT !.pc = "mirror", !.orig = NewRecord]
    <2>1. y \in TaskState /\ y.pc = "mirror" /\ y.rec = task[t].rec
        BY <1>2, Constants DEF TaskState
    <2>2. task' = [task EXCEPT ![t] = y]
        BY <1>1
    <2> QED
        BY <2>1, <2>2
<1>6. Belongs(t, x)
    BY <1>2, <1>5 DEF PollSteps, Belongs, CibaOnly
<1>3. CASE UNCHANGED entry /\ hist' = Fail(hist)
    <2>1. DeviceTask(t, x)
        BY <1>2, <1>5 DEF PolledInv, DeviceInv, DeviceTask
    <2>2. hist' \in HistState /\ SameHist
        BY <1>3, BoundsOnly DEF PolledInv
    <2> QED
        BY <1>1, <1>2, <1>3, <1>5, <1>6, <2>1, <2>2, QuietStep
<1>4. CASE entry' = e /\ hist' = [hist EXCEPT !.clobbered = n, !.approvers = A, !.decisions = m]
    <2>2. n \in Nat /\ m \in Nat
        BY <1>2
    <2>3. A \in SUBSET (Users \cup {Nobody})
        BY <1>2
    <2>4. hist.approvers \subseteq A /\ (A # hist.approvers => approves)
          /\ (approves => task[t].rec.user \in A)
        OBVIOUS
    <2>5. e \in EntryState /\ e.rec = task[t].rec
        BY <1>2 DEF EntryState
    <2>6. /\ n >= hist.clobbered
          /\ n = 0 => hist.clobbered = 0 /\ entry.rec = task[t].orig /\ Live(entry)
          /\ entry.exp = 0 => n = hist.clobbered + 1
        BY <1>2 DEF Live
    <2> HIDE DEF n, m, A, e, clobbers, approves
    <2>7. [hist EXCEPT !.clobbered = n, !.approvers = A, !.decisions = m] \in HistState
        BY <1>2, <2>2, <2>3 DEF HistState
    <2>8. /\ hist'.tokens = hist.tokens /\ hist'.owners = hist.owners
          /\ hist'.clobbered = n /\ hist'.approvers = A /\ hist'.late = hist.late
        BY <1>2, <1>4 DEF HistState
    <2>10. TypeOK'
        BY <1>1, <1>2, <1>4, <1>5, <2>5, <2>7, <1>6, TypeStep DEF PolledInv
    <2>11. \A u \in Tasks : task'[u] = IF u = t THEN x ELSE task[u]
        BY <1>5 DEF PolledInv, TypeOK
    <2>12. DeviceTask(t, task[t]) /\ DeviceStored /\ DevicePaid
        BY <1>2 DEF PolledInv, DeviceInv
    <2>13. ASSUME NEW u \in Tasks PROVE DeviceTask(u, task[u])'
        BY <1>2, <1>5, <2>4, <2>8, <2>11 DEF PolledInv, DeviceInv, DeviceTask
    <2>14. DeviceStored'
        <3>1. t \notin Polls => t \in Approvers
            BY Constants
        <3>2. task[t].rec.authorized => task[t].rec.user \in A
            BY <2>4, <2>12, <3>1 DEF DeviceTask, approves
        <3>3. ASSUME A # {}, n = 0 PROVE task[t].rec.authorized
            <4>1. CASE t \notin Polls
                BY <1>1, <2>12, <4>1 DEF DeviceTask
            <4>2. CASE t \in Polls
                <5>1. A = hist.approvers
                    BY <2>4, <4>2, Constants DEF approves
                <5>2. entry.exp # 0
                    BY <2>6, <3>3, <1>2
                <5>3. entry.rec.authorized
                    BY <2>6, <2>12, <3>3, <5>1, <5>2 DEF DeviceStored
                <5> QED
                    BY <1>1, <2>6, <2>12, <3>3, <4>2, <5>3 DEF DeviceTask
            <4> QED
                BY <4>1, <4>2
        <3> QED
            BY <1>4, <2>5, <2>8, <3>2, <3>3 DEF DeviceStored
    <2>15. DevicePaid'
        <3>1. /\ Cardinality(Holders) \in Nat /\ Cardinality(Holders') \in Nat
              /\ Cardinality(Holders') <= Cardinality(Holders)
            BY <1>5, <1>6, HolderStep DEF PolledInv
        <3>2. hist.tokens \in Nat
            BY <1>2 DEF HistState
        <3> QED
            BY <1>2, <2>2, <2>6, <2>8, <2>12, <3>1, <3>2 DEF DevicePaid
    <2>16. hist'.owners \subseteq hist'.approvers /\ hist'.late = 0
        BY <1>2, <2>4, <2>8 DEF PolledInv, DeviceInv
    <2>17. DeviceInv'
        BY <2>13, <2>14, <2>15, <2>16 DEF DeviceInv
    <2> QED
        BY <1>2, <2>10, <2>17 DEF PolledInv, CibaInv
<1> QED
    BY <1>1, <1>3, <1>4

\* The take: a valid record is held by one poll, any other is burnt.
LEMMA DeviceConsumeStep ==
    ASSUME PolledInv, NEW t \in Tasks, DeviceConsume(t), flow' = flow
    PROVE  PolledInv'
<1>1. /\ flow = "device" /\ task[t].pc = "consume" /\ UNCHANGED <<now, mirror, lock>>
      /\ entry' = NoEntry
      /\ \/ Done(t) /\ UNCHANGED hist
         \/ /\ Live(entry) /\ ~Expired /\ Goto(t, "clean")
            /\ hist' = Taking(hist)
    BY DEF DeviceConsume, Taken, ConsumedValid
<1>2. /\ hist \in HistState /\ task[t] \in TaskState /\ entry.exp \in Nat /\ now \in Nat
      /\ mirror \in EntryState /\ lock \in Nat /\ "clean" \in PCs /\ t \in Polls
    BY <1>1 DEF PolledInv, TypeOK, PCs, EntryState, PollSteps
<1>3. hist' = hist
    <2>1. CASE hist' = Taking(hist) /\ ~Expired
        <3>1. hist.late = 0 /\ Lateness = 0
            BY <1>1, <2>1 DEF PolledInv, DeviceInv, Lateness
        <3>2. hist' = [hist EXCEPT !.late = hist.late]
            BY <2>1, <3>1 DEF Taking
        <3> QED
            BY <1>2, <3>2 DEF HistState
    <2> QED
        BY <1>1, <2>1
<1>4. PICK x \in TaskState :
          /\ task' = [task EXCEPT ![t] = x] /\ x.pc \in {"idle", "clean"}
          /\ x.rec = NewRecord \/ x.rec = task[t].rec
          /\ x.pc = "clean" => Live(entry) /\ x.rec = task[t].rec
    <2>1. CASE Done(t)
        BY <2>1, Constants DEF Done
    <2>2. CASE Live(entry) /\ Goto(t, "clean")
        BY <1>2, <2>2, GotoEffect DEF PolledInv
    <2> QED
        BY <1>1, <2>1, <2>2
<1>5. Belongs(t, x)
    BY <1>1, <1>2, <1>4 DEF PollSteps, Belongs, CibaOnly
<1>6. TypeOK'
    BY <1>1, <1>2, <1>3, <1>4, <1>5, TypeStep, Constants DEF PolledInv
<1>7. DeviceTask(t, task[t]) /\ DevicePaid
    BY <1>1 DEF PolledInv, DeviceInv
<1>8. DeviceTask(t, x)
    BY <1>1, <1>4, <1>7, Constants DEF DeviceTask
<1>9. \A u \in Tasks : DeviceTask(u, task'[u])
    BY <1>1, <1>4, <1>8 DEF PolledInv, DeviceInv, TypeOK
<1>10. DeviceStored'
    BY <1>1, Constants DEF DeviceStored
<1>11. DevicePaid'
    <2>1. /\ Cardinality(Holders) \in Nat /\ Cardinality(Holders') \in Nat
          /\ Cardinality(Holders') <= Cardinality(Holders) + 1
          /\ x.pc = "idle" => Cardinality(Holders') <= Cardinality(Holders)
        BY <1>4, <1>5, HolderStep DEF PolledInv
    <2>2. x.pc = "clean" => entry.exp # 0
        BY <1>2, <1>4 DEF Live
    <2>3. hist.tokens \in Nat /\ hist.clobbered \in Nat
        BY <1>2 DEF HistState
    <2> QED
        BY <1>1, <1>3, <1>4, <1>7, <2>1, <2>2, <2>3, Constants DEF DevicePaid
<1>12. DeviceInv'
    BY <1>1, <1>3, <1>9, <1>10, <1>11 DEF PolledInv, DeviceInv, DeviceTask
<1> QED
    BY <1>1, <1>6, <1>12 DEF PolledInv, CibaInv

-----------------------------------------------------------------------------
(* The theorems. *)

\* Time and stuttering disturb nothing.
LEMMA TickStep ==
    ASSUME PolledInv, now' \in Nat, UNCHANGED <<flow, entry, mirror, lock, task, hist>>
    PROVE  PolledInv'
<1>1. TypeOK'
    BY DEF PolledInv, TypeOK
<1>2. CibaInv'
    BY DEF PolledInv, CibaInv, CibaTask, CibaStored, CibaIssuing, CibaHist, Undecided
<1>3. Holders' = Holders
    BY DEF Holders
<1>4. DeviceInv'
    BY <1>3 DEF PolledInv, DeviceInv, DeviceTask, DeviceStored, DevicePaid
<1> QED
    BY <1>1, <1>2, <1>4 DEF PolledInv

\* Every step keeps the invariant.
LEMMA StepPolled == PolledInv /\ [Next]_vars => PolledInv'
<1> SUFFICES ASSUME PolledInv, [Next]_vars PROVE PolledInv'
    OBVIOUS
<1>1. now \in Nat
    BY DEF PolledInv, TypeOK
<1>2. CASE UNCHANGED vars
    BY <1>1, <1>2, TickStep DEF vars
<1>3. CASE Tick /\ UNCHANGED flow
    BY <1>1, <1>3, TickStep DEF Tick
<1> QED
    BY <1>2, <1>3, DevicePollStep, VerifyReadStep, VerifyAuthenticateStep, DeviceWriteStep,
       DeviceWriteMirrorStep, DeviceConsumeStep, DeviceCleanStep, CibaPollStep, CibaLockStep,
       CibaSlowStep, CibaPaceStep, CibaConsumeStep, CibaUnlockStep, DecideReadStep,
       DecideSwapStep, LoadUserStep, IssueStep, LoseStep DEF Next

\* PolledInv holds always.
THEOREM PolledSafe == Spec => []PolledInv
BY InitPolled, StepPolled, PTL DEF Spec

\* However polls and forms race, and although the poll lock expires and is
\* deleted by whoever finishes, one decision on a CIBA request is stored and
\* one response carries tokens, after an approval (poll_locked,
\* ciba_approve_handler).
THEOREM CibaOnce == Spec => []CibaExchangedOnce
<1>1. PolledInv => CibaExchangedOnce
    BY DEF PolledInv, TypeOK, HistState, CibaInv, CibaHist, CibaExchangedOnce
<1> QED
    BY <1>1, PolledSafe, PTL

\* Polls that CIBA lets through are an interval apart: the time stored is
\* swapped for the one it was compared with (poll_locked).
THEOREM CibaPaced == Spec => []CibaPollsPaced
<1>1. PolledInv => CibaPollsPaced
    BY DEF PolledInv, CibaInv, CibaHist, CibaPollsPaced
<1> QED
    BY <1>1, PolledSafe, PTL

\* A device code is never redeemed past its expires_at, although its writes
\* carry a TTL computed some time before, and a CIBA request past its own only
\* by as much as storing it was delayed: nothing gives its entry a new TTL.
THEOREM TokensInTime == Spec => []NoLateTokens
<1>1. PolledInv => NoLateTokens
    BY DEF PolledInv, CibaInv, CibaHist, DeviceInv, NoLateTokens
<1> QED
    BY <1>1, PolledSafe, PTL

\* A device code gives tokens only in the name of somebody who signed in for
\* it, and more than once only by a write over a record its writer had not
\* read (token_handler, device_verify_handler).
THEOREM DeviceOnce == Spec => []DeviceApprovalSpentOnce
<1>1. ASSUME PolledInv, flow = "device" PROVE DeviceApprovalSpentOnce
    <2>1. hist.tokens <= 1 + hist.clobbered
        <3>1. IsFiniteSet(Holders)
            BY Constants, FS_Subset DEF Holders
        <3>2. Cardinality(Holders) \in Nat
            BY <3>1, FS_CardinalityType
        <3>3. hist.tokens \in Nat /\ hist.clobbered \in Nat /\ DevicePaid
            BY <1>1 DEF PolledInv, TypeOK, HistState, DeviceInv
        <3> QED
            BY <3>2, <3>3 DEF DevicePaid
    <2>2. Live(entry) => entry.exp # 0
        BY <1>1 DEF Live, PolledInv, TypeOK, EntryState
    <2> QED
        BY <1>1, <2>1, <2>2 DEF PolledInv, DeviceInv, DeviceStored, DeviceApprovalSpentOnce
<1>2. PolledInv => DeviceApprovalSpentOnce
    BY <1>1 DEF DeviceApprovalSpentOnce
<1> QED
    BY <1>2, PolledSafe, PTL

-----------------------------------------------------------------------------
(* Brokering: what is in the hands of requests, pages and accounts. *)

\* The shapes of requests, accounts, entries and of the history.
BrokerPCs == {"idle", "flow", "find", "load", "email", "form", "password", "create", "bind", "undo",
              "revoke", "held", "grant", "save", "login", "unlink"}
Ids       == [subj : Subjects \cup {Broker!None}, mail : Broker!Mails, match : BOOLEAN]
BrokerTask == [pc : BrokerPCs, flow : Browsers \cup {Broker!None}, id : Ids,
               user : Broker!Accounts \cup {Broker!None}, rec : BOOLEAN,
               held : {"unknown", "yes", "no"},
               pass : {"skip", "create", "force", "link", "attach"}, tries : Nat]
AccState  == [here : BOOLEAN, role : BOOLEAN, rec : BOOLEAN, mail : Broker!Mails]
FormState == [here : BOOLEAN, id : Ids, user : Broker!Accounts \cup {Broker!None}, tries : Nat]
BrokerHist == [logins : [Browsers -> Nat], wrong : [Browsers -> Nat],
               made : SUBSET Broker!Accounts, linked : SUBSET Broker!Accounts,
               entered : SUBSET Broker!Accounts, crossed : SUBSET Broker!Accounts,
               stranded : SUBSET Broker!Accounts, removed : SUBSET Broker!Accounts,
               local : SUBSET Broker!Accounts, trips : Nat, submits : Nat, events : Nat]

\* Every variable has its shape.
BrokerTypes ==
    /\ idp \in [trust : BOOLEAN, force : BOOLEAN]
    /\ acc \in [Broker!Accounts -> AccState]
    /\ link \in [Subjects -> Broker!Accounts \cup {Broker!None}]
    /\ pending \in [Browsers -> BOOLEAN]
    /\ entry \in [Browsers -> FormState]
    /\ task \in [Requests -> BrokerTask]
    /\ hist \in BrokerHist

\* The work on an account's roles.
Roles == {"revoke", "held", "grant", "save"}

\* Where a request is says for what it maps and what it has in its hands.
Placed(x) ==
    /\ x.pc \in {"flow", "load", "email", "form", "password"} => x.pass = "skip"
    /\ x.pc = "find" => x.pass \in {"skip", "attach"}
    /\ x.pc \in {"create", "undo"} => x.pass = "create"
    /\ x.pc = "bind" => x.pass \in {"create", "link", "attach"}
    /\ x.pc \in Roles => x.pass \in {"create", "force", "link"}
    /\ x.pc \in {"idle", "login", "unlink"} => x.pass = "skip"
    /\ x.pc \notin {"idle", "unlink"} /\ x.pass # "attach" => x.flow \in Browsers
    /\ x.pc \notin {"idle", "login", "unlink"} => x.id.subj \in Subjects
    /\ x.pc \in Roles \cup {"load", "password", "bind", "undo", "login", "unlink"} =>
          x.user \in Broker!Accounts
    /\ x.pass = "attach" => x.user \in Broker!Accounts
    /\ x.pc \in {"flow", "email", "create"} \/ (x.pc = "find" /\ x.pass = "skip") =>
          x.user = Broker!None
    /\ x.pc \in {"flow", "find", "load", "email", "form", "create"} => x.rec = FALSE
    /\ x.pc = "revoke" => x.rec = TRUE

\* Request x has taken flow f.
Holds(x, f) == x.flow = f /\ x.pc \notin {"idle", "flow", "unlink"} /\ x.pass # "attach"

\* A flow that a request holds is neither pending nor in an entry, nor spent, and
\* on the pages it has had as many wrong passwords as the request says.
FlowTask(x) ==
    \A f \in Browsers : Holds(x, f) =>
        /\ pending[f] = FALSE /\ entry[f].here = FALSE /\ hist.logins[f] = 0
        /\ x.pc \in {"find", "load", "email"} => hist.wrong[f] = 0
        /\ x.pc \in {"form", "password"} => hist.wrong[f] = x.tries /\ x.tries < MaxFailures

\* A flow is pending, in an entry, in the hands of one request, or spent.
FlowInv ==
    /\ \A f \in Browsers :
        /\ hist.logins[f] <= 1 /\ hist.wrong[f] <= MaxFailures
        /\ pending[f] = TRUE => entry[f].here = FALSE /\ hist.logins[f] = 0 /\ hist.wrong[f] = 0
        /\ entry[f].here = TRUE => /\ entry[f].id.subj \in Subjects /\ hist.logins[f] = 0
                            /\ hist.wrong[f] = entry[f].tries /\ entry[f].tries < MaxFailures
    /\ \A t \in Requests : FlowTask(task[t])
    /\ \A t, u \in Requests, f \in Browsers : Holds(task[t], f) /\ Holds(task[u], f) => t = u

\* A request there has a copy of its account's row.
Copying == Roles \cup {"password", "bind"}

\* The copy has no record of a local role, and no grant of it will be recorded.
RoleTask(x) ==
    x.user \in hist.local /\ x.pc \in Copying =>
        x.rec = FALSE /\ (x.pc = "grant" => x.held = "unknown")

\* A local role is held, and nothing claims that a mapper granted it.
RoleInv ==
    /\ \A a \in hist.local : acc[a].here = TRUE /\ acc[a].role = TRUE /\ acc[a].rec = FALSE
    /\ \A t \in Requests : RoleTask(task[t])

\* Request x is the one that created account a.
Creates(x, a) == x.pass = "create" /\ x.user = a

\* A new account is at hand: it was created, one to log in to was linked, and one
\* its creator still works on was linked by others only.
NewsTask(x) ==
    x.user \in News =>
        /\ x.user \in hist.made
        /\ x.pc \in {"load", "login"} \/ (x.pc \in Roles /\ x.pass # "create") => x.user \in hist.linked
        /\ x.pass = "create" /\ x.user \in hist.linked => x.user \in hist.crossed

\* A new account that is there was linked or stranded, or has a creator, and only
\* one; one that was logged in to was linked before.
NewsInv ==
    /\ \A t \in Requests : NewsTask(task[t])
    /\ \A f \in Browsers : entry[f].user \in News => entry[f].user \in hist.made
    /\ \A s \in Subjects : link[s] \in News => link[s] \in hist.linked
    /\ \A a \in News :
        /\ a \in hist.linked => a \in hist.made
        /\ a \in hist.entered => a \in hist.linked
        /\ a \notin hist.made => acc[a].here = FALSE
        /\ \A t, u \in Requests : Creates(task[t], a) /\ Creates(task[u], a) => t = u
        /\ acc[a].here = TRUE => \/ a \in hist.linked \cup hist.stranded
                                 \/ \E t \in Requests : Creates(task[t], a)
        /\ a \in hist.entered /\ acc[a].here = FALSE => a \in hist.removed \cup hist.crossed

\* The inductive invariant.
BrokerInv ==
    /\ BrokerTypes /\ \A t \in Requests : Placed(task[t])
    /\ FlowInv /\ RoleInv /\ NewsInv

-----------------------------------------------------------------------------
(* What a step does to one request, and what it leaves alone. *)

\* Accounts that have a password are none that the broker creates.
LEMMA BrokerConstants ==
    /\ Broker!None = "none" /\ Broker!None \notin Broker!Accounts /\ Broker!None \notin News
    /\ News \subseteq Broker!Accounts /\ Locals \subseteq Broker!Accounts
    /\ Locals \cap News = {} /\ MaxFailures \in Nat /\ MaxFailures > 0
  BY RecordsAssumption DEF RecordsAssumption, Broker!None, Broker!Accounts

\* What the fields of a history are.
LEMMA BrokerHistFields ==
    ASSUME NEW h \in BrokerHist
    PROVE  /\ h.logins \in [Browsers -> Nat] /\ h.wrong \in [Browsers -> Nat]
           /\ h.made \subseteq Broker!Accounts /\ h.linked \subseteq Broker!Accounts
           /\ h.entered \subseteq Broker!Accounts /\ h.crossed \subseteq Broker!Accounts
           /\ h.stranded \subseteq Broker!Accounts /\ h.removed \subseteq Broker!Accounts
           /\ h.local \subseteq Broker!Accounts
           /\ h.trips \in Nat /\ h.submits \in Nat /\ h.events \in Nat
  BY DEF BrokerHist

\* What the fields of a request are.
LEMMA BrokerTaskFields ==
    ASSUME NEW x \in BrokerTask
    PROVE  /\ x.pc \in BrokerPCs /\ x.flow \in Browsers \cup {Broker!None} /\ x.id \in Ids
           /\ x.user \in Broker!Accounts \cup {Broker!None} /\ x.rec \in BOOLEAN
           /\ x.held \in {"unknown", "yes", "no"}
           /\ x.pass \in {"skip", "create", "force", "link", "attach"} /\ x.tries \in Nat
  BY DEF BrokerTask

\* A history that agrees with h on all but its bounds.
Tallied(h) ==
    /\ h \in BrokerHist
    /\ h.logins = hist.logins /\ h.wrong = hist.wrong /\ h.made = hist.made
    /\ h.linked = hist.linked /\ h.entered = hist.entered /\ h.crossed = hist.crossed
    /\ h.stranded = hist.stranded /\ h.removed = hist.removed /\ h.local = hist.local

\* Calls that work or fail, round trips and forms only move their bounds.
LEMMA BoundsMove ==
    ASSUME hist \in BrokerHist,
           \/ Broker!Works \/ Broker!Fault \/ UNCHANGED hist
           \/ hist' = [hist EXCEPT !.trips = @ + 1] \/ hist' = [hist EXCEPT !.submits = @ + 1]
    PROVE  Tallied(hist')
<1>1. CASE UNCHANGED hist
  BY <1>1 DEF Tallied
<1>2. CASE Broker!Fault
  <2>1. PICK h : h = [hist EXCEPT !.events = @ + 1]
    OBVIOUS
  <2>2. h \in BrokerHist
    BY <2>1 DEF BrokerHist
  <2>3. hist' = h
    BY <1>2, <2>1 DEF Broker!Fault
  <2> QED BY <2>1, <2>2, <2>3 DEF Tallied, BrokerHist
<1>3. CASE hist' = [hist EXCEPT !.trips = @ + 1]
  <2>1. PICK h : h = [hist EXCEPT !.trips = @ + 1]
    OBVIOUS
  <2>2. h \in BrokerHist
    BY <2>1 DEF BrokerHist
  <2> QED BY <1>3, <2>1, <2>2 DEF Tallied, BrokerHist
<1>4. CASE hist' = [hist EXCEPT !.submits = @ + 1]
  <2>1. PICK h : h = [hist EXCEPT !.submits = @ + 1]
    OBVIOUS
  <2>2. h \in BrokerHist
    BY <2>1 DEF BrokerHist
  <2> QED BY <1>4, <2>1, <2>2 DEF Tallied, BrokerHist
<1> QED BY <1>1, <1>2, <1>3, <1>4 DEF Broker!Works

\* What a request at rest is.
LEMMA IdleRequest ==
    /\ Broker!IdleTask \in BrokerTask /\ Placed(Broker!IdleTask) /\ FlowTask(Broker!IdleTask)
    /\ RoleTask(Broker!IdleTask) /\ NewsTask(Broker!IdleTask)
    /\ Broker!IdleTask.user = Broker!None /\ Broker!IdleTask.pc = "idle"
    /\ \A f \in Browsers : ~Holds(Broker!IdleTask, f)
    /\ \A a : ~Creates(Broker!IdleTask, a)
<1>1. PICK x : x = Broker!IdleTask
  OBVIOUS
<1>2. /\ x.pc = "idle" /\ x.flow = Broker!None /\ x.id = Broker!NoId /\ x.user = Broker!None
      /\ x.rec = FALSE /\ x.held = "unknown" /\ x.pass = "skip" /\ x.tries = 0
  BY <1>1 DEF Broker!IdleTask
<1>3. Broker!NoId \in Ids
  BY DEF Broker!NoId, Ids, Broker!Mails
<1>4. x \in BrokerTask
  BY <1>1, <1>3 DEF Broker!IdleTask, BrokerTask, BrokerPCs
<1>5. Placed(x)
  BY <1>2 DEF Placed, Roles
<1>6. FlowTask(x) /\ RoleTask(x) /\ NewsTask(x)
  BY <1>2, BrokerConstants DEF FlowTask, Holds, RoleTask, Copying, Roles, NewsTask
<1> QED BY <1>1, <1>2, <1>4, <1>5, <1>6 DEF Holds, Creates

\* One request moves.
LEMMA OthersStay ==
    ASSUME BrokerInv, NEW t \in Requests, NEW x \in BrokerTask, task' = [task EXCEPT ![t] = x],
           Placed(x)
    PROVE  /\ task' \in [Requests -> BrokerTask] /\ task'[t] = x
           /\ \A u \in Requests : u # t => task'[u] = task[u]
           /\ \A u \in Requests : Placed(task'[u])
  BY DEF BrokerInv, BrokerTypes

\* Flows, when only requests change.
LEMMA FlowFrame ==
    ASSUME BrokerInv, NEW t \in Requests, NEW x \in BrokerTask, task' = [task EXCEPT ![t] = x],
           UNCHANGED <<pending, entry>>, hist'.logins = hist.logins, hist'.wrong = hist.wrong,
           FlowTask(x), \A f \in Browsers : Holds(x, f) => Holds(task[t], f)
    PROVE  FlowInv'
<1>1. /\ task'[t] = x /\ \A u \in Requests : u # t => task'[u] = task[u]
  BY DEF BrokerInv, BrokerTypes
<1>2. \A u \in Requests : FlowTask(task[u])'
  BY <1>1 DEF BrokerInv, FlowInv, FlowTask
<1>3. \A u, w \in Requests, f \in Browsers : Holds(task'[u], f) /\ Holds(task'[w], f) => u = w
  <2> SUFFICES ASSUME NEW u \in Requests, NEW w \in Requests, NEW f \in Browsers,
                      Holds(task'[u], f), Holds(task'[w], f)
               PROVE  u = w
    OBVIOUS
  <2>1. Holds(task[u], f) /\ Holds(task[w], f)
    BY <1>1
  <2> QED BY <2>1 DEF BrokerInv, FlowInv
<1> QED BY <1>2, <1>3 DEF BrokerInv, FlowInv

\* Roles, when the accounts that are watched stay as they are.
LEMMA RoleFrame ==
    ASSUME BrokerInv, NEW t \in Requests, NEW x \in BrokerTask, task' = [task EXCEPT ![t] = x],
           hist'.local \subseteq hist.local,
           \A a \in hist'.local : /\ acc'[a].here = acc[a].here /\ acc'[a].role = acc[a].role
                                  /\ acc'[a].rec = acc[a].rec,
           RoleTask(x)
    PROVE  RoleInv'
<1>1. /\ task'[t] = x /\ \A u \in Requests : u # t => task'[u] = task[u]
  BY DEF BrokerInv, BrokerTypes
<1>2. \A u \in Requests : RoleTask(task[u])'
  BY <1>1 DEF BrokerInv, RoleInv, RoleTask
<1>3. \A a \in hist'.local : acc'[a].here = TRUE /\ acc'[a].role = TRUE /\ acc'[a].rec = FALSE
  BY DEF BrokerInv, RoleInv
<1> QED BY <1>2, <1>3 DEF RoleInv

\* New accounts, when none appears or goes and none is linked.
LEMMA NewsFrame ==
    ASSUME BrokerInv, NEW t \in Requests, NEW x \in BrokerTask, task' = [task EXCEPT ![t] = x],
           \A a \in News : \/ acc'[a].here = acc[a].here
                           \/ /\ acc'[a].here = FALSE
                              /\ a \in hist.entered => a \in hist'.removed \cup hist.crossed,
           \A s \in Subjects : link'[s] \in {link[s], Broker!None},
           \A f \in Browsers : entry'[f].user \in News => entry'[f].user \in hist.made,
           hist'.made = hist.made, hist'.linked = hist.linked, hist'.entered = hist.entered,
           hist'.crossed = hist.crossed, hist.stranded \subseteq hist'.stranded,
           hist.removed \subseteq hist'.removed,
           NewsTask(x),
           \A a \in News : Creates(x, a) => Creates(task[t], a),
           \A a \in News : Creates(task[t], a) => \/ Creates(x, a) \/ a \in hist'.stranded
                                                     \/ acc'[a].here = FALSE
    PROVE  NewsInv'
<1>1. /\ task'[t] = x /\ \A u \in Requests : u # t => task'[u] = task[u]
  BY DEF BrokerInv, BrokerTypes
<1>2. \A u \in Requests : NewsTask(task[u])'
  BY <1>1 DEF BrokerInv, NewsInv, NewsTask
<1>3. \A s \in Subjects : link'[s] \in News => link'[s] \in hist'.linked
  BY BrokerConstants DEF BrokerInv, NewsInv
<1>4. ASSUME NEW a \in News
      PROVE  \A u, w \in Requests : Creates(task'[u], a) /\ Creates(task'[w], a) => u = w
  <2>1. \A u \in Requests : Creates(task'[u], a) => Creates(task[u], a)
    BY <1>1
  <2> QED BY <2>1 DEF BrokerInv, NewsInv
<1>5. ASSUME NEW a \in News, acc'[a].here = TRUE
      PROVE  a \in hist'.linked \cup hist'.stranded \/ \E u \in Requests : Creates(task'[u], a)
  <2>1. a \in hist.linked \cup hist.stranded \/ \E u \in Requests : Creates(task[u], a)
    BY <1>5 DEF BrokerInv, NewsInv
  <2>2. ASSUME NEW u \in Requests, Creates(task[u], a)
        PROVE  a \in hist'.stranded \/ Creates(task'[u], a)
    BY <1>1, <1>5, <2>2
  <2> QED BY <2>1, <2>2
<1>6. \A a \in News :
        /\ a \in hist'.linked => a \in hist'.made
        /\ a \in hist'.entered => a \in hist'.linked
        /\ a \notin hist'.made => acc'[a].here = FALSE
        /\ a \in hist'.entered /\ acc'[a].here = FALSE => a \in hist'.removed \cup hist'.crossed
  BY DEF BrokerInv, NewsInv
<1>7. \A f \in Browsers : entry'[f].user \in News => entry'[f].user \in hist'.made
  OBVIOUS
<1> QED BY <1>2, <1>3, <1>4, <1>5, <1>6, <1>7 DEF NewsInv

\* A step that only moves a request.
LEMMA RequestMoves ==
    ASSUME BrokerInv, NEW t \in Requests, NEW x \in BrokerTask, task' = [task EXCEPT ![t] = x],
           UNCHANGED <<idp, acc, link, pending, entry>>, Tallied(hist'),
           Placed(x), FlowTask(x), RoleTask(x), NewsTask(x),
           \A f \in Browsers : Holds(x, f) => Holds(task[t], f),
           \A a \in News : Creates(x, a) <=> Creates(task[t], a)
    PROVE  BrokerInv'
<1>1. BrokerTypes' /\ \A u \in Requests : Placed(task'[u])
  BY OthersStay DEF BrokerInv, BrokerTypes, Tallied
<1>2. FlowInv'
  BY FlowFrame DEF Tallied
<1>3. RoleInv'
  BY RoleFrame DEF Tallied
<1>4. NewsInv'
  BY NewsFrame DEF Tallied, BrokerInv, NewsInv
<1> QED BY <1>1, <1>2, <1>3, <1>4 DEF BrokerInv

\* What the invariant says of one request.
LEMMA OneRequest ==
    ASSUME BrokerInv, NEW t \in Requests
    PROVE  /\ task[t] \in BrokerTask /\ Placed(task[t]) /\ FlowTask(task[t]) /\ RoleTask(task[t])
           /\ NewsTask(task[t])
  BY DEF BrokerInv, BrokerTypes, FlowInv, RoleInv, NewsInv

\* A request that has created no account ends.
LEMMA RequestEnds ==
    ASSUME BrokerInv, NEW t \in Requests, Broker!Done(t),
           UNCHANGED <<idp, acc, link, pending, entry>>, Tallied(hist'),
           \A a \in News : ~Creates(task[t], a)
    PROVE  BrokerInv'
<1>1. task' = [task EXCEPT ![t] = Broker!IdleTask]
  BY DEF Broker!Done, Broker!Set
<1> QED BY <1>1, IdleRequest, RequestMoves

-----------------------------------------------------------------------------
(* The round trip *)

\* A request for a flow holds nothing yet, one for linking no flow.
LEMMA BrokerRoundTrip ==
    ASSUME BrokerInv, NEW t \in Requests, Broker!RoundTrip(t)
    PROVE  BrokerInv'
<1>1. Tallied(hist') /\ task[t].pc = "idle" /\ UNCHANGED <<idp, acc, link, pending, entry>>
  BY BoundsMove DEF Broker!RoundTrip, BrokerInv, BrokerTypes
<1>2. \A a \in News : ~Creates(task[t], a)
  BY <1>1, OneRequest DEF Placed, Creates
<1>3. ASSUME NEW i \in [subj : Subjects, mail : {"none"}, match : BOOLEAN], NEW f \in Browsers,
             Broker!Set(t, [Broker!IdleTask EXCEPT !.pc = "flow", !.flow = f, !.id = i])
      PROVE  BrokerInv'
  <2>1. PICK x : x = [Broker!IdleTask EXCEPT !.pc = "flow", !.flow = f, !.id = i]
    OBVIOUS
  <2>2. i \in Ids /\ i.subj \in Subjects
    BY DEF Ids, Broker!Mails
  <2>3. x \in BrokerTask
    BY <2>1, <2>2, IdleRequest DEF BrokerTask, BrokerPCs
  <2>4. /\ x.pc = "flow" /\ x.flow = f /\ x.id = i /\ x.user = Broker!None /\ x.pass = "skip"
        /\ x.rec = FALSE
    BY <2>1, IdleRequest DEF BrokerTask, Broker!IdleTask
  <2>5. Placed(x)
    BY <2>2, <2>4 DEF Placed, Roles
  <2>6. FlowTask(x) /\ RoleTask(x) /\ NewsTask(x) /\ \A g \in Browsers : ~Holds(x, g)
    BY <2>4, BrokerConstants DEF FlowTask, Holds, RoleTask, Copying, Roles, NewsTask
  <2>7. \A a \in News : ~Creates(x, a)
    BY <2>4 DEF Creates
  <2> QED BY <1>1, <1>2, <1>3, <2>1, <2>3, <2>5, <2>6, <2>7, RequestMoves DEF Broker!Set
<1>4. ASSUME NEW i \in [subj : Subjects, mail : {"none"}, match : BOOLEAN],
             NEW a \in Locals \cup hist.entered,
             Broker!Set(t, [Broker!IdleTask EXCEPT !.pc = "find", !.user = a, !.id = i,
                                                   !.pass = "attach"])
      PROVE  BrokerInv'
  <2>1. PICK x : x = [Broker!IdleTask EXCEPT !.pc = "find", !.user = a, !.id = i, !.pass = "attach"]
    OBVIOUS
  <2>2. i \in Ids /\ i.subj \in Subjects /\ a \in Broker!Accounts
    BY BrokerHistFields, BrokerConstants DEF Ids, Broker!Mails, BrokerInv, BrokerTypes
  <2>3. x \in BrokerTask
    BY <2>1, <2>2, IdleRequest DEF BrokerTask, BrokerPCs
  <2>4. /\ x.pc = "find" /\ x.id = i /\ x.user = a /\ x.pass = "attach" /\ x.rec = FALSE
    BY <2>1, IdleRequest DEF BrokerTask, Broker!IdleTask
  <2>5. Placed(x)
    BY <2>2, <2>4 DEF Placed, Roles
  <2>6. FlowTask(x) /\ RoleTask(x) /\ \A g \in Browsers : ~Holds(x, g)
    BY <2>4 DEF FlowTask, Holds, RoleTask, Copying, Roles
  <2>7. NewsTask(x)
    BY <2>4, BrokerConstants DEF NewsTask, BrokerInv, NewsInv, Roles
  <2>8. \A b \in News : ~Creates(x, b)
    BY <2>4 DEF Creates
  <2> QED BY <1>1, <1>2, <1>4, <2>1, <2>3, <2>5, <2>6, <2>7, <2>8, RequestMoves DEF Broker!Set
<1> QED BY <1>3, <1>4 DEF Broker!RoundTrip

\* The pending entry goes to one request, which holds the flow from then on.
LEMMA BrokerTakePending ==
    ASSUME BrokerInv, NEW t \in Requests, Broker!TakePending(t)
    PROVE  BrokerInv'
<1>1. PICK f \in Browsers : f = task[t].flow
  BY OneRequest DEF Placed, Broker!TakePending
<1>2. /\ task[t].pc = "flow" /\ task[t].pass = "skip" /\ task[t].id.subj \in Subjects
      /\ task[t].rec = FALSE /\ task[t] \in BrokerTask
      /\ pending' = [pending EXCEPT ![f] = FALSE] /\ UNCHANGED <<idp, acc, link, entry, hist>>
      /\ pending \in [Browsers -> BOOLEAN]
  BY <1>1, OneRequest DEF Placed, Broker!TakePending, BrokerInv, BrokerTypes
<1>3. \E x \in BrokerTask :
        /\ task' = [task EXCEPT ![t] = x] /\ Placed(x) /\ RoleTask(x) /\ NewsTask(x)
        /\ \A a \in News : ~Creates(x, a)
        /\ \A g \in Browsers : Holds(x, g) => g = f /\ pending[f] = TRUE /\ x.pc = "find"
  <2>1. CASE pending[f] = FALSE
    <3>1. task' = [task EXCEPT ![t] = Broker!IdleTask]
      BY <1>1, <2>1 DEF Broker!TakePending, Broker!Done, Broker!Set
    <3> QED BY <3>1, IdleRequest
  <2>2. CASE pending[f] = TRUE
    <3>1. PICK x : x = [task[t] EXCEPT !.pc = "find"]
      OBVIOUS
    <3>2. task' = [task EXCEPT ![t] = x]
      BY <1>1, <2>2, <3>1 DEF Broker!TakePending, Broker!Set
    <3>3. x \in BrokerTask
      BY <1>2, <3>1 DEF BrokerTask, BrokerPCs
    <3>4. /\ x.pc = "find" /\ x.flow = f /\ x.id = task[t].id /\ x.user = task[t].user
          /\ x.pass = "skip" /\ x.rec = FALSE
      BY <1>1, <1>2, <3>1 DEF BrokerTask
    <3>5. Placed(x)
      BY <1>1, <1>2, <3>4, OneRequest DEF Placed, Roles
    <3>6. RoleTask(x) /\ NewsTask(x)
      BY <3>4, OneRequest DEF RoleTask, Copying, Roles, NewsTask
    <3> QED BY <2>2, <3>2, <3>3, <3>4, <3>5, <3>6 DEF Creates, Holds
  <2> QED BY <1>2, <2>1, <2>2
<1>4. PICK x \in BrokerTask :
        /\ task' = [task EXCEPT ![t] = x] /\ Placed(x) /\ RoleTask(x) /\ NewsTask(x)
        /\ \A a \in News : ~Creates(x, a)
        /\ \A g \in Browsers : Holds(x, g) => g = f /\ pending[f] = TRUE /\ x.pc = "find"
  BY <1>3
<1>5. BrokerTypes' /\ \A u \in Requests : Placed(task'[u])
  BY <1>2, <1>4, OthersStay DEF BrokerInv, BrokerTypes
<1>6. RoleInv'
  BY <1>2, <1>4, RoleFrame
<1>7. NewsInv'
  <2>1. \A a \in News : ~Creates(task[t], a)
    BY <1>2 DEF Creates
  <2> QED BY <1>2, <1>4, <2>1, NewsFrame DEF BrokerInv, NewsInv
<1>8. FlowInv'
  <2>1. /\ task'[t] = x /\ \A u \in Requests : u # t => task'[u] = task[u]
    BY <1>4 DEF BrokerInv, BrokerTypes
  <2>2. \A g \in Browsers : pending'[g] = TRUE => pending[g] = TRUE
    BY <1>2
  <2>3. pending'[f] = FALSE
    BY <1>2
  <2>4. ASSUME NEW g \in Browsers, Holds(x, g)
        PROVE  /\ pending'[g] = FALSE /\ entry[g].here = FALSE /\ hist.logins[g] = 0
               /\ hist.wrong[g] = 0 /\ x.pc = "find"
               /\ \A u \in Requests : ~Holds(task[u], g)
    BY <1>4, <2>3, <2>4 DEF BrokerInv, FlowInv, FlowTask
  <2>5. FlowTask(x)'
    BY <1>2, <2>4 DEF FlowTask
  <2>6. \A u \in Requests : FlowTask(task[u])'
    <3> SUFFICES ASSUME NEW u \in Requests, u # t PROVE FlowTask(task[u])'
      BY <2>1, <2>5
    <3>1. FlowTask(task[u])
      BY DEF BrokerInv, FlowInv
    <3>2. \A g \in Browsers : pending[g] = FALSE => pending'[g] = FALSE
      BY <1>2
    <3> QED BY <1>2, <2>1, <3>1, <3>2 DEF FlowTask
  <2>7. \A u, w \in Requests, g \in Browsers : Holds(task'[u], g) /\ Holds(task'[w], g) => u = w
    BY <2>1, <2>4 DEF BrokerInv, FlowInv
  <2> QED BY <1>2, <2>2, <2>6, <2>7 DEF BrokerInv, FlowInv
<1> QED BY <1>5, <1>6, <1>7, <1>8 DEF BrokerInv

\* An account that a subject is linked to has been linked.
LEMMA BrokerFindLink ==
    ASSUME BrokerInv, NEW t \in Requests, Broker!FindLink(t)
    PROVE  BrokerInv'
<1> DEFINE a == link[task[t].id.subj]
<1>1. /\ task[t].pc = "find" /\ task[t].pass \in {"skip", "attach"} /\ task[t].rec = FALSE
      /\ task[t].id.subj \in Subjects /\ task[t] \in BrokerTask
      /\ UNCHANGED <<idp, acc, link, pending, entry>> /\ Tallied(hist')
  BY OneRequest, BoundsMove DEF Placed, Broker!FindLink, BrokerInv, BrokerTypes
<1>2. a \in Broker!Accounts \cup {Broker!None} /\ (a \in News => a \in hist.linked /\ a \in hist.made)
  BY <1>1 DEF BrokerInv, BrokerTypes, NewsInv
<1>3. \A b \in News : ~Creates(task[t], b)
  BY <1>1 DEF Creates
<1> HIDE DEF a
<1>4. CASE Broker!Done(t)
  BY <1>1, <1>3, <1>4, RequestEnds
<1>5. CASE task[t].pass = "attach" /\ Broker!Set(t, [task[t] EXCEPT !.pc = "bind"])
  <2>1. PICK x : x = [task[t] EXCEPT !.pc = "bind"]
    OBVIOUS
  <2>2. x \in BrokerTask
    BY <1>1, <2>1 DEF BrokerTask, BrokerPCs
  <2>3. /\ x.pc = "bind" /\ x.id = task[t].id /\ x.user = task[t].user
        /\ x.pass = "attach" /\ x.rec = FALSE
    BY <1>1, <1>5, <2>1 DEF BrokerTask
  <2>4. x.user \in Broker!Accounts
    BY <1>1, <1>5, <2>3, OneRequest DEF Placed
  <2>5. Placed(x)
    BY <1>1, <2>3, <2>4 DEF Placed, Roles
  <2>6. FlowTask(x) /\ RoleTask(x) /\ NewsTask(x)
    BY <2>3, OneRequest DEF FlowTask, Holds, RoleTask, NewsTask, Roles
  <2> QED BY <1>1, <1>3, <1>5, <2>1, <2>2, <2>3, <2>5, <2>6, RequestMoves
          DEF Broker!Set, Creates, Holds
<1>6. CASE task[t].pass = "skip" /\ Broker!Set(t, [task[t] EXCEPT !.pc = "email"])
  <2>1. PICK x : x = [task[t] EXCEPT !.pc = "email"]
    OBVIOUS
  <2>2. x \in BrokerTask
    BY <1>1, <2>1 DEF BrokerTask, BrokerPCs
  <2>3. /\ x.pc = "email" /\ x.id = task[t].id /\ x.user = task[t].user /\ x.flow = task[t].flow
        /\ x.pass = "skip" /\ x.rec = FALSE
    BY <1>1, <1>6, <2>1 DEF BrokerTask
  <2>4. Placed(x)
    BY <1>1, <1>6, <2>3, OneRequest DEF Placed, Roles
  <2>5. \A f \in Browsers : Holds(x, f) => Holds(task[t], f)
    BY <1>1, <1>6, <2>3 DEF Holds
  <2>6. FlowTask(x)
    BY <1>1, <2>3, <2>5, OneRequest DEF FlowTask
  <2>7. RoleTask(x) /\ NewsTask(x)
    BY <2>3, OneRequest DEF RoleTask, Copying, NewsTask, Roles
  <2> QED BY <1>1, <1>3, <1>6, <2>1, <2>2, <2>3, <2>4, <2>5, <2>6, <2>7, RequestMoves
          DEF Broker!Set, Creates
<1>7. CASE /\ task[t].pass = "skip" /\ a # Broker!None
           /\ Broker!Set(t, [task[t] EXCEPT !.pc = "load", !.user = a])
  <2>1. PICK x : x = [task[t] EXCEPT !.pc = "load", !.user = a]
    OBVIOUS
  <2>2. x \in BrokerTask
    BY <1>1, <1>2, <2>1 DEF BrokerTask, BrokerPCs
  <2>3. /\ x.pc = "load" /\ x.id = task[t].id /\ x.user = a /\ x.flow = task[t].flow
        /\ x.pass = "skip" /\ x.rec = FALSE
    BY <1>1, <1>7, <2>1 DEF BrokerTask
  <2>4. Placed(x)
    BY <1>1, <1>2, <1>7, <2>3, OneRequest DEF Placed, Roles
  <2>5. \A f \in Browsers : Holds(x, f) => Holds(task[t], f)
    BY <1>1, <1>7, <2>3 DEF Holds
  <2>6. FlowTask(x)
    BY <1>1, <2>3, <2>5, OneRequest DEF FlowTask
  <2>7. RoleTask(x) /\ NewsTask(x)
    BY <1>2, <2>3, OneRequest DEF RoleTask, Copying, NewsTask, Roles
  <2> QED BY <1>1, <1>3, <1>7, <2>1, <2>2, <2>3, <2>4, <2>5, <2>6, <2>7, RequestMoves
          DEF Broker!Set, Creates
<1> QED BY <1>1, <1>4, <1>5, <1>6, <1>7 DEF Broker!FindLink, a

\* Where the mapper pass begins.
LEMMA MappingFacts ==
    ASSUME NEW r \in BrokerTask
    PROVE  \E y \in BrokerTask :
                /\ y = Broker!Mapping(r)
                /\ y.flow = r.flow /\ y.id = r.id /\ y.user = r.user /\ y.rec = r.rec
                /\ y.pass = r.pass /\ y.tries = r.tries
                /\ y.pc \in {"held", "revoke"} /\ (y.pc = "revoke" => r.pass = "force" /\ r.rec = TRUE)
<1>1. CASE r.pass = "force" /\ ~r.id.match /\ r.rec
  <2>1. PICK y : y = [r EXCEPT !.pc = "revoke"]
    OBVIOUS
  <2>2. y \in BrokerTask
    BY <2>1 DEF BrokerTask, BrokerPCs
  <2>3. /\ y.pc = "revoke" /\ y.flow = r.flow /\ y.id = r.id /\ y.user = r.user /\ y.rec = r.rec
        /\ y.pass = r.pass /\ y.tries = r.tries
    BY <2>1 DEF BrokerTask
  <2>4. y = Broker!Mapping(r)
    BY <1>1, <2>1 DEF Broker!Mapping
  <2>5. r.rec = TRUE
    BY <1>1, BrokerTaskFields
  <2> QED BY <1>1, <2>2, <2>3, <2>4, <2>5
<1>2. CASE ~(r.pass = "force" /\ ~r.id.match /\ r.rec)
  <2>1. PICK y : y = [r EXCEPT !.pc = "held"]
    OBVIOUS
  <2>2. y \in BrokerTask
    BY <2>1 DEF BrokerTask, BrokerPCs
  <2>3. /\ y.pc = "held" /\ y.flow = r.flow /\ y.id = r.id /\ y.user = r.user /\ y.rec = r.rec
        /\ y.pass = r.pass /\ y.tries = r.tries
    BY <2>1 DEF BrokerTask
  <2>4. y = Broker!Mapping(r)
    BY <1>2, <2>1 DEF Broker!Mapping
  <2> QED BY <2>2, <2>3, <2>4
<1> QED BY <1>1, <1>2

\* Where it ends.
LEMMA ToLoginFacts ==
    ASSUME NEW r \in BrokerTask
    PROVE  \E y \in BrokerTask :
                /\ y = Broker!ToLogin(r) /\ y.pc = "login" /\ y.flow = r.flow /\ y.user = r.user
                /\ y.pass = "skip" /\ y.rec = FALSE
<1>1. PICK y : y = Broker!ToLogin(r)
  OBVIOUS
<1>2. y \in BrokerTask
  BY <1>1, IdleRequest DEF Broker!ToLogin, BrokerTask, BrokerPCs
<1>3. /\ y.pc = "login" /\ y.flow = r.flow /\ y.user = r.user /\ y.pass = "skip" /\ y.rec = FALSE
  BY <1>1, IdleRequest DEF Broker!ToLogin, Broker!IdleTask, BrokerTask
<1> QED BY <1>1, <1>2, <1>3

\* The copy says what the row says: no record, where the role is local.
LEMMA BrokerLoadUser ==
    ASSUME BrokerInv, NEW t \in Requests, Broker!LoadUser(t)
    PROVE  BrokerInv'
<1>1. /\ task[t].pc = "load" /\ task[t].pass = "skip" /\ task[t].flow \in Browsers
      /\ task[t].id.subj \in Subjects /\ task[t] \in BrokerTask /\ task[t].user \in Broker!Accounts
      /\ UNCHANGED <<idp, acc, link, pending, entry>> /\ Tallied(hist')
  BY OneRequest, BoundsMove DEF Placed, Broker!LoadUser, BrokerInv, BrokerTypes
<1>2. \A b \in News : ~Creates(task[t], b)
  BY <1>1 DEF Creates
<1>3. CASE Broker!Done(t)
  BY <1>1, <1>2, <1>3, RequestEnds
<1>4. CASE Broker!Set(t, Broker!ToLogin(task[t]))
  <2>1. PICK y \in BrokerTask :
                /\ y = Broker!ToLogin(task[t]) /\ y.pc = "login" /\ y.flow = task[t].flow
                /\ y.user = task[t].user /\ y.pass = "skip" /\ y.rec = FALSE
    BY <1>1, ToLoginFacts, Zenon
  <2>2. Placed(y)
    BY <1>1, <2>1 DEF Placed, Roles
  <2>3. \A f \in Browsers : Holds(y, f) => Holds(task[t], f)
    BY <1>1, <2>1 DEF Holds
  <2>4. FlowTask(y)
    BY <1>1, <2>1, <2>3, OneRequest DEF FlowTask
  <2>5. RoleTask(y) /\ NewsTask(y)
    BY <1>1, <2>1, OneRequest DEF RoleTask, Copying, NewsTask, Roles
  <2> QED BY <1>1, <1>2, <1>4, <2>1, <2>2, <2>3, <2>4, <2>5, RequestMoves DEF Broker!Set, Creates
<1>5. CASE Broker!Set(t, Broker!Mapping([task[t] EXCEPT !.pass = "force",
                                                        !.rec = acc[task[t].user].rec]))
  <2>1. PICK x : x = [task[t] EXCEPT !.pass = "force", !.rec = acc[task[t].user].rec]
    OBVIOUS
  <2>2. acc[task[t].user].rec \in BOOLEAN
    BY <1>1 DEF BrokerInv, BrokerTypes, AccState
  <2>3. x \in BrokerTask
    BY <1>1, <2>1, <2>2 DEF BrokerTask
  <2>4. /\ x.id = task[t].id /\ x.user = task[t].user /\ x.flow = task[t].flow
        /\ x.pass = "force" /\ x.rec = acc[task[t].user].rec
    BY <1>1, <2>1 DEF BrokerTask
  <2>5. PICK y \in BrokerTask :
                /\ y = Broker!Mapping(x)
                /\ y.flow = x.flow /\ y.id = x.id /\ y.user = x.user /\ y.rec = x.rec
                /\ y.pass = x.pass /\ y.tries = x.tries
                /\ y.pc \in {"held", "revoke"} /\ (y.pc = "revoke" => x.pass = "force" /\ x.rec = TRUE)
    BY <2>3, MappingFacts, Zenon
  <2>6. Placed(y)
    BY <1>1, <2>4, <2>5 DEF Placed, Roles
  <2>7. \A f \in Browsers : Holds(y, f) => Holds(task[t], f)
    BY <1>1, <2>4, <2>5 DEF Holds
  <2>8. FlowTask(y)
    BY <1>1, <2>5, <2>7, OneRequest DEF FlowTask
  <2>9. RoleTask(y)
    BY <2>4, <2>5 DEF RoleTask, BrokerInv, RoleInv
  <2>10. NewsTask(y)
    BY <1>1, <2>4, <2>5, OneRequest DEF NewsTask, Roles
  <2> QED BY <1>1, <1>2, <1>5, <2>1, <2>4, <2>5, <2>6, <2>7, <2>8, <2>9, <2>10, RequestMoves
          DEF Broker!Set, Creates
<1> QED BY <1>3, <1>4, <1>5 DEF Broker!LoadUser

-----------------------------------------------------------------------------
(* The first login *)

\* The request that has taken a flow leaves it to a page.
LEMMA PageStored ==
    ASSUME BrokerInv, NEW t \in Requests, NEW f \in Browsers, Holds(task[t], f),
           NEW e \in FormState, e.here = TRUE, e.id.subj \in Subjects,
           e.user \in News => e.user \in hist.made, e.tries < MaxFailures,
           \A a \in News : ~Creates(task[t], a),
           Broker!Done(t), entry' = [entry EXCEPT ![f] = e], UNCHANGED <<idp, acc, link, pending>>,
           hist' \in BrokerHist, hist'.logins = hist.logins, hist'.made = hist.made,
           hist'.linked = hist.linked, hist'.entered = hist.entered, hist'.crossed = hist.crossed,
           hist'.stranded = hist.stranded, hist'.removed = hist.removed, hist'.local = hist.local,
           hist'.wrong = [hist.wrong EXCEPT ![f] = e.tries]
    PROVE  BrokerInv'
<1>1. task' = [task EXCEPT ![t] = Broker!IdleTask]
  BY DEF Broker!Done, Broker!Set
<1>2. entry \in [Browsers -> FormState] /\ hist.wrong \in [Browsers -> Nat] /\ e.tries \in Nat
  BY BrokerHistFields DEF BrokerInv, BrokerTypes, FormState
<1>3. /\ entry'[f] = e /\ hist'.wrong[f] = e.tries
      /\ \A g \in Browsers : g # f => entry'[g] = entry[g] /\ hist'.wrong[g] = hist.wrong[g]
  BY <1>2
<1>4. BrokerTypes' /\ \A u \in Requests : Placed(task'[u])
  BY <1>1, <1>2, IdleRequest, OthersStay DEF BrokerInv, BrokerTypes
<1>5. RoleInv'
  BY <1>1, IdleRequest, RoleFrame
<1>6. NewsInv'
  <2>1. \A g \in Browsers : entry'[g].user \in News => entry'[g].user \in hist.made
    BY <1>3 DEF BrokerInv, NewsInv
  <2> QED BY <1>1, <2>1, IdleRequest, NewsFrame
<1>7. FlowInv'
  <2>1. /\ task'[t] = Broker!IdleTask /\ \A u \in Requests : u # t => task'[u] = task[u]
    BY <1>1 DEF BrokerInv, BrokerTypes
  <2>2. pending[f] = FALSE /\ hist.logins[f] = 0
    BY OneRequest DEF FlowTask
  <2>3. \A u \in Requests : ~Holds(task'[u], f)
    BY <2>1, IdleRequest DEF BrokerInv, FlowInv
  <2>4. \A u \in Requests : FlowTask(task[u])'
    <3> SUFFICES ASSUME NEW u \in Requests, NEW g \in Browsers, Holds(task'[u], g)
                 PROVE  /\ pending'[g] = FALSE /\ entry'[g].here = FALSE /\ hist'.logins[g] = 0
                        /\ task'[u].pc \in {"find", "load", "email"} => hist'.wrong[g] = 0
                        /\ task'[u].pc \in {"form", "password"} =>
                              hist'.wrong[g] = task'[u].tries /\ task'[u].tries < MaxFailures
      BY DEF FlowTask
    <3>1. u # t /\ g # f
      BY <2>1, <2>3, IdleRequest
    <3>2. task'[u] = task[u] /\ FlowTask(task[u])
      BY <2>1, <3>1 DEF BrokerInv, FlowInv
    <3> QED BY <1>3, <3>1, <3>2 DEF FlowTask
  <2>5. \A u, w \in Requests, g \in Browsers : Holds(task'[u], g) /\ Holds(task'[w], g) => u = w
    BY <2>1, IdleRequest DEF BrokerInv, FlowInv
  <2>6. ASSUME NEW g \in Browsers
        PROVE  /\ hist'.logins[g] <= 1 /\ hist'.wrong[g] <= MaxFailures
               /\ pending'[g] = TRUE => /\ entry'[g].here = FALSE /\ hist'.logins[g] = 0
                                        /\ hist'.wrong[g] = 0
               /\ entry'[g].here = TRUE =>
                    /\ entry'[g].id.subj \in Subjects /\ hist'.logins[g] = 0
                    /\ hist'.wrong[g] = entry'[g].tries /\ entry'[g].tries < MaxFailures
    <3>1. CASE g = f
      BY <1>2, <1>3, <2>2, <3>1, BrokerConstants
    <3>2. CASE g # f
      BY <1>3, <3>2 DEF BrokerInv, FlowInv
    <3> QED BY <3>1, <3>2
  <2> QED BY <2>4, <2>5, <2>6 DEF FlowInv
<1> QED BY <1>4, <1>5, <1>6, <1>7 DEF BrokerInv

\* An account that is there and that the broker made has been made.
LEMMA HereIsMade ==
    ASSUME BrokerInv, NEW a \in News, acc[a].here
    PROVE  a \in hist.made
  BY DEF BrokerInv, NewsInv

\* A page puts the flow, with no wrong password so far, into its entry.
LEMMA BrokerFirstLogin ==
    ASSUME BrokerInv, NEW t \in Requests, Broker!FirstLogin(t)
    PROVE  BrokerInv'
<1>1. /\ task[t].pc = "email" /\ task[t].pass = "skip" /\ task[t].flow \in Browsers
      /\ task[t].id.subj \in Subjects /\ task[t] \in BrokerTask /\ task[t].user = Broker!None
      /\ task[t].rec = FALSE /\ UNCHANGED <<idp, acc, link, pending>> /\ Tallied(hist')
  BY OneRequest, BoundsMove DEF Placed, Broker!FirstLogin, BrokerInv, BrokerTypes
<1>2. \A b \in News : ~Creates(task[t], b)
  BY <1>1 DEF Creates
<1>3. CASE Broker!Done(t) /\ UNCHANGED entry
  BY <1>1, <1>2, <1>3, RequestEnds
<1>4. ASSUME NEW m \in Broker!Mails, NEW a \in Broker!Accounts \cup {Broker!None},
             IF Broker!Owners(m) = {} THEN a = Broker!None ELSE a \in Broker!Owners(m)
      PROVE  a \in Broker!Accounts => acc[a].here /\ (a \in News => a \in hist.made)
  BY <1>4, BrokerConstants, HereIsMade DEF Broker!Owners
<1>5. ASSUME NEW m \in Broker!Mails, NEW a \in Broker!Accounts \cup {Broker!None},
             a \in Broker!Accounts => acc[a].here /\ (a \in News => a \in hist.made),
             Broker!Decide(m, a) = "AutoLink", UNCHANGED entry,
             Broker!Set(t, [task[t] EXCEPT !.pc = "bind", !.pass = "link", !.user = a,
                                           !.rec = acc[a].rec])
      PROVE  BrokerInv'
  <2>1. a \in Broker!Accounts
    BY <1>5 DEF Broker!Decide
  <2>2. acc[a].rec \in BOOLEAN
    BY <2>1 DEF BrokerInv, BrokerTypes, AccState
  <2>3. PICK x : x = [task[t] EXCEPT !.pc = "bind", !.pass = "link", !.user = a, !.rec = acc[a].rec]
    OBVIOUS
  <2>4. x \in BrokerTask
    BY <1>1, <2>2, <2>3 DEF BrokerTask, BrokerPCs
  <2>5. /\ x.pc = "bind" /\ x.id = task[t].id /\ x.user = a /\ x.flow = task[t].flow
        /\ x.pass = "link" /\ x.rec = acc[a].rec
    BY <1>1, <2>3 DEF BrokerTask
  <2>6. Placed(x)
    BY <1>1, <2>1, <2>5 DEF Placed, Roles
  <2>7. \A f \in Browsers : Holds(x, f) => Holds(task[t], f)
    BY <1>1, <2>5 DEF Holds
  <2>8. FlowTask(x)
    BY <1>1, <2>5, <2>7, OneRequest DEF FlowTask
  <2>9. RoleTask(x) /\ NewsTask(x)
    BY <1>5, <2>1, <2>5 DEF RoleTask, NewsTask, BrokerInv, RoleInv, Roles
  <2> QED BY <1>1, <1>2, <1>5, <2>3, <2>4, <2>5, <2>6, <2>7, <2>8, <2>9, RequestMoves
          DEF Broker!Set, Creates
<1>6. ASSUME NEW m \in Broker!Mails, UNCHANGED entry,
             Broker!Set(t, [task[t] EXCEPT !.pc = "create", !.pass = "create", !.id.mail = m])
      PROVE  BrokerInv'
  <2>1. PICK i : i = [task[t].id EXCEPT !.mail = m]
    OBVIOUS
  <2>2. i \in Ids /\ i.subj \in Subjects
    BY <1>1, <2>1, BrokerTaskFields DEF Ids
  <2>3. PICK x : x = [task[t] EXCEPT !.pc = "create", !.pass = "create", !.id = i]
    OBVIOUS
  <2>4. x \in BrokerTask
    BY <1>1, <2>2, <2>3 DEF BrokerTask, BrokerPCs
  <2>5. /\ x.pc = "create" /\ x.id = i /\ x.user = Broker!None /\ x.flow = task[t].flow
        /\ x.pass = "create" /\ x.rec = FALSE
    BY <1>1, <2>3 DEF BrokerTask
  <2>6. task' = [task EXCEPT ![t] = x]
    BY <1>6, <2>1, <2>3 DEF Broker!Set
  <2>7. Placed(x)
    BY <1>1, <2>2, <2>5 DEF Placed, Roles
  <2>8. \A f \in Browsers : Holds(x, f) => Holds(task[t], f)
    BY <1>1, <2>5 DEF Holds
  <2>9. FlowTask(x)
    BY <1>1, <2>5, <2>8, OneRequest DEF FlowTask
  <2>10. RoleTask(x) /\ NewsTask(x) /\ \A b \in News : ~Creates(x, b)
    BY <2>5, BrokerConstants DEF RoleTask, Copying, Roles, NewsTask, Creates
  <2> QED BY <1>1, <1>2, <1>6, <2>4, <2>6, <2>7, <2>8, <2>9, <2>10, RequestMoves
<1>7. ASSUME NEW m \in Broker!Mails, NEW a \in Broker!Accounts \cup {Broker!None},
             a \in Broker!Accounts => acc[a].here /\ (a \in News => a \in hist.made),
             Broker!Done(t), UNCHANGED hist,
             entry' = [entry EXCEPT ![task[t].flow] =
                        [here |-> TRUE, id |-> [task[t].id EXCEPT !.mail = m], user |-> a, tries |-> 0]]
      PROVE  BrokerInv'
  <2>1. PICK f \in Browsers : f = task[t].flow
    BY <1>1
  <2>2. PICK i : i = [task[t].id EXCEPT !.mail = m]
    OBVIOUS
  <2>3. i \in Ids /\ i.subj \in Subjects
    BY <1>1, <2>2, BrokerTaskFields DEF Ids
  <2>4. PICK e : e = [here |-> TRUE, id |-> i, user |-> a, tries |-> 0]
    OBVIOUS
  <2>5. e \in FormState /\ e.here = TRUE /\ e.id = i /\ e.user = a /\ e.tries = 0
    BY <2>3, <2>4 DEF FormState
  <2>6. Holds(task[t], f)
    BY <1>1, <2>1 DEF Holds
  <2>7. hist.wrong[f] = 0
    BY <1>1, <2>6, OneRequest DEF FlowTask
  <2>8. hist.wrong = [hist.wrong EXCEPT ![f] = e.tries] /\ hist \in BrokerHist
    BY <2>5, <2>7, BrokerHistFields DEF BrokerInv, BrokerTypes
  <2>9. entry' = [entry EXCEPT ![f] = e]
    BY <1>7, <2>1, <2>2, <2>4
  <2>10. e.user \in News => e.user \in hist.made
    BY <1>7, <2>5, BrokerConstants
  <2>11. e.tries < MaxFailures
    BY <2>5, BrokerConstants
  <2> QED BY <1>1, <1>2, <1>7, <2>3, <2>5, <2>6, <2>8, <2>9, <2>10, <2>11, PageStored
<1> QED BY <1>3, <1>4, <1>5, <1>6, <1>7 DEF Broker!FirstLogin, Broker!Works

\* The flow passes from the entry to the request, with its wrong passwords.
LEMMA BrokerSubmit ==
    ASSUME BrokerInv, NEW t \in Requests, Broker!Submit(t)
    PROVE  BrokerInv'
<1>1. /\ task[t].pc = "idle" /\ UNCHANGED <<idp, acc, link, pending>> /\ Tallied(hist')
      /\ entry \in [Browsers -> FormState]
  BY BoundsMove DEF Broker!Submit, BrokerInv, BrokerTypes
<1>2. \A b \in News : ~Creates(task[t], b)
  BY <1>1, OneRequest DEF Placed, Creates
<1>3. PICK f \in Browsers :
        /\ entry[f].here /\ entry' = [entry EXCEPT ![f] = Broker!NoEntry]
        /\ Broker!Set(t, [Broker!IdleTask EXCEPT !.pc = "form", !.flow = f, !.id = entry[f].id,
                                                 !.user = entry[f].user, !.tries = entry[f].tries])
  BY DEF Broker!Submit, Broker!Left
<1>4. /\ entry[f].id \in Ids /\ entry[f].user \in Broker!Accounts \cup {Broker!None}
      /\ entry[f].tries \in Nat /\ entry[f].here = TRUE
  BY <1>1, <1>3 DEF FormState
<1>5. /\ entry[f].id.subj \in Subjects /\ hist.logins[f] = 0 /\ hist.wrong[f] = entry[f].tries
      /\ entry[f].tries < MaxFailures /\ pending[f] = FALSE
      /\ \A u \in Requests : ~Holds(task[u], f)
  <2>1. pending[f] \in BOOLEAN
    BY DEF BrokerInv, BrokerTypes
  <2> QED BY <1>4, <2>1 DEF BrokerInv, FlowInv, FlowTask
<1>6. PICK x : x = [Broker!IdleTask EXCEPT !.pc = "form", !.flow = f, !.id = entry[f].id,
                                           !.user = entry[f].user, !.tries = entry[f].tries]
  OBVIOUS
<1>7. x \in BrokerTask
  BY <1>4, <1>6, IdleRequest DEF BrokerTask, BrokerPCs
<1>8. /\ x.pc = "form" /\ x.flow = f /\ x.id = entry[f].id /\ x.user = entry[f].user
      /\ x.tries = entry[f].tries /\ x.pass = "skip" /\ x.rec = FALSE
  BY <1>6, IdleRequest DEF BrokerTask, Broker!IdleTask
<1>9. task' = [task EXCEPT ![t] = x]
  BY <1>3, <1>6 DEF Broker!Set
<1>10. Placed(x)
  BY <1>5, <1>8 DEF Placed, Roles
<1>11. RoleTask(x) /\ \A b \in News : ~Creates(x, b)
  BY <1>8 DEF RoleTask, Copying, Roles, Creates
<1>12. NewsTask(x)
  BY <1>8 DEF NewsTask, Roles, BrokerInv, NewsInv
<1>13. PICK e : e = Broker!NoEntry
  OBVIOUS
<1>14. e \in FormState /\ e.here = FALSE /\ e.user = Broker!None
  BY <1>13 DEF Broker!NoEntry, Broker!NoId, FormState, Ids, Broker!Mails
<1>15. /\ entry'[f] = e /\ entry' \in [Browsers -> FormState]
       /\ \A g \in Browsers : g # f => entry'[g] = entry[g]
  BY <1>1, <1>3, <1>13, <1>14
<1>16. BrokerTypes' /\ \A u \in Requests : Placed(task'[u])
  BY <1>1, <1>7, <1>9, <1>10, <1>15, OthersStay DEF BrokerInv, BrokerTypes, Tallied
<1>17. RoleInv'
  BY <1>1, <1>7, <1>9, <1>11, RoleFrame DEF Tallied
<1>18. NewsInv'
  <2>1. \A g \in Browsers : entry'[g].user \in News => entry'[g].user \in hist.made
    BY <1>14, <1>15, BrokerConstants DEF BrokerInv, NewsInv
  <2> QED BY <1>1, <1>2, <1>7, <1>9, <1>11, <1>12, <2>1, NewsFrame DEF Tallied
<1>19. FlowInv'
  <2>1. /\ task'[t] = x /\ \A u \in Requests : u # t => task'[u] = task[u]
    BY <1>9 DEF BrokerInv, BrokerTypes
  <2>2. hist'.logins = hist.logins /\ hist'.wrong = hist.wrong
    BY <1>1 DEF Tallied
  <2>3. \A g \in Browsers : Holds(x, g) => g = f
    BY <1>8 DEF Holds
  <2>4. \A u \in Requests : FlowTask(task[u])'
    <3> SUFFICES ASSUME NEW u \in Requests, NEW g \in Browsers, Holds(task'[u], g)
                 PROVE  /\ pending'[g] = FALSE /\ entry'[g].here = FALSE /\ hist'.logins[g] = 0
                        /\ task'[u].pc \in {"find", "load", "email"} => hist'.wrong[g] = 0
                        /\ task'[u].pc \in {"form", "password"} =>
                              hist'.wrong[g] = task'[u].tries /\ task'[u].tries < MaxFailures
      BY DEF FlowTask
    <3>1. CASE u = t
      BY <1>1, <1>5, <1>8, <1>14, <1>15, <2>1, <2>2, <2>3, <3>1
    <3>2. CASE u # t
      <4>1. task'[u] = task[u] /\ FlowTask(task[u]) /\ g # f
        BY <1>5, <2>1, <3>2 DEF BrokerInv, FlowInv
      <4> QED BY <1>1, <1>15, <2>2, <4>1 DEF FlowTask
    <3> QED BY <3>1, <3>2
  <2>5. \A u, w \in Requests, g \in Browsers : Holds(task'[u], g) /\ Holds(task'[w], g) => u = w
    BY <1>5, <2>1, <2>3 DEF BrokerInv, FlowInv
  <2>6. ASSUME NEW g \in Browsers
        PROVE  /\ hist'.logins[g] <= 1 /\ hist'.wrong[g] <= MaxFailures
               /\ pending'[g] = TRUE => /\ entry'[g].here = FALSE /\ hist'.logins[g] = 0
                                        /\ hist'.wrong[g] = 0
               /\ entry'[g].here = TRUE =>
                    /\ entry'[g].id.subj \in Subjects /\ hist'.logins[g] = 0
                    /\ hist'.wrong[g] = entry'[g].tries /\ entry'[g].tries < MaxFailures
    <3>1. CASE g = f
      BY <1>1, <1>5, <1>14, <1>15, <2>2, <3>1 DEF BrokerInv, FlowInv
    <3>2. CASE g # f
      BY <1>1, <1>15, <2>2, <3>2 DEF BrokerInv, FlowInv
    <3> QED BY <3>1, <3>2
  <2> QED BY <2>4, <2>5, <2>6 DEF FlowInv
<1> QED BY <1>16, <1>17, <1>18, <1>19 DEF BrokerInv

\* A form is stored again.
LEMMA BrokerRetry ==
    ASSUME BrokerInv, NEW t \in Requests, NEW n \in Nat, Broker!Retry(t, n),
           task[t].pc \in {"form", "password"}, n < MaxFailures,
           UNCHANGED <<idp, acc, link, pending>>,
           \/ n = task[t].tries /\ UNCHANGED hist
           \/ n = task[t].tries + 1 /\ hist' = [hist EXCEPT !.wrong[task[t].flow] = @ + 1]
    PROVE  BrokerInv'
<1>1. /\ task[t].pass = "skip" /\ task[t].flow \in Browsers /\ task[t].id.subj \in Subjects
      /\ task[t] \in BrokerTask
  BY OneRequest DEF Placed
<1>2. PICK f \in Browsers : f = task[t].flow
  BY <1>1
<1>3. PICK e : e = [here |-> TRUE, id |-> task[t].id, user |-> task[t].user, tries |-> n]
  OBVIOUS
<1>4. /\ e \in FormState /\ e.here = TRUE /\ e.id = task[t].id /\ e.user = task[t].user
      /\ e.tries = n
  BY <1>1, <1>3, BrokerTaskFields DEF FormState
<1>5. Broker!Done(t) /\ entry' = [entry EXCEPT ![f] = e]
  BY <1>2, <1>3 DEF Broker!Retry
<1>6. Holds(task[t], f)
  BY <1>1, <1>2 DEF Holds
<1>7. hist \in BrokerHist /\ hist.wrong \in [Browsers -> Nat] /\ hist.wrong[f] = task[t].tries
  BY <1>6, OneRequest, BrokerHistFields DEF FlowTask, BrokerInv, BrokerTypes
<1>8. \A a \in News : ~Creates(task[t], a)
  BY <1>1 DEF Creates
<1>9. e.user \in News => e.user \in hist.made
  BY <1>4, OneRequest DEF NewsTask
<1>10. /\ hist' \in BrokerHist /\ hist'.logins = hist.logins /\ hist'.made = hist.made
       /\ hist'.linked = hist.linked /\ hist'.entered = hist.entered /\ hist'.crossed = hist.crossed
       /\ hist'.stranded = hist.stranded /\ hist'.removed = hist.removed /\ hist'.local = hist.local
       /\ hist'.wrong = [hist.wrong EXCEPT ![f] = n]
  <2>1. CASE n = task[t].tries /\ UNCHANGED hist
    BY <1>7, <2>1
  <2>2. CASE n = task[t].tries + 1 /\ hist' = [hist EXCEPT !.wrong[task[t].flow] = @ + 1]
    <3>1. PICK w : w = [hist.wrong EXCEPT ![f] = n]
      OBVIOUS
    <3>2. w \in [Browsers -> Nat]
      BY <1>7, <3>1
    <3>3. PICK h : h = [hist EXCEPT !.wrong = w]
      OBVIOUS
    <3>4. h \in BrokerHist
      BY <1>7, <3>2, <3>3 DEF BrokerHist
    <3>5. /\ h.wrong = w /\ h.logins = hist.logins /\ h.made = hist.made
          /\ h.linked = hist.linked /\ h.entered = hist.entered /\ h.crossed = hist.crossed
          /\ h.stranded = hist.stranded /\ h.removed = hist.removed /\ h.local = hist.local
      BY <1>7, <3>3 DEF BrokerHist
    <3>6. hist' = h
      BY <1>2, <1>7, <2>2, <3>1, <3>3
    <3> QED BY <3>1, <3>4, <3>5, <3>6
  <2> QED BY <2>1, <2>2
<1> QED BY <1>1, <1>4, <1>5, <1>6, <1>8, <1>9, <1>10, PageStored

\* It goes back into the entry, or on with the request.
LEMMA BrokerForm ==
    ASSUME BrokerInv, NEW t \in Requests, Broker!Form(t)
    PROVE  BrokerInv'
<1>1. /\ task[t].pc = "form" /\ task[t].pass = "skip" /\ task[t].flow \in Browsers
      /\ task[t].id.subj \in Subjects /\ task[t] \in BrokerTask /\ task[t].rec = FALSE
      /\ UNCHANGED <<idp, acc, link, pending, hist>> /\ Tallied(hist') /\ task[t].tries \in Nat
  BY OneRequest, BoundsMove, BrokerTaskFields DEF Placed, Broker!Form, BrokerInv, BrokerTypes
<1>2. \A b \in News : ~Creates(task[t], b)
  BY <1>1 DEF Creates
<1>3. CASE Broker!Done(t) /\ UNCHANGED entry
  BY <1>1, <1>2, <1>3, RequestEnds
<1>4. CASE Broker!Retry(t, task[t].tries)
  <2>1. task[t].tries < MaxFailures
    BY <1>1, OneRequest DEF FlowTask, Holds
  <2> QED BY <1>1, <1>4, <2>1, BrokerRetry
<1>5. ASSUME NEW m \in {task[t].id.mail, "none"}, UNCHANGED entry,
             Broker!Set(t, [task[t] EXCEPT !.pc = "create", !.pass = "create", !.user = Broker!None,
                                           !.tries = 0, !.id.mail = m])
      PROVE  BrokerInv'
  <2>1. PICK i : i = [task[t].id EXCEPT !.mail = m]
    OBVIOUS
  <2>2. i \in Ids /\ i.subj \in Subjects
    BY <1>1, <2>1, BrokerTaskFields DEF Ids, Broker!Mails
  <2>3. PICK x : x = [task[t] EXCEPT !.pc = "create", !.pass = "create", !.user = Broker!None,
                                     !.tries = 0, !.id = i]
    OBVIOUS
  <2>4. x \in BrokerTask
    BY <1>1, <2>2, <2>3 DEF BrokerTask, BrokerPCs
  <2>5. /\ x.pc = "create" /\ x.id = i /\ x.user = Broker!None /\ x.flow = task[t].flow
        /\ x.pass = "create" /\ x.rec = FALSE
    BY <1>1, <2>3 DEF BrokerTask
  <2>6. task' = [task EXCEPT ![t] = x]
    BY <1>5, <2>1, <2>3 DEF Broker!Set
  <2>7. Placed(x)
    BY <1>1, <2>2, <2>5 DEF Placed, Roles
  <2>8. \A f \in Browsers : Holds(x, f) => Holds(task[t], f)
    BY <1>1, <2>5 DEF Holds
  <2>9. FlowTask(x)
    BY <1>1, <2>5, <2>8, OneRequest DEF FlowTask
  <2>10. RoleTask(x) /\ NewsTask(x) /\ \A b \in News : ~Creates(x, b)
    BY <2>5, BrokerConstants DEF RoleTask, Copying, Roles, NewsTask, Creates
  <2> QED BY <1>1, <1>2, <1>5, <2>4, <2>6, <2>7, <2>8, <2>9, <2>10, RequestMoves
<1>6. CASE /\ task[t].user # Broker!None /\ UNCHANGED entry
           /\ Broker!Set(t, [task[t] EXCEPT !.pc = "password", !.rec = acc[task[t].user].rec])
  <2>1. task[t].user \in Broker!Accounts
    BY <1>1, <1>6, BrokerTaskFields
  <2>2. acc[task[t].user].rec \in BOOLEAN
    BY <2>1 DEF BrokerInv, BrokerTypes, AccState
  <2>3. PICK x : x = [task[t] EXCEPT !.pc = "password", !.rec = acc[task[t].user].rec]
    OBVIOUS
  <2>4. x \in BrokerTask
    BY <1>1, <2>2, <2>3 DEF BrokerTask, BrokerPCs
  <2>5. /\ x.pc = "password" /\ x.id = task[t].id /\ x.user = task[t].user
        /\ x.flow = task[t].flow /\ x.tries = task[t].tries
        /\ x.pass = "skip" /\ x.rec = acc[task[t].user].rec
    BY <1>1, <2>3 DEF BrokerTask
  <2>6. Placed(x)
    BY <1>1, <2>1, <2>5 DEF Placed, Roles
  <2>7. \A f \in Browsers : Holds(x, f) => Holds(task[t], f)
    BY <1>1, <2>5 DEF Holds
  <2>8. FlowTask(x)
    BY <1>1, <2>5, <2>7, OneRequest DEF FlowTask
  <2>9. RoleTask(x) /\ NewsTask(x) /\ \A b \in News : ~Creates(x, b)
    BY <2>1, <2>5, OneRequest DEF RoleTask, NewsTask, BrokerInv, RoleInv, Roles, Creates
  <2> QED BY <1>1, <1>2, <1>6, <2>3, <2>4, <2>6, <2>7, <2>8, <2>9, RequestMoves DEF Broker!Set
<1> QED BY <1>3, <1>4, <1>5, <1>6 DEF Broker!Form

\* A wrong password is counted with the flow, in the entry or for good.
LEMMA BrokerPassword ==
    ASSUME BrokerInv, NEW t \in Requests, Broker!Password(t)
    PROVE  BrokerInv'
<1>1. /\ task[t].pc = "password" /\ task[t].pass = "skip" /\ task[t].flow \in Browsers
      /\ task[t].id.subj \in Subjects /\ task[t] \in BrokerTask /\ task[t].user \in Broker!Accounts
      /\ UNCHANGED <<idp, acc, link, pending>> /\ task[t].tries \in Nat /\ hist \in BrokerHist
  BY OneRequest, BrokerTaskFields DEF Placed, Broker!Password, BrokerInv, BrokerTypes
<1>2. \A b \in News : ~Creates(task[t], b)
  BY <1>1 DEF Creates
<1>3. PICK f \in Browsers : f = task[t].flow
  BY <1>1
<1>4. /\ Holds(task[t], f) /\ hist.wrong[f] = task[t].tries /\ task[t].tries < MaxFailures
      /\ pending[f] = FALSE /\ entry[f].here = FALSE
      /\ \A u \in Requests : u # t => ~Holds(task[u], f)
  BY <1>1, <1>3, OneRequest DEF FlowTask, Holds, BrokerInv, FlowInv
<1>5. CASE Broker!Retry(t, task[t].tries) /\ Broker!Works
  BY <1>1, <1>4, <1>5, BrokerRetry DEF Broker!Works
<1>6. CASE /\ task[t].tries + 1 < MaxFailures /\ Broker!Retry(t, task[t].tries + 1)
           /\ hist' = [hist EXCEPT !.wrong[task[t].flow] = @ + 1]
  <2>1. task[t].tries + 1 \in Nat
    BY <1>1
  <2> QED BY <1>1, <1>6, <2>1, BrokerRetry
<1>7. CASE /\ Broker!Done(t) /\ UNCHANGED entry
           /\ hist' = [hist EXCEPT !.wrong[task[t].flow] = @ + 1]
  <2>1. PICK n \in Nat : n = hist.wrong[f] + 1 /\ n <= MaxFailures
    BY <1>1, <1>4, BrokerConstants
  <2>2. PICK w : w = [hist.wrong EXCEPT ![f] = n]
    OBVIOUS
  <2>3. /\ w \in [Browsers -> Nat] /\ w[f] = n
        /\ \A g \in Browsers : g # f => w[g] = hist.wrong[g]
    BY <1>1, <2>2, BrokerHistFields
  <2>4. PICK h : h = [hist EXCEPT !.wrong = w]
    OBVIOUS
  <2>5. h \in BrokerHist
    BY <1>1, <2>3, <2>4 DEF BrokerHist
  <2>6. /\ h.wrong = w /\ h.logins = hist.logins /\ h.made = hist.made
        /\ h.linked = hist.linked /\ h.entered = hist.entered /\ h.crossed = hist.crossed
        /\ h.stranded = hist.stranded /\ h.removed = hist.removed /\ h.local = hist.local
    BY <1>1, <2>4 DEF BrokerHist
  <2>7. hist' = h
    BY <1>3, <1>7, <2>1, <2>2, <2>4
  <2>0. /\ entry' = entry /\ pending' = pending /\ acc' = acc /\ link' = link /\ idp' = idp
        /\ hist' \in BrokerHist
        /\ hist'.wrong = w /\ hist'.logins = hist.logins /\ hist'.made = hist.made
        /\ hist'.linked = hist.linked /\ hist'.entered = hist.entered
        /\ hist'.crossed = hist.crossed /\ hist'.stranded = hist.stranded
        /\ hist'.removed = hist.removed /\ hist'.local = hist.local
    BY <1>1, <1>7, <2>5, <2>6, <2>7
  <2>8. task' = [task EXCEPT ![t] = Broker!IdleTask]
    BY <1>7 DEF Broker!Done, Broker!Set
  <2>9. BrokerTypes' /\ \A u \in Requests : Placed(task'[u])
    BY <2>0, <2>8, IdleRequest, OthersStay DEF BrokerInv, BrokerTypes
  <2>10. RoleInv'
    BY <2>0, <2>8, IdleRequest, RoleFrame
  <2>11. NewsInv'
    <3>1. \A g \in Browsers : entry'[g].user \in News => entry'[g].user \in hist.made
      BY <2>0 DEF BrokerInv, NewsInv
    <3> QED BY <1>2, <2>0, <2>8, <3>1, IdleRequest, NewsFrame
  <2>12. FlowInv'
    <3>1. /\ task'[t] = Broker!IdleTask /\ \A u \in Requests : u # t => task'[u] = task[u]
      BY <2>8 DEF BrokerInv, BrokerTypes
    <3>2. \A u \in Requests : FlowTask(task[u])'
      <4> SUFFICES ASSUME NEW u \in Requests, NEW g \in Browsers, Holds(task'[u], g)
                   PROVE  /\ pending'[g] = FALSE /\ entry'[g].here = FALSE /\ hist'.logins[g] = 0
                          /\ task'[u].pc \in {"find", "load", "email"} => hist'.wrong[g] = 0
                          /\ task'[u].pc \in {"form", "password"} =>
                                hist'.wrong[g] = task'[u].tries /\ task'[u].tries < MaxFailures
        BY DEF FlowTask
      <4>1. u # t
        BY <3>1, IdleRequest
      <4>2. task'[u] = task[u] /\ FlowTask(task[u]) /\ g # f
        BY <1>4, <3>1, <4>1 DEF BrokerInv, FlowInv
      <4> QED BY <2>0, <2>3, <4>2 DEF FlowTask
    <3>3. \A u, x \in Requests, g \in Browsers : Holds(task'[u], g) /\ Holds(task'[x], g) => u = x
      BY <3>1, IdleRequest DEF BrokerInv, FlowInv
    <3>4. ASSUME NEW g \in Browsers
          PROVE  /\ hist'.logins[g] <= 1 /\ hist'.wrong[g] <= MaxFailures
                 /\ pending'[g] = TRUE => /\ entry'[g].here = FALSE /\ hist'.logins[g] = 0
                                          /\ hist'.wrong[g] = 0
                 /\ entry'[g].here = TRUE =>
                      /\ entry'[g].id.subj \in Subjects /\ hist'.logins[g] = 0
                      /\ hist'.wrong[g] = entry'[g].tries /\ entry'[g].tries < MaxFailures
      <4>1. CASE g = f
        BY <1>4, <2>0, <2>1, <2>3, <4>1 DEF BrokerInv, FlowInv
      <4>2. CASE g # f
        BY <2>0, <2>3, <4>2 DEF BrokerInv, FlowInv
      <4> QED BY <4>1, <4>2
    <3> QED BY <3>2, <3>3, <3>4 DEF FlowInv
  <2> QED BY <2>9, <2>10, <2>11, <2>12 DEF BrokerInv
<1>8. CASE /\ Broker!Works /\ UNCHANGED entry
           /\ Broker!Set(t, [task[t] EXCEPT !.pc = "bind", !.pass = "link", !.tries = 0])
  <2>1. PICK x : x = [task[t] EXCEPT !.pc = "bind", !.pass = "link", !.tries = 0]
    OBVIOUS
  <2>2. x \in BrokerTask
    BY <1>1, <2>1 DEF BrokerTask, BrokerPCs
  <2>3. /\ x.pc = "bind" /\ x.id = task[t].id /\ x.user = task[t].user
        /\ x.flow = task[t].flow /\ x.pass = "link" /\ x.rec = task[t].rec
    BY <1>1, <2>1 DEF BrokerTask
  <2>4. Placed(x)
    BY <1>1, <2>3 DEF Placed, Roles
  <2>5. \A g \in Browsers : Holds(x, g) => Holds(task[t], g)
    BY <1>1, <2>3 DEF Holds
  <2>6. FlowTask(x)
    BY <1>1, <2>3, <2>5, OneRequest DEF FlowTask
  <2>7. RoleTask(x) /\ NewsTask(x) /\ \A b \in News : ~Creates(x, b)
    BY <1>1, <2>3, OneRequest DEF RoleTask, Copying, NewsTask, Roles, Creates
  <2>8. Tallied(hist')
    BY <1>1, <1>8, BoundsMove
  <2> QED BY <1>1, <1>2, <1>8, <2>1, <2>2, <2>4, <2>5, <2>6, <2>7, <2>8, RequestMoves
          DEF Broker!Set
<1> QED BY <1>5, <1>6, <1>7, <1>8 DEF Broker!Password

\* The request becomes the one creator of an account nobody has known.
LEMMA BrokerCreateUser ==
    ASSUME BrokerInv, NEW t \in Requests, Broker!CreateUser(t)
    PROVE  BrokerInv'
<1>1. /\ task[t].pc = "create" /\ task[t].pass = "create" /\ task[t].flow \in Browsers
      /\ task[t].id.subj \in Subjects /\ task[t] \in BrokerTask /\ task[t].user = Broker!None
      /\ task[t].rec = FALSE /\ UNCHANGED <<idp, link, pending, entry>> /\ hist \in BrokerHist
      /\ acc \in [Broker!Accounts -> AccState]
  BY OneRequest DEF Placed, Broker!CreateUser, BrokerInv, BrokerTypes
<1>2. \A b \in News : ~Creates(task[t], b)
  BY <1>1, BrokerConstants DEF Creates
<1>3. CASE Broker!Done(t) /\ UNCHANGED <<acc, hist>>
  <2>1. Tallied(hist')
    BY <1>1, <1>3, BoundsMove
  <2> QED BY <1>1, <1>2, <1>3, <2>1, RequestEnds
<1>4. ASSUME NEW a \in News \ hist.made,
             acc' = [acc EXCEPT ![a] = [Broker!NoAccount EXCEPT !.here = TRUE, !.mail = task[t].id.mail]],
             hist' = [hist EXCEPT !.made = @ \cup {a}],
             Broker!Set(t, Broker!Mapping([task[t] EXCEPT !.user = a, !.id.mail = "none"]))
      PROVE  BrokerInv'
  <2>1. a \in Broker!Accounts /\ a \in News
    BY BrokerConstants
  <2>2. PICK h : h = [hist EXCEPT !.made = @ \cup {a}]
    OBVIOUS
  <2>3. h \in BrokerHist
    BY <1>1, <2>1, <2>2 DEF BrokerHist
  <2>4. /\ h.made = hist.made \cup {a} /\ h.wrong = hist.wrong /\ h.logins = hist.logins
        /\ h.linked = hist.linked /\ h.entered = hist.entered /\ h.crossed = hist.crossed
        /\ h.stranded = hist.stranded /\ h.removed = hist.removed /\ h.local = hist.local
    BY <1>1, <2>2 DEF BrokerHist
  <2>5. /\ hist' \in BrokerHist
        /\ hist'.made = hist.made \cup {a} /\ hist'.wrong = hist.wrong
        /\ hist'.logins = hist.logins /\ hist'.linked = hist.linked
        /\ hist'.entered = hist.entered /\ hist'.crossed = hist.crossed
        /\ hist'.stranded = hist.stranded /\ hist'.removed = hist.removed
        /\ hist'.local = hist.local
    BY <1>4, <2>2, <2>3, <2>4
  <2>6. PICK c : c = [Broker!NoAccount EXCEPT !.here = TRUE, !.mail = task[t].id.mail]
    OBVIOUS
  <2>7. c \in AccState /\ c.here = TRUE
    BY <1>1, <2>6, BrokerTaskFields DEF Broker!NoAccount, AccState, Ids
  <2>8. /\ acc' \in [Broker!Accounts -> AccState] /\ acc'[a] = c
        /\ \A b \in Broker!Accounts : b # a => acc'[b] = acc[b]
    BY <1>1, <1>4, <2>1, <2>6, <2>7
  <2>9. PICK i : i = [task[t].id EXCEPT !.mail = "none"]
    OBVIOUS
  <2>10. i \in Ids /\ i.subj \in Subjects
    BY <1>1, <2>9, BrokerTaskFields DEF Ids, Broker!Mails
  <2>11. PICK x : x = [task[t] EXCEPT !.user = a, !.id = i]
    OBVIOUS
  <2>12. x \in BrokerTask
    BY <1>1, <2>1, <2>10, <2>11 DEF BrokerTask
  <2>13. /\ x.flow = task[t].flow /\ x.id = i /\ x.user = a /\ x.pass = "create" /\ x.rec = FALSE
    BY <1>1, <2>11 DEF BrokerTask
  <2>14. PICK y \in BrokerTask :
                /\ y = Broker!Mapping(x)
                /\ y.flow = x.flow /\ y.id = x.id /\ y.user = x.user /\ y.rec = x.rec
                /\ y.pass = x.pass /\ y.tries = x.tries
                /\ y.pc \in {"held", "revoke"} /\ (y.pc = "revoke" => x.pass = "force" /\ x.rec = TRUE)
    BY <2>12, MappingFacts, Zenon
  <2>15. task' = [task EXCEPT ![t] = y] /\ y.pc = "held"
    BY <1>4, <2>9, <2>11, <2>13, <2>14 DEF Broker!Set
  <2>16. Placed(y)
    BY <1>1, <2>1, <2>10, <2>13, <2>14, <2>15 DEF Placed, Roles
  <2>17. BrokerTypes' /\ \A u \in Requests : Placed(task'[u])
    BY <1>1, <2>5, <2>8, <2>15, <2>16, OthersStay DEF BrokerInv, BrokerTypes
  <2>18. FlowInv'
    <3>1. \A f \in Browsers : Holds(y, f) => Holds(task[t], f)
      BY <1>1, <2>13, <2>14 DEF Holds
    <3>2. FlowTask(y)
      BY <2>15, <3>1, OneRequest DEF FlowTask
    <3> QED BY <1>1, <2>5, <2>15, <3>1, <3>2, FlowFrame
  <2>19. acc[a].here = FALSE /\ a \notin hist.linked /\ a \notin hist.entered /\ a \notin hist.local
    BY <1>4 DEF BrokerInv, NewsInv, RoleInv
  <2>20. RoleInv'
    <3>1. hist.local \subseteq Broker!Accounts
      BY <1>1, BrokerHistFields
    <3>2. RoleTask(y)
      BY <2>13, <2>14, <2>19 DEF RoleTask
    <3> QED BY <2>5, <2>8, <2>15, <2>19, <3>1, <3>2, RoleFrame
  <2>21. NewsInv'
    <3>1. /\ task'[t] = y /\ \A u \in Requests : u # t => task'[u] = task[u]
      BY <2>15 DEF BrokerInv, BrokerTypes
    <3>2. \A u \in Requests : task[u].user # a
      BY <1>4 DEF BrokerInv, NewsInv, NewsTask
    <3>3. \A u \in Requests : NewsTask(task[u])'
      <4>1. NewsTask(y)'
        BY <2>5, <2>13, <2>14, <2>15, <2>19 DEF NewsTask
      <4>2. ASSUME NEW u \in Requests, u # t PROVE NewsTask(task[u])'
        BY <2>5, <3>1, <4>2, OneRequest DEF NewsTask
      <4> QED BY <3>1, <4>1, <4>2
    <3>4. \A f \in Browsers : entry'[f].user \in News => entry'[f].user \in hist'.made
      BY <1>1, <2>5 DEF BrokerInv, NewsInv
    <3>5. \A s \in Subjects : link'[s] \in News => link'[s] \in hist'.linked
      BY <1>1, <2>5 DEF BrokerInv, NewsInv
    <3>6. ASSUME NEW b \in News
          PROVE  /\ b \in hist'.linked => b \in hist'.made
                 /\ b \in hist'.entered => b \in hist'.linked
                 /\ b \notin hist'.made => acc'[b].here = FALSE
                 /\ b \in hist'.entered /\ acc'[b].here = FALSE =>
                       b \in hist'.removed \cup hist'.crossed
      <4>1. CASE b = a
        BY <2>5, <2>19, <4>1
      <4>2. CASE b # a
        BY <2>5, <2>8, <4>2, BrokerConstants DEF BrokerInv, NewsInv
      <4> QED BY <4>1, <4>2
    <3>7. ASSUME NEW b \in News
          PROVE  /\ \A u, w \in Requests : Creates(task'[u], b) /\ Creates(task'[w], b) => u = w
                 /\ acc'[b].here = TRUE => \/ b \in hist'.linked \cup hist'.stranded
                                           \/ \E u \in Requests : Creates(task'[u], b)
      <4>1. CASE b = a
        <5>1. \A u \in Requests : Creates(task'[u], b) => u = t
          BY <3>1, <3>2, <4>1 DEF Creates
        <5>2. Creates(task'[t], b)
          BY <2>13, <2>14, <3>1, <4>1 DEF Creates
        <5> QED BY <5>1, <5>2
      <4>2. CASE b # a
        <5>1. \A u \in Requests : Creates(task'[u], b) <=> Creates(task[u], b)
          BY <1>2, <2>13, <2>14, <3>1, <4>2 DEF Creates
        <5>2. acc'[b] = acc[b]
          BY <2>8, <4>2, BrokerConstants
        <5> QED BY <2>5, <5>1, <5>2 DEF BrokerInv, NewsInv
      <4> QED BY <4>1, <4>2
    <3> QED BY <3>3, <3>4, <3>5, <3>6, <3>7 DEF NewsInv
  <2> QED BY <2>17, <2>18, <2>20, <2>21 DEF BrokerInv
<1>5. CASE News \ hist.made # {} /\ ~(Broker!Done(t) /\ UNCHANGED <<acc, hist>>)
  <2>1. PICK a \in News \ hist.made : a = CHOOSE b \in News \ hist.made : TRUE
    BY <1>5
  <2> QED BY <1>4, <1>5, <2>1 DEF Broker!CreateUser
<1> QED BY <1>3, <1>5 DEF Broker!CreateUser

\* An account is linked, and its request goes on to x.
LEMMA AccountLinked ==
    ASSUME BrokerInv, NEW t \in Requests, NEW x \in BrokerTask, task' = [task EXCEPT ![t] = x],
           task[t].pc = "bind", UNCHANGED <<idp, acc, pending, entry>>,
           acc[task[t].user].here,
           link' = [link EXCEPT ![task[t].id.subj] = task[t].user],
           hist' = [hist EXCEPT !.linked = @ \cup {task[t].user},
                       !.crossed = IF task[t].pass # "create" /\ task[t].user \in News \ hist.linked
                                   THEN @ \cup {task[t].user} ELSE @],
           Placed(x), RoleTask(x), \A f \in Browsers : Holds(x, f) => Holds(task[t], f),
           x.pc \notin {"find", "load", "email", "form", "password"},
           x.user \in News => x.user = task[t].user, x.pass # "create"
    PROVE  BrokerInv'
<1>1. PICK a \in Broker!Accounts : a = task[t].user
  BY OneRequest DEF Placed
<1>2. PICK s \in Subjects : s = task[t].id.subj
  BY OneRequest DEF Placed
<1>3. hist \in BrokerHist /\ link \in [Subjects -> Broker!Accounts \cup {Broker!None}]
  BY DEF BrokerInv, BrokerTypes
<1>4. PICK c : c = IF task[t].pass # "create" /\ a \in News \ hist.linked
                   THEN hist.crossed \cup {a} ELSE hist.crossed
  OBVIOUS
<1>5. /\ c \subseteq Broker!Accounts /\ hist.crossed \subseteq c
      /\ task[t].pass # "create" /\ a \in News \ hist.linked => a \in c
  BY <1>3, <1>4, BrokerHistFields
<1>6. PICK h : h = [hist EXCEPT !.linked = @ \cup {a}, !.crossed = c]
  OBVIOUS
<1>7. h \in BrokerHist
  BY <1>3, <1>5, <1>6 DEF BrokerHist
<1>8. /\ h.made = hist.made /\ h.wrong = hist.wrong /\ h.logins = hist.logins
      /\ h.linked = hist.linked \cup {a} /\ h.entered = hist.entered /\ h.crossed = c
      /\ h.stranded = hist.stranded /\ h.removed = hist.removed /\ h.local = hist.local
  BY <1>3, <1>6 DEF BrokerHist
<1>9. hist' = h
  <2>1. hist' = [hist EXCEPT !.linked = @ \cup {a}, !.crossed =
                   IF task[t].pass # "create" /\ a \in News \ hist.linked
                   THEN @ \cup {a} ELSE @]
    BY <1>1
  <2>2. [hist EXCEPT !.linked = @ \cup {a}, !.crossed =
                   IF task[t].pass # "create" /\ a \in News \ hist.linked
                   THEN @ \cup {a} ELSE @] = h
    BY <1>3, <1>4, <1>6
  <2> QED BY <2>1, <2>2
<1>10. /\ hist' \in BrokerHist
       /\ hist'.made = hist.made /\ hist'.wrong = hist.wrong /\ hist'.logins = hist.logins
       /\ hist'.linked = hist.linked \cup {a} /\ hist'.entered = hist.entered
       /\ hist'.crossed = c /\ hist'.stranded = hist.stranded
       /\ hist'.removed = hist.removed /\ hist'.local = hist.local
  BY <1>7, <1>8, <1>9
<1>11. /\ acc' = acc /\ pending' = pending /\ entry' = entry /\ idp' = idp /\ acc[a].here
  BY <1>1
<1>12. /\ link' \in [Subjects -> Broker!Accounts \cup {Broker!None}]
       /\ \A u \in Subjects : link'[u] \in {link[u], a}
  BY <1>1, <1>2, <1>3
<1>13. BrokerTypes' /\ \A u \in Requests : Placed(task'[u])
  BY <1>10, <1>11, <1>12, OthersStay DEF BrokerInv, BrokerTypes
<1>14. FlowInv'
  <2>1. FlowTask(x)
    BY OneRequest DEF FlowTask
  <2> QED BY <1>10, <1>11, <2>1, FlowFrame
<1>15. RoleInv'
  BY <1>10, <1>11, RoleFrame
<1>16. NewsInv'
  <2>1. /\ task'[t] = x /\ \A u \in Requests : u # t => task'[u] = task[u]
    BY DEF BrokerInv, BrokerTypes
  <2>2. a \in News => a \in hist.made
    BY <1>1, OneRequest DEF NewsTask
  <2>3. ASSUME NEW u \in Requests PROVE NewsTask(task[u])'
    <3>1. CASE u = t
      BY <1>1, <1>10, <2>1, <2>2, <3>1 DEF NewsTask
    <3>2. CASE u # t
      <4>1. NewsTask(task[u]) /\ task'[u] = task[u]
        BY <2>1, <3>2, OneRequest
      <4>2. task[u].pass = "create" /\ task[u].user = a /\ a \in News => a \in c
        <5>1. CASE task[t].pass = "create"
          BY <1>1, <3>2, <5>1 DEF BrokerInv, NewsInv, Creates
        <5>2. CASE task[t].pass # "create"
          BY <1>5, <4>1, <5>2 DEF NewsTask
        <5> QED BY <5>1, <5>2
      <4> QED BY <1>5, <1>10, <4>1, <4>2 DEF NewsTask
    <3> QED BY <3>1, <3>2
  <2>4. \A f \in Browsers : entry'[f].user \in News => entry'[f].user \in hist'.made
    BY <1>10, <1>11 DEF BrokerInv, NewsInv
  <2>5. \A u \in Subjects : link'[u] \in News => link'[u] \in hist'.linked
    BY <1>10, <1>12 DEF BrokerInv, NewsInv
  <2>6. ASSUME NEW b \in News
        PROVE  /\ b \in hist'.linked => b \in hist'.made
               /\ b \in hist'.entered => b \in hist'.linked
               /\ b \notin hist'.made => acc'[b].here = FALSE
               /\ b \in hist'.entered /\ acc'[b].here = FALSE =>
                     b \in hist'.removed \cup hist'.crossed
    BY <1>5, <1>10, <1>11, <2>2 DEF BrokerInv, NewsInv
  <2>7. ASSUME NEW b \in News
        PROVE  /\ \A u, w \in Requests : Creates(task'[u], b) /\ Creates(task'[w], b) => u = w
               /\ acc'[b].here = TRUE => \/ b \in hist'.linked \cup hist'.stranded
                                         \/ \E u \in Requests : Creates(task'[u], b)
    <3>1. \A u \in Requests : Creates(task'[u], b) => Creates(task[u], b)
      BY <2>1 DEF Creates
    <3>2. ASSUME NEW u \in Requests, Creates(task[u], b), ~Creates(task'[u], b) PROVE b = a
      BY <1>1, <2>1, <3>2 DEF Creates
    <3>3. acc[b].here = TRUE => \/ b \in hist.linked \cup hist.stranded
                                \/ \E u \in Requests : Creates(task[u], b)
      BY DEF BrokerInv, NewsInv
    <3>4. \A u, w \in Requests : Creates(task'[u], b) /\ Creates(task'[w], b) => u = w
      BY <3>1 DEF BrokerInv, NewsInv
    <3> QED BY <1>10, <1>11, <3>2, <3>3, <3>4
  <2> QED BY <2>3, <2>4, <2>5, <2>6, <2>7 DEF NewsInv
<1> QED BY <1>13, <1>14, <1>15, <1>16 DEF BrokerInv

\* The link is made, or the creator goes on to delete the account.
LEMMA BrokerCreateLink ==
    ASSUME BrokerInv, NEW t \in Requests, Broker!CreateLink(t)
    PROVE  BrokerInv'
<1> DEFINE free == /\ link[task[t].id.subj] = Broker!None /\ ~Broker!Linked(task[t].user)
                   /\ acc[task[t].user].here
<1>1. /\ task[t].pc = "bind" /\ task[t].pass \in {"create", "link", "attach"}
      /\ task[t].id.subj \in Subjects /\ task[t] \in BrokerTask /\ task[t].user \in Broker!Accounts
      /\ task[t].pass # "attach" => task[t].flow \in Browsers
      /\ UNCHANGED <<idp, acc, pending, entry>> /\ hist \in BrokerHist
  BY OneRequest DEF Placed, Broker!CreateLink, BrokerInv, BrokerTypes
<1> DEFINE written ==
      /\ free /\ link' = [link EXCEPT ![task[t].id.subj] = task[t].user]
      /\ hist' = [hist EXCEPT !.linked = @ \cup {task[t].user},
                     !.crossed = IF task[t].pass # "create" /\ task[t].user \in News \ hist.linked
                                 THEN @ \cup {task[t].user} ELSE @]
<1>2. CASE written /\ task[t].pass = "attach" /\ Broker!Done(t)
  <2>1. task' = [task EXCEPT ![t] = Broker!IdleTask] /\ Broker!IdleTask.pass = "skip"
    BY <1>2 DEF Broker!Done, Broker!Set, Broker!IdleTask
  <2>2. Broker!IdleTask.user \notin News
    BY IdleRequest, BrokerConstants
  <2> QED BY <1>1, <1>2, <2>1, <2>2, IdleRequest, AccountLinked
<1>3. CASE written /\ task[t].pass = "link" /\ Broker!Set(t, Broker!Mapping(task[t]))
  <2>1. PICK y \in BrokerTask :
                /\ y = Broker!Mapping(task[t])
                /\ y.flow = task[t].flow /\ y.id = task[t].id /\ y.user = task[t].user
                /\ y.rec = task[t].rec
                /\ y.pass = task[t].pass /\ y.tries = task[t].tries
                /\ y.pc \in {"held", "revoke"}
                /\ (y.pc = "revoke" => task[t].pass = "force" /\ task[t].rec = TRUE)
    BY <1>1, MappingFacts, Zenon
  <2>2. y.pc = "held" /\ y.pass = "link"
    BY <1>3, <2>1
  <2>3. Placed(y)
    BY <1>1, <2>1, <2>2 DEF Placed, Roles
  <2>4. RoleTask(y)
    BY <1>1, <2>1, <2>2, OneRequest DEF RoleTask, Copying
  <2>5. \A f \in Browsers : Holds(y, f) => Holds(task[t], f)
    BY <1>1, <1>3, <2>1 DEF Holds
  <2> QED BY <1>1, <1>3, <2>1, <2>2, <2>3, <2>4, <2>5, AccountLinked DEF Broker!Set
<1>4. CASE written /\ task[t].pass = "create" /\ Broker!Set(t, Broker!ToLogin(task[t]))
  <2>1. PICK y \in BrokerTask :
                /\ y = Broker!ToLogin(task[t]) /\ y.pc = "login" /\ y.flow = task[t].flow
                /\ y.user = task[t].user /\ y.pass = "skip" /\ y.rec = FALSE
    BY <1>1, ToLoginFacts, Zenon
  <2>2. Placed(y)
    BY <1>1, <1>4, <2>1 DEF Placed, Roles
  <2>3. RoleTask(y)
    BY <2>1 DEF RoleTask, Copying, Roles
  <2>4. \A f \in Browsers : Holds(y, f) => Holds(task[t], f)
    BY <1>1, <1>4, <2>1 DEF Holds
  <2> QED BY <1>1, <1>4, <2>1, <2>2, <2>3, <2>4, AccountLinked DEF Broker!Set
<1>5. CASE /\ UNCHANGED link /\ (Broker!Works \/ Broker!Fault)
           /\ task[t].pass # "create" /\ Broker!Done(t)
  <2>1. Tallied(hist')
    BY <1>1, <1>5, BoundsMove
  <2>2. \A b \in News : ~Creates(task[t], b)
    BY <1>5 DEF Creates
  <2> QED BY <1>1, <1>5, <2>1, <2>2, RequestEnds
<1>6. CASE /\ UNCHANGED link /\ (Broker!Works \/ Broker!Fault)
           /\ task[t].pass = "create" /\ Broker!Set(t, [task[t] EXCEPT !.pc = "undo"])
  <2>1. Tallied(hist')
    BY <1>1, <1>6, BoundsMove
  <2>2. PICK x : x = [task[t] EXCEPT !.pc = "undo"]
    OBVIOUS
  <2>3. x \in BrokerTask
    BY <1>1, <2>2 DEF BrokerTask, BrokerPCs
  <2>4. /\ x.pc = "undo" /\ x.id = task[t].id /\ x.user = task[t].user
        /\ x.flow = task[t].flow /\ x.pass = "create" /\ x.rec = task[t].rec
    BY <1>1, <1>6, <2>2 DEF BrokerTask
  <2>5. Placed(x)
    BY <1>1, <1>6, <2>4 DEF Placed, Roles
  <2>6. \A f \in Browsers : Holds(x, f) => Holds(task[t], f)
    BY <1>1, <1>6, <2>4 DEF Holds
  <2>7. FlowTask(x)
    BY <2>4, <2>6, OneRequest DEF FlowTask
  <2>8. RoleTask(x) /\ NewsTask(x) /\ \A b \in News : Creates(x, b) <=> Creates(task[t], b)
    BY <1>6, <2>4, OneRequest DEF RoleTask, Copying, NewsTask, Roles, Creates
  <2> QED BY <1>1, <1>6, <2>1, <2>2, <2>3, <2>5, <2>6, <2>7, <2>8, RequestMoves DEF Broker!Set
<1> QED BY <1>1, <1>2, <1>3, <1>4, <1>5, <1>6 DEF Broker!CreateLink, Broker!Undoes

\* The creator deletes an account that was logged in to only if crossed.
LEMMA BrokerDeleteUser ==
    ASSUME BrokerInv, NEW t \in Requests, Broker!DeleteUser(t)
    PROVE  BrokerInv'
<1>1. PICK a \in Broker!Accounts : a = task[t].user
  BY OneRequest DEF Placed, Broker!DeleteUser
<1>2. /\ task[t].pc = "undo" /\ task[t].pass = "create" /\ task[t] \in BrokerTask
      /\ UNCHANGED <<idp, pending, entry>> /\ hist \in BrokerHist
      /\ acc \in [Broker!Accounts -> AccState]
      /\ link \in [Subjects -> Broker!Accounts \cup {Broker!None}]
      /\ task' = [task EXCEPT ![t] = Broker!IdleTask]
  BY OneRequest DEF Placed, Broker!DeleteUser, BrokerInv, BrokerTypes, Broker!Done, Broker!Set
<1>3. \A b \in News : Creates(task[t], b) => b = a
  BY <1>1 DEF Creates
<1>4. \A f \in Browsers : entry'[f].user \in News => entry'[f].user \in hist.made
  BY <1>2 DEF BrokerInv, NewsInv
<1>5. hist.local \subseteq Broker!Accounts
  BY <1>2, BrokerHistFields
<1>6. CASE /\ acc' = [acc EXCEPT ![a] = Broker!NoAccount] /\ link' = Broker!Unlinked(a)
           /\ hist' = [hist EXCEPT !.local = @ \ {a}]
  <2>1. PICK h : h = [hist EXCEPT !.local = @ \ {a}]
    OBVIOUS
  <2>2. h \in BrokerHist
    BY <1>2, <2>1 DEF BrokerHist
  <2>3. /\ h.made = hist.made /\ h.wrong = hist.wrong /\ h.logins = hist.logins
        /\ h.linked = hist.linked /\ h.entered = hist.entered /\ h.crossed = hist.crossed
        /\ h.stranded = hist.stranded /\ h.removed = hist.removed /\ h.local = hist.local \ {a}
    BY <1>2, <2>1 DEF BrokerHist
  <2>4. /\ hist' \in BrokerHist
        /\ hist'.made = hist.made /\ hist'.wrong = hist.wrong /\ hist'.logins = hist.logins
        /\ hist'.linked = hist.linked /\ hist'.entered = hist.entered
        /\ hist'.crossed = hist.crossed /\ hist'.stranded = hist.stranded
        /\ hist'.removed = hist.removed /\ hist'.local = hist.local \ {a}
    BY <1>6, <2>1, <2>2, <2>3
  <2>5. /\ acc' \in [Broker!Accounts -> AccState] /\ acc'[a].here = FALSE
        /\ \A b \in Broker!Accounts : b # a => acc'[b] = acc[b]
    BY <1>2, <1>6 DEF Broker!NoAccount, AccState, Broker!Mails
  <2>6. /\ link' \in [Subjects -> Broker!Accounts \cup {Broker!None}]
        /\ \A s \in Subjects : link'[s] \in {link[s], Broker!None}
    BY <1>2, <1>6 DEF Broker!Unlinked
  <2>7. BrokerTypes' /\ \A u \in Requests : Placed(task'[u])
    BY <1>2, <2>4, <2>5, <2>6, IdleRequest, OthersStay DEF BrokerInv, BrokerTypes
  <2>8. FlowInv'
    BY <1>2, <2>4, IdleRequest, FlowFrame
  <2>9. RoleInv'
    <3>1. \A b \in hist'.local : acc'[b] = acc[b]
      BY <1>5, <2>4, <2>5
    <3> QED BY <1>2, <2>4, <3>1, IdleRequest, RoleFrame
  <2>10. NewsInv'
    <3>1. a \in News /\ a \in hist.entered => a \in hist.crossed
      BY <1>1, <1>2, OneRequest DEF NewsTask, BrokerInv, NewsInv
    <3>2. \A b \in News : \/ acc'[b].here = acc[b].here
                          \/ /\ acc'[b].here = FALSE
                             /\ b \in hist.entered => b \in hist'.removed \cup hist.crossed
      BY <2>5, <3>1, BrokerConstants
    <3>3. \A b \in News : Creates(task[t], b) => acc'[b].here = FALSE
      BY <1>3, <2>5
    <3> QED BY <1>2, <1>4, <2>4, <2>6, <3>2, <3>3, IdleRequest, NewsFrame
  <2> QED BY <2>7, <2>8, <2>9, <2>10 DEF BrokerInv
<1>7. CASE /\ UNCHANGED <<acc, link>>
           /\ hist' = [hist EXCEPT !.events = @ + 1, !.stranded = @ \cup {a}]
  <2>1. PICK h : h = [hist EXCEPT !.events = @ + 1, !.stranded = @ \cup {a}]
    OBVIOUS
  <2>2. h \in BrokerHist
    <3>1. hist.events + 1 \in Nat /\ hist.stranded \cup {a} \in SUBSET Broker!Accounts
      BY <1>2, BrokerHistFields
    <3> QED BY <1>2, <2>1, <3>1 DEF BrokerHist
  <2>3. /\ h.made = hist.made /\ h.wrong = hist.wrong /\ h.logins = hist.logins
        /\ h.linked = hist.linked /\ h.entered = hist.entered /\ h.crossed = hist.crossed
        /\ h.stranded = hist.stranded \cup {a} /\ h.removed = hist.removed
        /\ h.local = hist.local
    BY <1>2, <2>1 DEF BrokerHist
  <2>4. /\ hist' \in BrokerHist
        /\ hist'.made = hist.made /\ hist'.wrong = hist.wrong /\ hist'.logins = hist.logins
        /\ hist'.linked = hist.linked /\ hist'.entered = hist.entered
        /\ hist'.crossed = hist.crossed /\ hist'.stranded = hist.stranded \cup {a}
        /\ hist'.removed = hist.removed /\ hist'.local = hist.local
    BY <1>7, <2>1, <2>2, <2>3
  <2>5. acc' = acc /\ link' = link
    BY <1>7
  <2>6. BrokerTypes' /\ \A u \in Requests : Placed(task'[u])
    BY <1>2, <2>4, <2>5, IdleRequest, OthersStay DEF BrokerInv, BrokerTypes
  <2>7. FlowInv'
    BY <1>2, <2>4, IdleRequest, FlowFrame
  <2>8. RoleInv'
    BY <1>2, <2>4, <2>5, IdleRequest, RoleFrame
  <2>9. NewsInv'
    BY <1>2, <1>3, <1>4, <2>4, <2>5, IdleRequest, NewsFrame
  <2> QED BY <2>6, <2>7, <2>8, <2>9 DEF BrokerInv
<1> QED BY <1>1, <1>6, <1>7 DEF Broker!DeleteUser

-----------------------------------------------------------------------------
(* Mapped roles, and the end of the login *)

\* A row is written by the request that works on it.
LEMMA AccountWritten ==
    ASSUME BrokerInv, NEW t \in Requests, NEW x \in BrokerTask, task' = [task EXCEPT ![t] = x],
           NEW a \in Broker!Accounts, NEW v \in AccState, acc' = [acc EXCEPT ![a] = v],
           v.here = acc[a].here,
           a \in hist.local => v.role = acc[a].role /\ v.rec = acc[a].rec,
           UNCHANGED <<idp, link, pending, entry>>, Tallied(hist'),
           Placed(x), FlowTask(x), RoleTask(x), NewsTask(x),
           \A f \in Browsers : Holds(x, f) => Holds(task[t], f),
           \A b \in News : Creates(x, b) <=> Creates(task[t], b)
    PROVE  BrokerInv'
<1>1. /\ acc' \in [Broker!Accounts -> AccState] /\ acc'[a] = v
      /\ \A b \in Broker!Accounts : b # a => acc'[b] = acc[b]
  BY DEF BrokerInv, BrokerTypes
<1>2. BrokerTypes' /\ \A u \in Requests : Placed(task'[u])
  BY <1>1, OthersStay DEF BrokerInv, BrokerTypes, Tallied
<1>3. FlowInv'
  BY FlowFrame DEF Tallied
<1>4. RoleInv'
  <2>1. hist'.local = hist.local /\ hist.local \subseteq Broker!Accounts
    BY BrokerHistFields DEF Tallied, BrokerInv, BrokerTypes
  <2>2. \A b \in hist'.local : /\ acc'[b].here = acc[b].here /\ acc'[b].role = acc[b].role
                               /\ acc'[b].rec = acc[b].rec
    BY <1>1, <2>1
  <2> QED BY <2>1, <2>2, RoleFrame
<1>5. NewsInv'
  <2>1. \A b \in News : acc'[b].here = acc[b].here
    BY <1>1, BrokerConstants
  <2>2. \A f \in Browsers : entry'[f].user \in News => entry'[f].user \in hist.made
    BY DEF BrokerInv, NewsInv
  <2> QED BY <2>1, <2>2, NewsFrame DEF Tallied
<1> QED BY <1>2, <1>3, <1>4, <1>5 DEF BrokerInv

\* A request that maps roles keeps its flow, its identity and its account.
LEMMA StaysAtWork ==
    ASSUME BrokerInv, NEW t \in Requests, NEW x \in BrokerTask,
           task[t].pc \in Roles, x.pc \in Roles \cup {"bind"},
           x.flow = task[t].flow, x.id = task[t].id, x.user = task[t].user, x.pass = task[t].pass,
           x.pc = "bind" => x.pass = "create", x.pc # "revoke",
           x.user \in hist.local => x.rec = FALSE /\ (x.pc = "grant" => x.held = "unknown")
    PROVE  /\ Placed(x) /\ FlowTask(x) /\ RoleTask(x) /\ NewsTask(x)
           /\ \A f \in Browsers : Holds(x, f) => Holds(task[t], f)
           /\ \A b \in News : Creates(x, b) <=> Creates(task[t], b)
<1>1. Placed(task[t]) /\ FlowTask(task[t]) /\ NewsTask(task[t])
  BY OneRequest
<1>2. Placed(x)
  BY <1>1 DEF Placed, Roles
<1>3. \A f \in Browsers : Holds(x, f) => Holds(task[t], f)
  BY DEF Holds, Roles
<1>4. FlowTask(x)
  BY <1>1, <1>3 DEF FlowTask, Roles
<1>5. RoleTask(x) /\ NewsTask(x)
  BY <1>1 DEF RoleTask, NewsTask, Roles
<1> QED BY <1>2, <1>3, <1>4, <1>5 DEF Creates

\* What comes after the roles.
LEMMA AfterRolesFacts ==
    ASSUME NEW r \in BrokerTask
    PROVE  \E y \in BrokerTask :
                /\ y = Broker!AfterRoles(r)
                /\ y.flow = r.flow /\ y.id = r.id /\ y.user = r.user /\ y.rec = r.rec
                /\ y.pass = r.pass /\ y.pc \in {"bind", "save"}
                /\ (y.pc = "bind" => r.pass = "create")
<1>1. PICK p : p = IF r.pass = "create" /\ ~r.rec THEN "bind" ELSE "save"
  OBVIOUS
<1>2. p \in {"bind", "save"} /\ (p = "bind" => r.pass = "create")
  BY <1>1
<1>3. PICK y : y = [r EXCEPT !.pc = p, !.held = "unknown"]
  OBVIOUS
<1>4. y \in BrokerTask
  BY <1>2, <1>3 DEF BrokerTask, BrokerPCs
<1>5. /\ y.pc = p /\ y.flow = r.flow /\ y.id = r.id /\ y.user = r.user /\ y.rec = r.rec
      /\ y.pass = r.pass
  BY <1>3 DEF BrokerTask
<1>6. y = Broker!AfterRoles(r)
  BY <1>1, <1>3 DEF Broker!AfterRoles
<1> QED BY <1>2, <1>4, <1>5, <1>6

\* Only a recorded role is revoked, and a local role has no record.
LEMMA BrokerRevokeMappedRoles ==
    ASSUME BrokerInv, NEW t \in Requests, Broker!RevokeMappedRoles(t)
    PROVE  BrokerInv'
<1>1. /\ task[t].pc = "revoke" /\ task[t] \in BrokerTask /\ task[t].user \in Broker!Accounts
      /\ task[t].rec = TRUE /\ UNCHANGED <<idp, link, pending, entry>> /\ hist \in BrokerHist
  BY OneRequest DEF Placed, Roles, Broker!RevokeMappedRoles, BrokerInv, BrokerTypes
<1>2. task[t].user \notin hist.local
  BY <1>1, OneRequest DEF RoleTask, Copying, Roles
<1>3. CASE /\ Broker!Works /\ acc' = [acc EXCEPT ![task[t].user].role = FALSE]
           /\ Broker!Set(t, [task[t] EXCEPT !.pc = "held", !.rec = FALSE])
  <2>1. PICK x : x = [task[t] EXCEPT !.pc = "held", !.rec = FALSE]
    OBVIOUS
  <2>2. x \in BrokerTask
    BY <1>1, <2>1 DEF BrokerTask, BrokerPCs
  <2>3. /\ x.pc = "held" /\ x.flow = task[t].flow /\ x.id = task[t].id /\ x.user = task[t].user
        /\ x.pass = task[t].pass
    BY <1>1, <2>1 DEF BrokerTask
  <2>4. /\ Placed(x) /\ FlowTask(x) /\ RoleTask(x) /\ NewsTask(x)
        /\ \A f \in Browsers : Holds(x, f) => Holds(task[t], f)
        /\ \A b \in News : Creates(x, b) <=> Creates(task[t], b)
    BY <1>1, <1>2, <2>2, <2>3, StaysAtWork DEF Roles
  <2>5. PICK v : v = [acc[task[t].user] EXCEPT !.role = FALSE]
    OBVIOUS
  <2>6. v \in AccState /\ v.here = acc[task[t].user].here
    BY <1>1, <2>5 DEF BrokerInv, BrokerTypes, AccState
  <2>7. acc' = [acc EXCEPT ![task[t].user] = v]
    BY <1>3, <2>5
  <2>8. Tallied(hist') /\ task' = [task EXCEPT ![t] = x]
    BY <1>1, <1>3, <2>1, BoundsMove DEF Broker!Set
  <2> QED BY <1>1, <1>2, <2>2, <2>4, <2>6, <2>7, <2>8, AccountWritten
<1>4. CASE /\ Broker!Fault /\ UNCHANGED acc /\ Broker!Set(t, [task[t] EXCEPT !.pc = "held"])
  <2>1. PICK x : x = [task[t] EXCEPT !.pc = "held"]
    OBVIOUS
  <2>2. x \in BrokerTask
    BY <1>1, <2>1 DEF BrokerTask, BrokerPCs
  <2>3. /\ x.pc = "held" /\ x.flow = task[t].flow /\ x.id = task[t].id /\ x.user = task[t].user
        /\ x.pass = task[t].pass
    BY <1>1, <2>1 DEF BrokerTask
  <2>4. /\ Placed(x) /\ FlowTask(x) /\ RoleTask(x) /\ NewsTask(x)
        /\ \A f \in Browsers : Holds(x, f) => Holds(task[t], f)
        /\ \A b \in News : Creates(x, b) <=> Creates(task[t], b)
    BY <1>1, <1>2, <2>2, <2>3, StaysAtWork DEF Roles
  <2>5. Tallied(hist') /\ task' = [task EXCEPT ![t] = x]
    BY <1>1, <1>4, <2>1, BoundsMove DEF Broker!Set
  <2> QED BY <1>1, <1>4, <2>2, <2>4, <2>5, RequestMoves
<1> QED BY <1>3, <1>4 DEF Broker!RevokeMappedRoles

\* A local role is found to be held, or nothing is known.
LEMMA BrokerListHeld ==
    ASSUME BrokerInv, NEW t \in Requests, Broker!ListHeld(t)
    PROVE  BrokerInv'
<1>1. /\ task[t].pc = "held" /\ task[t] \in BrokerTask /\ task[t].user \in Broker!Accounts
      /\ UNCHANGED <<idp, acc, link, pending, entry>> /\ hist \in BrokerHist
  BY OneRequest DEF Placed, Roles, Broker!ListHeld, BrokerInv, BrokerTypes
<1>2. task[t].user \in hist.local => task[t].rec = FALSE /\ acc[task[t].user].role = TRUE
  BY <1>1, OneRequest DEF RoleTask, Copying, Roles, BrokerInv, RoleInv
<1>3. PICK h \in {"yes", "no", "unknown"} :
        /\ (Broker!Works \/ Broker!Fault)
        /\ h = "no" => ~acc[task[t].user].role
        /\ Broker!Set(t, IF Broker!Grants([task[t] EXCEPT !.held = h])
                         THEN [[task[t] EXCEPT !.held = h] EXCEPT !.pc = "grant"]
                         ELSE Broker!AfterRoles([task[t] EXCEPT !.held = h]))
  BY DEF Broker!ListHeld
<1>4. PICK q : q = [task[t] EXCEPT !.held = h]
  OBVIOUS
<1>5. q \in BrokerTask
  BY <1>1, <1>4 DEF BrokerTask
<1>6. /\ q.flow = task[t].flow /\ q.id = task[t].id /\ q.user = task[t].user
      /\ q.pass = task[t].pass /\ q.rec = task[t].rec /\ q.held = h
  BY <1>1, <1>4 DEF BrokerTask
<1>7. Tallied(hist')
  BY <1>1, <1>3, BoundsMove
<1>8. CASE Broker!Grants(q)
  <2>1. PICK x : x = [q EXCEPT !.pc = "grant"]
    OBVIOUS
  <2>2. x \in BrokerTask
    BY <1>5, <2>1 DEF BrokerTask, BrokerPCs
  <2>3. /\ x.pc = "grant" /\ x.flow = task[t].flow /\ x.id = task[t].id /\ x.user = task[t].user
        /\ x.pass = task[t].pass /\ x.rec = task[t].rec /\ x.held = h
    BY <1>5, <1>6, <2>1 DEF BrokerTask
  <2>4. task[t].user \in hist.local => h = "unknown"
    BY <1>2, <1>3, <1>6, <1>8 DEF Broker!Grants
  <2>5. /\ Placed(x) /\ FlowTask(x) /\ RoleTask(x) /\ NewsTask(x)
        /\ \A f \in Browsers : Holds(x, f) => Holds(task[t], f)
        /\ \A b \in News : Creates(x, b) <=> Creates(task[t], b)
    BY <1>1, <1>2, <2>2, <2>3, <2>4, StaysAtWork DEF Roles
  <2>6. task' = [task EXCEPT ![t] = x]
    BY <1>3, <1>4, <1>8, <2>1 DEF Broker!Set
  <2> QED BY <1>1, <1>7, <2>2, <2>5, <2>6, RequestMoves
<1>9. CASE ~Broker!Grants(q)
  <2>1. PICK y \in BrokerTask :
                /\ y = Broker!AfterRoles(q)
                /\ y.flow = q.flow /\ y.id = q.id /\ y.user = q.user /\ y.rec = q.rec
                /\ y.pass = q.pass /\ y.pc \in {"bind", "save"}
                /\ (y.pc = "bind" => q.pass = "create")
    BY <1>5, AfterRolesFacts, Zenon
  <2>2. /\ Placed(y) /\ FlowTask(y) /\ RoleTask(y) /\ NewsTask(y)
        /\ \A f \in Browsers : Holds(y, f) => Holds(task[t], f)
        /\ \A b \in News : Creates(y, b) <=> Creates(task[t], b)
    BY <1>1, <1>2, <1>6, <2>1, StaysAtWork DEF Roles
  <2>3. task' = [task EXCEPT ![t] = y]
    BY <1>3, <1>4, <1>9, <2>1 DEF Broker!Set
  <2> QED BY <1>1, <1>7, <2>1, <2>2, <2>3, RequestMoves
<1> QED BY <1>8, <1>9

\* A role whose holders were not known is not recorded.
LEMMA BrokerGrantRole ==
    ASSUME BrokerInv, NEW t \in Requests, Broker!GrantRole(t)
    PROVE  BrokerInv'
<1>1. /\ task[t].pc = "grant" /\ task[t] \in BrokerTask /\ task[t].user \in Broker!Accounts
      /\ UNCHANGED <<idp, link, pending, entry>> /\ hist \in BrokerHist
  BY OneRequest DEF Placed, Roles, Broker!GrantRole, BrokerInv, BrokerTypes
<1>2. task[t].user \in hist.local =>
        /\ task[t].rec = FALSE /\ task[t].held = "unknown" /\ acc[task[t].user].role = TRUE
  BY <1>1, OneRequest DEF RoleTask, Copying, Roles, BrokerInv, RoleInv
<1>3. CASE /\ Broker!Works /\ acc' = [acc EXCEPT ![task[t].user].role = TRUE]
           /\ Broker!Set(t, Broker!AfterRoles([task[t] EXCEPT !.rec = @ \/ task[t].held # "unknown"]))
  <2>1. PICK c \in BOOLEAN : c = (task[t].rec \/ task[t].held # "unknown")
    OBVIOUS
  <2>2. task[t].user \in hist.local => c = FALSE
    BY <1>2, <2>1
  <2>3. PICK q : q = [task[t] EXCEPT !.rec = c]
    OBVIOUS
  <2>4. q = [task[t] EXCEPT !.rec = @ \/ task[t].held # "unknown"]
    BY <2>1, <2>3
  <2>5. q \in BrokerTask
    BY <1>1, <2>3 DEF BrokerTask
  <2>6. /\ q.flow = task[t].flow /\ q.id = task[t].id /\ q.user = task[t].user
        /\ q.pass = task[t].pass /\ q.rec = c
    BY <1>1, <2>3 DEF BrokerTask
  <2>7. PICK y \in BrokerTask :
                /\ y = Broker!AfterRoles(q)
                /\ y.flow = q.flow /\ y.id = q.id /\ y.user = q.user /\ y.rec = q.rec
                /\ y.pass = q.pass /\ y.pc \in {"bind", "save"}
                /\ (y.pc = "bind" => q.pass = "create")
    BY <2>5, AfterRolesFacts, Zenon
  <2>8. /\ Placed(y) /\ FlowTask(y) /\ RoleTask(y) /\ NewsTask(y)
        /\ \A f \in Browsers : Holds(y, f) => Holds(task[t], f)
        /\ \A b \in News : Creates(y, b) <=> Creates(task[t], b)
    BY <1>1, <2>2, <2>6, <2>7, StaysAtWork DEF Roles
  <2>9. PICK v : v = [acc[task[t].user] EXCEPT !.role = TRUE]
    OBVIOUS
  <2>10. /\ v \in AccState /\ v.here = acc[task[t].user].here /\ v.role = TRUE
         /\ v.rec = acc[task[t].user].rec
    BY <1>1, <2>9 DEF BrokerInv, BrokerTypes, AccState
  <2>11. acc' = [acc EXCEPT ![task[t].user] = v]
    BY <1>3, <2>9
  <2>12. Tallied(hist') /\ task' = [task EXCEPT ![t] = y]
    BY <1>1, <1>3, <2>4, <2>7, BoundsMove DEF Broker!Set
  <2> QED BY <1>1, <1>2, <2>7, <2>8, <2>10, <2>11, <2>12, AccountWritten
<1>4. CASE /\ Broker!Works \/ Broker!Fault
           /\ UNCHANGED acc /\ Broker!Set(t, Broker!AfterRoles(task[t]))
  <2>1. PICK y \in BrokerTask :
                /\ y = Broker!AfterRoles(task[t])
                /\ y.flow = task[t].flow /\ y.id = task[t].id /\ y.user = task[t].user
                /\ y.rec = task[t].rec
                /\ y.pass = task[t].pass /\ y.pc \in {"bind", "save"}
                /\ (y.pc = "bind" => task[t].pass = "create")
    BY <1>1, AfterRolesFacts, Zenon
  <2>2. /\ Placed(y) /\ FlowTask(y) /\ RoleTask(y) /\ NewsTask(y)
        /\ \A f \in Browsers : Holds(y, f) => Holds(task[t], f)
        /\ \A b \in News : Creates(y, b) <=> Creates(task[t], b)
    BY <1>1, <1>2, <2>1, StaysAtWork DEF Roles
  <2>3. Tallied(hist') /\ task' = [task EXCEPT ![t] = y]
    BY <1>1, <1>4, <2>1, BoundsMove DEF Broker!Set
  <2> QED BY <1>1, <1>4, <2>1, <2>2, <2>3, RequestMoves
<1> QED BY <1>3, <1>4 DEF Broker!GrantRole

\* The record of an account with a local role stays empty.
LEMMA BrokerSaveUser ==
    ASSUME BrokerInv, NEW t \in Requests, Broker!SaveUser(t)
    PROVE  BrokerInv'
<1>1. /\ task[t].pc = "save" /\ task[t] \in BrokerTask /\ task[t].user \in Broker!Accounts
      /\ task[t].flow \in Browsers
      /\ UNCHANGED <<idp, link, pending, entry>> /\ hist \in BrokerHist
  BY OneRequest DEF Placed, Roles, Broker!SaveUser, BrokerInv, BrokerTypes
<1>2. task[t].user \in hist.local => task[t].rec = FALSE /\ acc[task[t].user].rec = FALSE
  BY <1>1, OneRequest DEF RoleTask, Copying, Roles, BrokerInv, RoleInv
<1>3. \E x \in BrokerTask :
        /\ task' = [task EXCEPT ![t] = x]
        /\ Placed(x) /\ FlowTask(x) /\ RoleTask(x) /\ NewsTask(x)
        /\ \A f \in Browsers : Holds(x, f) => Holds(task[t], f)
        /\ \A b \in News : Creates(x, b) <=> Creates(task[t], b)
  <2>1. CASE task[t].pass = "create"
    <3>1. PICK x : x = [task[t] EXCEPT !.pc = "bind"]
      OBVIOUS
    <3>2. x \in BrokerTask
      BY <1>1, <3>1 DEF BrokerTask, BrokerPCs
    <3>3. /\ x.pc = "bind" /\ x.flow = task[t].flow /\ x.id = task[t].id
          /\ x.user = task[t].user /\ x.pass = task[t].pass /\ x.rec = task[t].rec
      BY <1>1, <3>1 DEF BrokerTask
    <3>4. /\ Placed(x) /\ FlowTask(x) /\ RoleTask(x) /\ NewsTask(x)
          /\ \A f \in Browsers : Holds(x, f) => Holds(task[t], f)
          /\ \A b \in News : Creates(x, b) <=> Creates(task[t], b)
      BY <1>1, <1>2, <2>1, <3>2, <3>3, StaysAtWork DEF Roles
    <3>5. task' = [task EXCEPT ![t] = x]
      BY <2>1, <3>1 DEF Broker!SaveUser, Broker!Set
    <3> QED BY <3>2, <3>4, <3>5
  <2>2. CASE task[t].pass # "create"
    <3>1. PICK y \in BrokerTask :
                /\ y = Broker!ToLogin(task[t]) /\ y.pc = "login" /\ y.flow = task[t].flow
                /\ y.user = task[t].user /\ y.pass = "skip" /\ y.rec = FALSE
      BY <1>1, ToLoginFacts, Zenon
    <3>2. Placed(y)
      BY <1>1, <3>1 DEF Placed, Roles
    <3>3. \A f \in Browsers : Holds(y, f) => Holds(task[t], f)
      BY <1>1, <3>1, OneRequest DEF Holds, Placed, Roles
    <3>4. FlowTask(y)
      BY <3>1, <3>3, OneRequest DEF FlowTask
    <3>5. RoleTask(y) /\ NewsTask(y)
      BY <1>1, <2>2, <3>1, OneRequest DEF RoleTask, Copying, NewsTask, Roles
    <3>6. task' = [task EXCEPT ![t] = y]
      BY <2>2, <3>1 DEF Broker!SaveUser, Broker!Set
    <3> QED BY <2>2, <3>1, <3>2, <3>3, <3>4, <3>5, <3>6 DEF Creates
  <2> QED BY <2>1, <2>2
<1>4. PICK x \in BrokerTask :
        /\ task' = [task EXCEPT ![t] = x]
        /\ Placed(x) /\ FlowTask(x) /\ RoleTask(x) /\ NewsTask(x)
        /\ \A f \in Browsers : Holds(x, f) => Holds(task[t], f)
        /\ \A b \in News : Creates(x, b) <=> Creates(task[t], b)
  BY <1>3
<1>5. CASE Broker!Works /\ acc' = [acc EXCEPT ![task[t].user].rec = task[t].rec]
  <2>1. PICK v : v = [acc[task[t].user] EXCEPT !.rec = task[t].rec]
    OBVIOUS
  <2>2. /\ v \in AccState /\ v.here = acc[task[t].user].here /\ v.rec = task[t].rec
        /\ v.role = acc[task[t].user].role
    BY <1>1, <2>1, BrokerTaskFields DEF BrokerInv, BrokerTypes, AccState
  <2>3. acc' = [acc EXCEPT ![task[t].user] = v]
    BY <1>5, <2>1
  <2>4. Tallied(hist')
    BY <1>1, <1>5, BoundsMove
  <2> QED BY <1>1, <1>2, <1>4, <2>2, <2>3, <2>4, AccountWritten
<1>6. CASE (Broker!Works \/ Broker!Fault) /\ UNCHANGED acc
  <2>1. Tallied(hist')
    BY <1>1, <1>6, BoundsMove
  <2> QED BY <1>1, <1>4, <1>6, <2>1, RequestMoves
<1> QED BY <1>5, <1>6 DEF Broker!SaveUser

\* The flow is spent: no other request, entry or pending flow has it.
LEMMA BrokerLogin ==
    ASSUME BrokerInv, NEW t \in Requests, Broker!Login(t)
    PROVE  BrokerInv'
<1>1. PICK a \in Broker!Accounts, f \in Browsers : a = task[t].user /\ f = task[t].flow
  BY OneRequest DEF Placed, Broker!Login
<1>2. /\ task[t].pc = "login" /\ task[t].pass = "skip" /\ task[t] \in BrokerTask
      /\ UNCHANGED <<idp, acc, link, pending, entry>> /\ hist \in BrokerHist
      /\ acc \in [Broker!Accounts -> AccState]
  BY OneRequest DEF Placed, Broker!Login, BrokerInv, BrokerTypes
<1>3. Broker!Done(t) /\ task' = [task EXCEPT ![t] = Broker!IdleTask]
  BY DEF Broker!Login, Broker!Done, Broker!Set
<1>4. CASE UNCHANGED hist
  <2>1. Tallied(hist')
    BY <1>2, <1>4, BoundsMove
  <2>2. \A b \in News : ~Creates(task[t], b)
    BY <1>2 DEF Creates
  <2> QED BY <1>2, <1>3, <2>1, <2>2, RequestEnds
<1>5. CASE /\ acc[a].here
           /\ hist' = [hist EXCEPT !.logins[f] = @ + 1, !.entered = @ \cup {a}]
  <2>1. PICK n : n = [hist.logins EXCEPT ![f] = @ + 1]
    OBVIOUS
  <2>2. n \in [Browsers -> Nat] /\ hist.entered \cup {a} \in SUBSET Broker!Accounts
    BY <1>2, <2>1, BrokerHistFields
  <2>3. PICK h : h = [hist EXCEPT !.logins = n, !.entered = @ \cup {a}]
    OBVIOUS
  <2>4. h \in BrokerHist
    BY <1>2, <2>2, <2>3 DEF BrokerHist
  <2>5. /\ h.made = hist.made /\ h.wrong = hist.wrong /\ h.logins = n
        /\ h.linked = hist.linked /\ h.entered = hist.entered \cup {a} /\ h.crossed = hist.crossed
        /\ h.stranded = hist.stranded /\ h.removed = hist.removed /\ h.local = hist.local
    BY <1>2, <2>3 DEF BrokerHist
  <2>6. hist' = h
    BY <1>2, <1>5, <2>1, <2>3 DEF BrokerHist
  <2>7. /\ hist' \in BrokerHist
        /\ hist'.made = hist.made /\ hist'.wrong = hist.wrong /\ hist'.logins = n
        /\ hist'.linked = hist.linked /\ hist'.entered = hist.entered \cup {a}
        /\ hist'.crossed = hist.crossed /\ hist'.stranded = hist.stranded
        /\ hist'.removed = hist.removed /\ hist'.local = hist.local
    BY <2>4, <2>5, <2>6
  <2>8. hist.logins[f] = 0 /\ n[f] = 1 /\ \A g \in Browsers : g # f => n[g] = hist.logins[g]
    <3>1. Holds(task[t], f)
      BY <1>1, <1>2 DEF Holds
    <3>2. hist.logins[f] = 0
      BY <3>1, OneRequest DEF FlowTask
    <3> QED BY <1>2, <2>1, <3>2, BrokerHistFields
  <2>9. /\ task'[t] = Broker!IdleTask /\ \A u \in Requests : u # t => task'[u] = task[u]
    BY <1>3 DEF BrokerInv, BrokerTypes
  <2>10. BrokerTypes' /\ \A u \in Requests : Placed(task'[u])
    BY <1>2, <1>3, <2>7, IdleRequest, OthersStay DEF BrokerInv, BrokerTypes
  <2>11. FlowInv'
    <3>1. Holds(task[t], f) /\ pending[f] = FALSE /\ entry[f].here = FALSE
      BY <1>1, <1>2, OneRequest DEF Holds, FlowTask
    <3>2. \A u \in Requests, g \in Browsers :
            Holds(task'[u], g) => u # t /\ g # f /\ Holds(task[u], g)
      BY <2>9, <3>1, IdleRequest DEF BrokerInv, FlowInv
    <3>3. \A u \in Requests : FlowTask(task[u])'
      <4> SUFFICES ASSUME NEW u \in Requests, NEW g \in Browsers, Holds(task'[u], g)
                   PROVE  /\ pending'[g] = FALSE /\ entry'[g].here = FALSE /\ hist'.logins[g] = 0
                          /\ task'[u].pc \in {"find", "load", "email"} => hist'.wrong[g] = 0
                          /\ task'[u].pc \in {"form", "password"} =>
                                hist'.wrong[g] = task'[u].tries /\ task'[u].tries < MaxFailures
        BY DEF FlowTask
      <4>1. u # t /\ g # f /\ Holds(task[u], g) /\ task'[u] = task[u]
        BY <2>9, <3>2
      <4>2. /\ pending[g] = FALSE /\ entry[g].here = FALSE /\ hist.logins[g] = 0
            /\ task[u].pc \in {"find", "load", "email"} => hist.wrong[g] = 0
            /\ task[u].pc \in {"form", "password"} =>
                  hist.wrong[g] = task[u].tries /\ task[u].tries < MaxFailures
        BY <4>1, OneRequest DEF FlowTask
      <4>3. pending'[g] = pending[g] /\ entry'[g] = entry[g] /\ hist'.wrong[g] = hist.wrong[g]
        BY <1>2, <2>7
      <4>4. hist'.logins[g] = hist.logins[g]
        BY <2>7, <2>8, <4>1
      <4> QED BY <4>1, <4>2, <4>3, <4>4
    <3>4. \A u, w \in Requests, g \in Browsers : Holds(task'[u], g) /\ Holds(task'[w], g) => u = w
      BY <3>2 DEF BrokerInv, FlowInv
    <3>5. ASSUME NEW g \in Browsers
          PROVE  /\ hist'.logins[g] <= 1 /\ hist'.wrong[g] <= MaxFailures
                 /\ pending'[g] = TRUE =>
                       entry'[g].here = FALSE /\ hist'.logins[g] = 0 /\ hist'.wrong[g] = 0
                 /\ entry'[g].here = TRUE =>
                       /\ entry'[g].id.subj \in Subjects /\ hist'.logins[g] = 0
                       /\ hist'.wrong[g] = entry'[g].tries /\ entry'[g].tries < MaxFailures
      BY <1>2, <2>7, <2>8, <3>1 DEF BrokerInv, FlowInv
    <3> QED BY <3>3, <3>4, <3>5 DEF FlowInv
  <2>12. RoleInv'
    BY <1>2, <1>3, <2>7, IdleRequest, RoleFrame
  <2>13. NewsInv'
    <3>1. a \in News => a \in hist.linked
      BY <1>1, <1>2, OneRequest DEF NewsTask
    <3>2. \A u \in Requests : NewsTask(task[u])'
      <4> SUFFICES ASSUME NEW u \in Requests PROVE NewsTask(task[u])'
        OBVIOUS
      <4>1. CASE u = t
        BY <2>9, <4>1, IdleRequest, BrokerConstants DEF NewsTask
      <4>2. CASE u # t
        BY <2>7, <2>9, <4>2, OneRequest DEF NewsTask
      <4> QED BY <4>1, <4>2
    <3>3. \A u \in Requests : \A b \in News : Creates(task'[u], b) <=> Creates(task[u], b)
      BY <1>2, <2>9, IdleRequest DEF Creates
    <3>4. acc[a].here = TRUE
      BY <1>2, <1>5 DEF AccState
    <3>5. ASSUME NEW b \in News
          PROVE  /\ b \in hist'.linked => b \in hist'.made
                 /\ b \in hist'.entered => b \in hist'.linked
                 /\ b \notin hist'.made => acc'[b].here = FALSE
                 /\ b \in hist'.entered /\ acc'[b].here = FALSE =>
                       b \in hist'.removed \cup hist'.crossed
      BY <1>2, <2>7, <3>1, <3>4 DEF BrokerInv, NewsInv
    <3>6. ASSUME NEW b \in News
          PROVE  /\ \A u, w \in Requests : Creates(task'[u], b) /\ Creates(task'[w], b) => u = w
                 /\ acc'[b].here = TRUE => \/ b \in hist'.linked \cup hist'.stranded
                                           \/ \E u \in Requests : Creates(task'[u], b)
      BY <1>2, <2>7, <3>3 DEF BrokerInv, NewsInv
    <3>7. /\ \A g \in Browsers : entry'[g].user \in News => entry'[g].user \in hist'.made
          /\ \A s \in Subjects : link'[s] \in News => link'[s] \in hist'.linked
      BY <1>2, <2>7 DEF BrokerInv, NewsInv
    <3> QED BY <3>2, <3>5, <3>6, <3>7 DEF NewsInv
  <2> QED BY <2>10, <2>11, <2>12, <2>13 DEF BrokerInv
<1> QED BY <1>1, <1>4, <1>5 DEF Broker!Login

-----------------------------------------------------------------------------
(* Account owners, administrators and faults *)

\* A request to unlink holds no flow.
LEMMA BrokerUnlink ==
    ASSUME BrokerInv, NEW t \in Requests, Broker!Unlink(t)
    PROVE  BrokerInv'
<1>1. Tallied(hist') /\ task[t].pc = "idle" /\ UNCHANGED <<idp, acc, link, pending, entry>>
  BY BoundsMove DEF Broker!Unlink, BrokerInv, BrokerTypes
<1>2. \A a \in News : ~Creates(task[t], a)
  BY <1>1, OneRequest DEF Placed, Creates
<1>3. PICK a \in Locals : Broker!Set(t, [Broker!IdleTask EXCEPT !.pc = "unlink", !.user = a])
  BY DEF Broker!Unlink
<1>4. PICK x : x = [Broker!IdleTask EXCEPT !.pc = "unlink", !.user = a]
  OBVIOUS
<1>5. a \in Broker!Accounts /\ a \notin News
  BY BrokerConstants
<1>6. x \in BrokerTask
  BY <1>4, <1>5, IdleRequest DEF BrokerTask, BrokerPCs
<1>7. /\ x.pc = "unlink" /\ x.user = a /\ x.pass = "skip"
  BY <1>4, IdleRequest DEF BrokerTask, Broker!IdleTask
<1>8. Placed(x)
  BY <1>5, <1>7 DEF Placed, Roles
<1>9. FlowTask(x) /\ RoleTask(x) /\ NewsTask(x) /\ \A g \in Browsers : ~Holds(x, g)
  BY <1>5, <1>7 DEF FlowTask, Holds, RoleTask, Copying, Roles, NewsTask
<1>10. \A b \in News : ~Creates(x, b)
  BY <1>7 DEF Creates
<1> QED BY <1>1, <1>2, <1>3, <1>4, <1>6, <1>8, <1>9, <1>10, RequestMoves DEF Broker!Set

\* A link less; the account has been linked all the same.
LEMMA BrokerDeleteLink ==
    ASSUME BrokerInv, NEW t \in Requests, Broker!DeleteLink(t)
    PROVE  BrokerInv'
<1>1. /\ task[t].pc = "unlink" /\ task[t].pass = "skip" /\ UNCHANGED <<idp, acc, pending, entry, hist>>
      /\ task' = [task EXCEPT ![t] = Broker!IdleTask]
      /\ link \in [Subjects -> Broker!Accounts \cup {Broker!None}]
      /\ link' = Broker!Unlinked(task[t].user)
  BY OneRequest DEF Placed, Broker!DeleteLink, Broker!Done, Broker!Set, BrokerInv, BrokerTypes
<1>2. /\ link' \in [Subjects -> Broker!Accounts \cup {Broker!None}]
      /\ \A s \in Subjects : link'[s] \in {link[s], Broker!None}
  BY <1>1 DEF Broker!Unlinked
<1>3. BrokerTypes' /\ \A u \in Requests : Placed(task'[u])
  BY <1>1, <1>2, IdleRequest, OthersStay DEF BrokerInv, BrokerTypes
<1>4. FlowInv'
  BY <1>1, IdleRequest, FlowFrame
<1>5. RoleInv'
  BY <1>1, IdleRequest, RoleFrame
<1>6. NewsInv'
  <2>1. \A b \in News : ~Creates(task[t], b)
    BY <1>1 DEF Creates
  <2>2. \A f \in Browsers : entry'[f].user \in News => entry'[f].user \in hist.made
    BY <1>1 DEF BrokerInv, NewsInv
  <2> QED BY <1>1, <1>2, <2>1, <2>2, IdleRequest, NewsFrame
<1> QED BY <1>3, <1>4, <1>5, <1>6 DEF BrokerInv

\* A creator that dies leaves its account stranded.
LEMMA BrokerDie ==
    ASSUME BrokerInv, NEW t \in Requests, Broker!Die(t)
    PROVE  BrokerInv'
<1>1. /\ task[t] \in BrokerTask /\ UNCHANGED <<idp, acc, link, pending, entry>> /\ hist \in BrokerHist
      /\ task' = [task EXCEPT ![t] = Broker!IdleTask]
  BY OneRequest DEF Broker!Die, Broker!Done, Broker!Set, BrokerInv, BrokerTypes
<1>2. PICK S : S = IF task[t].pass = "create" /\ task[t].user \in News
                   THEN hist.stranded \cup {task[t].user} ELSE hist.stranded
  OBVIOUS
<1>3. S \in SUBSET Broker!Accounts /\ hist.events + 1 \in Nat
  BY <1>1, <1>2, BrokerHistFields, BrokerConstants
<1>4. hist.stranded \subseteq S /\ \A b \in News : Creates(task[t], b) => b \in S
  BY <1>2 DEF Creates
<1>5. PICK h : h = [hist EXCEPT !.events = @ + 1, !.stranded = S]
  OBVIOUS
<1>6. h \in BrokerHist
  BY <1>1, <1>3, <1>5 DEF BrokerHist
<1>7. /\ h.made = hist.made /\ h.wrong = hist.wrong /\ h.logins = hist.logins
      /\ h.linked = hist.linked /\ h.entered = hist.entered /\ h.crossed = hist.crossed
      /\ h.stranded = S /\ h.removed = hist.removed /\ h.local = hist.local
  BY <1>1, <1>5 DEF BrokerHist
<1>8. hist' = h
  BY <1>2, <1>5 DEF Broker!Die
<1>9. /\ hist' \in BrokerHist
      /\ hist'.made = hist.made /\ hist'.wrong = hist.wrong /\ hist'.logins = hist.logins
      /\ hist'.linked = hist.linked /\ hist'.entered = hist.entered
      /\ hist'.crossed = hist.crossed /\ hist'.stranded = S
      /\ hist'.removed = hist.removed /\ hist'.local = hist.local
  BY <1>6, <1>7, <1>8
<1>10. BrokerTypes' /\ \A u \in Requests : Placed(task'[u])
  BY <1>1, <1>9, IdleRequest, OthersStay DEF BrokerInv, BrokerTypes
<1>11. FlowInv'
  BY <1>1, <1>9, IdleRequest, FlowFrame
<1>12. RoleInv'
  BY <1>1, <1>9, IdleRequest, RoleFrame
<1>13. NewsInv'
  <2>1. \A f \in Browsers : entry'[f].user \in News => entry'[f].user \in hist.made
    BY <1>1 DEF BrokerInv, NewsInv
  <2> QED BY <1>1, <1>4, <1>9, <2>1, IdleRequest, NewsFrame
<1> QED BY <1>10, <1>11, <1>12, <1>13 DEF BrokerInv

\* An administrator changes one account: what no request takes part in.
LEMMA AccountChanged ==
    ASSUME BrokerInv, NEW a \in Broker!Accounts, NEW v \in AccState, acc' = [acc EXCEPT ![a] = v],
           UNCHANGED <<idp, pending, entry, task>>,
           link' \in [Subjects -> Broker!Accounts \cup {Broker!None}],
           \A s \in Subjects : link'[s] \in {link[s], Broker!None},
           hist' \in BrokerHist, hist'.logins = hist.logins, hist'.wrong = hist.wrong,
           hist'.made = hist.made, hist'.linked = hist.linked, hist'.entered = hist.entered,
           hist'.crossed = hist.crossed, hist'.stranded = hist.stranded,
           hist.removed \subseteq hist'.removed,
           \/ v.here = acc[a].here
           \/ v.here = FALSE /\ a \in hist'.removed,
           \/ hist'.local = hist.local /\ v.here = acc[a].here /\ v.rec = acc[a].rec /\ v.role = TRUE
           \/ hist'.local = hist.local \ {a}
           \/ /\ hist'.local = hist.local \cup {a} /\ v.here = TRUE /\ v.role = TRUE /\ v.rec = FALSE
              /\ \A t \in Requests : ~Broker!Copies(t, a)
    PROVE  BrokerInv'
<1>1. /\ acc' \in [Broker!Accounts -> AccState] /\ acc'[a] = v
      /\ \A b \in Broker!Accounts : b # a => acc'[b] = acc[b]
  BY DEF BrokerInv, BrokerTypes
<1>2. BrokerTypes' /\ \A u \in Requests : Placed(task'[u])
  BY <1>1 DEF BrokerInv, BrokerTypes
<1>3. FlowInv'
  BY DEF BrokerInv, FlowInv, FlowTask
<1>4. RoleInv'
  <2>1. hist.local \subseteq Broker!Accounts
    BY BrokerHistFields DEF BrokerInv, BrokerTypes
  <2>2. \A b \in hist'.local : acc'[b].here = TRUE /\ acc'[b].role = TRUE /\ acc'[b].rec = FALSE
    BY <1>1, <2>1 DEF BrokerInv, RoleInv
  <2>3. \A u \in Requests : RoleTask(task[u])'
    <3> SUFFICES ASSUME NEW u \in Requests, task[u].user \in hist'.local, task[u].pc \in Copying
                 PROVE  task[u].rec = FALSE /\ (task[u].pc = "grant" => task[u].held = "unknown")
      BY DEF RoleTask
    <3>1. task[u].user \in hist.local
      BY DEF Broker!Copies, Copying, Roles
    <3> QED BY <3>1, OneRequest DEF RoleTask
  <2> QED BY <2>2, <2>3 DEF RoleInv
<1>5. NewsInv'
  <2>1. \A u \in Requests : NewsTask(task[u])'
    BY OneRequest DEF NewsTask
  <2>2. /\ \A g \in Browsers : entry'[g].user \in News => entry'[g].user \in hist'.made
        /\ \A s \in Subjects : link'[s] \in News => link'[s] \in hist'.linked
    BY BrokerConstants DEF BrokerInv, NewsInv
  <2>3. \A b \in News : \/ acc'[b].here = acc[b].here
                        \/ acc'[b].here = FALSE /\ b \in hist'.removed
    BY <1>1, BrokerConstants
  <2>4. ASSUME NEW b \in News
        PROVE  /\ b \in hist'.linked => b \in hist'.made
               /\ b \in hist'.entered => b \in hist'.linked
               /\ b \notin hist'.made => acc'[b].here = FALSE
               /\ b \in hist'.entered /\ acc'[b].here = FALSE =>
                     b \in hist'.removed \cup hist'.crossed
    BY <2>3 DEF BrokerInv, NewsInv
  <2>5. ASSUME NEW b \in News
        PROVE  /\ \A u, w \in Requests : Creates(task'[u], b) /\ Creates(task'[w], b) => u = w
               /\ acc'[b].here = TRUE => \/ b \in hist'.linked \cup hist'.stranded
                                         \/ \E u \in Requests : Creates(task'[u], b)
    BY <2>3 DEF BrokerInv, NewsInv
  <2> QED BY <2>1, <2>2, <2>4, <2>5 DEF NewsInv
<1> QED BY <1>2, <1>3, <1>4, <1>5 DEF BrokerInv

\* A role becomes local only if no request has a copy of the row.
LEMMA BrokerAssignRole ==
    ASSUME BrokerInv, NEW a \in Broker!Accounts, Broker!AssignRole(a)
    PROVE  BrokerInv'
<1>1. /\ UNCHANGED <<idp, link, pending, entry, task>> /\ hist \in BrokerHist
      /\ acc[a] \in AccState /\ acc[a].here
      /\ link \in [Subjects -> Broker!Accounts \cup {Broker!None}]
  BY DEF Broker!AssignRole, BrokerInv, BrokerTypes
<1>2. PICK S : S = IF ~acc[a].rec /\ \A t \in Requests : ~Broker!Copies(t, a)
                   THEN hist.local \cup {a} ELSE hist.local
  OBVIOUS
<1>3. S \in SUBSET Broker!Accounts /\ hist.events + 1 \in Nat
  BY <1>1, <1>2, BrokerHistFields
<1>4. PICK h : h = [hist EXCEPT !.events = @ + 1, !.local = S]
  OBVIOUS
<1>5. h \in BrokerHist
  BY <1>1, <1>3, <1>4 DEF BrokerHist
<1>6. /\ h.made = hist.made /\ h.wrong = hist.wrong /\ h.logins = hist.logins
      /\ h.linked = hist.linked /\ h.entered = hist.entered /\ h.crossed = hist.crossed
      /\ h.stranded = hist.stranded /\ h.removed = hist.removed /\ h.local = S
  BY <1>1, <1>4 DEF BrokerHist
<1>7. hist' = h
  BY <1>2, <1>4 DEF Broker!AssignRole
<1>8. /\ hist' \in BrokerHist
      /\ hist'.made = hist.made /\ hist'.wrong = hist.wrong /\ hist'.logins = hist.logins
      /\ hist'.linked = hist.linked /\ hist'.entered = hist.entered
      /\ hist'.crossed = hist.crossed /\ hist'.stranded = hist.stranded
      /\ hist'.removed = hist.removed /\ hist'.local = S
  BY <1>5, <1>6, <1>7
<1>9. PICK v : v = [acc[a] EXCEPT !.role = TRUE]
  OBVIOUS
<1>10. v \in AccState /\ v.here = acc[a].here /\ v.rec = acc[a].rec /\ v.role = TRUE
  BY <1>1, <1>9 DEF AccState
<1>11. acc' = [acc EXCEPT ![a] = v]
  BY <1>9 DEF Broker!AssignRole
<1>12. acc[a].here = TRUE /\ (~acc[a].rec => acc[a].rec = FALSE)
  BY <1>1 DEF AccState
<1>13. \/ S = hist.local
       \/ /\ S = hist.local \cup {a} /\ v.here = TRUE /\ v.role = TRUE /\ v.rec = FALSE
          /\ \A t \in Requests : ~Broker!Copies(t, a)
  BY <1>2, <1>10, <1>12
<1>14. \A s \in Subjects : link'[s] \in {link[s], Broker!None}
  BY <1>1
<1> HIDE DEF AccState
<1> QED BY <1>1, <1>8, <1>10, <1>11, <1>13, <1>14, AccountChanged

\* Then the role is no more a local one.
LEMMA BrokerRemoveRole ==
    ASSUME BrokerInv, NEW a \in Broker!Accounts, Broker!RemoveRole(a)
    PROVE  BrokerInv'
<1>1. /\ UNCHANGED <<idp, link, pending, entry, task>> /\ hist \in BrokerHist
      /\ acc[a] \in AccState
      /\ link \in [Subjects -> Broker!Accounts \cup {Broker!None}]
  BY DEF Broker!RemoveRole, BrokerInv, BrokerTypes
<1>2. hist.local \ {a} \in SUBSET Broker!Accounts /\ hist.events + 1 \in Nat
  BY <1>1, BrokerHistFields
<1>3. PICK h : h = [hist EXCEPT !.events = @ + 1, !.local = @ \ {a}]
  OBVIOUS
<1>4. h \in BrokerHist
  BY <1>1, <1>2, <1>3 DEF BrokerHist
<1>5. /\ h.made = hist.made /\ h.wrong = hist.wrong /\ h.logins = hist.logins
      /\ h.linked = hist.linked /\ h.entered = hist.entered /\ h.crossed = hist.crossed
      /\ h.stranded = hist.stranded /\ h.removed = hist.removed /\ h.local = hist.local \ {a}
  BY <1>1, <1>3 DEF BrokerHist
<1>6. hist' = h
  BY <1>3 DEF Broker!RemoveRole
<1>7. /\ hist' \in BrokerHist
      /\ hist'.made = hist.made /\ hist'.wrong = hist.wrong /\ hist'.logins = hist.logins
      /\ hist'.linked = hist.linked /\ hist'.entered = hist.entered
      /\ hist'.crossed = hist.crossed /\ hist'.stranded = hist.stranded
      /\ hist'.removed = hist.removed /\ hist'.local = hist.local \ {a}
  BY <1>4, <1>5, <1>6
<1>8. PICK v : v = [acc[a] EXCEPT !.role = FALSE]
  OBVIOUS
<1>9. v \in AccState /\ v.here = acc[a].here
  BY <1>1, <1>8 DEF AccState
<1>10. acc' = [acc EXCEPT ![a] = v]
  BY <1>8 DEF Broker!RemoveRole
<1>11. \A s \in Subjects : link'[s] \in {link[s], Broker!None}
  BY <1>1
<1> QED BY <1>1, <1>7, <1>9, <1>10, <1>11, AccountChanged

\* Then it was an administrator who removed the account.
LEMMA BrokerRemoveUser ==
    ASSUME BrokerInv, NEW a \in Broker!Accounts, Broker!RemoveUser(a)
    PROVE  BrokerInv'
<1>1. /\ UNCHANGED <<idp, pending, entry, task>> /\ hist \in BrokerHist
      /\ acc' = [acc EXCEPT ![a] = Broker!NoAccount]
      /\ link \in [Subjects -> Broker!Accounts \cup {Broker!None}] /\ link' = Broker!Unlinked(a)
  BY DEF Broker!RemoveUser, BrokerInv, BrokerTypes
<1>2. /\ hist.local \ {a} \in SUBSET Broker!Accounts /\ hist.events + 1 \in Nat
      /\ hist.removed \cup {a} \in SUBSET Broker!Accounts
  BY <1>1, BrokerHistFields
<1>3. PICK h : h = [hist EXCEPT !.events = @ + 1, !.local = @ \ {a}, !.removed = @ \cup {a}]
  OBVIOUS
<1>4. h \in BrokerHist
  BY <1>1, <1>2, <1>3 DEF BrokerHist
<1>5. /\ h.made = hist.made /\ h.wrong = hist.wrong /\ h.logins = hist.logins
      /\ h.linked = hist.linked /\ h.entered = hist.entered /\ h.crossed = hist.crossed
      /\ h.stranded = hist.stranded /\ h.removed = hist.removed \cup {a}
      /\ h.local = hist.local \ {a}
  BY <1>1, <1>3 DEF BrokerHist
<1>6. hist' = h
  BY <1>3 DEF Broker!RemoveUser
<1>7. /\ hist' \in BrokerHist
      /\ hist'.made = hist.made /\ hist'.wrong = hist.wrong /\ hist'.logins = hist.logins
      /\ hist'.linked = hist.linked /\ hist'.entered = hist.entered
      /\ hist'.crossed = hist.crossed /\ hist'.stranded = hist.stranded
      /\ hist'.removed = hist.removed \cup {a} /\ hist'.local = hist.local \ {a}
  BY <1>4, <1>5, <1>6
<1>8. Broker!NoAccount \in AccState /\ Broker!NoAccount.here = FALSE
  BY DEF Broker!NoAccount, AccState, Broker!Mails
<1>9. /\ link' \in [Subjects -> Broker!Accounts \cup {Broker!None}]
      /\ \A s \in Subjects : link'[s] \in {link[s], Broker!None}
  BY <1>1 DEF Broker!Unlinked
<1> QED BY <1>1, <1>7, <1>8, <1>9, AccountChanged

-----------------------------------------------------------------------------
(* The invariant *)

\* Nothing is taken, created or copied at first.
LEMMA BrokerStarts ==
    ASSUME Broker!Init
    PROVE  BrokerInv
<1>1. PICK old \in [Locals -> [here : {TRUE}, role : BOOLEAN, rec : BOOLEAN, mail : Broker!Mails]] :
        acc = [a \in Broker!Accounts |-> IF a \in Locals THEN old[a] ELSE Broker!NoAccount]
  BY DEF Broker!Init
<1>2. /\ idp \in [trust : BOOLEAN, force : BOOLEAN]
      /\ link \in [Subjects -> Locals \cup {Broker!None}]
      /\ pending = [f \in Browsers |-> TRUE] /\ entry = [f \in Browsers |-> Broker!NoEntry]
      /\ task = [t \in Requests |-> Broker!IdleTask] /\ hist = Broker!InitHist
  BY DEF Broker!Init
<1>3. Broker!NoEntry \in FormState /\ Broker!NoEntry.here = FALSE /\ Broker!NoEntry.user = Broker!None
  BY DEF Broker!NoEntry, FormState, Broker!NoId, Ids, Broker!Mails
<1>4. Broker!NoAccount \in AccState /\ Broker!NoAccount.here = FALSE /\ Broker!NoAccount.role = FALSE
  BY DEF Broker!NoAccount, AccState, Broker!Mails
<1>5. \A a \in Locals : old[a] \in AccState /\ old[a].here = TRUE
  BY <1>1 DEF AccState
<1>6. /\ acc \in [Broker!Accounts -> AccState]
      /\ \A a \in Locals : acc[a].here = TRUE
      /\ \A a \in News : acc[a].here = FALSE /\ acc[a].role = FALSE
  BY <1>1, <1>4, <1>5, BrokerConstants
<1>7. /\ hist \in BrokerHist
      /\ hist.logins = [f \in Browsers |-> 0] /\ hist.wrong = [f \in Browsers |-> 0]
      /\ hist.made = {} /\ hist.linked = {} /\ hist.entered = {} /\ hist.crossed = {}
      /\ hist.local = {a \in Broker!Accounts : acc[a].role /\ ~acc[a].rec}
  BY <1>2 DEF Broker!InitHist, BrokerHist
<1>8. \A t \in Requests : task[t] = Broker!IdleTask
  BY <1>2
<1>9. BrokerTypes /\ \A t \in Requests : Placed(task[t])
  <2>1. link \in [Subjects -> Broker!Accounts \cup {Broker!None}]
    BY <1>2, BrokerConstants
  <2>2. entry \in [Browsers -> FormState] /\ pending \in [Browsers -> BOOLEAN]
    BY <1>2, <1>3
  <2>3. task \in [Requests -> BrokerTask]
    BY <1>2, IdleRequest
  <2> QED BY <1>2, <1>6, <1>7, <1>8, <2>1, <2>2, <2>3, IdleRequest DEF BrokerTypes
<1>10. FlowInv
  <2>1. \A f \in Browsers : /\ hist.logins[f] = 0 /\ hist.wrong[f] = 0 /\ entry[f].here = FALSE
    BY <1>2, <1>3, <1>7
  <2>2. \A f \in Browsers : /\ hist.logins[f] <= 1 /\ hist.wrong[f] <= MaxFailures
    BY <2>1, BrokerConstants
  <2> QED BY <1>8, <2>1, <2>2, IdleRequest DEF FlowInv
<1>11. RoleInv
  <2>1. \A a \in hist.local : acc[a] \in AccState /\ acc[a].role /\ ~acc[a].rec
    BY <1>6, <1>7
  <2>2. \A a \in hist.local : acc[a].role = TRUE /\ acc[a].rec = FALSE
    BY <2>1 DEF AccState
  <2>3. \A a \in hist.local : a \in Locals
    BY <1>6, <1>7, <2>2 DEF Broker!Accounts
  <2> QED BY <1>6, <1>8, <2>2, <2>3, IdleRequest DEF RoleInv
<1>12. NewsInv
  <2>1. \A s \in Subjects : link[s] \notin News
    BY <1>2, BrokerConstants
  <2>2. \A f \in Browsers : entry[f].user \notin News
    BY <1>2, <1>3, BrokerConstants
  <2>3. \A t \in Requests : NewsTask(task[t]) /\ \A a \in News : ~Creates(task[t], a)
    BY <1>8, IdleRequest
  <2> QED BY <1>6, <1>7, <2>1, <2>2, <2>3 DEF NewsInv
<1> QED BY <1>9, <1>10, <1>11, <1>12 DEF BrokerInv

\* Every step keeps the invariant.
LEMMA BrokerSteps ==
    ASSUME BrokerInv, Broker!Next
    PROVE  BrokerInv'
<1>1. ASSUME NEW t \in Requests,
             \/ Broker!RoundTrip(t) \/ Broker!TakePending(t) \/ Broker!FindLink(t)
             \/ Broker!LoadUser(t) \/ Broker!FirstLogin(t) \/ Broker!Submit(t) \/ Broker!Form(t)
             \/ Broker!Password(t) \/ Broker!CreateUser(t) \/ Broker!CreateLink(t)
             \/ Broker!DeleteUser(t) \/ Broker!RevokeMappedRoles(t) \/ Broker!ListHeld(t)
             \/ Broker!GrantRole(t) \/ Broker!SaveUser(t) \/ Broker!Login(t)
             \/ Broker!Unlink(t) \/ Broker!DeleteLink(t) \/ Broker!Die(t)
      PROVE  BrokerInv'
  BY <1>1, BrokerRoundTrip, BrokerTakePending, BrokerFindLink, BrokerLoadUser, BrokerFirstLogin,
     BrokerSubmit, BrokerForm, BrokerPassword, BrokerCreateUser, BrokerCreateLink,
     BrokerDeleteUser, BrokerRevokeMappedRoles, BrokerListHeld, BrokerGrantRole, BrokerSaveUser,
     BrokerLogin, BrokerUnlink, BrokerDeleteLink, BrokerDie
<1>2. ASSUME NEW a \in Broker!Accounts,
             Broker!AssignRole(a) \/ Broker!RemoveRole(a) \/ Broker!RemoveUser(a)
      PROVE  BrokerInv'
  BY <1>2, BrokerAssignRole, BrokerRemoveRole, BrokerRemoveUser
<1> QED BY <1>1, <1>2 DEF Broker!Next

\* The invariant of the broker's requests, flows, accounts and roles: a pending
\* flow is in one pair of hands (finish_login), an account has one creator
\* (create_brokered_user), and no copy of an account's row claims a role that no
\* mapper granted (sync_mapped_roles).
THEOREM BrokerSafe == MCSpec => [](on = "broker" => BrokerInv)
<1>1. MCInit => (on = "broker" => BrokerInv)
  BY BrokerStarts DEF MCInit
<1>2. (on = "broker" => BrokerInv) /\ [MCNext]_<<on, vars, federationVars, brokerVars>>
        => (on = "broker" => BrokerInv)'
  <2> SUFFICES ASSUME on = "broker" => BrokerInv,
                      [MCNext]_<<on, vars, federationVars, brokerVars>>, (on = "broker")'
               PROVE  BrokerInv'
    OBVIOUS
  <2>1. CASE MCNext
    <3>1. on = "broker" /\ Broker!Next
      BY <2>1 DEF MCNext
    <3> QED BY <3>1, BrokerSteps
  <2>2. CASE UNCHANGED <<on, vars, federationVars, brokerVars>>
    <3>1. BrokerInv /\ UNCHANGED <<idp, acc, link, pending, entry, task, hist>>
      BY <2>2 DEF vars, brokerVars
    <3> QED BY <3>1 DEF BrokerInv, BrokerTypes, FlowInv, FlowTask, RoleInv, RoleTask, NewsInv, NewsTask
  <2> QED BY <2>1, <2>2
<1> QED BY <1>1, <1>2, PTL DEF MCSpec

\* A pending flow gives one login and takes at most max_login_failures wrong
\* passwords, whatever round trips and forms race for it (finish_login,
\* link_via_password_submit).
THEOREM FlowsOnce == MCSpec => []FlowSpentOnce
<1>1. BrokerInv => Broker!FlowSpentOnce
  BY DEF BrokerInv, FlowInv, Broker!FlowSpentOnce
<1>2. (on = "broker" => BrokerInv) => FlowSpentOnce
  BY <1>1 DEF FlowSpentOnce
<1> QED BY <1>2, BrokerSafe, PTL

\* An account the broker created is linked, being worked on, deleted again or
\* left by a handler that died or could not delete it, and one that was logged
\* in to goes by an administrator's hand unless another login linked it first
\* (create_brokered_user, create_link_for_new_user).
THEOREM AccountsExact == MCSpec => []BrokeredAccountsExact
<1>1. ASSUME BrokerInv PROVE Broker!BrokeredAccountsExact
  <2> SUFFICES ASSUME NEW a \in News
               PROVE  /\ acc[a].here /\ (\A t \in Requests : task[t].user # a)
                            => a \in hist.linked \cup hist.stranded
                      /\ a \in hist.entered /\ ~acc[a].here => a \in hist.removed \cup hist.crossed
    BY DEF Broker!BrokeredAccountsExact
  <2>1. acc[a] \in AccState
    BY <1>1, BrokerConstants DEF BrokerInv, BrokerTypes
  <2>2. acc[a].here \in BOOLEAN
    BY <2>1 DEF AccState
  <2> QED BY <1>1, <2>2 DEF BrokerInv, NewsInv, Creates
<1>2. (on = "broker" => BrokerInv) => BrokeredAccountsExact
  BY <1>1 DEF BrokeredAccountsExact
<1> QED BY <1>2, BrokerSafe, PTL

\* A role that no mapper granted is held until an administrator takes it away:
\* no login revokes it (revoke_mapped_roles).
THEOREM RolesKept == MCSpec => []LocalRolesKept
<1>1. BrokerInv => Broker!LocalRolesKept
  BY DEF BrokerInv, RoleInv, Broker!LocalRolesKept
<1>2. (on = "broker" => BrokerInv) => LocalRolesKept
  BY <1>1 DEF LocalRolesKept
<1> QED BY <1>2, BrokerSafe, PTL

-----------------------------------------------------------------------------
(* FederationSync: the rows a sync has loaded, and the rows there are. *)

RowState == [gen : Nat, here : BOOLEAN, link : BOOLEAN]

\* A row of the same generation is linked as the copy s says.
Loaded(s, r) ==
    \A n \in Users : /\ s[n].gen \in Nat /\ s[n].gen <= r[n].gen
                     /\ s[n].gen = r[n].gen /\ s[n].gen > 0 => s[n].link = r[n].link

\* Every copy a sync has is as true as that.
LinkInv ==
    /\ row \in [Users -> RowState]
    /\ \A n \in Users : row[n].here = TRUE => row[n].gen > 0
    /\ DOMAIN task = Federation!Tasks
    /\ \A t \in Federation!Tasks : "snap" \in DOMAIN task[t] /\ Loaded(task[t].snap, row)

\* Rows get newer, and only a new row is linked otherwise.
RowsGrow ==
    /\ row' \in [Users -> RowState]
    /\ \A n \in Users : /\ row'[n].here = TRUE => row'[n].gen > 0
                        /\ row[n].gen <= row'[n].gen
                        /\ row'[n].gen = row[n].gen => row'[n].link = row[n].link

\* The copies request y has are task t's, or the rows as they are, or none.
CopiesFrom(t, y) ==
    /\ "snap" \in DOMAIN y
    /\ y.snap \in {task[t].snap, row, [n \in Users |-> Federation!NoRow]}

\* At most one task moves, with such copies.
TaskMoves == \/ UNCHANGED task
             \/ \E t \in Federation!Tasks : \E y : task' = [task EXCEPT ![t] = y] /\ CopiesFrom(t, y)

\* A task at rest has loaded no rows.
LEMMA NoCopies ==
    /\ "snap" \in DOMAIN Federation!IdleTask
    /\ Federation!IdleTask.snap = [n \in Users |-> Federation!NoRow]
  BY DEF Federation!IdleTask

\* Where a sync goes on to leaves its copies alone.
LEMMA OnwardCopies ==
    ASSUME NEW r, "snap" \in DOMAIN r
    PROVE  "snap" \in DOMAIN Federation!Onward(r) /\ Federation!Onward(r).snap = r.snap
  BY DEF Federation!Onward

\* Nor does the group that was found touch them.
LEMMA JoinCopies ==
    ASSUME NEW r, NEW g, NEW f, "snap" \in DOMAIN r
    PROVE  "snap" \in DOMAIN Federation!Join(r, g, f) /\ Federation!Join(r, g, f).snap = r.snap
  BY DEF Federation!Join

\* The next user leaves them, the end of the task drops them.
LEMMA NextUserCopies ==
    ASSUME NEW t \in Federation!Tasks, NEW r, CopiesFrom(t, r), Federation!NextUser(t, r)
    PROVE  TaskMoves
<1>1. PICK y : /\ task' = [task EXCEPT ![t] = y]
               /\ \/ y = [r EXCEPT !.pc = "next", !.want = {}, !.cur = {},
                                  !.g = Federation!None, !.found = Federation!NoGroup]
                  \/ y = [Federation!IdleTask EXCEPT !.pc = "end", !.fed = r.fed]
                  \/ y = Federation!IdleTask
  BY DEF Federation!NextUser, Federation!Set
<1>2. CopiesFrom(t, y)
  BY <1>1, NoCopies DEF CopiesFrom
<1> QED BY <1>1, <1>2 DEF TaskMoves

\* A request keeps its copies, takes them anew or has none.
LEMMA CopiesOfTask ==
    ASSUME LinkInv, NEW t \in Federation!Tasks, NEW y, task' = [task EXCEPT ![t] = y],
           "snap" \in DOMAIN y,
           \/ y.snap = task[t].snap \/ y.snap = row \/ y = Federation!IdleTask
    PROVE  TaskMoves
<1>1. CopiesFrom(t, y)
  BY NoCopies DEF CopiesFrom
<1> QED BY <1>1 DEF TaskMoves

\* Every step of a sync or a login, and of an administrator, does so.
LEMMA FederationTasks ==
    ASSUME LinkInv, Federation!Next
    PROVE  TaskMoves
<1> SUFFICES ASSUME NEW t \in Federation!Tasks,
                    \/ Federation!Stream(t) \/ Federation!LoadExistingUsers(t)
                    \/ Federation!BulkCreateUsers(t) \/ Federation!CreateUser(t)
                    \/ Federation!UpdateUser(t) \/ Federation!LoadIndex(t)
                    \/ Federation!ListUserGroups(t) \/ Federation!ResolveGroupByName(t)
                    \/ Federation!Adopt(t) \/ Federation!CreateSyncGroup(t)
                    \/ Federation!LookupWinner(t) \/ Federation!AddUserGroup(t)
                    \/ Federation!CheckGroup(t) \/ Federation!RemoveUserGroup(t)
                    \/ Federation!Finish(t) \/ Federation!FindUser(t)
             PROVE  TaskMoves
  BY DEF Federation!Next, Federation!EditUser, Federation!EditDirectory, Federation!EditGroup,
         Federation!LoadGroup, Federation!EditMembers, Federation!AddGroupRealmRoles, TaskMoves
<1>1. PICK r : r = task[t] /\ "snap" \in DOMAIN r
  BY DEF LinkInv
<1>2. CopiesFrom(t, r)
  BY <1>1 DEF CopiesFrom
<1>3. CASE Federation!Stream(t)
  <2>1. PICK s : task' = [task EXCEPT ![t] = [Federation!IdleTask EXCEPT !.pc = "load", !.fed = dir,
                                                                         !.add = s]]
    BY <1>3 DEF Federation!Stream, Federation!Set
  <2>2. PICK y : y = [Federation!IdleTask EXCEPT !.pc = "load", !.fed = dir, !.add = s]
    OBVIOUS
  <2>3. CopiesFrom(t, y)
    BY <2>2, NoCopies DEF CopiesFrom
  <2> QED BY <2>1, <2>2, <2>3 DEF TaskMoves
<1>4. CASE Federation!LoadExistingUsers(t)
  <2>1. CASE Federation!Set(t, Federation!IdleTask)
    BY <2>1, NoCopies, CopiesOfTask DEF Federation!Set
  <2>2. CASE \E p, q : Federation!Set(t, Federation!Onward([r EXCEPT !.snap = row, !.add = p, !.upd = q]))
    <3>1. PICK p, q : Federation!Set(t, Federation!Onward([r EXCEPT !.snap = row, !.add = p,
                                                                    !.upd = q]))
      BY <2>2
    <3>2. PICK x : x = [r EXCEPT !.snap = row, !.add = p, !.upd = q]
      OBVIOUS
    <3>3. "snap" \in DOMAIN x /\ x.snap = row
      BY <1>1, <3>2
    <3>4. PICK y : y = Federation!Onward(x)
      OBVIOUS
    <3>5. "snap" \in DOMAIN y /\ y.snap = row
      BY <3>3, <3>4, OnwardCopies
    <3> QED BY <3>1, <3>2, <3>4, <3>5, CopiesOfTask DEF Federation!Set
  <2> QED BY <1>1, <1>4, <2>1, <2>2 DEF Federation!LoadExistingUsers
<1>5. ASSUME NEW x, "snap" \in DOMAIN x, x.snap = r.snap,
             \/ Federation!Set(t, x) \/ Federation!Set(t, Federation!Onward(x))
             \/ \E g, f : Federation!Set(t, Federation!Join(x, g, f))
             \/ Federation!NextUser(t, x)
      PROVE  TaskMoves
  <2>1. CASE Federation!Set(t, x)
    BY <1>1, <1>5, <2>1, CopiesOfTask DEF Federation!Set
  <2>2. CASE Federation!Set(t, Federation!Onward(x))
    <3>1. PICK y : y = Federation!Onward(x)
      OBVIOUS
    <3>2. "snap" \in DOMAIN y /\ y.snap = x.snap
      BY <1>5, <3>1, OnwardCopies
    <3> QED BY <1>1, <1>5, <2>2, <3>1, <3>2, CopiesOfTask DEF Federation!Set
  <2>3. ASSUME NEW g, NEW f, Federation!Set(t, Federation!Join(x, g, f)) PROVE TaskMoves
    <3>1. PICK y : y = Federation!Join(x, g, f)
      OBVIOUS
    <3>2. "snap" \in DOMAIN y /\ y.snap = x.snap
      BY <1>5, <3>1, JoinCopies
    <3> QED BY <1>1, <1>5, <2>3, <3>1, <3>2, CopiesOfTask DEF Federation!Set
  <2>4. CASE Federation!NextUser(t, x)
    <3>1. CopiesFrom(t, x)
      BY <1>1, <1>5 DEF CopiesFrom
    <3> QED BY <2>4, <3>1, NextUserCopies
  <2> QED BY <1>5, <2>1, <2>2, <2>3, <2>4
<1>6. Federation!Set(t, Federation!IdleTask) => TaskMoves
  BY NoCopies, CopiesOfTask DEF Federation!Set
<1>7. CASE Federation!BulkCreateUsers(t)
  <2>1. PICK x : /\ \/ \E p : x = [r EXCEPT !.add = {}, !.synced = p]
                    \/ x = [r EXCEPT !.pc = "create"]
                 /\ Federation!Set(t, x) \/ Federation!Set(t, Federation!Onward(x))
    BY <1>1, <1>7 DEF Federation!BulkCreateUsers
  <2>2. "snap" \in DOMAIN x /\ x.snap = r.snap
    BY <1>1, <2>1
  <2> QED BY <1>5, <2>1, <2>2
<1>8. CASE Federation!CreateUser(t)
  <2>1. CASE Federation!Set(t, Federation!IdleTask)
    BY <1>6, <2>1
  <2>2. CASE \E x : /\ \/ \E p, q : x = [r EXCEPT !.add = p, !.synced = q]
                       \/ \E p, q : x = [[r EXCEPT !.add = p, !.synced = q] EXCEPT !.pc = "next"]
                       \/ \E p : x = [r EXCEPT !.add = p]
                    /\ Federation!Set(t, x) \/ Federation!Set(t, Federation!Onward(x))
    <3>1. PICK x : /\ \/ \E p, q : x = [r EXCEPT !.add = p, !.synced = q]
                      \/ \E p, q : x = [[r EXCEPT !.add = p, !.synced = q] EXCEPT !.pc = "next"]
                      \/ \E p : x = [r EXCEPT !.add = p]
                   /\ Federation!Set(t, x) \/ Federation!Set(t, Federation!Onward(x))
      BY <2>2
    <3>2. "snap" \in DOMAIN x /\ x.snap = r.snap
      BY <1>1, <3>1
    <3> QED BY <1>5, <3>1, <3>2
  <2> QED BY <1>1, <1>8, <2>1, <2>2 DEF Federation!CreateUser
<1>9. CASE Federation!UpdateUser(t)
  <2>1. PICK x : /\ \/ \E p, q : x = [[r EXCEPT !.upd = p] EXCEPT !.synced = q]
                    \/ \E p : x = [r EXCEPT !.upd = p]
                 /\ Federation!Set(t, Federation!Onward(x))
    BY <1>1, <1>9 DEF Federation!UpdateUser
  <2>2. "snap" \in DOMAIN x /\ x.snap = r.snap
    BY <1>1, <2>1
  <2> QED BY <1>5, <2>1, <2>2
<1>10. CASE Federation!LoadIndex(t)
  <2>1. PICK x : /\ \/ x = [r EXCEPT !.pc = "next", !.index = group]
                    \/ x = [r EXCEPT !.pc = "next"]
                 /\ Federation!Set(t, x)
    BY <1>1, <1>10 DEF Federation!LoadIndex
  <2>2. "snap" \in DOMAIN x /\ x.snap = r.snap
    BY <1>1, <2>1
  <2> QED BY <1>5, <2>1, <2>2
<1>11. CASE Federation!ListUserGroups(t)
  <2>1. PICK x : /\ \/ \E p, q, v, w : x = [[r EXCEPT !.synced = p] EXCEPT !.pc = "groups", !.user = q,
                                                     !.want = v, !.cur = w]
                    \/ \E p : x = [r EXCEPT !.synced = p]
                 /\ Federation!Set(t, x) \/ Federation!NextUser(t, x)
    BY <1>1, <1>11 DEF Federation!ListUserGroups
  <2>2. "snap" \in DOMAIN x /\ x.snap = r.snap
    BY <1>1, <2>1
  <2> QED BY <1>5, <2>1, <2>2
<1>12. CASE Federation!ResolveGroupByName(t)
  <2>1. CASE Federation!NextUser(t, r)
    BY <1>1, <1>5, <2>1
  <2>2. CASE \E p, q, g, f :
            LET seen == [r EXCEPT !.want = p, !.index = q]
            IN  \/ Federation!Set(t, [seen EXCEPT !.pc = "make", !.g = g])
                \/ Federation!Set(t, [seen EXCEPT !.pc = "adopt", !.g = g, !.found = f])
                \/ Federation!Set(t, Federation!Join(seen, g, f))
    <3>1. PICK p, q, g, f :
            \/ Federation!Set(t, [[r EXCEPT !.want = p, !.index = q] EXCEPT !.pc = "make", !.g = g])
            \/ Federation!Set(t, [[r EXCEPT !.want = p, !.index = q] EXCEPT !.pc = "adopt", !.g = g,
                                                                            !.found = f])
            \/ Federation!Set(t, Federation!Join([r EXCEPT !.want = p, !.index = q], g, f))
      BY <2>2
    <3>2. PICK s : s = [r EXCEPT !.want = p, !.index = q]
      OBVIOUS
    <3>3. "snap" \in DOMAIN s /\ s.snap = r.snap
      BY <1>1, <3>2
    <3>4. PICK x : /\ \/ x = [s EXCEPT !.pc = "make", !.g = g]
                      \/ x = [s EXCEPT !.pc = "adopt", !.g = g, !.found = f]
                      \/ x = s
                   /\ Federation!Set(t, x) \/ Federation!Set(t, Federation!Join(x, g, f))
      BY <3>1, <3>2
    <3>5. "snap" \in DOMAIN x /\ x.snap = r.snap
      BY <3>3, <3>4
    <3> QED BY <1>5, <3>4, <3>5
  <2> QED BY <1>1, <1>12, <2>1, <2>2 DEF Federation!ResolveGroupByName
<1>13. CASE Federation!Adopt(t)
  <2>1. PICK x : /\ \/ \E q : x = [r EXCEPT !.index = q]
                    \/ x = r
                 /\ \/ \E g, f : Federation!Set(t, Federation!Join(x, g, f))
                    \/ Federation!NextUser(t, x)
    BY <1>1, <1>13 DEF Federation!Adopt
  <2>2. "snap" \in DOMAIN x /\ x.snap = r.snap
    BY <1>1, <2>1
  <2> QED BY <1>5, <2>1, <2>2
<1>14. CASE Federation!CreateSyncGroup(t)
  <2>1. PICK x : /\ \/ \E q : x = [r EXCEPT !.index = q]
                    \/ x = [r EXCEPT !.pc = "lookup"]
                    \/ x = r
                 /\ \/ \E g, f : Federation!Set(t, Federation!Join(x, g, f))
                    \/ Federation!Set(t, x)
                    \/ Federation!NextUser(t, x)
    BY <1>1, <1>14 DEF Federation!CreateSyncGroup
  <2>2. "snap" \in DOMAIN x /\ x.snap = r.snap
    BY <1>1, <2>1
  <2> QED BY <1>5, <2>1, <2>2
<1>15. CASE Federation!LookupWinner(t)
  <2>1. PICK x : /\ \/ \E q : x = [r EXCEPT !.index = q]
                    \/ x = r
                 /\ \/ \E g, f : Federation!Set(t, Federation!Join(x, g, f))
                    \/ Federation!NextUser(t, x)
    BY <1>1, <1>15 DEF Federation!LookupWinner
  <2>2. "snap" \in DOMAIN x /\ x.snap = r.snap
    BY <1>1, <2>1
  <2> QED BY <1>5, <2>1, <2>2
<1>16. CASE Federation!AddUserGroup(t)
  <2>1. PICK x : /\ \/ x = [r EXCEPT !.pc = "groups", !.g = Federation!None,
                                     !.found = Federation!NoGroup]
                    \/ x = r
                 /\ Federation!Set(t, x) \/ Federation!NextUser(t, x)
    BY <1>1, <1>16 DEF Federation!AddUserGroup
  <2>2. "snap" \in DOMAIN x /\ x.snap = r.snap
    BY <1>1, <2>1
  <2> QED BY <1>5, <2>1, <2>2
<1>17. CASE Federation!CheckGroup(t)
  <2>1. PICK x : /\ \/ \E g, f : x = [r EXCEPT !.pc = "drop", !.g = g, !.found = f]
                    \/ \E q : x = [r EXCEPT !.cur = q]
                    \/ x = r
                 /\ Federation!Set(t, x) \/ Federation!NextUser(t, x)
    BY <1>1, <1>17 DEF Federation!CheckGroup
  <2>2. "snap" \in DOMAIN x /\ x.snap = r.snap
    BY <1>1, <2>1
  <2> QED BY <1>5, <2>1, <2>2
<1>18. CASE Federation!RemoveUserGroup(t)
  <2>1. PICK x : /\ \/ \E q : x = [r EXCEPT !.pc = "groups", !.cur = q, !.g = Federation!None,
                                            !.found = Federation!NoGroup]
                    \/ x = r
                 /\ Federation!Set(t, x) \/ Federation!NextUser(t, x)
    BY <1>1, <1>18 DEF Federation!RemoveUserGroup
  <2>2. "snap" \in DOMAIN x /\ x.snap = r.snap
    BY <1>1, <2>1
  <2> QED BY <1>5, <2>1, <2>2
<1>19. CASE Federation!Finish(t)
  BY <1>6, <1>19 DEF Federation!Finish
<1>20. CASE Federation!FindUser(t)
  <2>1. PICK n : Federation!Set(t, [Federation!IdleTask EXCEPT !.pc = "create", !.fed = dir,
                                                               !.add = {n}])
    BY <1>20 DEF Federation!FindUser
  <2>2. PICK y : y = [Federation!IdleTask EXCEPT !.pc = "create", !.fed = dir, !.add = {n}]
    OBVIOUS
  <2>3. CopiesFrom(t, y)
    BY <2>2, NoCopies DEF CopiesFrom
  <2> QED BY <2>1, <2>2, <2>3 DEF TaskMoves, Federation!Set
<1> QED BY <1>3, <1>4, <1>7, <1>8, <1>9, <1>10, <1>11, <1>12, <1>13, <1>14, <1>15, <1>16, <1>17,
           <1>18, <1>19, <1>20

\* Rows are created as new ones, deleted, or written as they are: an update goes
\* to the row that was loaded.
LEMMA FederationRows ==
    ASSUME LinkInv, Federation!Next
    PROVE  RowsGrow
<1>1. row \in [Users -> RowState] /\ \A n \in Users : row[n].here = TRUE => row[n].gen > 0
  BY DEF LinkInv
<1>2. \A n \in Users : /\ row[n].gen \in Nat /\ row[n].here \in BOOLEAN /\ row[n].link \in BOOLEAN
                       /\ row[n] \in RowState
  BY <1>1 DEF RowState
<1>3. CASE UNCHANGED row
  BY <1>1, <1>2, <1>3 DEF RowsGrow
<1>5. ASSUME NEW n \in Users, NEW b \in BOOLEAN
      PROVE  \E v \in RowState : /\ v = [Federation!Created(row[n]) EXCEPT !.link = b]
                                 /\ v.gen = row[n].gen + 1
  <2>1. PICK w : w = [row[n] EXCEPT !.gen = @ + 1, !.here = TRUE]
    OBVIOUS
  <2>2. w \in RowState /\ w.gen = row[n].gen + 1
    <3>1. PICK k \in Nat : k = row[n].gen + 1
      BY <1>2
    <3>2. w = [row[n] EXCEPT !.gen = k, !.here = TRUE]
      BY <2>1, <3>1
    <3> QED BY <1>2, <3>1, <3>2 DEF RowState
  <2>3. PICK v : v = [w EXCEPT !.link = b]
    OBVIOUS
  <2>4. v \in RowState /\ v.gen = row[n].gen + 1
    BY <2>2, <2>3 DEF RowState
  <2> QED BY <2>1, <2>3, <2>4 DEF Federation!Created
<1>6. ASSUME NEW n, NEW b \in BOOLEAN,
             row' = [row EXCEPT ![n] = [Federation!Created(row[n]) EXCEPT !.link = b]]
      PROVE  RowsGrow
  <2>1. CASE n \in Users
    <3>1. PICK v \in RowState : /\ v = [Federation!Created(row[n]) EXCEPT !.link = b]
                                /\ v.gen = row[n].gen + 1
      BY <1>5, <2>1
    <3>2. row' = [row EXCEPT ![n] = v]
      BY <1>6, <3>1
    <3> QED BY <1>1, <1>2, <2>1, <3>1, <3>2 DEF RowsGrow
  <2>2. CASE n \notin Users
    BY <1>1, <1>3, <1>6, <2>2
  <2> QED BY <2>1, <2>2
<1>7. ASSUME NEW t \in Federation!Tasks, Federation!BulkCreateUsers(t) PROVE RowsGrow
  <2>1. PICK N : \/ UNCHANGED row
                 \/ row' = [n \in Users |-> IF n \in N THEN [Federation!Created(row[n]) EXCEPT !.link = TRUE]
                                            ELSE row[n]]
    BY <1>7 DEF Federation!BulkCreateUsers
  <2>2. CASE row' = [n \in Users |-> IF n \in N THEN [Federation!Created(row[n]) EXCEPT !.link = TRUE]
                                     ELSE row[n]]
    <3>1. ASSUME NEW n \in Users
          PROVE  row'[n] = row[n] \/ (row'[n] \in RowState /\ row'[n].gen = row[n].gen + 1)
      <4>1. CASE n \in N
        <5>1. PICK v \in RowState : /\ v = [Federation!Created(row[n]) EXCEPT !.link = TRUE]
                                    /\ v.gen = row[n].gen + 1
          BY <1>5
        <5> QED BY <2>2, <4>1, <5>1
      <4>2. CASE n \notin N
        BY <2>2, <4>2
      <4> QED BY <4>1, <4>2
    <3>2. row' \in [Users -> RowState]
      BY <1>2, <2>2, <3>1
    <3> QED BY <1>1, <1>2, <3>1, <3>2 DEF RowsGrow
  <2> QED BY <1>3, <2>1, <2>2
<1>8. ASSUME NEW t \in Federation!Tasks, Federation!CreateUser(t) PROVE RowsGrow
  <2>1. PICK n : \/ UNCHANGED row
                 \/ row' = [row EXCEPT ![n] = [Federation!Created(row[n]) EXCEPT !.link = TRUE]]
    BY <1>8 DEF Federation!CreateUser
  <2> QED BY <1>3, <1>6, <2>1
<1>9. ASSUME NEW t \in Federation!Tasks, Federation!UpdateUser(t) PROVE RowsGrow
  <2>1. PICK n : \/ UNCHANGED row
                 \/ /\ row[n].here /\ row[n].gen = task[t].snap[n].gen
                    /\ row' = [row EXCEPT ![n].link = task[t].snap[n].link]
    BY <1>9 DEF Federation!UpdateUser, Federation!SameRow
  <2>2. CASE /\ row[n].here /\ row[n].gen = task[t].snap[n].gen /\ n \in Users
             /\ row' = [row EXCEPT ![n].link = task[t].snap[n].link]
    <3>1. task[t].snap[n].link = row[n].link
      BY <1>1, <1>2, <2>2 DEF LinkInv, Loaded
    <3>2. row' = [row EXCEPT ![n].link = row[n].link]
      BY <2>2, <3>1
    <3>3. row'= row
      BY <1>1, <1>2, <2>2, <3>2 DEF RowState
    <3> QED BY <1>3, <3>3
  <2>3. CASE n \notin Users /\ row' = [row EXCEPT ![n].link = task[t].snap[n].link]
    BY <1>1, <1>3, <2>3
  <2> QED BY <1>3, <2>1, <2>2, <2>3
<1>10. ASSUME NEW n \in Users, Federation!EditUser(n) PROVE RowsGrow
  <2>1. CASE row' = [row EXCEPT ![n].here = FALSE]
    <3>1. PICK v : v = [row[n] EXCEPT !.here = FALSE]
      OBVIOUS
    <3>2. v \in RowState /\ v.gen = row[n].gen /\ v.link = row[n].link /\ v.here = FALSE
      BY <1>2, <3>1 DEF RowState
    <3>3. row' = [row EXCEPT ![n] = v]
      BY <2>1, <3>1
    <3> QED BY <1>1, <1>2, <3>2, <3>3 DEF RowsGrow
  <2>2. CASE row' = [row EXCEPT ![n] = [Federation!Created(@) EXCEPT !.link = FALSE]]
    BY <1>6, <2>2
  <2> QED BY <1>10, <2>1, <2>2 DEF Federation!EditUser
<1>11. ASSUME NEW t \in Federation!Tasks,
              \/ Federation!Stream(t) \/ Federation!LoadExistingUsers(t) \/ Federation!LoadIndex(t)
              \/ Federation!ListUserGroups(t) \/ Federation!ResolveGroupByName(t)
              \/ Federation!Adopt(t) \/ Federation!CreateSyncGroup(t)
              \/ Federation!LookupWinner(t) \/ Federation!AddUserGroup(t)
              \/ Federation!CheckGroup(t) \/ Federation!RemoveUserGroup(t)
              \/ Federation!Finish(t) \/ Federation!FindUser(t)
       PROVE  UNCHANGED row
  BY <1>11 DEF Federation!Stream, Federation!LoadExistingUsers, Federation!LoadIndex,
               Federation!ListUserGroups, Federation!ResolveGroupByName, Federation!Adopt,
               Federation!CreateSyncGroup, Federation!LookupWinner, Federation!AddUserGroup,
               Federation!CheckGroup, Federation!RemoveUserGroup, Federation!Finish,
               Federation!FindUser
<1>12. ASSUME \/ \E n \in Users : Federation!EditDirectory(n)
              \/ \E g \in Groups : Federation!EditGroup(g) \/ Federation!LoadGroup(g)
              \/ \E n \in Users, g \in Groups : Federation!EditMembers(n, g)
              \/ Federation!AddGroupRealmRoles
       PROVE  UNCHANGED row
  BY <1>12 DEF Federation!EditDirectory, Federation!EditGroup, Federation!LoadGroup,
               Federation!EditMembers, Federation!AddGroupRealmRoles
<1> QED BY <1>3, <1>7, <1>8, <1>9, <1>10, <1>11, <1>12 DEF Federation!Next

\* Every step keeps the copies true, and the links of rows.
LEMMA FederationSteps ==
    ASSUME LinkInv, Federation!Next
    PROVE  LinkInv' /\ Federation!LinksKept
<1>1. RowsGrow
  BY FederationRows
<1>2. TaskMoves
  BY FederationTasks
<1>3. /\ row \in [Users -> RowState]
      /\ DOMAIN task = Federation!Tasks
      /\ \A t \in Federation!Tasks : "snap" \in DOMAIN task[t] /\ Loaded(task[t].snap, row)
  BY DEF LinkInv
<1>4. \A n \in Users : row[n].gen \in Nat /\ row'[n].gen \in Nat
  BY <1>1, <1>3 DEF RowsGrow, RowState
<1>5. ASSUME NEW s, Loaded(s, row) PROVE Loaded(s, row')
  BY <1>1, <1>4, <1>5 DEF Loaded, RowsGrow
<1>6. Loaded(row, row) /\ Loaded([n \in Users |-> Federation!NoRow], row)
  BY <1>4 DEF Loaded, Federation!NoRow
<1>7. /\ DOMAIN task' = Federation!Tasks
      /\ \A t \in Federation!Tasks : "snap" \in DOMAIN task'[t] /\ Loaded(task'[t].snap, row')
  <2>1. CASE UNCHANGED task
    BY <1>3, <1>5, <2>1
  <2>2. ASSUME NEW t \in Federation!Tasks, NEW y, task' = [task EXCEPT ![t] = y], CopiesFrom(t, y)
        PROVE  /\ DOMAIN task' = Federation!Tasks
               /\ \A u \in Federation!Tasks : "snap" \in DOMAIN task'[u] /\ Loaded(task'[u].snap, row')
    <3>1. Loaded(y.snap, row)
      BY <1>3, <1>6, <2>2 DEF CopiesFrom
    <3>2. DOMAIN task' = Federation!Tasks /\ task'[t] = y
          /\ \A u \in Federation!Tasks : u # t => task'[u] = task[u]
      BY <1>3, <2>2
    <3> QED BY <1>3, <1>5, <2>2, <3>1, <3>2 DEF CopiesFrom
  <2> QED BY <1>2, <2>1, <2>2 DEF TaskMoves
<1>8. Federation!LinksKept
  BY <1>1 DEF RowsGrow, Federation!LinksKept
<1> QED BY <1>1, <1>7, <1>8 DEF LinkInv, RowsGrow

\* Copies of rows are never newer than the rows, and right about those that are
\* still the same (load_existing_users, update_user).
THEOREM CopiesTrue == MCSpec => [](on = "federation" => LinkInv)
<1>1. ASSUME Federation!Init PROVE LinkInv
  <2>1. row \in [Users -> RowState] /\ \A n \in Users : row[n].here = TRUE => row[n].gen > 0
    <3>1. row \in [Users -> {Federation!NoRow} \cup [gen : {1}, here : {TRUE}, link : BOOLEAN]]
      BY <1>1 DEF Federation!Init
    <3>2. Federation!NoRow \in RowState /\ Federation!NoRow.here = FALSE
      BY DEF RowState, Federation!NoRow
    <3>3. ASSUME NEW v \in [gen : {1}, here : {TRUE}, link : BOOLEAN] PROVE v \in RowState /\ v.gen > 0
      <4>1. v.gen = 1
        OBVIOUS
      <4>2. v \in RowState
        <5>1. {TRUE} \subseteq BOOLEAN
          OBVIOUS
        <5>2. {1} \subseteq Nat
          OBVIOUS
        <5> QED BY <5>1, <5>2, Zenon DEF RowState
      <4> QED BY <4>1, <4>2
    <3> QED BY <3>1, <3>2, <3>3
  <2>2. \A n \in Users : row[n].gen \in Nat
    BY <2>1 DEF RowState
  <2>3. Loaded([n \in Users |-> Federation!NoRow], row)
    BY <2>2 DEF Loaded, Federation!NoRow
  <2>4. task = [t \in Federation!Tasks |-> Federation!IdleTask]
    BY <1>1 DEF Federation!Init
  <2> QED BY <2>1, <2>3, <2>4, NoCopies DEF LinkInv
<1>2. MCInit => (on = "federation" => LinkInv)
  BY <1>1 DEF MCInit
<1>3. (on = "federation" => LinkInv) /\ [MCNext]_<<on, vars, federationVars, brokerVars>>
        => (on = "federation" => LinkInv)'
  <2> SUFFICES ASSUME on = "federation" => LinkInv,
                      [MCNext]_<<on, vars, federationVars, brokerVars>>, (on = "federation")'
               PROVE  LinkInv'
    OBVIOUS
  <2>1. CASE MCNext
    <3>1. on = "federation" /\ Federation!Next
      BY <2>1 DEF MCNext
    <3> QED BY <3>1, FederationSteps
  <2>2. CASE UNCHANGED <<on, vars, federationVars, brokerVars>>
    BY <2>2 DEF vars, federationVars, LinkInv, Loaded
  <2> QED BY <2>1, <2>2
<1> QED BY <1>2, <1>3, PTL DEF MCSpec

\* An account never becomes the directory's and never stops being it, although a
\* sync writes rows as they were when it loaded them (sync_all).
THEOREM LinksStay == MCSpec => LocalAccountsKept
<1>1. (on = "federation" => LinkInv) /\ [MCNext]_<<on, vars, federationVars, brokerVars>>
        => [on = "federation" => Federation!LinksKept]_<<on, row>>
  <2> SUFFICES ASSUME on = "federation" => LinkInv,
                      [MCNext]_<<on, vars, federationVars, brokerVars>>,
                      ~UNCHANGED <<on, row>>, on = "federation"
               PROVE  Federation!LinksKept
    OBVIOUS
  <2>1. CASE MCNext
    <3>1. Federation!Next
      BY <2>1 DEF MCNext
    <3> QED BY <3>1, FederationSteps
  <2>2. CASE UNCHANGED <<on, vars, federationVars, brokerVars>>
    BY <2>2 DEF federationVars
  <2> QED BY <2>1, <2>2
<1> QED BY <1>1, CopiesTrue, PTL DEF MCSpec, LocalAccountsKept

-----------------------------------------------------------------------------
(* FederationSync: a sync nothing disturbs.  The directory, groups, ids and  *)
(* tasks, by shape.                                                          *)

DirState == [kind : {"absent", "silent", "lists"}, groups : SUBSET Groups]
GroupRow == [gen : Nat, here : BOOLEAN, marked : BOOLEAN]
UserId == [name : Users, gen : Nat]
GroupId == [name : Groups, gen : Nat]
SyncSteps == {"load", "bulk", "create", "update", "index", "next", "groups", "adopt", "make", "lookup",
              "add", "drop", "end"}
Reconciling == {"groups", "adopt", "make", "lookup", "add", "drop"}
SyncTask == [pc : SyncSteps \cup {"idle"}, fed : [Users -> DirState], snap : [Users -> RowState],
             add : SUBSET Users, upd : SUBSET Users, synced : SUBSET UserId,
             index : [Groups -> GroupRow], user : UserId \cup {[name |-> "none", gen |-> 0]},
             want : SUBSET Groups, cur : SUBSET GroupId, g : Groups \cup {"none"}, found : GroupRow]
GroupEdit == [pc : {"idle", "write"}, g : Groups \cup {"none"}, copy : GroupRow]
SyncHist == [dirty : BOOLEAN, before : SUBSET (Users \X Groups), runs : Nat, events : Nat]

\* A task that reconciles has a user at hand, and a group when it writes one.  A
\* group that is written as it was read was there then.
TaskFits(r) ==
    /\ r.pc \in Reconciling => r.user \in UserId
    /\ r.pc \in Reconciling \ {"groups"} => r.g \in Groups
    /\ r.pc = "adopt" => r.found.here = TRUE

\* Every variable has its shape.
FedTypes ==
    /\ dir \in [Users -> DirState] /\ row \in [Users -> RowState] /\ group \in [Groups -> GroupRow]
    /\ members \in SUBSET (Users \X Groups)
    /\ task \in [Federation!Tasks -> SyncTask] /\ \A t \in Federation!Tasks : TaskFits(task[t])
    /\ admin \in GroupEdit /\ (admin.pc = "write" => admin.g \in Groups /\ admin.copy.here = TRUE)
    /\ hist \in SyncHist

\* A membership is one of a user and a group that are there.
MembersInv == \A n \in Users, g \in Groups : <<n, g>> \in members => row[n].here /\ group[g].here

\* A user of the directory who is linked to it, whose groups it reports.
Reported(n) == row[n].here /\ row[n].link /\ dir[n].kind = "lists"

\* The user's memberships are as they were, or as they should be.
Same(n) == \A g \in Groups : <<n, g>> \in members <=> <<n, g>> \in hist.before
Exact(n) == \A g \in Groups :
    IF Reported(n) /\ (group[g].marked \/ g \in dir[n].groups)
    THEN <<n, g>> \in members <=> g \in dir[n].groups
    ELSE <<n, g>> \in members <=> <<n, g>> \in hist.before

\* The user whose turn is still to come has his memberships as they were.
Turn(r, n) == IF Reported(n) /\ Federation!Id(n, row[n]) \in r.synced THEN Same(n) ELSE Exact(n)

\* What sync r has in its hands is true.
HandsInv(r) ==
    /\ r.fed = dir
    /\ \A g \in Groups : r.index[g].here => r.index[g] = group[g]
    /\ \A u \in r.synced : u = Federation!Id(u.name, row[u.name]) /\ row[u.name].here /\ row[u.name].link

\* Nothing is reconciled yet, and every user who must be is on a list.
ListsInv(r) ==
    /\ \A n \in Users : Same(n)
    /\ r.pc = "load" => /\ r.add = {n \in Users : dir[n] # Federation!Absent}
                        /\ r.synced = {} /\ r.upd = {}
    /\ r.pc # "load" =>
        /\ \A n \in r.add : ~row[n].here
        /\ \A n \in r.upd : row[n].here /\ row[n].link /\ r.snap[n] = row[n]
        /\ \A n \in Users : Reported(n) => n \in r.upd \/ Federation!Id(n, row[n]) \in r.synced
    /\ r.pc = "bulk" => r.synced = {}
    /\ r.pc \in {"update", "index"} => r.add = {}
    /\ r.pc = "index" => r.upd = {}

\* The user at hand: reported groups he is not in are still to be joined, and
\* marked groups he is in without being reported are still to be left.
UserInv(r, n) ==
    /\ r.user = Federation!Id(n, row[n]) /\ Reported(n) /\ r.user \notin r.synced
    /\ r.want \subseteq dir[n].groups
    /\ \A g \in dir[n].groups :
          g \in r.want \/ <<n, g>> \in members \/ (r.pc \in {"adopt", "make", "add"} /\ g = r.g)
    /\ \A g \in Groups \ dir[n].groups :
          /\ <<n, g>> \in members => <<n, g>> \in hist.before
          /\ <<n, g>> \in members /\ group[g].marked => Federation!Id(g, group[g]) \in r.cur
          /\ <<n, g>> \in hist.before /\ ~group[g].marked => <<n, g>> \in members
    /\ \A c \in r.cur : c = Federation!Id(c.name, group[c.name]) /\ <<n, c.name>> \in members

\* The group at hand.
GroupInv(r) ==
    /\ r.pc \in {"adopt", "make", "add"} => r.g \in dir[r.user.name].groups
    /\ r.pc = "make" => ~group[r.g].here
    /\ r.pc \in {"adopt", "add", "drop"} => r.found = group[r.g] /\ r.found.here
    /\ r.pc = "drop" => r.found.marked /\ r.g \notin dir[r.user.name].groups

QuietInv(r) ==
    /\ HandsInv(r)
    /\ r.pc \notin {"create", "lookup"}
    /\ r.pc \in {"load", "bulk", "update", "index"} => ListsInv(r)
    /\ r.pc = "next" => \A n \in Users : Turn(r, n)
    /\ r.pc \in Reconciling => /\ UserInv(r, r.user.name) /\ GroupInv(r)
                               /\ \A n \in Users \ {r.user.name} : Turn(r, n)
    /\ r.pc = "end" => \A n \in Users : Exact(n)

\* As long as nothing disturbs it, one sync is under way and the above is true.
OneSync ==
    hist.dirty = FALSE => \A t \in Syncs : task[t].pc # "idle" =>
       /\ QuietInv(task[t])
       /\ \A s \in Syncs : task[s].pc # "idle" => s = t

SyncInv == FedTypes /\ MembersInv /\ OneSync

-----------------------------------------------------------------------------

\* Task t goes on with y in its hands.
Moves(t, y) == task' = [task EXCEPT ![t] = y] /\ y \in SyncTask /\ TaskFits(y)

\* What the parts of a task are.
LEMMA SyncTaskFields ==
    ASSUME NEW r \in SyncTask
    PROVE  /\ r.pc \in SyncSteps \cup {"idle"} /\ r.fed \in [Users -> DirState]
           /\ r.snap \in [Users -> RowState]
           /\ r.add \in SUBSET Users /\ r.upd \in SUBSET Users /\ r.synced \in SUBSET UserId
           /\ r.index \in [Groups -> GroupRow] /\ r.user \in UserId \cup {[name |-> "none", gen |-> 0]}
           /\ r.want \in SUBSET Groups /\ r.cur \in SUBSET GroupId /\ r.g \in Groups \cup {"none"}
           /\ r.found \in GroupRow
  BY DEF SyncTask

\* A row, a group and what the directory says of a user when there is nothing.
LEMMA NothingTyped ==
    /\ Federation!NoRow \in RowState /\ Federation!NoGroup \in GroupRow
    /\ Federation!Absent \in DirState /\ Federation!NoGroup.here = FALSE
    /\ Federation!Absent.kind = "absent"
<1>1. FALSE \in BOOLEAN /\ 0 \in Nat
  OBVIOUS
<1> QED BY <1>1 DEF Federation!NoRow, Federation!NoGroup, Federation!Absent, RowState, GroupRow, DirState

\* A task at rest.
LEMMA IdleTyped ==
    /\ Federation!IdleTask \in SyncTask /\ TaskFits(Federation!IdleTask)
    /\ Federation!IdleTask.pc = "idle" /\ Federation!IdleTask.synced = {}
    /\ Federation!IdleTask.upd = {} /\ \A g \in Groups : Federation!IdleTask.index[g].here = FALSE
<1>1. /\ [n \in Users |-> Federation!Absent] \in [Users -> DirState]
      /\ [n \in Users |-> Federation!NoRow] \in [Users -> RowState]
      /\ Federation!NoIndex \in [Groups -> GroupRow]
      /\ \A g \in Groups : Federation!NoIndex[g].here = FALSE
  BY NothingTyped DEF Federation!NoIndex
<1>2. PICK d, s, x, o : /\ d = [n \in Users |-> Federation!Absent] /\ s = [n \in Users |-> Federation!NoRow]
                        /\ x = Federation!NoIndex /\ o = Federation!NoGroup
  OBVIOUS
<1>3. PICK z : z = [pc |-> "idle", fed |-> d, snap |-> s, add |-> {}, upd |-> {}, synced |-> {}, index |-> x,
                    user |-> [name |-> "none", gen |-> 0], want |-> {}, cur |-> {}, g |-> "none", found |-> o]
  OBVIOUS
<1>4. z = Federation!IdleTask
  BY <1>2, <1>3 DEF Federation!IdleTask, Federation!None
<1>5. d \in [Users -> DirState] /\ s \in [Users -> RowState] /\ x \in [Groups -> GroupRow] /\ o \in GroupRow
      /\ \A g \in Groups : x[g].here = FALSE
  BY <1>1, <1>2, NothingTyped
<1>6. z \in SyncTask
  BY <1>3, <1>5 DEF SyncTask
<1>7. /\ z.pc = "idle" /\ z.synced = {} /\ z.upd = {} /\ z.index = x
  BY <1>3
<1>8. TaskFits(z)
  BY <1>7 DEF TaskFits, Reconciling
<1> QED BY <1>4, <1>5, <1>6, <1>7, <1>8

\* A sync goes on to one of these steps with the same in its hands.
LEMMA OnwardIs ==
    ASSUME NEW r \in SyncTask
    PROVE  \E p \in {"bulk", "create", "update", "index", "end"} :
              Federation!Onward(r) = [r EXCEPT !.pc = p]
<1>1. r.pc = "create" => r = [r EXCEPT !.pc = "create"]
  BY DEF SyncTask
<1> QED BY <1>1 DEF Federation!Onward

\* A task that goes on.
LEMMA OnwardMoves ==
    ASSUME NEW t \in Federation!Tasks, NEW r \in SyncTask, Federation!Set(t, Federation!Onward(r))
    PROVE  \E y : Moves(t, y)
<1>1. PICK p \in {"bulk", "create", "update", "index", "end"} :
              Federation!Onward(r) = [r EXCEPT !.pc = p]
  BY OnwardIs
<1>2. PICK y : y = [r EXCEPT !.pc = p]
  OBVIOUS
<1>3. p \in SyncSteps \cup {"idle"} /\ p \notin Reconciling
  BY <1>1 DEF SyncSteps, Reconciling
<1>4. y \in SyncTask /\ y.pc = p
  BY <1>2, <1>3 DEF SyncTask
<1>5. TaskFits(y)
  BY <1>3, <1>4 DEF TaskFits
<1> QED BY <1>1, <1>2, <1>4, <1>5 DEF Moves, Federation!Set

\* A task that has found a group.
LEMMA JoinMoves ==
    ASSUME NEW t \in Federation!Tasks, NEW r \in SyncTask, r.user \in UserId, NEW g \in Groups,
           NEW f \in GroupRow, Federation!Set(t, Federation!Join(r, g, f))
    PROVE  \E y : Moves(t, y)
<1>1. PICK y : /\ y = Federation!Join(r, g, f)
               /\ \/ y = [r EXCEPT !.pc = "groups", !.g = "none", !.found = Federation!NoGroup]
                  \/ y = [r EXCEPT !.pc = "add", !.g = g, !.found = f]
  BY DEF Federation!Join, Federation!None
<1>2. PICK o \in GroupRow : o = Federation!NoGroup
  BY NothingTyped
<1>3. \/ y = [r EXCEPT !.pc = "groups", !.g = "none", !.found = o]
      \/ y = [r EXCEPT !.pc = "add", !.g = g, !.found = f]
  BY <1>1, <1>2
<1>4. "groups" \in SyncSteps \cup {"idle"} /\ "add" \in SyncSteps \cup {"idle"}
  BY DEF SyncSteps
<1>5. y \in SyncTask /\ y.user = r.user /\ (y.pc = "groups" \/ (y.pc = "add" /\ y.g \in Groups))
  <2>1. CASE y = [r EXCEPT !.pc = "groups", !.g = "none", !.found = o]
    BY <1>4, <2>1 DEF SyncTask
  <2>2. CASE y = [r EXCEPT !.pc = "add", !.g = g, !.found = f]
    BY <1>4, <2>2 DEF SyncTask
  <2> QED BY <1>3, <2>1, <2>2
<1>6. TaskFits(y)
  BY <1>5 DEF TaskFits
<1> QED BY <1>1, <1>5, <1>6 DEF Moves, Federation!Set

\* A task that is done with a user.
LEMMA NextUserMoves ==
    ASSUME NEW t \in Federation!Tasks, NEW r \in SyncTask, Federation!NextUser(t, r)
    PROVE  \E y : Moves(t, y)
<1>1. PICK y : /\ task' = [task EXCEPT ![t] = y]
               /\ \/ y = [r EXCEPT !.pc = "next", !.want = {}, !.cur = {},
                                  !.g = "none", !.found = Federation!NoGroup]
                  \/ y = [Federation!IdleTask EXCEPT !.pc = "end", !.fed = r.fed]
                  \/ y = Federation!IdleTask
  BY DEF Federation!NextUser, Federation!Set, Federation!None
<1>2. PICK o \in GroupRow : o = Federation!NoGroup
  BY NothingTyped
<1>3. PICK i \in SyncTask : i = Federation!IdleTask /\ TaskFits(i)
  BY IdleTyped
<1>4. "next" \in SyncSteps \cup {"idle"} /\ "end" \in SyncSteps \cup {"idle"}
  BY DEF SyncSteps
<1>5. \/ y = [r EXCEPT !.pc = "next", !.want = {}, !.cur = {}, !.g = "none", !.found = o]
      \/ y = [i EXCEPT !.pc = "end", !.fed = r.fed]
      \/ y = i
  BY <1>1, <1>2, <1>3
<1>6. y \in SyncTask /\ (y.pc \in {"next", "end"} \/ y = i)
  <2>1. CASE y = [r EXCEPT !.pc = "next", !.want = {}, !.cur = {}, !.g = "none", !.found = o]
    BY <1>4, <2>1 DEF SyncTask
  <2>2. CASE y = [i EXCEPT !.pc = "end", !.fed = r.fed]
    BY <1>4, <2>2 DEF SyncTask
  <2> QED BY <1>5, <2>1, <2>2
<1>7. TaskFits(y)
  BY <1>3, <1>6 DEF TaskFits, Reconciling
<1> QED BY <1>1, <1>6, <1>7 DEF Moves

\* A call works, fails, or writes: what is kept of the sync's beginning stays, and
\* a disturbed sync stays one.
LEMMA HistMoves ==
    ASSUME hist \in SyncHist, NEW t, Federation!Works \/ Federation!Fault \/ Federation!Writes(t)
    PROVE  /\ hist' \in SyncHist /\ hist'.before = hist.before
           /\ hist'.dirty = FALSE => hist.dirty = FALSE
<1>1. /\ hist.dirty \in BOOLEAN /\ hist.events \in Nat
  BY DEF SyncHist
<1>2. CASE Federation!Works
  BY <1>2 DEF Federation!Works
<1>3. CASE Federation!Fault
  <2>1. PICK k \in Nat : k = hist.events + 1
    BY <1>1
  <2>2. hist' = [hist EXCEPT !.events = k, !.dirty = TRUE]
    BY <1>3, <2>1 DEF Federation!Fault
  <2> QED BY <2>2 DEF SyncHist
<1>4. CASE Federation!Writes(t)
  <2>1. PICK b \in BOOLEAN : b = (hist.dirty \/ t \in Logins)
    OBVIOUS
  <2>2. hist' = [hist EXCEPT !.dirty = b]
    BY <1>4, <2>1 DEF Federation!Writes
  <2>3. b = FALSE => hist.dirty = FALSE
    BY <1>1, <2>1
  <2> QED BY <2>2, <2>3 DEF SyncHist
<1> QED BY <1>2, <1>3, <1>4

\* A failed call disturbs, and so does a login's write.
LEMMA Disturbed ==
    ASSUME hist \in SyncHist, NEW t, Federation!Fault \/ (Federation!Writes(t) /\ t \in Logins)
    PROVE  hist'.dirty = TRUE
  BY DEF SyncHist, Federation!Fault, Federation!Writes

\* A sync's own write does not.
LEMMA OwnWrite ==
    ASSUME hist \in SyncHist, NEW t \in Syncs, Federation!Writes(t), hist.dirty = FALSE
    PROVE  hist' = hist
<1>1. t \notin Logins
  BY RecordsAssumption
<1>2. (hist.dirty \/ t \in Logins) = FALSE
  BY <1>1
<1>3. hist' = [hist EXCEPT !.dirty = FALSE]
  BY <1>2 DEF Federation!Writes
<1> QED BY <1>3 DEF SyncHist

\* The types after a step of one task.
LEMMA FedMove ==
    ASSUME FedTypes, NEW t \in Federation!Tasks, \E y : Moves(t, y), UNCHANGED <<dir, admin>>,
           row' \in [Users -> RowState], group' \in [Groups -> GroupRow],
           members' \in SUBSET (Users \X Groups), hist' \in SyncHist
    PROVE  FedTypes'
<1>1. PICK y : Moves(t, y)
  OBVIOUS
<1>2. task \in [Federation!Tasks -> SyncTask] /\ \A s \in Federation!Tasks : TaskFits(task[s])
  BY DEF FedTypes
<1>3. /\ task' \in [Federation!Tasks -> SyncTask]
      /\ \A s \in Federation!Tasks : task'[s] = IF s = t THEN y ELSE task[s]
  BY <1>1, <1>2 DEF Moves
<1>4. \A s \in Federation!Tasks : TaskFits(task'[s])
  BY <1>1, <1>2, <1>3 DEF Moves
<1>5. dir' \in [Users -> DirState] /\ admin' \in GroupEdit /\ (admin'.pc = "write" => admin'.g \in Groups /\ admin'.copy.here = TRUE)
  BY DEF FedTypes
<1> QED BY <1>3, <1>4, <1>5 DEF FedTypes, TaskFits

\* Memberships end with their users and groups.
LEMMA MembersStay ==
    ASSUME MembersInv,
           \A n \in Users : row[n].here => row'[n].here,
           \A g \in Groups : group[g].here => group'[g].here,
           \A n \in Users, g \in Groups : <<n, g>> \in members'
                => <<n, g>> \in members \/ (row'[n].here /\ group'[g].here)
    PROVE  MembersInv'
  BY DEF MembersInv

\* A step of a task that writes no row, no group and no membership.
LEMMA OnlyTask ==
    ASSUME FedTypes, MembersInv, NEW t \in Federation!Tasks, \E y : Moves(t, y),
           Federation!Works \/ Federation!Fault \/ Federation!Writes(t),
           UNCHANGED <<dir, row, group, members, admin>>
    PROVE  FedTypes' /\ MembersInv'
<1>1. hist' \in SyncHist
  BY HistMoves DEF FedTypes
<1>2. FedTypes'
  BY <1>1, FedMove DEF FedTypes
<1>3. MembersInv'
  BY DEF MembersInv
<1> QED BY <1>2, <1>3

\* What the task that takes a step has in its hands.
LEMMA TaskTyped ==
    ASSUME FedTypes, NEW t \in Federation!Tasks
    PROVE  task[t] \in SyncTask /\ TaskFits(task[t])
  BY DEF FedTypes

\* A task that is set to a value with these parts.
LEMMA SetMoves ==
    ASSUME NEW t \in Federation!Tasks, NEW y \in SyncTask, TaskFits(y), Federation!Set(t, y)
    PROVE  \E z : Moves(t, z)
  BY DEF Moves, Federation!Set

\* The end of a login.
LEMMA IdleMoves ==
    ASSUME NEW t \in Federation!Tasks, Federation!Set(t, Federation!IdleTask)
    PROVE  \E z : Moves(t, z)
  BY IdleTyped DEF Moves, Federation!Set

\* sync_all reads the directory.
LEMMA StreamTypes ==
    ASSUME FedTypes, MembersInv, NEW t \in Federation!Tasks, Federation!Stream(t)
    PROVE  FedTypes' /\ MembersInv'
<1>1. PICK i \in SyncTask : i = Federation!IdleTask
  BY IdleTyped
<1>2. PICK a : a = {n \in Users : dir[n] # Federation!Absent}
  OBVIOUS
<1>3. PICK y : y = [i EXCEPT !.pc = "load", !.fed = dir, !.add = a]
  OBVIOUS
<1>4. dir \in [Users -> DirState] /\ a \in SUBSET Users /\ "load" \in SyncSteps \cup {"idle"}
  BY <1>2 DEF FedTypes, SyncSteps
<1>5. y \in SyncTask /\ y.pc = "load"
  BY <1>3, <1>4 DEF SyncTask
<1>6. TaskFits(y)
  BY <1>5 DEF TaskFits, Reconciling
<1>7. task' = [task EXCEPT ![t] = y]
  BY <1>1, <1>2, <1>3 DEF Federation!Stream, Federation!Set
<1>8. \E z : Moves(t, z)
  BY <1>5, <1>6, <1>7 DEF Moves
<1>9. hist' \in SyncHist
  <2>1. PICK k \in Nat : k = hist.runs + 1
    BY DEF FedTypes, SyncHist
  <2>2. PICK b \in BOOLEAN : b = (\E s \in Syncs : task[s].pc # "idle")
    OBVIOUS
  <2>3. hist' = [hist EXCEPT !.runs = k, !.before = members, !.dirty = b]
    BY <2>1, <2>2 DEF Federation!Stream
  <2> QED BY <2>3 DEF FedTypes, SyncHist
<1>10. UNCHANGED <<dir, row, group, members, admin>>
  BY DEF Federation!Stream
<1>11. FedTypes'
  BY <1>8, <1>9, <1>10, FedMove DEF FedTypes
<1>12. MembersInv'
  BY <1>10 DEF MembersInv
<1> QED BY <1>11, <1>12

\* A first login finds the user in the directory.
LEMMA FindUserTypes ==
    ASSUME FedTypes, MembersInv, NEW t \in Federation!Tasks, Federation!FindUser(t)
    PROVE  FedTypes' /\ MembersInv'
<1>1. PICK i \in SyncTask : i = Federation!IdleTask
  BY IdleTyped
<1>2. PICK n \in Users : Federation!Set(t, [Federation!IdleTask EXCEPT !.pc = "create", !.fed = dir,
                                                                       !.add = {n}])
  BY DEF Federation!FindUser
<1>3. PICK y : y = [i EXCEPT !.pc = "create", !.fed = dir, !.add = {n}]
  OBVIOUS
<1>4. dir \in [Users -> DirState] /\ {n} \in SUBSET Users /\ "create" \in SyncSteps \cup {"idle"}
  BY DEF FedTypes, SyncSteps
<1>5. y \in SyncTask /\ y.pc = "create"
  BY <1>3, <1>4 DEF SyncTask
<1>6. TaskFits(y)
  BY <1>5 DEF TaskFits, Reconciling
<1>7. task' = [task EXCEPT ![t] = y]
  BY <1>1, <1>2, <1>3 DEF Federation!Set
<1>8. \E z : Moves(t, z)
  BY <1>5, <1>6, <1>7 DEF Moves
<1>9. hist' \in SyncHist
  <2>1. PICK k \in Nat : k = hist.runs + 1
    BY DEF FedTypes, SyncHist
  <2>2. hist' = [hist EXCEPT !.runs = k]
    BY <2>1 DEF Federation!FindUser
  <2> QED BY <2>2 DEF FedTypes, SyncHist
<1>10. UNCHANGED <<dir, row, group, members, admin>>
  BY DEF Federation!FindUser
<1>11. FedTypes'
  BY <1>8, <1>9, <1>10, FedMove DEF FedTypes
<1>12. MembersInv'
  BY <1>10 DEF MembersInv
<1> QED BY <1>11, <1>12

\* The next row of a name.
LEMMA CreatedRow ==
    ASSUME NEW v \in RowState, NEW b \in BOOLEAN
    PROVE  \E w \in RowState : /\ w = [Federation!Created(v) EXCEPT !.link = b]
                               /\ w.here = TRUE /\ w.link = b /\ w.gen = v.gen + 1
<1>1. PICK k \in Nat : k = v.gen + 1
  BY DEF RowState
<1>2. PICK x : x = [v EXCEPT !.gen = k, !.here = TRUE]
  OBVIOUS
<1>3. x \in RowState /\ x.gen = k /\ x.here = TRUE /\ x = Federation!Created(v)
  BY <1>1, <1>2 DEF RowState, Federation!Created
<1>4. PICK w : w = [x EXCEPT !.link = b]
  OBVIOUS
<1>5. w \in RowState /\ w.gen = k /\ w.here = TRUE /\ w.link = b
  BY <1>3, <1>4 DEF RowState
<1> QED BY <1>1, <1>3, <1>4, <1>5

\* The next group of a name.
LEMMA CreatedGroup ==
    ASSUME NEW v \in GroupRow, NEW b \in BOOLEAN
    PROVE  \E w \in GroupRow : /\ w = [Federation!Created(v) EXCEPT !.marked = b]
                               /\ w.here = TRUE /\ w.marked = b /\ w.gen = v.gen + 1
<1>1. PICK k \in Nat : k = v.gen + 1
  BY DEF GroupRow
<1>2. PICK x : x = [v EXCEPT !.gen = k, !.here = TRUE]
  OBVIOUS
<1>3. x \in GroupRow /\ x.gen = k /\ x.here = TRUE /\ x = Federation!Created(v)
  BY <1>1, <1>2 DEF GroupRow, Federation!Created
<1>4. PICK w : w = [x EXCEPT !.marked = b]
  OBVIOUS
<1>5. w \in GroupRow /\ w.gen = k /\ w.here = TRUE /\ w.marked = b
  BY <1>3, <1>4 DEF GroupRow
<1> QED BY <1>1, <1>3, <1>4, <1>5

\* An id of a user, and one of a group.
LEMMA IdTyped ==
    /\ \A n \in Users : \A v \in RowState : /\ Federation!Id(n, v) \in UserId /\ Federation!Id(n, v).name = n
                                            /\ Federation!Id(n, v).gen = v.gen
    /\ \A g \in Groups : \A v \in GroupRow : /\ Federation!Id(g, v) \in GroupId /\ Federation!Id(g, v).name = g
                                             /\ Federation!Id(g, v).gen = v.gen
  BY DEF Federation!Id, UserId, GroupId, RowState, GroupRow

\* load_existing_users.
LEMMA LoadTypes ==
    ASSUME FedTypes, MembersInv, NEW t \in Federation!Tasks, Federation!LoadExistingUsers(t)
    PROVE  FedTypes' /\ MembersInv'
<1>1. PICK r \in SyncTask : r = task[t]
  BY TaskTyped
<1>2. UNCHANGED <<dir, row, group, members, admin>> /\ (Federation!Works \/ Federation!Fault)
  BY DEF Federation!LoadExistingUsers
<1>3. CASE Federation!Set(t, Federation!IdleTask)
  BY <1>2, <1>3, IdleMoves, OnlyTask
<1>4. ASSUME NEW p \in SUBSET Users, NEW q \in SUBSET Users,
             Federation!Set(t, Federation!Onward([r EXCEPT !.snap = row, !.add = p, !.upd = q]))
      PROVE  FedTypes' /\ MembersInv'
  <2>1. PICK x : x = [r EXCEPT !.snap = row, !.add = p, !.upd = q]
    OBVIOUS
  <2>2. x \in SyncTask
    BY <2>1 DEF SyncTask, FedTypes
  <2>3. \E y : Moves(t, y)
    BY <1>4, <2>1, <2>2, OnwardMoves
  <2> QED BY <1>2, <2>3, OnlyTask
<1>5. PICK p, q : /\ p = {n \in r.add : ~row[n].here}
                  /\ q = {n \in r.add : row[n].here /\ row[n].link}
  OBVIOUS
<1>6. p \in SUBSET Users /\ q \in SUBSET Users
  BY <1>5, SyncTaskFields
<1> QED BY <1>1, <1>3, <1>4, <1>5, <1>6 DEF Federation!LoadExistingUsers

\* bulk_create_users.
LEMMA BulkTypes ==
    ASSUME FedTypes, MembersInv, NEW t \in Federation!Tasks, Federation!BulkCreateUsers(t)
    PROVE  FedTypes' /\ MembersInv'
<1>1. PICK r \in SyncTask : r = task[t]
  BY TaskTyped
<1>2. UNCHANGED <<dir, group, members, admin>>
      /\ (Federation!Works \/ Federation!Fault \/ Federation!Writes(t))
  BY DEF Federation!BulkCreateUsers
<1>3. CASE UNCHANGED row /\ Federation!Set(t, [r EXCEPT !.pc = "create"])
  <2>1. PICK y : y = [r EXCEPT !.pc = "create"]
    OBVIOUS
  <2>2. y \in SyncTask /\ y.pc = "create"
    BY <2>1 DEF SyncTask, SyncSteps
  <2>3. TaskFits(y)
    BY <2>2 DEF TaskFits, Reconciling
  <2>4. \E z : Moves(t, z)
    BY <1>3, <2>1, <2>2, <2>3, SetMoves
  <2> QED BY <1>2, <1>3, <2>4, OnlyTask
<1>4. PICK new : new = [n \in Users |-> IF n \in r.add
                                        THEN [Federation!Created(row[n]) EXCEPT !.link = TRUE]
                                        ELSE row[n]]
  OBVIOUS
<1>5. CASE /\ row' = new
           /\ Federation!Set(t, Federation!Onward([r EXCEPT !.add = {},
                                                    !.synced = {Federation!Id(n, new[n]) : n \in r.add}]))
  <2>1. row \in [Users -> RowState]
    BY DEF FedTypes
  <2>2. ASSUME NEW n \in Users PROVE new[n] \in RowState /\ (row[n].here => new[n].here)
    <3>1. CASE n \in r.add
      <4>1. PICK w \in RowState : w = [Federation!Created(row[n]) EXCEPT !.link = TRUE] /\ w.here = TRUE
        BY <2>1, CreatedRow
      <4> QED BY <1>4, <3>1, <4>1
    <3>2. CASE n \notin r.add
      BY <1>4, <2>1, <3>2
    <3> QED BY <3>1, <3>2
  <2>3. new \in [Users -> RowState]
    BY <1>4, <2>2
  <2>4. PICK s : s = {Federation!Id(n, new[n]) : n \in r.add}
    OBVIOUS
  <2>5. s \in SUBSET UserId
    <3>1. r.add \in SUBSET Users
      BY SyncTaskFields
    <3> QED BY <2>2, <2>4, <3>1, IdTyped
  <2>6. PICK x : x = [r EXCEPT !.add = {}, !.synced = s]
    OBVIOUS
  <2>7. x \in SyncTask
    BY <2>5, <2>6 DEF SyncTask
  <2>8. \E y : Moves(t, y)
    BY <1>5, <2>4, <2>6, <2>7, OnwardMoves
  <2>9. hist' \in SyncHist
    BY <1>2, HistMoves DEF FedTypes
  <2>10. FedTypes'
    BY <1>2, <1>5, <2>3, <2>8, <2>9, FedMove DEF FedTypes
  <2>11. MembersInv'
    BY <1>2, <1>5, <2>2, MembersStay
  <2> QED BY <2>10, <2>11
<1>6. \/ /\ row' = new
         /\ Federation!Set(t, Federation!Onward([r EXCEPT !.add = {},
                                                  !.synced = {Federation!Id(n, new[n]) : n \in r.add}]))
      \/ UNCHANGED row /\ Federation!Set(t, [r EXCEPT !.pc = "create"])
  BY <1>1, <1>4 DEF Federation!BulkCreateUsers
<1> QED BY <1>3, <1>5, <1>6

\* create_user.
LEMMA CreateTypes ==
    ASSUME FedTypes, MembersInv, NEW t \in Federation!Tasks, Federation!CreateUser(t)
    PROVE  FedTypes' /\ MembersInv'
<1>1. PICK o \in SyncTask : o = task[t]
  BY TaskTyped
<1>2. UNCHANGED <<dir, group, members, admin>>
      /\ (Federation!Works \/ Federation!Fault \/ Federation!Writes(t))
  BY DEF Federation!CreateUser
<1>3. PICK n \in o.add :
        \E r, new, done :
          /\ r = [o EXCEPT !.add = @ \ {n}]
          /\ new = [Federation!Created(row[n]) EXCEPT !.link = TRUE]
          /\ done = [r EXCEPT !.synced = @ \cup {Federation!Id(n, new)}]
          /\ \/ /\ row' = [row EXCEPT ![n] = new]
                /\ \/ Federation!Set(t, Federation!Onward(done))
                   \/ Federation!Set(t, [done EXCEPT !.pc = "next"])
                   \/ Federation!Set(t, Federation!IdleTask)
             \/ /\ UNCHANGED row
                /\ Federation!Set(t, Federation!Onward(r)) \/ Federation!Set(t, Federation!IdleTask)
  BY <1>1 DEF Federation!CreateUser
<1>4. PICK r, new, done :
          /\ r = [o EXCEPT !.add = @ \ {n}]
          /\ new = [Federation!Created(row[n]) EXCEPT !.link = TRUE]
          /\ done = [r EXCEPT !.synced = @ \cup {Federation!Id(n, new)}]
          /\ \/ /\ row' = [row EXCEPT ![n] = new]
                /\ \/ Federation!Set(t, Federation!Onward(done))
                   \/ Federation!Set(t, [done EXCEPT !.pc = "next"])
                   \/ Federation!Set(t, Federation!IdleTask)
             \/ /\ UNCHANGED row
                /\ Federation!Set(t, Federation!Onward(r)) \/ Federation!Set(t, Federation!IdleTask)
  BY <1>3
<1>5. n \in Users /\ row \in [Users -> RowState]
  BY <1>3, SyncTaskFields DEF FedTypes
<1>6. new \in RowState /\ new.here = TRUE
  <2>1. row[n] \in RowState
    BY <1>5
  <2>2. PICK w \in RowState : w = [Federation!Created(row[n]) EXCEPT !.link = TRUE] /\ w.here = TRUE
    BY <2>1, CreatedRow
  <2> QED BY <1>4, <2>2
<1>7. r \in SyncTask
  <2>1. o.add \ {n} \in SUBSET Users
    BY SyncTaskFields
  <2> QED BY <1>4, <2>1 DEF SyncTask
<1>8. done \in SyncTask
  <2>1. r.synced \cup {Federation!Id(n, new)} \in SUBSET UserId
    BY <1>5, <1>6, <1>7, SyncTaskFields, IdTyped
  <2> QED BY <1>4, <1>7, <2>1 DEF SyncTask
<1>9. Federation!Set(t, [done EXCEPT !.pc = "next"]) => \E y : Moves(t, y)
  <2>1. PICK y : y = [done EXCEPT !.pc = "next"]
    OBVIOUS
  <2>2. y \in SyncTask /\ y.pc = "next"
    BY <1>8, <2>1 DEF SyncTask, SyncSteps
  <2>3. TaskFits(y)
    BY <2>2 DEF TaskFits, Reconciling
  <2> QED BY <2>1, <2>2, <2>3, SetMoves
<1>10. \E y : Moves(t, y)
  BY <1>4, <1>7, <1>8, <1>9, OnwardMoves, IdleMoves
<1>11. row' \in [Users -> RowState] /\ \A m \in Users : row[m].here => row'[m].here
  BY <1>4, <1>5, <1>6
<1>12. hist' \in SyncHist
  BY <1>2, HistMoves DEF FedTypes
<1>13. FedTypes'
  BY <1>2, <1>10, <1>11, <1>12, FedMove DEF FedTypes
<1>14. MembersInv'
  BY <1>2, <1>11, MembersStay
<1> QED BY <1>13, <1>14

\* update_user.
LEMMA UpdateTypes ==
    ASSUME FedTypes, MembersInv, NEW t \in Federation!Tasks, Federation!UpdateUser(t)
    PROVE  FedTypes' /\ MembersInv'
<1>1. PICK o \in SyncTask : o = task[t]
  BY TaskTyped
<1>2. UNCHANGED <<dir, group, members, admin>>
      /\ (Federation!Works \/ Federation!Fault \/ Federation!Writes(t))
  BY DEF Federation!UpdateUser
<1>3. PICK n \in o.upd :
        \E r : /\ r = [o EXCEPT !.upd = @ \ {n}]
               /\ \/ /\ row' = [row EXCEPT ![n].link = r.snap[n].link]
                     /\ Federation!Set(t, Federation!Onward([r EXCEPT !.synced = @ \cup
                                                               {Federation!Id(n, r.snap[n])}]))
                  \/ UNCHANGED row /\ Federation!Set(t, Federation!Onward(r))
  BY <1>1 DEF Federation!UpdateUser
<1>4. PICK r : /\ r = [o EXCEPT !.upd = @ \ {n}]
               /\ \/ /\ row' = [row EXCEPT ![n].link = r.snap[n].link]
                     /\ Federation!Set(t, Federation!Onward([r EXCEPT !.synced = @ \cup
                                                               {Federation!Id(n, r.snap[n])}]))
                  \/ UNCHANGED row /\ Federation!Set(t, Federation!Onward(r))
  BY <1>3
<1>5. n \in Users /\ row \in [Users -> RowState]
  BY <1>3, SyncTaskFields DEF FedTypes
<1>7. r \in SyncTask
  <2>1. o.upd \ {n} \in SUBSET Users
    BY SyncTaskFields
  <2> QED BY <1>4, <2>1 DEF SyncTask
<1>8. PICK done : done = [r EXCEPT !.synced = @ \cup {Federation!Id(n, r.snap[n])}]
  OBVIOUS
<1>9. done \in SyncTask
  <2>1. r.synced \cup {Federation!Id(n, r.snap[n])} \in SUBSET UserId
    BY <1>5, <1>7, SyncTaskFields, IdTyped
  <2> QED BY <1>7, <1>8, <2>1 DEF SyncTask
<1>10. \E y : Moves(t, y)
  BY <1>4, <1>7, <1>8, <1>9, OnwardMoves
<1>11. row' \in [Users -> RowState] /\ \A m \in Users : row[m].here => row'[m].here
  <2>1. PICK b \in BOOLEAN : b = r.snap[n].link
    BY <1>5, <1>7, SyncTaskFields DEF RowState
  <2>2. PICK w : w = [row[n] EXCEPT !.link = b]
    OBVIOUS
  <2>3. w \in RowState /\ w.here = row[n].here
    BY <1>5, <2>2 DEF RowState
  <2>4. UNCHANGED row \/ row' = [row EXCEPT ![n] = w]
    BY <1>4, <2>1, <2>2
  <2> QED BY <1>5, <2>3, <2>4
<1>12. hist' \in SyncHist
  BY <1>2, HistMoves DEF FedTypes
<1>13. FedTypes'
  BY <1>2, <1>10, <1>11, <1>12, FedMove DEF FedTypes
<1>14. MembersInv'
  BY <1>2, <1>11, MembersStay
<1> QED BY <1>13, <1>14

\* GroupIndex::load.
LEMMA LoadIndexTypes ==
    ASSUME FedTypes, MembersInv, NEW t \in Federation!Tasks, Federation!LoadIndex(t)
    PROVE  FedTypes' /\ MembersInv'
<1>1. PICK r \in SyncTask : r = task[t]
  BY TaskTyped
<1>2. PICK y : Federation!Set(t, y) /\ (y = [r EXCEPT !.pc = "next", !.index = group]
                                         \/ y = [r EXCEPT !.pc = "next"])
  BY <1>1 DEF Federation!LoadIndex
<1>3. y \in SyncTask /\ y.pc = "next"
  <2>1. group \in [Groups -> GroupRow] /\ "next" \in SyncSteps \cup {"idle"}
    BY DEF FedTypes, SyncSteps
  <2> QED BY <1>2, <2>1 DEF SyncTask
<1>4. TaskFits(y)
  BY <1>3 DEF TaskFits, Reconciling
<1>5. \E z : Moves(t, z)
  BY <1>2, <1>3, <1>4, SetMoves
<1>6. UNCHANGED <<dir, row, group, members, admin>> /\ (Federation!Works \/ Federation!Fault)
  BY DEF Federation!LoadIndex
<1> QED BY <1>5, <1>6, OnlyTask

\* list_user_groups.
LEMMA ListTypes ==
    ASSUME FedTypes, MembersInv, NEW t \in Federation!Tasks, Federation!ListUserGroups(t)
    PROVE  FedTypes' /\ MembersInv'
<1>1. PICK o \in SyncTask : o = task[t]
  BY TaskTyped
<1>2. PICK u \in Federation!Listed(o) :
        \E r, mine :
          /\ r = [o EXCEPT !.synced = @ \ {u}]
          /\ mine = {g \in Groups : <<u.name, g>> \in members /\ Federation!Refers(u, g, group[g].gen)}
          /\ \/ Federation!Set(t, [r EXCEPT !.pc = "groups", !.user = u, !.want = r.fed[u.name].groups,
                                            !.cur = {Federation!Id(g, group[g]) : g \in mine}])
             \/ Federation!NextUser(t, r)
  BY <1>1 DEF Federation!ListUserGroups
<1>3. PICK r, mine :
          /\ r = [o EXCEPT !.synced = @ \ {u}]
          /\ mine = {g \in Groups : <<u.name, g>> \in members /\ Federation!Refers(u, g, group[g].gen)}
          /\ \/ Federation!Set(t, [r EXCEPT !.pc = "groups", !.user = u, !.want = r.fed[u.name].groups,
                                            !.cur = {Federation!Id(g, group[g]) : g \in mine}])
             \/ Federation!NextUser(t, r)
  BY <1>2
<1>4. u \in UserId /\ u.name \in Users
  BY <1>2, SyncTaskFields DEF Federation!Listed, UserId
<1>5. r \in SyncTask
  <2>1. o.synced \ {u} \in SUBSET UserId
    BY SyncTaskFields
  <2> QED BY <1>3, <2>1 DEF SyncTask
<1>6. PICK w, c : w = r.fed[u.name].groups /\ c = {Federation!Id(g, group[g]) : g \in mine}
  OBVIOUS
<1>7. w \in SUBSET Groups
  BY <1>4, <1>5, <1>6, SyncTaskFields DEF DirState
<1>8. c \in SUBSET GroupId
  <2>1. \A g \in mine : g \in Groups /\ group[g] \in GroupRow
    BY <1>3 DEF FedTypes
  <2> QED BY <1>6, <2>1, IdTyped
<1>9. PICK y : y = [r EXCEPT !.pc = "groups", !.user = u, !.want = w, !.cur = c]
  OBVIOUS
<1>10. y \in SyncTask /\ y.pc = "groups" /\ y.user = u
  <2>1. "groups" \in SyncSteps \cup {"idle"}
    BY DEF SyncSteps
  <2> QED BY <1>4, <1>5, <1>7, <1>8, <1>9, <2>1 DEF SyncTask
<1>11. TaskFits(y)
  BY <1>4, <1>10 DEF TaskFits
<1>12. Federation!Set(t, y) \/ Federation!NextUser(t, r)
  BY <1>3, <1>6, <1>9
<1>13. \E z : Moves(t, z)
  BY <1>5, <1>10, <1>11, <1>12, SetMoves, NextUserMoves
<1>14. UNCHANGED <<dir, row, group, members, admin>> /\ (Federation!Works \/ Federation!Fault)
  BY DEF Federation!ListUserGroups
<1> QED BY <1>13, <1>14, OnlyTask

\* resolve_group_by_name.
LEMMA ResolveTypes ==
    ASSUME FedTypes, MembersInv, NEW t \in Federation!Tasks, Federation!ResolveGroupByName(t)
    PROVE  FedTypes' /\ MembersInv'
<1>1. PICK r \in SyncTask : r = task[t] /\ TaskFits(r)
  BY TaskTyped
<1>2. PICK g \in r.want :
        LET hit == r.index[g].here
            f == IF hit THEN r.index[g] ELSE group[g]
            seen == [r EXCEPT !.want = @ \ {g}, !.index[g] = IF f.here THEN f ELSE @]
        IN  \/ Federation!Set(t, IF ~f.here THEN [seen EXCEPT !.pc = "make", !.g = g]
                                 ELSE IF ~f.marked THEN [seen EXCEPT !.pc = "adopt", !.g = g, !.found = f]
                                 ELSE Federation!Join(seen, g, f))
            \/ Federation!NextUser(t, r)
  BY <1>1 DEF Federation!ResolveGroupByName
<1>3. PICK f, x, seen :
          /\ f = IF r.index[g].here THEN r.index[g] ELSE group[g]
          /\ x = [r.index EXCEPT ![g] = IF f.here THEN f ELSE @]
          /\ seen = [r EXCEPT !.want = @ \ {g}, !.index = x]
  OBVIOUS
<1>4. g \in Groups /\ r.user \in UserId
  <2>1. r.pc = "groups"
    BY <1>1 DEF Federation!ResolveGroupByName
  <2> QED BY <1>1, <1>2, <2>1, SyncTaskFields DEF TaskFits, Reconciling
<1>5. f \in GroupRow
  BY <1>3, <1>4, SyncTaskFields DEF FedTypes
<1>6. x \in [Groups -> GroupRow]
  BY <1>3, <1>4, <1>5, SyncTaskFields
<1>7. seen \in SyncTask /\ seen.user = r.user
  <2>1. r.want \ {g} \in SUBSET Groups
    BY SyncTaskFields
  <2> QED BY <1>3, <1>6, <2>1 DEF SyncTask
<1>8. PICK y, z : y = [seen EXCEPT !.pc = "make", !.g = g] /\ z = [seen EXCEPT !.pc = "adopt", !.g = g, !.found = f]
  OBVIOUS
<1>9. y \in SyncTask /\ z \in SyncTask
      /\ y.user \in UserId /\ y.g \in Groups /\ z.user \in UserId /\ z.g \in Groups
      /\ y.pc = "make" /\ z.found = f
  <2>1. "make" \in SyncSteps \cup {"idle"} /\ "adopt" \in SyncSteps \cup {"idle"}
    BY DEF SyncSteps
  <2> QED BY <1>4, <1>5, <1>7, <1>8, <2>1 DEF SyncTask
<1>10. TaskFits(y) /\ (f.here => TaskFits(z))
  <2>1. f.here => f.here = TRUE
    BY <1>5 DEF GroupRow
  <2> QED BY <1>9, <2>1 DEF TaskFits
<1>11. \/ Federation!Set(t, y) \/ (Federation!Set(t, z) /\ f.here)
       \/ Federation!Set(t, Federation!Join(seen, g, f)) \/ Federation!NextUser(t, r)
  BY <1>2, <1>3, <1>8
<1>12. \E v : Moves(t, v)
  BY <1>4, <1>5, <1>7, <1>9, <1>10, <1>11, SetMoves, JoinMoves, NextUserMoves
<1>13. UNCHANGED <<dir, row, group, members, admin>> /\ (Federation!Works \/ Federation!Fault)
  BY DEF Federation!ResolveGroupByName
<1> QED BY <1>12, <1>13, OnlyTask

\* A step of a task that writes a group that is there, or nothing.
LEMMA WithGroup ==
    ASSUME FedTypes, MembersInv, NEW t \in Federation!Tasks, \E y : Moves(t, y), hist' \in SyncHist,
           NEW g \in Groups, NEW v \in GroupRow, v.here = TRUE,
           group' = [group EXCEPT ![g] = v] \/ UNCHANGED group,
           UNCHANGED <<dir, row, members, admin>>
    PROVE  FedTypes' /\ MembersInv'
<1>1. group' \in [Groups -> GroupRow] /\ \A h \in Groups : group[h].here => group'[h].here
  BY DEF FedTypes
<1>2. FedTypes'
  BY <1>1, FedMove DEF FedTypes
<1>3. MembersInv'
  BY <1>1, MembersStay
<1> QED BY <1>2, <1>3

\* Who writes a group or a membership has a user and a group at hand.
LEMMA AtHand ==
    ASSUME NEW r \in SyncTask, TaskFits(r), r.pc \in {"adopt", "make", "lookup", "add", "drop"}
    PROVE  r.user \in UserId /\ r.g \in Groups
  BY DEF TaskFits, Reconciling

\* The index takes the group that was found.
LEMMA Indexed ==
    ASSUME NEW r \in SyncTask, NEW g \in Groups, NEW v \in GroupRow
    PROVE  \E x \in SyncTask : x = [r EXCEPT !.index[g] = v] /\ x.user = r.user
<1>1. PICK i : i = [r.index EXCEPT ![g] = v]
  OBVIOUS
<1>2. i \in [Groups -> GroupRow]
  BY <1>1, SyncTaskFields
<1>3. PICK x : x = [r EXCEPT !.index = i]
  OBVIOUS
<1>4. x \in SyncTask /\ x.user = r.user
  BY <1>2, <1>3 DEF SyncTask
<1> QED BY <1>1, <1>3, <1>4

\* adopt_existing_group.
LEMMA AdoptTypes ==
    ASSUME FedTypes, MembersInv, NEW t \in Federation!Tasks, Federation!Adopt(t)
    PROVE  FedTypes' /\ MembersInv'
<1>1. PICK r \in SyncTask : r = task[t] /\ TaskFits(r) /\ r.pc = "adopt"
  BY TaskTyped DEF Federation!Adopt
<1>2. r.user \in UserId /\ r.g \in Groups
  BY <1>1, AtHand
<1>3. PICK own : own = [r.found EXCEPT !.marked = TRUE]
  OBVIOUS
<1>4. own \in GroupRow /\ own.gen = r.found.gen /\ own.here = r.found.here
  BY <1>3, SyncTaskFields DEF GroupRow
<1>5. PICK x \in SyncTask : x = [r EXCEPT !.index[r.g] = own] /\ x.user = r.user
  BY <1>2, <1>4, Indexed
<1>6. \/ /\ group[r.g].here /\ group' = [group EXCEPT ![r.g] = own]
         /\ hist' = [hist EXCEPT !.dirty = TRUE]
         /\ Federation!Set(t, Federation!Join(x, r.g, own))
      \/ (Federation!Fault \/ Federation!Works) /\ UNCHANGED group /\ Federation!NextUser(t, r)
  BY <1>1, <1>3, <1>5 DEF Federation!Adopt
<1>7. \E z : Moves(t, z)
  BY <1>2, <1>4, <1>5, <1>6, JoinMoves, NextUserMoves
<1>8. hist' \in SyncHist
  <2>1. CASE hist' = [hist EXCEPT !.dirty = TRUE]
    BY <2>1 DEF FedTypes, SyncHist
  <2> QED BY <1>6, <2>1, HistMoves DEF FedTypes
<1>9. UNCHANGED <<dir, row, members, admin>>
  BY DEF Federation!Adopt
<1>10. group' \in [Groups -> GroupRow]
  BY <1>2, <1>4, <1>6 DEF FedTypes
<1>11. FedTypes'
  BY <1>7, <1>8, <1>9, <1>10, FedMove DEF FedTypes
<1>12. MembersInv'
  <2>1. r.found.here = TRUE
    BY <1>1 DEF TaskFits
  <2>2. \A h \in Groups : group[h].here => group'[h].here
    BY <1>2, <1>4, <1>6, <2>1 DEF FedTypes
  <2> QED BY <1>9, <2>2, MembersStay
<1> QED BY <1>11, <1>12

\* create_sync_group.
LEMMA MakeTypes ==
    ASSUME FedTypes, MembersInv, NEW t \in Federation!Tasks, Federation!CreateSyncGroup(t)
    PROVE  FedTypes' /\ MembersInv'
<1>1. PICK r \in SyncTask : r = task[t] /\ TaskFits(r) /\ r.pc = "make"
  BY TaskTyped DEF Federation!CreateSyncGroup
<1>2. r.user \in UserId /\ r.g \in Groups
  BY <1>1, AtHand
<1>3. PICK new \in GroupRow : /\ new = [Federation!Created(group[r.g]) EXCEPT !.marked = TRUE]
                              /\ new.here = TRUE
  BY <1>2, CreatedGroup DEF FedTypes
<1>4. PICK x \in SyncTask : x = [r EXCEPT !.index[r.g] = new] /\ x.user = r.user
  BY <1>2, <1>3, Indexed
<1>5. PICK y : y = [r EXCEPT !.pc = "lookup"]
  OBVIOUS
<1>6. y \in SyncTask /\ TaskFits(y)
  <2>1. y \in SyncTask /\ y.user = r.user /\ y.g = r.g /\ y.pc = "lookup"
    BY <1>5 DEF SyncTask, SyncSteps
  <2> QED BY <1>2, <2>1 DEF TaskFits
<1>7. \/ /\ group' = [group EXCEPT ![r.g] = new] /\ Federation!Writes(t)
         /\ Federation!Set(t, Federation!Join(x, r.g, new))
      \/ Federation!Works /\ UNCHANGED group /\ Federation!Set(t, y)
      \/ Federation!Fault /\ UNCHANGED group /\ Federation!NextUser(t, r)
  BY <1>1, <1>3, <1>4, <1>5 DEF Federation!CreateSyncGroup
<1>8. \E z : Moves(t, z)
  BY <1>2, <1>4, <1>6, <1>7, JoinMoves, NextUserMoves, SetMoves
<1>9. hist' \in SyncHist
  BY <1>7, HistMoves DEF FedTypes
<1>10. UNCHANGED <<dir, row, members, admin>>
  BY DEF Federation!CreateSyncGroup
<1> QED BY <1>2, <1>3, <1>7, <1>8, <1>9, <1>10, WithGroup

\* The group that won the race for the name.
LEMMA LookupTypes ==
    ASSUME FedTypes, MembersInv, NEW t \in Federation!Tasks, Federation!LookupWinner(t)
    PROVE  FedTypes' /\ MembersInv'
<1>1. PICK r \in SyncTask : r = task[t] /\ TaskFits(r) /\ r.pc = "lookup"
  BY TaskTyped DEF Federation!LookupWinner
<1>2. r.user \in UserId /\ r.g \in Groups
  BY <1>1, AtHand
<1>3. PICK f \in GroupRow : f = group[r.g]
  BY <1>2 DEF FedTypes
<1>4. PICK x \in SyncTask : x = [r EXCEPT !.index[r.g] = f] /\ x.user = r.user
  BY <1>2, <1>3, Indexed
<1>5. \/ Federation!Set(t, Federation!Join(x, r.g, f))
      \/ Federation!NextUser(t, r)
  BY <1>1, <1>3, <1>4 DEF Federation!LookupWinner
<1>6. \E z : Moves(t, z)
  BY <1>2, <1>4, <1>5, JoinMoves, NextUserMoves
<1>7. UNCHANGED <<dir, row, group, members, admin>> /\ (Federation!Works \/ Federation!Fault)
  BY DEF Federation!LookupWinner
<1> QED BY <1>6, <1>7, OnlyTask

\* Back to the groups of the user at hand.
LEMMA BackMoves ==
    ASSUME NEW t \in Federation!Tasks, NEW r \in SyncTask, r.user \in UserId, NEW c \in SUBSET GroupId,
           Federation!Set(t, [r EXCEPT !.pc = "groups", !.cur = c, !.g = Federation!None,
                                       !.found = Federation!NoGroup])
    PROVE  \E y : Moves(t, y)
<1>1. PICK o \in GroupRow : o = Federation!NoGroup
  BY NothingTyped
<1>2. PICK y : y = [r EXCEPT !.pc = "groups", !.cur = c, !.g = "none", !.found = o]
  OBVIOUS
<1>3. "groups" \in SyncSteps \cup {"idle"}
  BY DEF SyncSteps
<1>4. y \in SyncTask /\ y.pc = "groups" /\ y.user = r.user
  BY <1>1, <1>2, <1>3 DEF SyncTask
<1>5. TaskFits(y)
  BY <1>4 DEF TaskFits
<1> QED BY <1>1, <1>2, <1>4, <1>5, SetMoves DEF Federation!None

\* add_user_group.
LEMMA AddTypes ==
    ASSUME FedTypes, MembersInv, NEW t \in Federation!Tasks, Federation!AddUserGroup(t)
    PROVE  FedTypes' /\ MembersInv'
<1>1. PICK r \in SyncTask : r = task[t] /\ TaskFits(r) /\ r.pc = "add"
  BY TaskTyped DEF Federation!AddUserGroup
<1>2. r.user \in UserId /\ r.g \in Groups /\ r.user.name \in Users
  BY <1>1, AtHand DEF UserId
<1>3. r.cur \in SUBSET GroupId
  BY SyncTaskFields
<1>4. [r EXCEPT !.pc = "groups", !.g = Federation!None, !.found = Federation!NoGroup]
        = [r EXCEPT !.pc = "groups", !.cur = r.cur, !.g = Federation!None, !.found = Federation!NoGroup]
  BY DEF SyncTask
<1>5. \/ /\ row[r.user.name].here /\ group[r.g].here
         /\ members' = members \cup {<<r.user.name, r.g>>}
         /\ Federation!Set(t, [r EXCEPT !.pc = "groups", !.g = Federation!None,
                                        !.found = Federation!NoGroup])
      \/ UNCHANGED members /\ Federation!NextUser(t, r)
  BY <1>1 DEF Federation!AddUserGroup, Federation!Refers
<1>6. \E z : Moves(t, z)
  BY <1>2, <1>3, <1>4, <1>5, BackMoves, NextUserMoves
<1>7. /\ UNCHANGED <<dir, row, group, admin>>
      /\ Federation!Works \/ Federation!Fault \/ Federation!Writes(t)
  BY DEF Federation!AddUserGroup
<1>8. hist' \in SyncHist
  BY <1>7, HistMoves DEF FedTypes
<1>9. members' \in SUBSET (Users \X Groups)
  BY <1>2, <1>5 DEF FedTypes
<1>10. FedTypes'
  BY <1>6, <1>7, <1>8, <1>9, FedMove DEF FedTypes
<1>11. MembersInv'
  BY <1>5, <1>7, MembersStay
<1> QED BY <1>10, <1>11

\* The groups the user was found in, one by one.
LEMMA CheckTypes ==
    ASSUME FedTypes, MembersInv, NEW t \in Federation!Tasks, Federation!CheckGroup(t)
    PROVE  FedTypes' /\ MembersInv'
<1>1. PICK r \in SyncTask : r = task[t] /\ TaskFits(r) /\ r.pc = "groups"
  BY TaskTyped DEF Federation!CheckGroup
<1>2. r.user \in UserId
  BY <1>1 DEF TaskFits, Reconciling
<1>3. \/ Federation!NextUser(t, r)
      \/ \E c \in r.cur : \E f :
            /\ f = r.index[c.name] \/ f = group[c.name]
            /\ \/ Federation!Set(t, [r EXCEPT !.pc = "drop", !.g = c.name, !.found = f])
               \/ Federation!Set(t, [r EXCEPT !.cur = @ \ {c}])
  BY <1>1 DEF Federation!CheckGroup
<1>4. ASSUME NEW c \in r.cur, NEW f, f = r.index[c.name] \/ f = group[c.name],
             \/ Federation!Set(t, [r EXCEPT !.pc = "drop", !.g = c.name, !.found = f])
             \/ Federation!Set(t, [r EXCEPT !.cur = @ \ {c}])
      PROVE  \E z : Moves(t, z)
  <2>1. c.name \in Groups /\ f \in GroupRow
    BY <1>4, SyncTaskFields DEF GroupId, FedTypes
  <2>2. PICK m, d : m = c.name /\ d = r.cur \ {c}
    OBVIOUS
  <2>3. m \in Groups /\ d \in SUBSET GroupId /\ "drop" \in SyncSteps \cup {"idle"}
    BY <2>1, <2>2, SyncTaskFields DEF SyncSteps
  <2>4. PICK y : Federation!Set(t, y) /\ (y = [r EXCEPT !.pc = "drop", !.g = m, !.found = f]
                                           \/ y = [r EXCEPT !.cur = d])
    BY <1>4, <2>2
  <2>5. y \in SyncTask /\ y.user = r.user /\ ((y.pc = "drop" /\ y.g \in Groups) \/ y.pc = r.pc)
    <3>1. CASE y = [r EXCEPT !.pc = "drop", !.g = m, !.found = f]
      BY <2>1, <2>3, <3>1 DEF SyncTask
    <3>2. CASE y = [r EXCEPT !.cur = d]
      BY <2>3, <3>2 DEF SyncTask
    <3> QED BY <2>4, <3>1, <3>2
  <2>6. TaskFits(y)
    BY <1>1, <1>2, <2>5 DEF TaskFits
  <2> QED BY <2>4, <2>5, <2>6, SetMoves
<1>5. \E z : Moves(t, z)
  BY <1>3, <1>4, NextUserMoves
<1>6. UNCHANGED <<dir, row, group, members, admin>> /\ (Federation!Works \/ Federation!Fault)
  BY DEF Federation!CheckGroup
<1> QED BY <1>5, <1>6, OnlyTask

\* remove_user_group.
LEMMA RemoveTypes ==
    ASSUME FedTypes, MembersInv, NEW t \in Federation!Tasks, Federation!RemoveUserGroup(t)
    PROVE  FedTypes' /\ MembersInv'
<1>1. PICK r \in SyncTask : r = task[t] /\ TaskFits(r) /\ r.pc = "drop"
  BY TaskTyped DEF Federation!RemoveUserGroup
<1>2. r.user \in UserId
  BY <1>1, AtHand
<1>3. PICK d : d = r.cur \ {Federation!Id(r.g, r.found)}
  OBVIOUS
<1>4. d \in SUBSET GroupId
  BY <1>3, SyncTaskFields
<1>5. /\ members' \subseteq members
      /\ \/ Federation!Set(t, [r EXCEPT !.pc = "groups", !.cur = d, !.g = Federation!None,
                                        !.found = Federation!NoGroup])
         \/ Federation!NextUser(t, r)
  BY <1>1, <1>3 DEF Federation!RemoveUserGroup
<1>6. \E z : Moves(t, z)
  BY <1>2, <1>4, <1>5, BackMoves, NextUserMoves
<1>7. /\ UNCHANGED <<dir, row, group, admin>>
      /\ Federation!Works \/ Federation!Fault \/ Federation!Writes(t)
  BY DEF Federation!RemoveUserGroup
<1>8. hist' \in SyncHist
  BY <1>7, HistMoves DEF FedTypes
<1>9. FedTypes'
  BY <1>5, <1>6, <1>7, <1>8, FedMove DEF FedTypes
<1>10. MembersInv'
  BY <1>5, <1>7, MembersStay
<1> QED BY <1>9, <1>10

\* The sync is reported.
LEMMA FinishTypes ==
    ASSUME FedTypes, MembersInv, NEW t \in Federation!Tasks, Federation!Finish(t)
    PROVE  FedTypes' /\ MembersInv'
<1>1. \E z : Moves(t, z)
  BY IdleMoves DEF Federation!Finish
<1>2. UNCHANGED <<dir, row, group, members, admin>> /\ Federation!Works
  BY DEF Federation!Finish, Federation!Works
<1> QED BY <1>1, <1>2, OnlyTask

\* What administrators and the directory do.
FedEdit ==
    \/ \E n \in Users : Federation!EditUser(n) \/ Federation!EditDirectory(n)
    \/ \E g \in Groups : Federation!EditGroup(g) \/ Federation!LoadGroup(g)
    \/ \E n \in Users, g \in Groups : Federation!EditMembers(n, g)
    \/ Federation!AddGroupRealmRoles

\* The types after an edit.
LEMMA EditTypes ==
    ASSUME FedTypes, UNCHANGED task, dir' \in [Users -> DirState], row' \in [Users -> RowState],
           group' \in [Groups -> GroupRow], members' \in SUBSET (Users \X Groups),
           admin' \in GroupEdit,
           admin'.pc = "write" => admin'.g \in Groups /\ admin'.copy.here = TRUE,
           hist' \in SyncHist
    PROVE  FedTypes'
<1>1. task' \in [Federation!Tasks -> SyncTask] /\ \A t \in Federation!Tasks : TaskFits(task'[t])
  BY DEF FedTypes
<1> QED BY <1>1 DEF FedTypes, TaskFits

\* An edit keeps the types and takes memberships away with users and groups.
LEMMA FedEditTypes ==
    ASSUME FedTypes, MembersInv, FedEdit
    PROVE  FedTypes' /\ MembersInv'
<1>1. /\ dir \in [Users -> DirState] /\ row \in [Users -> RowState] /\ group \in [Groups -> GroupRow]
      /\ members \in SUBSET (Users \X Groups) /\ admin \in GroupEdit
      /\ (admin.pc = "write" => admin.g \in Groups /\ admin.copy.here = TRUE) /\ hist \in SyncHist
  BY DEF FedTypes
<1>2. Federation!Fault => hist' \in SyncHist
  BY <1>1, HistMoves
<1>3. ASSUME NEW n \in Users, Federation!EditUser(n) PROVE FedTypes' /\ MembersInv'
  <2>1. PICK v \in RowState : v = [row[n] EXCEPT !.here = FALSE]
    BY <1>1 DEF RowState
  <2>2. PICK w \in RowState : w = [Federation!Created(row[n]) EXCEPT !.link = FALSE]
    <3>1. row[n] \in RowState /\ FALSE \in BOOLEAN
      BY <1>1
    <3> QED BY <3>1, CreatedRow
  <2>3. row' = [row EXCEPT ![n] = v] \/ row' = [row EXCEPT ![n] = w]
    BY <1>3, <2>1, <2>2 DEF Federation!EditUser
  <2>4. /\ members' = {m \in members : m[1] # n} /\ UNCHANGED <<dir, group, task, admin>>
        /\ hist' \in SyncHist
    BY <1>2, <1>3 DEF Federation!EditUser, Federation!Edit
  <2>5. row' \in [Users -> RowState] /\ \A m \in Users \ {n} : row'[m] = row[m]
    BY <1>1, <2>3
  <2>6. members' \in SUBSET (Users \X Groups)
    BY <1>1, <2>4
  <2>7. FedTypes'
    BY <1>1, <2>4, <2>5, <2>6, EditTypes
  <2>8. \A m \in Users, g \in Groups : <<m, g>> \in members' => <<m, g>> \in members /\ m # n
    BY <2>4
  <2>9. MembersInv'
    BY <2>4, <2>5, <2>8 DEF MembersInv
  <2> QED BY <2>7, <2>9
<1>4. ASSUME NEW n \in Users, Federation!EditDirectory(n) PROVE FedTypes' /\ MembersInv'
  <2>1. PICK d \in {Federation!Absent} \cup Federation!Lists : dir' = [dir EXCEPT ![n] = d]
    BY <1>4 DEF Federation!EditDirectory
  <2>2. d \in DirState
    <3>1. CASE d \in Federation!Lists
      BY <3>1 DEF Federation!Lists, DirState
    <3> QED BY <2>1, <3>1, NothingTyped
  <2>3. UNCHANGED <<row, group, members, task, admin>> /\ hist' \in SyncHist
    BY <1>2, <1>4 DEF Federation!EditDirectory, Federation!Edit
  <2>4. FedTypes'
    BY <1>1, <2>1, <2>2, <2>3, EditTypes
  <2>5. MembersInv'
    BY <2>3 DEF MembersInv
  <2> QED BY <2>4, <2>5
<1>5. ASSUME NEW g \in Groups, Federation!EditGroup(g) PROVE FedTypes' /\ MembersInv'
  <2>1. PICK v \in GroupRow : v = [group[g] EXCEPT !.here = FALSE]
    BY <1>1 DEF GroupRow
  <2>2. PICK w \in GroupRow : w = [Federation!Created(group[g]) EXCEPT !.marked = FALSE] /\ w.here = TRUE
    <3>1. group[g] \in GroupRow /\ FALSE \in BOOLEAN
      BY <1>1
    <3> QED BY <3>1, CreatedGroup
  <2>3. \/ group' = [group EXCEPT ![g] = v] /\ members' = {m \in members : m[2] # g}
        \/ group' = [group EXCEPT ![g] = w] /\ UNCHANGED members
    BY <1>5, <2>1, <2>2 DEF Federation!EditGroup
  <2>4. /\ UNCHANGED <<dir, row, task, admin>> /\ hist' \in SyncHist
    BY <1>2, <1>5 DEF Federation!EditGroup, Federation!Edit
  <2>5. /\ group' \in [Groups -> GroupRow] /\ \A h \in Groups \ {g} : group'[h] = group[h]
        /\ group'[g].here \/ members' = {m \in members : m[2] # g}
    BY <1>1, <2>2, <2>3
  <2>6. members' \in SUBSET (Users \X Groups)
    BY <1>1, <2>3
  <2>7. FedTypes'
    BY <1>1, <2>4, <2>5, <2>6, EditTypes
  <2>8. \A m \in Users, h \in Groups : <<m, h>> \in members' => <<m, h>> \in members /\ (h # g \/ group'[g].here)
    BY <2>3, <2>5
  <2>9. MembersInv'
    BY <2>4, <2>5, <2>8 DEF MembersInv
  <2> QED BY <2>7, <2>9
<1>6. ASSUME NEW g \in Groups, Federation!LoadGroup(g) PROVE FedTypes' /\ MembersInv'
  <2>1. /\ admin' = [pc |-> "write", g |-> g, copy |-> group[g]] /\ group[g].here
        /\ UNCHANGED <<dir, row, group, members, task>> /\ hist' = [hist EXCEPT !.events = @ + 1]
    BY <1>6 DEF Federation!LoadGroup
  <2>2. admin' \in GroupEdit /\ admin'.g \in Groups /\ admin'.copy.here = TRUE
    BY <1>1, <2>1 DEF GroupEdit, GroupRow
  <2>3. hist' \in SyncHist
    BY <1>1, <2>1 DEF SyncHist
  <2>4. FedTypes'
    BY <1>1, <2>1, <2>2, <2>3, EditTypes
  <2>5. MembersInv'
    BY <2>1 DEF MembersInv
  <2> QED BY <2>4, <2>5
<1>7. ASSUME NEW n \in Users, NEW g \in Groups, Federation!EditMembers(n, g) PROVE FedTypes' /\ MembersInv'
  <2>1. /\ row[n].here /\ group[g].here
        /\ members' \in {members \cup {<<n, g>>}, members \ {<<n, g>>}}
        /\ UNCHANGED <<dir, row, group, task, admin>> /\ hist' \in SyncHist
    BY <1>2, <1>7 DEF Federation!EditMembers, Federation!Edit
  <2>2. members' \in SUBSET (Users \X Groups)
    BY <1>1, <2>1
  <2>3. FedTypes'
    BY <1>1, <2>1, <2>2, EditTypes
  <2>4. MembersInv'
    BY <2>1, MembersStay
  <2> QED BY <2>3, <2>4
<1>8. ASSUME Federation!AddGroupRealmRoles PROVE FedTypes' /\ MembersInv'
  <2>1. PICK g, v : g = admin.g /\ v = admin.copy
    OBVIOUS
  <2>2. g \in Groups /\ v \in GroupRow /\ v.here = TRUE
    BY <1>1, <1>8, <2>1 DEF GroupEdit, Federation!AddGroupRealmRoles
  <2>3. /\ group' = [group EXCEPT ![g] = v] \/ UNCHANGED group
        /\ hist' = [hist EXCEPT !.dirty = TRUE] /\ admin' = Federation!IdleAdmin
        /\ UNCHANGED <<dir, row, members, task>>
    BY <1>8, <2>1 DEF Federation!AddGroupRealmRoles
  <2>4. hist' \in SyncHist
    BY <1>1, <2>3 DEF SyncHist
  <2>5. admin' \in GroupEdit /\ admin'.pc = "idle"
    BY <2>3, NothingTyped DEF GroupEdit, Federation!IdleAdmin, Federation!None
  <2>6. group' \in [Groups -> GroupRow] /\ \A h \in Groups : group[h].here => group'[h].here
    BY <1>1, <2>2, <2>3
  <2>7. FedTypes'
    BY <1>1, <2>3, <2>4, <2>5, <2>6, EditTypes
  <2>8. MembersInv'
    BY <2>3, <2>6, MembersStay
  <2> QED BY <2>7, <2>8
<1> QED BY <1>3, <1>4, <1>5, <1>6, <1>7, <1>8 DEF FedEdit

\* A step of a sync or a login, the first apart.
FedTask(t) ==
    \/ Federation!LoadExistingUsers(t) \/ Federation!BulkCreateUsers(t) \/ Federation!CreateUser(t)
    \/ Federation!UpdateUser(t) \/ Federation!LoadIndex(t) \/ Federation!ListUserGroups(t)
    \/ Federation!ResolveGroupByName(t) \/ Federation!Adopt(t) \/ Federation!CreateSyncGroup(t)
    \/ Federation!LookupWinner(t) \/ Federation!AddUserGroup(t) \/ Federation!CheckGroup(t)
    \/ Federation!RemoveUserGroup(t) \/ Federation!Finish(t)

\* Every step is one of these.
LEMMA FedNext ==
    ASSUME Federation!Next
    PROVE  \/ \E t \in Federation!Tasks : Federation!Stream(t) \/ Federation!FindUser(t) \/ FedTask(t)
           \/ FedEdit
  BY Zenon DEF Federation!Next, FedTask, FedEdit

\* Every step keeps the types, and memberships those of users and groups there are.
LEMMA FedTypesStep ==
    ASSUME FedTypes, MembersInv, Federation!Next
    PROVE  FedTypes' /\ MembersInv'
<1>1. ASSUME NEW t \in Federation!Tasks, FedTask(t) PROVE FedTypes' /\ MembersInv'
  BY <1>1, LoadTypes, BulkTypes, CreateTypes, UpdateTypes, LoadIndexTypes, ListTypes, ResolveTypes,
     AdoptTypes, MakeTypes, LookupTypes, AddTypes, CheckTypes, RemoveTypes, FinishTypes DEF FedTask
<1> QED BY <1>1, FedNext, StreamTypes, FindUserTypes, FedEditTypes

-----------------------------------------------------------------------------

\* Nothing a sync looks at changes.
LEMMA Undisturbed ==
    ASSUME FedTypes, FedTypes', OneSync, UNCHANGED <<dir, row, group, members>>, hist'.before = hist.before,
           hist'.dirty = FALSE => hist.dirty = FALSE,
           \A t \in Syncs : task'[t] = task[t]
    PROVE  OneSync'
<1> SUFFICES ASSUME hist'.dirty = FALSE, NEW t \in Syncs, task'[t].pc # "idle"
             PROVE  QuietInv(task[t])' /\ \A s \in Syncs : task'[s].pc # "idle" => s = t
  BY DEF OneSync
<1>1. /\ QuietInv(task[t]) /\ \A s \in Syncs : task[s].pc # "idle" => s = t
  BY DEF OneSync
<1>2. PICK r : r = task[t] /\ r = task'[t] /\ QuietInv(r)
  BY <1>1
<1>3. QuietInv(r)'
  BY <1>2 DEF QuietInv, HandsInv, ListsInv, UserInv, GroupInv, Turn, Same, Exact, Reported
<1>4. \A s \in Syncs : task'[s].pc # "idle" => s = t
  BY <1>1
<1>5. QuietInv(task[t])'
  BY <1>2, <1>3
<1> QED BY <1>4, <1>5

\* The one sync takes a step.
LEMMA SyncMoves ==
    ASSUME FedTypes, OneSync, NEW t \in Syncs, task[t].pc # "idle", hist.dirty = FALSE, NEW y,
           task' = [task EXCEPT ![t] = y], y.pc # "idle" => QuietInv(y)'
    PROVE  OneSync'
<1>1. \A s \in Syncs : task[s].pc # "idle" => s = t
  BY DEF OneSync
<1>2. t \in Federation!Tasks /\ \A s \in Syncs : s \in Federation!Tasks
  BY DEF Federation!Tasks
<1>3. \A s \in Syncs : task'[s] = IF s = t THEN y ELSE task[s]
  BY <1>2 DEF FedTypes
<1>4. ASSUME NEW s \in Syncs, task'[s].pc # "idle"
      PROVE  s = t /\ QuietInv(task[s])'
  <2>1. s = t /\ task'[s] = y
    BY <1>1, <1>3, <1>4
  <2> QED BY <1>4, <2>1
<1> QED BY <1>4 DEF OneSync

\* A step of a task fails, writes, or only reads.
LEMMA FedTaskReads ==
    ASSUME NEW t \in Federation!Tasks, FedTask(t)
    PROVE  /\ \E y : task' = [task EXCEPT ![t] = y]
           /\ UNCHANGED dir
           /\ \/ Federation!Fault \/ Federation!Writes(t) \/ hist' = [hist EXCEPT !.dirty = TRUE]
              \/ Federation!Works /\ UNCHANGED <<row, group, members>>
<1> DEFINE Sets == \E y : task' = [task EXCEPT ![t] = y]
           Reads == \/ Federation!Fault \/ Federation!Writes(t) \/ hist' = [hist EXCEPT !.dirty = TRUE]
                    \/ Federation!Works /\ UNCHANGED <<row, group, members>>
<1>1. ASSUME NEW r, Federation!Set(t, r) \/ Federation!NextUser(t, r) PROVE Sets
  BY <1>1 DEF Federation!Set, Federation!NextUser
<1>2. Federation!LoadExistingUsers(t) => Sets /\ UNCHANGED dir /\ Reads
  BY <1>1 DEF Federation!LoadExistingUsers
<1>3. Federation!BulkCreateUsers(t) => Sets /\ UNCHANGED dir /\ Reads
  BY <1>1 DEF Federation!BulkCreateUsers
<1>4. Federation!CreateUser(t) => Sets /\ UNCHANGED dir /\ Reads
  BY <1>1 DEF Federation!CreateUser
<1>5. Federation!UpdateUser(t) => Sets /\ UNCHANGED dir /\ Reads
  BY <1>1 DEF Federation!UpdateUser
<1>6. Federation!LoadIndex(t) => Sets /\ UNCHANGED dir /\ Reads
  BY <1>1 DEF Federation!LoadIndex
<1>7. Federation!ListUserGroups(t) => Sets /\ UNCHANGED dir /\ Reads
  BY <1>1 DEF Federation!ListUserGroups
<1>8. Federation!ResolveGroupByName(t) => Sets /\ UNCHANGED dir /\ Reads
  BY <1>1 DEF Federation!ResolveGroupByName
<1>9. Federation!Adopt(t) => Sets /\ UNCHANGED dir /\ Reads
  BY <1>1 DEF Federation!Adopt
<1>10. Federation!CreateSyncGroup(t) => Sets /\ UNCHANGED dir /\ Reads
  BY <1>1 DEF Federation!CreateSyncGroup
<1>11. Federation!LookupWinner(t) => Sets /\ UNCHANGED dir /\ Reads
  BY <1>1 DEF Federation!LookupWinner
<1>12. Federation!AddUserGroup(t) => Sets /\ UNCHANGED dir /\ Reads
  BY <1>1 DEF Federation!AddUserGroup
<1>13. Federation!CheckGroup(t) => Sets /\ UNCHANGED dir /\ Reads
  BY <1>1 DEF Federation!CheckGroup
<1>14. Federation!RemoveUserGroup(t) => Sets /\ UNCHANGED dir /\ Reads
  BY <1>1 DEF Federation!RemoveUserGroup
<1>15. Federation!Finish(t) => Sets /\ UNCHANGED dir /\ Reads
  BY <1>1 DEF Federation!Finish, Federation!Works
<1> HIDE DEF Sets, Reads
<1>16. Sets /\ UNCHANGED dir /\ Reads
  BY <1>2, <1>3, <1>4, <1>5, <1>6, <1>7, <1>8, <1>9, <1>10, <1>11, <1>12, <1>13, <1>14, <1>15
     DEF FedTask
<1> QED BY <1>16 DEF Sets, Reads

\* A login disturbs a sync or leaves what it looks at.
LEMMA LoginStep ==
    ASSUME FedTypes, FedTypes', OneSync, NEW t \in Logins, FedTask(t) \/ Federation!FindUser(t)
    PROVE  OneSync'
<1>1. CASE hist'.dirty = TRUE
  BY <1>1 DEF OneSync
<1>2. t \in Federation!Tasks /\ t \notin Syncs /\ \A s \in Syncs : s \in Federation!Tasks
  BY RecordsAssumption DEF Federation!Tasks
<1>3. hist \in SyncHist
  BY DEF FedTypes
<1>4. ASSUME NEW y, task' = [task EXCEPT ![t] = y] PROVE \A s \in Syncs : task'[s] = task[s]
  BY <1>2, <1>4 DEF FedTypes
<1>5. CASE Federation!FindUser(t)
  <2>1. /\ \E y : task' = [task EXCEPT ![t] = y] /\ UNCHANGED <<dir, row, group, members>>
        /\ hist' = [hist EXCEPT !.runs = @ + 1]
    BY <1>5 DEF Federation!FindUser, Federation!Set
  <2>2. hist'.before = hist.before /\ hist'.dirty = hist.dirty
    BY <1>3, <2>1 DEF SyncHist
  <2> QED BY <1>4, <2>1, <2>2, Undisturbed
<1>6. CASE FedTask(t) /\ hist'.dirty # TRUE
  <2>1. /\ \E y : task' = [task EXCEPT ![t] = y]
        /\ UNCHANGED dir
        /\ \/ Federation!Fault \/ Federation!Writes(t) \/ hist' = [hist EXCEPT !.dirty = TRUE]
           \/ Federation!Works /\ UNCHANGED <<row, group, members>>
    BY <1>2, <1>6, FedTaskReads
  <2>2. ~Federation!Fault /\ ~Federation!Writes(t)
    BY <1>3, <1>6, Disturbed
  <2>3. hist' # [hist EXCEPT !.dirty = TRUE]
    BY <1>3, <1>6 DEF SyncHist
  <2>4. UNCHANGED <<dir, row, group, members, hist>>
    BY <2>1, <2>2, <2>3 DEF Federation!Works
  <2> QED BY <1>4, <2>1, <2>4, Undisturbed
<1> QED BY <1>1, <1>5, <1>6

\* An edit disturbs a sync, or only reads.
LEMMA EditStep ==
    ASSUME FedTypes, FedTypes', OneSync, FedEdit
    PROVE  OneSync'
<1>1. CASE hist'.dirty = TRUE
  BY <1>1 DEF OneSync
<1>2. hist \in SyncHist
  BY DEF FedTypes
<1>3. CASE Federation!Fault
  BY <1>1, <1>2, <1>3, Disturbed
<1>4. CASE Federation!AddGroupRealmRoles
  BY <1>1, <1>2, <1>4 DEF Federation!AddGroupRealmRoles, SyncHist
<1>5. CASE \E g \in Groups : Federation!LoadGroup(g)
  <2>1. UNCHANGED <<dir, row, group, members, task>> /\ hist' = [hist EXCEPT !.events = @ + 1]
    BY <1>5 DEF Federation!LoadGroup
  <2>2. hist'.before = hist.before /\ hist'.dirty = hist.dirty
    BY <1>2, <2>1 DEF SyncHist
  <2> QED BY <2>1, <2>2, Undisturbed
<1> QED BY <1>3, <1>4, <1>5 DEF FedEdit, Federation!EditUser, Federation!EditDirectory,
           Federation!EditGroup, Federation!EditMembers, Federation!Edit

\* A sync begins, alone or disturbed.
LEMMA StreamQuiet ==
    ASSUME FedTypes, FedTypes', OneSync, NEW t \in Syncs, Federation!Stream(t)
    PROVE  OneSync'
<1> SUFFICES ASSUME hist'.dirty = FALSE PROVE OneSync'
  BY DEF OneSync
<1>1. /\ hist' = [hist EXCEPT !.runs = @ + 1, !.before = members,
                              !.dirty = \E s \in Syncs : task[s].pc # "idle"]
      /\ UNCHANGED <<dir, row, group, members>>
  BY DEF Federation!Stream
<1>2. hist'.before = members /\ hist'.dirty = (\E s \in Syncs : task[s].pc # "idle")
  BY <1>1 DEF FedTypes, SyncHist
<1>3. \A s \in Syncs : task[s].pc = "idle"
  BY <1>2
<1>4. PICK i \in SyncTask : i = Federation!IdleTask
  BY IdleTyped
<1>5. PICK a : a = {n \in Users : dir[n] # Federation!Absent}
  OBVIOUS
<1>6. PICK y : y = [i EXCEPT !.pc = "load", !.fed = dir, !.add = a]
  OBVIOUS
<1>7. task' = [task EXCEPT ![t] = y]
  BY <1>4, <1>5, <1>6 DEF Federation!Stream, Federation!Set
<1>8. /\ y.pc = "load" /\ y.fed = dir /\ y.add = a /\ y.synced = {} /\ y.upd = {}
      /\ \A g \in Groups : y.index[g].here = FALSE
  <2>1. y.pc = "load" /\ y.fed = dir /\ y.add = a /\ y.synced = i.synced /\ y.upd = i.upd /\ y.index = i.index
    BY <1>6 DEF SyncTask
  <2> QED BY <1>4, <2>1, IdleTyped
<1>9. HandsInv(y)'
  BY <1>1, <1>8 DEF HandsInv
<1>10. ListsInv(y)'
  <2>1. \A n \in Users : Same(n)'
    BY <1>1, <1>2 DEF Same
  <2> QED BY <1>1, <1>5, <1>8, <2>1 DEF ListsInv
<1>11. QuietInv(y)'
  BY <1>8, <1>9, <1>10 DEF QuietInv, Reconciling
<1>12. \A s \in Syncs : task'[s] = IF s = t THEN y ELSE task[s]
  BY <1>7 DEF FedTypes, Federation!Tasks
<1>13. ASSUME NEW s \in Syncs, task'[s].pc # "idle"
       PROVE  s = t /\ QuietInv(task[s])'
  <2>1. s = t /\ task'[s] = y
    BY <1>3, <1>12, <1>13
  <2> QED BY <1>11, <2>1
<1> QED BY <1>13 DEF OneSync

-----------------------------------------------------------------------------

\* What a sync has in its hands when it goes on.
LEMMA OnwardTyped ==
    ASSUME NEW r \in SyncTask
    PROVE  Federation!Onward(r) \in SyncTask
<1>1. PICK p \in {"bulk", "create", "update", "index", "end"} : Federation!Onward(r) = [r EXCEPT !.pc = p]
  BY OnwardIs
<1>2. p \in SyncSteps \cup {"idle"}
  BY <1>1 DEF SyncSteps
<1> QED BY <1>1, <1>2 DEF SyncTask

\* Sync x is about to go on: nothing is reconciled, and its lists are right.
Ready(x) ==
    /\ HandsInv(x) /\ \A n \in Users : Same(n)
    /\ x.pc \in {"load", "bulk", "update"}
    /\ x.pc = "load" => x.synced = {}
    /\ x.pc # "load" => x.add = {}
    /\ \A n \in x.add : ~row[n].here
    /\ \A n \in x.upd : row[n].here /\ row[n].link /\ x.snap[n] = row[n]
    /\ \A n \in Users : Reported(n) => n \in x.upd \/ Federation!Id(n, row[n]) \in x.synced

\* It goes on with what has to be done, or ends because nothing has.
GoesOn == \A x, y \in SyncTask : Ready(x) /\ y = Federation!Onward(x) => QuietInv(y) /\ y.pc # "idle"

\* That is so in every state.
LEMMA OnwardQuiet == GoesOn
<1> SUFFICES ASSUME NEW x \in SyncTask, NEW y \in SyncTask, Ready(x), y = Federation!Onward(x)
             PROVE  QuietInv(y) /\ y.pc # "idle"
  BY DEF GoesOn
<1>1. PICK p : y = [x EXCEPT !.pc = p]
  BY OnwardIs
<1>2. /\ y.fed = x.fed /\ y.index = x.index /\ y.synced = x.synced /\ y.add = x.add /\ y.upd = x.upd
      /\ y.snap = x.snap /\ y.pc = p
  BY <1>1 DEF SyncTask
<1>3. \/ p = "bulk" /\ x.add # {} /\ x.pc = "load"
      \/ p = "update" /\ x.upd # {} /\ x.add = {}
      \/ p = "index" /\ x.upd = {} /\ x.add = {}
      \/ p = "end" /\ x.upd = {} /\ x.add = {} /\ Federation!Listed(x) = {}
  <2>1. x.add = {} \/ x.pc = "load"
    BY DEF Ready
  <2>2. x.pc # "create"
    BY DEF Ready
  <2>3. \/ y = [x EXCEPT !.pc = "bulk"] /\ x.add # {} /\ x.pc = "load"
        \/ y = [x EXCEPT !.pc = "update"] /\ x.upd # {} /\ x.add = {}
        \/ y = [x EXCEPT !.pc = "index"] /\ x.upd = {} /\ x.add = {}
        \/ y = [x EXCEPT !.pc = "end"] /\ x.upd = {} /\ x.add = {} /\ Federation!Listed(x) = {}
    BY <2>1, <2>2 DEF Federation!Onward
  <2> QED BY <1>2, <2>3 DEF SyncTask
<1>4. HandsInv(y)
  BY <1>2 DEF Ready, HandsInv
<1>5. CASE p \in {"bulk", "update", "index"}
  <2>1. ListsInv(y)
    BY <1>2, <1>3, <1>5 DEF Ready, ListsInv
  <2> QED BY <1>2, <1>4, <1>5, <2>1 DEF QuietInv, Reconciling
<1>6. CASE p = "end"
  <2>1. ASSUME NEW n \in Users PROVE ~Reported(n)
    <3>1. SUFFICES ASSUME Reported(n) PROVE FALSE
      OBVIOUS
    <3>2. Federation!Id(n, row[n]) \in x.synced
      BY <1>3, <1>6, <3>1 DEF Ready
    <3>3. x.fed[n].kind = "lists" /\ Federation!Id(n, row[n]).name = n
      BY <3>1 DEF Ready, HandsInv, Reported, Federation!Id
    <3>4. Federation!Id(n, row[n]) \in Federation!Listed(x)
      BY <3>2, <3>3 DEF Federation!Listed
    <3> QED BY <1>3, <1>6, <3>4
  <2>2. \A n \in Users : Exact(n)
    BY <2>1 DEF Ready, Same, Exact
  <2> QED BY <1>2, <1>4, <1>6, <2>2 DEF QuietInv, Reconciling
<1> QED BY <1>3, <1>5, <1>6

\* A sync that reads, or writes what was there, and goes on with y.
LEMMA QuietRead ==
    ASSUME FedTypes, OneSync, NEW t \in Syncs, task[t].pc # "idle", hist.dirty = FALSE, NEW y,
           task' = [task EXCEPT ![t] = y], y.pc # "idle" => QuietInv(y),
           UNCHANGED <<dir, row, group, members, hist>>
    PROVE  OneSync'
<1>1. y.pc # "idle" => QuietInv(y)'
  BY DEF QuietInv, HandsInv, ListsInv, UserInv, GroupInv, Turn, Same, Exact, Reported
<1> QED BY <1>1, SyncMoves

\* What is known of the sync that takes a step.
LEMMA TheSync ==
    ASSUME FedTypes, OneSync, NEW t \in Syncs, hist.dirty = FALSE, task[t].pc # "idle"
    PROVE  t \in Federation!Tasks /\ task[t] \in SyncTask /\ TaskFits(task[t]) /\ QuietInv(task[t])
  BY TaskTyped DEF OneSync, Federation!Tasks

\* load_existing_users: every user the directory reports is on a list.
LEMMA LoadQuiet ==
    ASSUME FedTypes, OneSync, NEW t \in Syncs, hist.dirty = FALSE, ~Federation!Fault,
           Federation!LoadExistingUsers(t)
    PROVE  OneSync'
<1>1. PICK r \in SyncTask : r = task[t] /\ r.pc = "load" /\ QuietInv(r)
  BY TheSync DEF Federation!LoadExistingUsers
<1>2. PICK a, u : a = {n \in r.add : ~row[n].here} /\ u = {n \in r.add : row[n].here /\ row[n].link}
  OBVIOUS
<1>3. PICK x : x = [r EXCEPT !.snap = row, !.add = a, !.upd = u]
  OBVIOUS
<1>4. Federation!Works /\ Federation!Set(t, Federation!Onward(x)) /\ UNCHANGED <<dir, row, group, members>>
  BY <1>1, <1>2, <1>3 DEF Federation!LoadExistingUsers
<1>5. /\ x \in SyncTask /\ x.snap = row /\ x.add = a /\ x.upd = u /\ x.pc = "load"
      /\ x.fed = r.fed /\ x.index = r.index /\ x.synced = r.synced
  <2>1. a \in SUBSET Users /\ u \in SUBSET Users /\ row \in [Users -> RowState]
    BY <1>2, SyncTaskFields DEF FedTypes
  <2> QED BY <1>1, <1>3, <2>1 DEF SyncTask
<1>6. HandsInv(r) /\ ListsInv(r)
  BY <1>1 DEF QuietInv
<1>7. Ready(x)
  <2>1. HandsInv(x)
    BY <1>5, <1>6 DEF HandsInv
  <2>2. (\A n \in Users : Same(n)) /\ r.synced = {} /\ r.add = {n \in Users : dir[n] # Federation!Absent}
    BY <1>1, <1>6 DEF ListsInv
  <2>3. ASSUME NEW n \in Users, Reported(n) PROVE n \in u
    <3>1. dir[n] # Federation!Absent /\ row[n].here /\ row[n].link
      BY <2>3, NothingTyped DEF Reported
    <3> QED BY <1>2, <2>2, <3>1
  <2> QED BY <1>2, <1>5, <2>1, <2>2, <2>3 DEF Ready
<1>8. PICK y \in SyncTask : y = Federation!Onward(x)
  BY <1>5, OnwardTyped
<1>9. QuietInv(y)
  BY <1>5, <1>7, <1>8, OnwardQuiet DEF GoesOn
<1> QED BY <1>1, <1>4, <1>8, <1>9, QuietRead DEF Federation!Set, Federation!Works

\* bulk_create_users: the new rows are the ids to be reconciled.
LEMMA BulkQuiet ==
    ASSUME FedTypes, FedTypes', OneSync, NEW t \in Syncs, hist.dirty = FALSE, ~Federation!Fault,
           Federation!BulkCreateUsers(t)
    PROVE  OneSync'
<1>1. PICK r \in SyncTask : r = task[t] /\ r.pc = "bulk" /\ QuietInv(r)
  BY TheSync DEF Federation!BulkCreateUsers
<1>2. HandsInv(r) /\ ListsInv(r)
  BY <1>1 DEF QuietInv
<1>3. /\ \A n \in r.add : ~row[n].here
      /\ \A n \in r.upd : row[n].here /\ row[n].link /\ r.snap[n] = row[n]
      /\ \A n \in Users : Reported(n) => n \in r.upd
      /\ r.synced = {} /\ \A n \in Users : Same(n)
  BY <1>1, <1>2 DEF ListsInv
<1>4. PICK new : new = [n \in Users |-> IF n \in r.add
                                        THEN [Federation!Created(row[n]) EXCEPT !.link = TRUE]
                                        ELSE row[n]]
  OBVIOUS
<1>5. PICK s : s = {Federation!Id(n, new[n]) : n \in r.add}
  OBVIOUS
<1>6. PICK x : x = [r EXCEPT !.add = {}, !.synced = s]
  OBVIOUS
<1>7. /\ Federation!Writes(t) /\ row' = new /\ Federation!Set(t, Federation!Onward(x))
      /\ UNCHANGED <<dir, group, members>>
  BY <1>1, <1>3, <1>4, <1>5, <1>6 DEF Federation!BulkCreateUsers
<1>8. hist' = hist
  BY <1>7, OwnWrite DEF FedTypes
<1>9. ASSUME NEW n \in Users
      PROVE  /\ n \in r.add => new[n].here /\ new[n].link
             /\ n \notin r.add => new[n] = row[n]
             /\ new[n] \in RowState
  <2>1. PICK w \in RowState : /\ w = [Federation!Created(row[n]) EXCEPT !.link = TRUE]
                              /\ w.here = TRUE /\ w.link = TRUE
    <3>1. row[n] \in RowState
      BY DEF FedTypes
    <3> QED BY <3>1, CreatedRow
  <2> QED BY <1>4, <2>1 DEF FedTypes
<1>10. r.add \in SUBSET Users /\ r.upd \in SUBSET Users
  BY SyncTaskFields
<1>11. /\ x \in SyncTask /\ x.snap = r.snap /\ x.add = {} /\ x.upd = r.upd /\ x.pc = "bulk"
       /\ x.fed = r.fed /\ x.index = r.index /\ x.synced = s
  <2>1. s \in SUBSET UserId
    BY <1>5, <1>9, <1>10, IdTyped
  <2> QED BY <1>1, <1>6, <2>1 DEF SyncTask
<1>12. Ready(x)'
  <2>1. HandsInv(x)'
    <3>1. x.fed = dir' /\ \A g \in Groups : x.index[g].here => x.index[g] = group'[g]
      BY <1>2, <1>7, <1>11 DEF HandsInv
    <3>2. ASSUME NEW u \in s
          PROVE  u = Federation!Id(u.name, row[u.name])' /\ row'[u.name].here /\ row'[u.name].link
      <4>1. PICK n \in r.add : u = Federation!Id(n, new[n])
        BY <1>5
      <4>2. n \in Users /\ u.name = n
        BY <1>10, <4>1 DEF Federation!Id
      <4>3. Federation!Id(n, row[n])' = Federation!Id(n, new[n])
        BY <1>7 DEF Federation!Id
      <4> QED BY <1>7, <1>9, <4>1, <4>2, <4>3
    <3> QED BY <1>11, <3>1, <3>2 DEF HandsInv
  <2>2. \A n \in Users : Same(n)'
    BY <1>3, <1>7, <1>8 DEF Same
  <2>3. \A n \in x.upd : row'[n].here /\ row'[n].link /\ x.snap[n] = row'[n]
    BY <1>3, <1>7, <1>9, <1>10, <1>11
  <2>4. ASSUME NEW n \in Users, Reported(n)' PROVE n \in x.upd \/ Federation!Id(n, row[n])' \in x.synced
    <3>1. CASE n \in r.add
      BY <1>5, <1>7, <1>11, <3>1 DEF Federation!Id
    <3>2. CASE n \notin r.add
      <4>1. Reported(n)
        BY <1>7, <1>9, <2>4, <3>2 DEF Reported
      <4> QED BY <1>3, <1>11, <4>1
    <3> QED BY <3>1, <3>2
  <2> QED BY <1>11, <2>1, <2>2, <2>3, <2>4 DEF Ready
<1>13. PICK y \in SyncTask : y = Federation!Onward(x)
  BY <1>11, OnwardTyped
<1>14. GoesOn'
  BY OnwardQuiet, PTL
<1>15. QuietInv(y)'
  BY <1>11, <1>12, <1>13, <1>14 DEF GoesOn
<1> QED BY <1>1, <1>7, <1>13, <1>15, SyncMoves DEF Federation!Set

\* update_user writes the row as it is.
LEMMA UpdateQuiet ==
    ASSUME FedTypes, OneSync, NEW t \in Syncs, hist.dirty = FALSE, ~Federation!Fault,
           Federation!UpdateUser(t)
    PROVE  OneSync'
<1>1. PICK o \in SyncTask : o = task[t] /\ o.pc = "update" /\ QuietInv(o)
  BY TheSync DEF Federation!UpdateUser
<1>2. HandsInv(o) /\ ListsInv(o)
  BY <1>1 DEF QuietInv
<1>3. /\ \A n \in o.upd : row[n].here /\ row[n].link /\ o.snap[n] = row[n]
      /\ \A n \in Users : Reported(n) => n \in o.upd \/ Federation!Id(n, row[n]) \in o.synced
      /\ o.add = {} /\ \A n \in Users : Same(n)
  BY <1>1, <1>2 DEF ListsInv
<1>4. PICK n \in o.upd :
        LET r == [o EXCEPT !.upd = @ \ {n}]
        IN  \/ /\ Federation!SameRow(n, r.snap[n]) /\ Federation!Writes(t)
               /\ row' = [row EXCEPT ![n].link = r.snap[n].link]
               /\ Federation!Set(t, Federation!Onward([r EXCEPT !.synced = @ \cup
                                                        {Federation!Id(n, r.snap[n])}]))
            \/ ~Federation!SameRow(n, r.snap[n])
  BY <1>1 DEF Federation!UpdateUser
<1>5. PICK r : r = [o EXCEPT !.upd = @ \ {n}]
  OBVIOUS
<1>6. n \in Users /\ row \in [Users -> RowState] /\ o.upd \ {n} \in SUBSET Users
  BY SyncTaskFields DEF FedTypes
<1>7. /\ r \in SyncTask /\ r.pc = "update" /\ r.fed = o.fed /\ r.index = o.index /\ r.snap = o.snap
      /\ r.synced = o.synced /\ r.add = {} /\ r.upd = o.upd \ {n}
  BY <1>1, <1>3, <1>5, <1>6 DEF SyncTask
<1>8. r.snap[n] = row[n] /\ Federation!SameRow(n, r.snap[n])
  BY <1>3, <1>7 DEF Federation!SameRow
<1>9. PICK s : s = r.synced \cup {Federation!Id(n, row[n])}
  OBVIOUS
<1>10. PICK x : x = [r EXCEPT !.synced = s]
  OBVIOUS
<1>11. /\ Federation!Writes(t) /\ row' = [row EXCEPT ![n].link = row[n].link]
       /\ Federation!Set(t, Federation!Onward(x))
  BY <1>4, <1>5, <1>8, <1>9, <1>10
<1>12. UNCHANGED <<dir, row, group, members, hist>>
  <2>1. row' = row
    BY <1>6, <1>11 DEF RowState
  <2>2. hist' = hist
    BY <1>11, OwnWrite DEF FedTypes
  <2> QED BY <2>1, <2>2 DEF Federation!UpdateUser
<1>13. /\ x \in SyncTask /\ x.pc = "update" /\ x.fed = o.fed /\ x.index = o.index /\ x.snap = o.snap
       /\ x.synced = s /\ x.add = {} /\ x.upd = o.upd \ {n}
  <2>1. s \in SUBSET UserId
    BY <1>6, <1>7, <1>9, SyncTaskFields, IdTyped
  <2> QED BY <1>7, <1>10, <2>1 DEF SyncTask
<1>14. Ready(x)
  <2>1. HandsInv(x)
    <3>1. ASSUME NEW u \in s
          PROVE  u = Federation!Id(u.name, row[u.name]) /\ row[u.name].here /\ row[u.name].link
      <4>1. CASE u \in o.synced
        BY <1>2, <4>1 DEF HandsInv
      <4>2. CASE u = Federation!Id(n, row[n])
        BY <1>3, <4>2 DEF Federation!Id
      <4> QED BY <1>7, <1>9, <4>1, <4>2
    <3> QED BY <1>2, <1>13, <3>1 DEF HandsInv
  <2>2. ASSUME NEW m \in Users, Reported(m) PROVE m \in x.upd \/ Federation!Id(m, row[m]) \in x.synced
    BY <1>3, <1>7, <1>9, <1>13, <2>2
  <2> QED BY <1>3, <1>13, <2>1, <2>2 DEF Ready
<1>15. PICK y \in SyncTask : y = Federation!Onward(x)
  BY <1>13, OnwardTyped
<1>16. QuietInv(y)
  BY <1>13, <1>14, <1>15, OnwardQuiet DEF GoesOn
<1> QED BY <1>1, <1>11, <1>12, <1>15, <1>16, QuietRead DEF Federation!Set

\* GroupIndex::load: whose turn is to come is on the list.
LEMMA LoadIndexQuiet ==
    ASSUME FedTypes, OneSync, NEW t \in Syncs, hist.dirty = FALSE, ~Federation!Fault,
           Federation!LoadIndex(t)
    PROVE  OneSync'
<1>1. PICK r \in SyncTask : r = task[t] /\ r.pc = "index" /\ QuietInv(r)
  BY TheSync DEF Federation!LoadIndex
<1>2. HandsInv(r) /\ ListsInv(r)
  BY <1>1 DEF QuietInv
<1>3. PICK y : y = [r EXCEPT !.pc = "next", !.index = group]
  OBVIOUS
<1>4. Federation!Works /\ Federation!Set(t, y) /\ UNCHANGED <<dir, row, group, members>>
  BY <1>1, <1>3 DEF Federation!LoadIndex
<1>5. y.pc = "next" /\ y.index = group /\ y.fed = r.fed /\ y.synced = r.synced
  BY <1>3 DEF SyncTask
<1>6. HandsInv(y)
  BY <1>2, <1>5 DEF HandsInv
<1>7. ASSUME NEW n \in Users PROVE Turn(y, n)
  <2>1. Same(n) /\ (Reported(n) => Federation!Id(n, row[n]) \in r.synced)
    BY <1>1, <1>2 DEF ListsInv
  <2> QED BY <1>5, <2>1 DEF Turn, Exact, Same
<1>8. QuietInv(y)
  BY <1>5, <1>6, <1>7 DEF QuietInv, Reconciling
<1> QED BY <1>1, <1>4, <1>8, QuietRead DEF Federation!Set, Federation!Works

\* list_user_groups: the turn of the user at hand.
LEMMA ListQuiet ==
    ASSUME FedTypes, MembersInv, OneSync, NEW t \in Syncs, hist.dirty = FALSE, ~Federation!Fault,
           Federation!ListUserGroups(t)
    PROVE  OneSync'
<1>1. PICK o \in SyncTask : o = task[t] /\ o.pc = "next" /\ QuietInv(o)
  BY TheSync DEF Federation!ListUserGroups
<1>2. HandsInv(o) /\ \A n \in Users : Turn(o, n)
  BY <1>1 DEF QuietInv
<1>3. PICK u \in Federation!Listed(o) :
        LET r == [o EXCEPT !.synced = @ \ {u}]
            mine == {g \in Groups : <<u.name, g>> \in members /\ Federation!Refers(u, g, group[g].gen)}
        IN  Federation!Set(t, [r EXCEPT !.pc = "groups", !.user = u, !.want = r.fed[u.name].groups,
                                        !.cur = {Federation!Id(g, group[g]) : g \in mine}])
  BY <1>1 DEF Federation!ListUserGroups
<1>4. Federation!Works /\ UNCHANGED <<dir, row, group, members>>
  BY DEF Federation!ListUserGroups
<1>5. PICK n : n = u.name
  OBVIOUS
<1>6. /\ n \in Users /\ u \in o.synced /\ u = Federation!Id(n, row[n]) /\ Reported(n)
  <2>1. u \in o.synced /\ o.fed[u.name].kind = "lists"
    BY DEF Federation!Listed
  <2>2. u.name \in Users
    BY <2>1, SyncTaskFields DEF UserId
  <2> QED BY <1>2, <1>5, <2>1, <2>2 DEF HandsInv, Reported
<1>7. Same(n)
  BY <1>2, <1>6 DEF Turn
<1>8. PICK r : r = [o EXCEPT !.synced = @ \ {u}]
  OBVIOUS
<1>9. /\ r \in SyncTask /\ r.fed = dir /\ r.index = o.index /\ r.synced = o.synced \ {u}
  <2>1. o.synced \ {u} \in SUBSET UserId
    BY SyncTaskFields
  <2>2. r \in SyncTask /\ r.fed = o.fed /\ r.index = o.index /\ r.synced = o.synced \ {u}
    BY <1>8, <2>1 DEF SyncTask
  <2> QED BY <1>2, <2>2 DEF HandsInv
<1>10. PICK mine : mine = {g \in Groups : <<n, g>> \in members /\ Federation!Refers(u, g, group[g].gen)}
  OBVIOUS
<1>11. \A g \in Groups : g \in mine <=> <<n, g>> \in members
  BY <1>5, <1>6, <1>10 DEF MembersInv, Federation!Refers, Federation!Id
<1>12. PICK w, c : w = dir[n].groups /\ c = {Federation!Id(g, group[g]) : g \in mine}
  OBVIOUS
<1>13. PICK y : y = [r EXCEPT !.pc = "groups", !.user = u, !.want = w, !.cur = c]
  OBVIOUS
<1>14. task' = [task EXCEPT ![t] = y]
  BY <1>3, <1>5, <1>8, <1>9, <1>10, <1>12, <1>13 DEF Federation!Set
<1>15. /\ y.pc = "groups" /\ y.user = u /\ y.want = w /\ y.cur = c /\ y.fed = dir /\ y.index = o.index
       /\ y.synced = o.synced \ {u}
  BY <1>9, <1>13 DEF SyncTask
<1>16. HandsInv(y)
  BY <1>2, <1>15 DEF HandsInv
<1>17. UserInv(y, n)
  <2>1. \A g \in dir[n].groups : g \in y.want
    BY <1>12, <1>15
  <2>2. ASSUME NEW g \in Groups \ dir[n].groups
        PROVE  /\ <<n, g>> \in members => <<n, g>> \in hist.before
               /\ <<n, g>> \in members /\ group[g].marked => Federation!Id(g, group[g]) \in y.cur
               /\ <<n, g>> \in hist.before /\ ~group[g].marked => <<n, g>> \in members
    BY <1>7, <1>11, <1>12, <1>15 DEF Same
  <2>3. ASSUME NEW e \in c PROVE e = Federation!Id(e.name, group[e.name]) /\ <<n, e.name>> \in members
    <3>1. PICK g \in mine : e = Federation!Id(g, group[g])
      BY <1>12
    <3>2. e.name = g /\ g \in Groups
      BY <1>10, <3>1 DEF Federation!Id
    <3> QED BY <1>11, <3>1, <3>2
  <2> QED BY <1>6, <1>12, <1>15, <2>1, <2>2, <2>3 DEF UserInv
<1>18. ASSUME NEW m \in Users \ {n} PROVE Turn(y, m)
  <2>1. Federation!Id(m, row[m]) # u
    BY <1>5, <1>18 DEF Federation!Id
  <2> QED BY <1>2, <1>15, <2>1 DEF Turn
<1>19. QuietInv(y)
  BY <1>5, <1>15, <1>16, <1>17, <1>18 DEF QuietInv, Reconciling, GroupInv
<1> QED BY <1>1, <1>4, <1>14, <1>19, QuietRead DEF Federation!Works

\* The sync is reported.
LEMMA FinishQuiet ==
    ASSUME FedTypes, OneSync, NEW t \in Syncs, hist.dirty = FALSE, Federation!Finish(t)
    PROVE  OneSync'
<1>1. /\ task[t].pc = "end" /\ task' = [task EXCEPT ![t] = Federation!IdleTask]
      /\ UNCHANGED <<dir, row, group, members, hist>>
  BY DEF Federation!Finish, Federation!Set
<1>2. PICK y : y = Federation!IdleTask /\ y.pc = "idle"
  BY IdleTyped
<1> QED BY <1>1, <1>2, QuietRead

\* The turns of the other users, and what is in a sync's hands, when it goes on
\* with the same user.
LEMMA SameUser ==
    ASSUME NEW r, NEW y, QuietInv(r), r.pc \in Reconciling, y.pc \in Reconciling \ {"lookup"},
           y.user = r.user, y.synced = r.synced, y.fed = r.fed,
           \A g \in Groups : y.index[g].here => y.index[g] = group[g],
           UserInv(y, y.user.name), GroupInv(y)
    PROVE  QuietInv(y)
<1>1. HandsInv(y)
  BY DEF QuietInv, HandsInv
<1>2. \A n \in Users \ {y.user.name} : Turn(y, n)
  BY DEF QuietInv, Turn
<1> QED BY <1>1, <1>2 DEF QuietInv, Reconciling

\* resolve_group_by_name: the index says what the table says.
LEMMA ResolveQuiet ==
    ASSUME FedTypes, OneSync, NEW t \in Syncs, hist.dirty = FALSE, ~Federation!Fault,
           Federation!ResolveGroupByName(t)
    PROVE  OneSync'
<1>1. PICK r \in SyncTask : r = task[t] /\ r.pc = "groups" /\ QuietInv(r) /\ TaskFits(r)
  BY TheSync DEF Federation!ResolveGroupByName
<1>2. PICK n : n = r.user.name
  OBVIOUS
<1>3. HandsInv(r) /\ UserInv(r, n)
  BY <1>1, <1>2 DEF QuietInv, Reconciling
<1>4. PICK g \in r.want :
        LET hit == r.index[g].here
            f == IF hit THEN r.index[g] ELSE group[g]
            seen == [r EXCEPT !.want = @ \ {g}, !.index[g] = IF f.here THEN f ELSE @]
        IN  Federation!Set(t, IF ~f.here THEN [seen EXCEPT !.pc = "make", !.g = g]
                              ELSE IF ~f.marked THEN [seen EXCEPT !.pc = "adopt", !.g = g, !.found = f]
                              ELSE Federation!Join(seen, g, f))
  BY <1>1 DEF Federation!ResolveGroupByName
<1>5. g \in Groups /\ g \in dir[n].groups
  BY <1>3, SyncTaskFields DEF UserInv
<1>6. PICK f \in GroupRow : f = group[g]
  BY <1>5 DEF FedTypes
<1>7. f = IF r.index[g].here THEN r.index[g] ELSE group[g]
  BY <1>3, <1>5, <1>6 DEF HandsInv
<1>8. PICK x : x = [r.index EXCEPT ![g] = IF f.here THEN f ELSE @]
  OBVIOUS
<1>9. x \in [Groups -> GroupRow] /\ \A h \in Groups : x[h].here => x[h] = group[h]
  <2>1. r.index \in [Groups -> GroupRow] /\ \A h \in Groups : r.index[h].here => r.index[h] = group[h]
    BY <1>3, SyncTaskFields DEF HandsInv
  <2> QED BY <1>5, <1>6, <1>8, <2>1
<1>10. PICK w : w = r.want \ {g}
  OBVIOUS
<1>11. PICK seen : seen = [r EXCEPT !.want = w, !.index = x]
  OBVIOUS
<1>12. Federation!Set(t, IF ~f.here THEN [seen EXCEPT !.pc = "make", !.g = g]
                         ELSE IF ~f.marked THEN [seen EXCEPT !.pc = "adopt", !.g = g, !.found = f]
                         ELSE Federation!Join(seen, g, f))
  BY <1>4, <1>7, <1>8, <1>10, <1>11
<1>13. /\ seen \in SyncTask /\ seen.want = w /\ seen.index = x /\ seen.user = r.user /\ seen.cur = r.cur
       /\ seen.synced = r.synced /\ seen.fed = r.fed /\ seen.pc = "groups"
  <2>1. w \in SUBSET Groups
    BY <1>10, SyncTaskFields
  <2> QED BY <1>1, <1>9, <1>11, <2>1 DEF SyncTask
<1>14. PICK o \in GroupRow : o = Federation!NoGroup
  BY NothingTyped
<1>15. PICK y : /\ task' = [task EXCEPT ![t] = y]
                /\ \/ ~f.here /\ y = [seen EXCEPT !.pc = "make", !.g = g]
                   \/ f.here /\ y = [seen EXCEPT !.pc = "adopt", !.g = g, !.found = f]
                   \/ /\ Federation!Id(g, f) \in r.cur
                      /\ y = [seen EXCEPT !.pc = "groups", !.g = "none", !.found = o]
                   \/ f.here /\ y = [seen EXCEPT !.pc = "add", !.g = g, !.found = f]
  BY <1>12, <1>13, <1>14 DEF Federation!Set, Federation!Join, Federation!None
<1>16. /\ y.want = w /\ y.index = x /\ y.user = r.user /\ y.cur = r.cur
       /\ y.synced = r.synced /\ y.fed = r.fed
       /\ \/ y.pc = "make" /\ y.g = g /\ ~f.here
          \/ y.pc \in {"adopt", "add"} /\ y.g = g /\ y.found = f /\ f.here
          \/ y.pc = "groups" /\ Federation!Id(g, f) \in r.cur
  <2>1. CASE ~f.here /\ y = [seen EXCEPT !.pc = "make", !.g = g]
    BY <1>13, <2>1 DEF SyncTask
  <2>2. CASE f.here /\ y = [seen EXCEPT !.pc = "adopt", !.g = g, !.found = f]
    BY <1>13, <2>2 DEF SyncTask
  <2>3. CASE /\ Federation!Id(g, f) \in r.cur
             /\ y = [seen EXCEPT !.pc = "groups", !.g = "none", !.found = o]
    BY <1>13, <2>3 DEF SyncTask
  <2>4. CASE f.here /\ y = [seen EXCEPT !.pc = "add", !.g = g, !.found = f]
    BY <1>13, <2>4 DEF SyncTask
  <2> QED BY <1>15, <2>1, <2>2, <2>3, <2>4
<1>17. UserInv(y, n)
  <2>1. y.pc = "groups" => <<n, g>> \in members
    <3>1. SUFFICES ASSUME Federation!Id(g, f) \in r.cur PROVE <<n, g>> \in members
      BY <1>16
    <3>2. Federation!Id(g, f).name = g
      BY DEF Federation!Id
    <3> QED BY <1>3, <3>1, <3>2 DEF UserInv
  <2>2. y.want \subseteq dir[n].groups
    BY <1>3, <1>10, <1>16 DEF UserInv
  <2>3. ASSUME NEW h \in dir[n].groups
        PROVE  h \in y.want \/ <<n, h>> \in members \/ (y.pc \in {"adopt", "make", "add"} /\ h = y.g)
    <3>1. h \in r.want \/ <<n, h>> \in members
      BY <1>1, <1>3 DEF UserInv
    <3> QED BY <1>10, <1>16, <2>1, <3>1
  <2> QED BY <1>3, <1>16, <2>2, <2>3 DEF UserInv
<1>18. GroupInv(y)
  BY <1>2, <1>5, <1>6, <1>16 DEF GroupInv
<1>19. y.pc \in Reconciling \ {"lookup"} /\ r.pc \in Reconciling
  BY <1>1, <1>16 DEF Reconciling
<1>20. QuietInv(y)
  BY <1>1, <1>2, <1>9, <1>16, <1>17, <1>18, <1>19, SameUser
<1>21. UNCHANGED <<dir, row, group, members, hist>>
  BY DEF Federation!ResolveGroupByName, Federation!Works
<1> QED BY <1>1, <1>15, <1>20, <1>21, QuietRead

\* The user is done: his memberships are as they should be.
LEMMA UserDone ==
    ASSUME NEW r \in SyncTask, QuietInv(r), r.pc = "groups", r.want = {}, r.cur = {}
    PROVE  \A n \in Users : Turn(r, n)
<1>1. PICK n : n = r.user.name
  OBVIOUS
<1>2. UserInv(r, n) /\ \A m \in Users \ {n} : Turn(r, m)
  BY <1>1 DEF QuietInv, Reconciling
<1>3. Exact(n)
  <2>1. Reported(n) /\ \A g \in dir[n].groups : <<n, g>> \in members
    BY <1>2 DEF UserInv
  <2>2. ASSUME NEW g \in Groups, g \notin dir[n].groups
        PROVE  /\ group[g].marked => <<n, g>> \notin members
               /\ ~group[g].marked => (<<n, g>> \in members <=> <<n, g>> \in hist.before)
    BY <1>2, <2>2 DEF UserInv
  <2> QED BY <2>1, <2>2 DEF Exact
<1>4. Turn(r, n)
  <2>1. Federation!Id(n, row[n]) \notin r.synced
    BY <1>2 DEF UserInv
  <2> QED BY <1>3, <2>1 DEF Turn
<1> QED BY <1>2, <1>4

\* The groups the user was found in, one by one, and the next user.
LEMMA CheckQuiet ==
    ASSUME FedTypes, MembersInv, OneSync, NEW t \in Syncs, hist.dirty = FALSE, ~Federation!Fault,
           Federation!CheckGroup(t)
    PROVE  OneSync'
<1>1. PICK r \in SyncTask : r = task[t] /\ r.pc = "groups" /\ r.want = {} /\ QuietInv(r) /\ TaskFits(r)
  BY TheSync DEF Federation!CheckGroup
<1>2. UNCHANGED <<dir, row, group, members, hist>>
  BY <1>1 DEF Federation!CheckGroup, Federation!Works
<1>3. CASE r.cur = {}
  <2>1. Federation!NextUser(t, r)
    BY <1>1, <1>3 DEF Federation!CheckGroup
  <2>2. \A n \in Users : Turn(r, n)
    BY <1>1, <1>3, UserDone
  <2>3. HandsInv(r)
    BY <1>1 DEF QuietInv
  <2>4. CASE Federation!Listed(r) # {}
    <3>1. PICK y : /\ task' = [task EXCEPT ![t] = y]
                   /\ y = [r EXCEPT !.pc = "next", !.want = {}, !.cur = {}, !.g = Federation!None,
                                    !.found = Federation!NoGroup]
      BY <2>1, <2>4 DEF Federation!NextUser, Federation!Set
    <3>2. y.pc = "next" /\ y.fed = r.fed /\ y.index = r.index /\ y.synced = r.synced
      BY <3>1 DEF SyncTask
    <3>3. HandsInv(y) /\ \A n \in Users : Turn(y, n)
      BY <2>2, <2>3, <3>2 DEF HandsInv, Turn
    <3>4. QuietInv(y)
      BY <3>2, <3>3 DEF QuietInv, Reconciling
    <3> QED BY <1>1, <1>2, <3>1, <3>4, QuietRead
  <2>5. CASE Federation!Listed(r) = {}
    <3>1. PICK i \in SyncTask : /\ i = Federation!IdleTask /\ i.synced = {}
                                /\ \A g \in Groups : i.index[g].here = FALSE
      BY IdleTyped
    <3>2. PICK y : task' = [task EXCEPT ![t] = y] /\ y = [i EXCEPT !.pc = "end", !.fed = r.fed]
      BY <2>1, <2>5, <3>1 DEF Federation!NextUser, Federation!Set
    <3>3. y.pc = "end" /\ y.fed = r.fed /\ y.index = i.index /\ y.synced = {}
      BY <3>1, <3>2 DEF SyncTask
    <3>4. HandsInv(y)
      BY <2>3, <3>1, <3>3 DEF HandsInv
    <3>5. ASSUME NEW n \in Users PROVE Exact(n)
      <4>1. ~(Reported(n) /\ Federation!Id(n, row[n]) \in r.synced)
        BY <2>3, <2>5 DEF Reported, HandsInv, Federation!Listed, Federation!Id
      <4> QED BY <2>2, <4>1 DEF Turn
    <3>6. QuietInv(y)
      BY <3>3, <3>4, <3>5 DEF QuietInv, Reconciling
    <3> QED BY <1>1, <1>2, <3>2, <3>6, QuietRead
  <2> QED BY <2>4, <2>5
<1>4. CASE r.cur # {}
  <2>1. PICK c \in r.cur :
          LET hit == r.index[c.name].here /\ r.index[c.name].gen = c.gen
              f == IF hit THEN r.index[c.name] ELSE group[c.name]
              goes == /\ f.here /\ f.gen = c.gen /\ Federation!IsSyncManaged(f)
                      /\ c.name \notin r.fed[r.user.name].groups
          IN  Federation!Set(t, IF goes THEN [r EXCEPT !.pc = "drop", !.g = c.name, !.found = f]
                                ELSE [r EXCEPT !.cur = @ \ {c}])
    BY <1>1, <1>4 DEF Federation!CheckGroup
  <2>2. PICK n, g : n = r.user.name /\ g = c.name
    OBVIOUS
  <2>3. HandsInv(r) /\ UserInv(r, n)
    BY <1>1, <2>2 DEF QuietInv, Reconciling
  <2>4. c = Federation!Id(g, group[g]) /\ <<n, g>> \in members /\ r.fed = dir
    BY <2>2, <2>3 DEF UserInv, HandsInv
  <2>5. g \in Groups /\ n \in Users
    BY <1>1, <2>2, SyncTaskFields DEF GroupId, TaskFits, Reconciling, UserId
  <2>6. group[g].here /\ c.gen = group[g].gen /\ group[g] \in GroupRow
    BY <2>4, <2>5 DEF MembersInv, Federation!Id, FedTypes
  <2>7. group[g] = IF r.index[g].here /\ r.index[g].gen = c.gen THEN r.index[g] ELSE group[g]
    BY <2>3, <2>5 DEF HandsInv
  <2>8. PICK d, f : d = r.cur \ {c} /\ f = group[g]
    OBVIOUS
  <2>9. PICK y : /\ task' = [task EXCEPT ![t] = y]
                 /\ \/ /\ f.marked /\ g \notin dir[n].groups
                       /\ y = [r EXCEPT !.pc = "drop", !.g = g, !.found = f]
                    \/ /\ ~(f.marked /\ g \notin dir[n].groups)
                       /\ y = [r EXCEPT !.cur = d]
    BY <2>1, <2>2, <2>4, <2>6, <2>7, <2>8 DEF Federation!Set, Federation!IsSyncManaged
  <2>10. /\ y.user = r.user /\ y.synced = r.synced /\ y.fed = r.fed /\ y.index = r.index /\ y.want = {}
         /\ \/ y.pc = "drop" /\ y.g = g /\ y.found = f /\ f.marked /\ g \notin dir[n].groups /\ y.cur = r.cur
            \/ y.pc = "groups" /\ y.cur = d /\ ~(f.marked /\ g \notin dir[n].groups)
    BY <1>1, <2>9 DEF SyncTask
  <2>11. UserInv(y, n)
    <3>1. ASSUME NEW h \in Groups \ dir[n].groups, <<n, h>> \in members, group[h].marked
          PROVE  Federation!Id(h, group[h]) \in y.cur
      <4>1. Federation!Id(h, group[h]) \in r.cur
        BY <2>3, <3>1 DEF UserInv
      <4>2. y.cur = d => Federation!Id(h, group[h]) # c
        <5>1. SUFFICES ASSUME y.cur = d, Federation!Id(h, group[h]) = c PROVE FALSE
          OBVIOUS
        <5>2. h = g
          BY <2>4, <5>1 DEF Federation!Id
        <5>3. y.pc = "drop" /\ d = r.cur
          BY <2>8, <2>10, <3>1, <5>1, <5>2
        <5> QED BY <2>8, <5>3
      <4> QED BY <2>8, <2>10, <4>1, <4>2
    <3>2. \A e \in y.cur : e \in r.cur
      BY <2>8, <2>10
    <3> QED BY <1>1, <2>3, <2>10, <3>1, <3>2 DEF UserInv
  <2>12. GroupInv(y)
    BY <2>2, <2>6, <2>8, <2>10 DEF GroupInv
  <2>13. y.pc \in Reconciling \ {"lookup"} /\ r.pc \in Reconciling
    BY <1>1, <2>10 DEF Reconciling
  <2>14. \A h \in Groups : y.index[h].here => y.index[h] = group[h]
    BY <2>3, <2>10 DEF HandsInv
  <2>15. QuietInv(y)
    BY <1>1, <2>2, <2>10, <2>11, <2>12, <2>13, <2>14, SameUser
  <2> QED BY <1>1, <1>2, <2>9, <2>15, QuietRead
<1> QED BY <1>3, <1>4

\* create_sync_group: nobody is in a group that was not there.
LEMMA MakeQuiet ==
    ASSUME FedTypes, MembersInv, OneSync, NEW t \in Syncs, hist.dirty = FALSE, ~Federation!Fault,
           Federation!CreateSyncGroup(t)
    PROVE  OneSync'
<1>1. PICK r \in SyncTask : r = task[t] /\ r.pc = "make" /\ QuietInv(r) /\ TaskFits(r)
  BY TheSync DEF Federation!CreateSyncGroup
<1>2. PICK n, g : n = r.user.name /\ g = r.g
  OBVIOUS
<1>3. /\ HandsInv(r) /\ UserInv(r, n) /\ GroupInv(r) /\ \A m \in Users \ {n} : Turn(r, m)
  BY <1>1, <1>2 DEF QuietInv, Reconciling
<1>4. g \in Groups /\ n \in Users /\ g \in dir[n].groups /\ ~group[g].here
  BY <1>1, <1>2, <1>3, AtHand DEF UserId, GroupInv
<1>5. PICK new \in GroupRow : /\ new = [Federation!Created(group[g]) EXCEPT !.marked = TRUE]
                              /\ new.here = TRUE /\ new.marked = TRUE
  BY <1>4, CreatedGroup DEF FedTypes
<1>6. PICK i : i = [r.index EXCEPT ![g] = new]
  OBVIOUS
<1>7. i \in [Groups -> GroupRow] /\ i[g] = new /\ \A h \in Groups \ {g} : i[h] = r.index[h]
  BY <1>4, <1>6, SyncTaskFields
<1>8. PICK x : x = [r EXCEPT !.index = i]
  OBVIOUS
<1>9. /\ x \in SyncTask /\ x.index = i /\ x.user = r.user /\ x.synced = r.synced /\ x.fed = r.fed
      /\ x.want = r.want /\ x.cur = r.cur
  BY <1>7, <1>8 DEF SyncTask
<1>10. /\ group' = [group EXCEPT ![g] = new] /\ Federation!Writes(t)
       /\ Federation!Set(t, Federation!Join(x, g, new)) /\ UNCHANGED <<dir, row, members>>
  BY <1>1, <1>2, <1>4, <1>5, <1>6, <1>8 DEF Federation!CreateSyncGroup
<1>11. hist' = hist
  BY <1>10, OwnWrite DEF FedTypes
<1>12. group'[g] = new /\ \A h \in Groups \ {g} : group'[h] = group[h]
  BY <1>4, <1>10 DEF FedTypes
<1>13. \A m \in Users : <<m, g>> \notin members
  BY <1>4 DEF MembersInv
<1>14. \A e \in r.cur : e.name # g /\ e = Federation!Id(e.name, group[e.name]) /\ <<n, e.name>> \in members
  BY <1>3, <1>4, <1>13 DEF UserInv
<1>15. Federation!Id(g, new) \notin x.cur
  <2>1. Federation!Id(g, new).name = g
    BY DEF Federation!Id
  <2> QED BY <1>9, <1>14, <2>1
<1>16. PICK y : task' = [task EXCEPT ![t] = y] /\ y = [x EXCEPT !.pc = "add", !.g = g, !.found = new]
  BY <1>10, <1>15 DEF Federation!Set, Federation!Join
<1>17. /\ y.pc = "add" /\ y.g = g /\ y.found = new /\ y.index = i /\ y.user = r.user /\ y.synced = r.synced
       /\ y.fed = r.fed /\ y.want = r.want /\ y.cur = r.cur
  BY <1>9, <1>16 DEF SyncTask
<1>18. \A m \in Users : /\ Reported(m)' <=> Reported(m)
                        /\ Same(m)' <=> Same(m)
                        /\ Federation!Id(m, row[m])' = Federation!Id(m, row[m])
  BY <1>10, <1>11 DEF Reported, Same, Federation!Id
<1>19. HandsInv(y)'
  <2>1. \A h \in Groups : i[h].here => i[h] = group'[h]
    BY <1>3, <1>7, <1>12 DEF HandsInv
  <2> QED BY <1>3, <1>10, <1>17, <2>1 DEF HandsInv
<1>20. ASSUME NEW m \in Users, Exact(m) PROVE Exact(m)'
  <2>1. ASSUME NEW h \in Groups
        PROVE  IF Reported(m) /\ (group'[h].marked \/ h \in dir[m].groups)
               THEN <<m, h>> \in members <=> h \in dir[m].groups
               ELSE <<m, h>> \in members <=> <<m, h>> \in hist.before
    <3>1. CASE h = g
      <4>1. Reported(m) => g \notin dir[m].groups
        BY <1>4, <1>13, <1>20 DEF Exact
      <4> QED BY <1>4, <1>12, <1>5, <1>13, <1>20, <3>1, <4>1 DEF Exact
    <3>2. CASE h # g
      BY <1>12, <1>20, <3>2 DEF Exact
    <3> QED BY <3>1, <3>2
  <2> QED BY <1>10, <1>11, <1>18, <2>1 DEF Exact
<1>21. ASSUME NEW m \in Users \ {n} PROVE Turn(y, m)'
  BY <1>3, <1>17, <1>18, <1>20 DEF Turn
<1>22. UserInv(y, n)'
  <2>1. y.user = Federation!Id(n, row[n])' /\ Reported(n)' /\ y.user \notin y.synced
    BY <1>3, <1>4, <1>17, <1>18 DEF UserInv
  <2>2. ASSUME NEW h \in dir[n].groups
        PROVE  h \in y.want \/ <<n, h>> \in members \/ h = g
    BY <1>1, <1>2, <1>3, <1>17 DEF UserInv
  <2>3. ASSUME NEW h \in Groups \ dir[n].groups
        PROVE  /\ <<n, h>> \in members => <<n, h>> \in hist.before
               /\ <<n, h>> \in members /\ group'[h].marked => Federation!Id(h, group[h])' \in y.cur
               /\ <<n, h>> \in hist.before /\ ~group'[h].marked => <<n, h>> \in members
    <3>1. group'[h] = group[h] /\ Federation!Id(h, group[h])' = Federation!Id(h, group[h])
      BY <1>4, <1>12 DEF Federation!Id
    <3> QED BY <1>3, <1>17, <3>1 DEF UserInv
  <2>4. ASSUME NEW e \in y.cur
        PROVE  e = Federation!Id(e.name, group[e.name])' /\ <<n, e.name>> \in members
    <3>1. e.name \in Groups /\ e.name # g /\ e = Federation!Id(e.name, group[e.name])
          /\ <<n, e.name>> \in members
      BY <1>14, <1>17, SyncTaskFields DEF GroupId
    <3>2. group'[e.name] = group[e.name]
      BY <1>12, <3>1
    <3> QED BY <3>1, <3>2 DEF Federation!Id
  <2>5. y.want \subseteq dir[n].groups
    BY <1>3, <1>17 DEF UserInv
  <2> QED BY <1>10, <1>11, <1>17, <2>1, <2>2, <2>3, <2>4, <2>5 DEF UserInv
<1>23. GroupInv(y)'
  BY <1>2, <1>4, <1>5, <1>10, <1>12, <1>17 DEF GroupInv
<1>24. QuietInv(y)'
  BY <1>2, <1>17, <1>19, <1>21, <1>22, <1>23 DEF QuietInv, Reconciling
<1> QED BY <1>1, <1>16, <1>24, SyncMoves

\* The memberships of other users, when one of this user's is written.
LEMMA OthersTurn ==
    ASSUME NEW r, NEW y, NEW n, NEW g, \A m \in Users \ {n} : Turn(r, m), y.synced = r.synced,
           \A m \in Users, h \in Groups : m # n => (<<m, h>> \in members' <=> <<m, h>> \in members),
           UNCHANGED <<dir, row, group, hist>>
    PROVE  \A m \in Users \ {n} : Turn(y, m)'
<1> SUFFICES ASSUME NEW m \in Users \ {n} PROVE Turn(y, m)'
  OBVIOUS
<1>1. /\ Reported(m)' <=> Reported(m)
      /\ Same(m)' <=> Same(m)
      /\ Federation!Id(m, row[m])' = Federation!Id(m, row[m])
  BY DEF Reported, Same, Federation!Id
<1>2. Exact(m) => Exact(m)'
  BY <1>1 DEF Exact
<1> QED BY <1>1, <1>2 DEF Turn

\* add_user_group: the user joins a group the directory reports.
LEMMA AddQuiet ==
    ASSUME FedTypes, OneSync, NEW t \in Syncs, hist.dirty = FALSE, ~Federation!Fault,
           Federation!AddUserGroup(t)
    PROVE  OneSync'
<1>1. PICK r \in SyncTask : r = task[t] /\ r.pc = "add" /\ QuietInv(r) /\ TaskFits(r)
  BY TheSync DEF Federation!AddUserGroup
<1>2. PICK n, g : n = r.user.name /\ g = r.g
  OBVIOUS
<1>3. /\ HandsInv(r) /\ UserInv(r, n) /\ GroupInv(r) /\ \A m \in Users \ {n} : Turn(r, m)
  BY <1>1, <1>2 DEF QuietInv, Reconciling
<1>4. g \in Groups /\ n \in Users /\ g \in dir[n].groups /\ r.found = group[g] /\ group[g].here
  BY <1>1, <1>2, <1>3, AtHand DEF UserId, GroupInv
<1>5. Federation!Refers(r.user, g, r.found.gen)
  BY <1>2, <1>3, <1>4 DEF UserInv, Reported, Federation!Refers, Federation!Id
<1>6. /\ Federation!Writes(t) /\ members' = members \cup {<<n, g>>}
      /\ Federation!Set(t, [r EXCEPT !.pc = "groups", !.g = Federation!None, !.found = Federation!NoGroup])
      /\ UNCHANGED <<dir, row, group>>
  BY <1>1, <1>2, <1>5 DEF Federation!AddUserGroup
<1>7. hist' = hist
  BY <1>6, OwnWrite DEF FedTypes
<1>8. PICK y : /\ task' = [task EXCEPT ![t] = y]
               /\ y = [r EXCEPT !.pc = "groups", !.g = Federation!None, !.found = Federation!NoGroup]
  BY <1>6 DEF Federation!Set
<1>9. /\ y.pc = "groups" /\ y.index = r.index /\ y.user = r.user /\ y.synced = r.synced
      /\ y.fed = r.fed /\ y.want = r.want /\ y.cur = r.cur
  BY <1>8 DEF SyncTask
<1>10. HandsInv(y)'
  BY <1>3, <1>6, <1>9 DEF HandsInv
<1>11. \A m \in Users \ {n} : Turn(y, m)'
  BY <1>3, <1>6, <1>7, <1>9, OthersTurn
<1>12. UserInv(y, n)'
  <2>1. y.user = Federation!Id(n, row[n])' /\ Reported(n)' /\ y.user \notin y.synced
    BY <1>3, <1>6, <1>9 DEF UserInv, Reported, Federation!Id
  <2>2. ASSUME NEW h \in dir[n].groups
        PROVE  h \in y.want \/ <<n, h>> \in members'
    BY <1>1, <1>2, <1>3, <1>6, <1>9 DEF UserInv
  <2>3. ASSUME NEW h \in Groups \ dir[n].groups
        PROVE  /\ <<n, h>> \in members' <=> <<n, h>> \in members
               /\ <<n, h>> \in members => <<n, h>> \in hist.before
               /\ <<n, h>> \in members /\ group[h].marked => Federation!Id(h, group[h]) \in y.cur
               /\ <<n, h>> \in hist.before /\ ~group[h].marked => <<n, h>> \in members
    BY <1>3, <1>4, <1>6, <1>9 DEF UserInv
  <2>4. ASSUME NEW e \in y.cur
        PROVE  e = Federation!Id(e.name, group[e.name]) /\ <<n, e.name>> \in members'
    BY <1>3, <1>6, <1>9 DEF UserInv
  <2>5. y.want \subseteq dir[n].groups
    BY <1>3, <1>9 DEF UserInv
  <2>6. \A h \in Groups : Federation!Id(h, group[h])' = Federation!Id(h, group[h])
    BY <1>6 DEF Federation!Id
  <2>7. \A e \in y.cur : e = Federation!Id(e.name, group[e.name])'
    BY <1>6, <2>4 DEF Federation!Id
  <2> QED BY <1>6, <1>7, <1>9, <2>1, <2>2, <2>3, <2>4, <2>5, <2>6, <2>7 DEF UserInv
<1>13. GroupInv(y)'
  BY <1>9 DEF GroupInv
<1>14. QuietInv(y)'
  BY <1>2, <1>9, <1>10, <1>11, <1>12, <1>13 DEF QuietInv, Reconciling
<1> QED BY <1>1, <1>8, <1>14, SyncMoves

\* remove_user_group: the user leaves a marked group that is not reported.
LEMMA RemoveQuiet ==
    ASSUME FedTypes, OneSync, NEW t \in Syncs, hist.dirty = FALSE, ~Federation!Fault,
           Federation!RemoveUserGroup(t)
    PROVE  OneSync'
<1>1. PICK r \in SyncTask : r = task[t] /\ r.pc = "drop" /\ QuietInv(r) /\ TaskFits(r)
  BY TheSync DEF Federation!RemoveUserGroup
<1>2. PICK n, g : n = r.user.name /\ g = r.g
  OBVIOUS
<1>3. /\ HandsInv(r) /\ UserInv(r, n) /\ GroupInv(r) /\ \A m \in Users \ {n} : Turn(r, m)
  BY <1>1, <1>2 DEF QuietInv, Reconciling
<1>4. /\ g \in Groups /\ n \in Users /\ g \notin dir[n].groups /\ r.found = group[g]
      /\ group[g].here /\ group[g].marked
  BY <1>1, <1>2, <1>3, AtHand DEF UserId, GroupInv
<1>5. PICK c : c = Federation!Id(g, group[g])
  OBVIOUS
<1>6. Federation!Refers(r.user, g, c.gen)
  BY <1>2, <1>3, <1>4, <1>5 DEF UserInv, Reported, Federation!Refers, Federation!Id
<1>7. /\ Federation!Writes(t) /\ members' = members \ {<<n, g>>}
      /\ Federation!Set(t, [r EXCEPT !.pc = "groups", !.cur = @ \ {c}, !.g = Federation!None,
                                     !.found = Federation!NoGroup])
      /\ UNCHANGED <<dir, row, group>>
  BY <1>1, <1>2, <1>4, <1>5, <1>6 DEF Federation!RemoveUserGroup
<1>8. hist' = hist
  BY <1>7, OwnWrite DEF FedTypes
<1>9. PICK y : /\ task' = [task EXCEPT ![t] = y]
               /\ y = [r EXCEPT !.pc = "groups", !.cur = @ \ {c}, !.g = Federation!None,
                                !.found = Federation!NoGroup]
  BY <1>7 DEF Federation!Set
<1>10. /\ y.pc = "groups" /\ y.index = r.index /\ y.user = r.user /\ y.synced = r.synced
       /\ y.fed = r.fed /\ y.want = r.want /\ y.cur = r.cur \ {c}
  BY <1>9 DEF SyncTask
<1>11. HandsInv(y)'
  BY <1>3, <1>7, <1>10 DEF HandsInv
<1>12. \A m \in Users \ {n} : Turn(y, m)'
  BY <1>3, <1>7, <1>8, <1>10, OthersTurn
<1>13. UserInv(y, n)'
  <2>1. y.user = Federation!Id(n, row[n])' /\ Reported(n)' /\ y.user \notin y.synced
    BY <1>3, <1>7, <1>10 DEF UserInv, Reported, Federation!Id
  <2>2. ASSUME NEW h \in dir[n].groups
        PROVE  h \in y.want \/ <<n, h>> \in members'
    BY <1>1, <1>3, <1>4, <1>7, <1>10 DEF UserInv
  <2>3. ASSUME NEW h \in Groups \ dir[n].groups
        PROVE  /\ <<n, h>> \in members' => <<n, h>> \in hist.before
               /\ <<n, h>> \in members' /\ group[h].marked => Federation!Id(h, group[h]) \in y.cur
               /\ <<n, h>> \in hist.before /\ ~group[h].marked => <<n, h>> \in members'
    <3>1. h # g => Federation!Id(h, group[h]) # c
      BY <1>5 DEF Federation!Id
    <3> QED BY <1>3, <1>4, <1>7, <1>10, <3>1 DEF UserInv
  <2>4. ASSUME NEW e \in y.cur
        PROVE  e = Federation!Id(e.name, group[e.name]) /\ <<n, e.name>> \in members'
    <3>1. e # c /\ e = Federation!Id(e.name, group[e.name]) /\ <<n, e.name>> \in members
      BY <1>3, <1>10 DEF UserInv
    <3>2. e.name # g
      BY <1>5, <3>1
    <3> QED BY <1>7, <3>1, <3>2
  <2>5. y.want \subseteq dir[n].groups
    BY <1>3, <1>10 DEF UserInv
  <2>6. \A h \in Groups : Federation!Id(h, group[h])' = Federation!Id(h, group[h])
    BY <1>7 DEF Federation!Id
  <2>7. \A e \in y.cur : e = Federation!Id(e.name, group[e.name])'
    BY <1>7, <2>4 DEF Federation!Id
  <2> QED BY <1>7, <1>8, <1>10, <2>1, <2>2, <2>3, <2>4, <2>5, <2>6, <2>7 DEF UserInv
<1>14. GroupInv(y)'
  BY <1>10 DEF GroupInv
<1>15. QuietInv(y)'
  BY <1>2, <1>10, <1>11, <1>12, <1>13, <1>14 DEF QuietInv, Reconciling
<1> QED BY <1>1, <1>9, <1>15, SyncMoves

\* A step of a sync keeps what is known of it, or disturbs it.
LEMMA SyncStep ==
    ASSUME FedTypes, MembersInv, FedTypes', OneSync, NEW t \in Syncs, FedTask(t)
    PROVE  OneSync'
<1> SUFFICES ASSUME hist'.dirty = FALSE PROVE OneSync'
  BY DEF OneSync
<1>1. hist \in SyncHist /\ t \in Federation!Tasks
  BY DEF FedTypes, Federation!Tasks
<1>2. ~Federation!Fault
  BY <1>1, Disturbed
<1>3. hist' # [hist EXCEPT !.dirty = TRUE]
  BY <1>1 DEF SyncHist
<1>4. hist.dirty = FALSE
  BY <1>1, <1>2, <1>3, FedTaskReads, HistMoves
<1>5. ~Federation!Adopt(t)
  <2> SUFFICES ASSUME Federation!Adopt(t) PROVE FALSE
    OBVIOUS
  <2>1. PICK r \in SyncTask : r = task[t] /\ r.pc = "adopt" /\ QuietInv(r)
    BY <1>4, TheSync DEF Federation!Adopt
  <2>2. r.found = group[r.g] /\ r.found.here
    BY <2>1 DEF QuietInv, GroupInv, Reconciling
  <2> QED BY <1>2, <1>3, <2>1, <2>2 DEF Federation!Adopt
<1>6. ~Federation!CreateUser(t) /\ ~Federation!LookupWinner(t)
  BY <1>4, TheSync DEF Federation!CreateUser, Federation!LookupWinner, QuietInv
<1> QED BY <1>2, <1>4, <1>5, <1>6, LoadQuiet, BulkQuiet, UpdateQuiet, LoadIndexQuiet, ListQuiet,
           ResolveQuiet, MakeQuiet, AddQuiet, CheckQuiet, RemoveQuiet, FinishQuiet DEF FedTask

\* Every step does.
LEMMA SyncKept ==
    ASSUME SyncInv, Federation!Next
    PROVE  SyncInv'
<1>1. FedTypes' /\ MembersInv'
  BY FedTypesStep DEF SyncInv
<1>2. FedTypes /\ MembersInv /\ OneSync
  BY DEF SyncInv
<1>3. ASSUME NEW t \in Federation!Tasks, Federation!Stream(t) \/ Federation!FindUser(t) \/ FedTask(t)
      PROVE  OneSync'
  <2>1. CASE Federation!Stream(t)
    BY <1>1, <1>2, <2>1, StreamQuiet DEF Federation!Stream
  <2>2. CASE Federation!FindUser(t)
    BY <1>1, <1>2, <2>2, LoginStep DEF Federation!FindUser
  <2>3. CASE FedTask(t)
    <3>1. t \in Syncs \/ t \in Logins
      BY DEF Federation!Tasks
    <3> QED BY <1>1, <1>2, <2>3, <3>1, SyncStep, LoginStep
  <2> QED BY <1>3, <2>1, <2>2, <2>3
<1>4. OneSync'
  BY <1>1, <1>2, <1>3, FedNext, EditStep
<1> QED BY <1>1, <1>4 DEF SyncInv

\* The rows, groups and memberships the syncs start with.
LEMMA SyncStarts ==
    ASSUME Federation!Init
    PROVE  SyncInv
<1>1. dir \in [Users -> DirState]
  <2>1. Federation!Silent \in DirState /\ \A d \in Federation!Lists : d \in DirState
    BY DEF Federation!Silent, Federation!Lists, DirState
  <2> QED BY <2>1, NothingTyped DEF Federation!Init
<1>2. row \in [Users -> RowState] /\ group \in [Groups -> GroupRow]
  <2>1. \A v \in [gen : {1}, here : {TRUE}, link : BOOLEAN] : v \in RowState
    <3>1. {TRUE} \subseteq BOOLEAN
      OBVIOUS
    <3>2. {1} \subseteq Nat
      OBVIOUS
    <3> QED BY <3>1, <3>2, Zenon DEF RowState
  <2>2. \A v \in [gen : {1}, here : {TRUE}, marked : BOOLEAN] : v \in GroupRow
    <3>1. {TRUE} \subseteq BOOLEAN
      OBVIOUS
    <3>2. {1} \subseteq Nat
      OBVIOUS
    <3> QED BY <3>1, <3>2, Zenon DEF GroupRow
  <2> QED BY <2>1, <2>2, NothingTyped DEF Federation!Init
<1>3. members \in SUBSET (Users \X Groups) /\ MembersInv
  BY DEF Federation!Init, MembersInv
<1>4. task \in [Federation!Tasks -> SyncTask] /\ \A t \in Federation!Tasks : TaskFits(task[t])
  BY IdleTyped DEF Federation!Init
<1>5. admin \in GroupEdit /\ admin.pc = "idle"
  BY NothingTyped DEF Federation!Init, GroupEdit, Federation!IdleAdmin, Federation!None
<1>6. hist \in SyncHist /\ hist.dirty = TRUE
  BY DEF Federation!Init, SyncHist, Federation!InitHist
<1> QED BY <1>1, <1>2, <1>3, <1>4, <1>5, <1>6 DEF SyncInv, FedTypes, OneSync

\* As long as nothing disturbs a sync, what it has in its hands is true, and every
\* user's memberships are as they were, as they should be, or being made so
\* (sync_all, reconcile_group_memberships_indexed).
THEOREM SyncSafe == MCSpec => [](on = "federation" => SyncInv)
<1>1. MCInit => (on = "federation" => SyncInv)
  BY SyncStarts DEF MCInit
<1>2. (on = "federation" => SyncInv) /\ [MCNext]_<<on, vars, federationVars, brokerVars>>
        => (on = "federation" => SyncInv)'
  <2> SUFFICES ASSUME on = "federation" => SyncInv,
                      [MCNext]_<<on, vars, federationVars, brokerVars>>, (on = "federation")'
               PROVE  SyncInv'
    OBVIOUS
  <2>1. CASE MCNext
    <3>1. on = "federation" /\ Federation!Next
      BY <2>1 DEF MCNext
    <3> QED BY <3>1, SyncKept
  <2>2. CASE UNCHANGED <<on, vars, federationVars, brokerVars>>
    <3>1. SyncInv /\ UNCHANGED <<dir, row, group, members, admin, task, hist>>
      BY <2>2 DEF vars, federationVars
    <3>2. FedTypes'
      BY <3>1 DEF SyncInv, FedTypes, TaskFits
    <3>3. MembersInv'
      BY <3>1 DEF SyncInv, MembersInv
    <3>4. OneSync'
      BY <3>1, <3>2, Undisturbed DEF SyncInv
    <3> QED BY <3>2, <3>3, <3>4 DEF SyncInv
  <2> QED BY <2>1, <2>2
<1> QED BY <1>1, <1>2, PTL DEF MCSpec

\* A sync during which nothing else was written, no call failed and no group was
\* adopted leaves every linked user in exactly the marked groups the directory
\* reports, and other memberships as they were, for any number of users, groups,
\* syncs and logins (reconcile_group_memberships_indexed).
THEOREM SyncExact == MCSpec => []QuietSyncIsExact
<1>1. SyncInv => Federation!QuietSyncIsExact
  <2> SUFFICES ASSUME SyncInv, NEW t \in Syncs, task[t].pc = "end", ~hist.dirty,
                      NEW n \in Users, NEW g \in Groups
               PROVE  LET reported == row[n].here /\ row[n].link /\ dir[n].kind = "lists"
                      IN  IF reported /\ (group[g].marked \/ g \in dir[n].groups)
                          THEN <<n, g>> \in members <=> g \in dir[n].groups
                          ELSE <<n, g>> \in members <=> <<n, g>> \in hist.before
    BY DEF Federation!QuietSyncIsExact
  <2>1. hist.dirty = FALSE
    BY DEF SyncInv, FedTypes, SyncHist
  <2>2. QuietInv(task[t])
    BY <2>1 DEF SyncInv, OneSync
  <2>3. Exact(n)
    BY <2>2 DEF QuietInv
  <2> QED BY <2>3 DEF Exact, Reported
<1>2. (on = "federation" => SyncInv) => QuietSyncIsExact
  BY <1>1 DEF QuietSyncIsExact
<1> QED BY <1>2, SyncSafe, PTL

=============================================================================
