---------------------------- MODULE PolledGrants -----------------------------
(***************************************************************************)
(* The two grants a client polls for: the device grant (routes/oidc.rs)    *)
(* and CIBA without an operation (routes/oidc.rs, ciba_step_up.rs).  One   *)
(* request of one client is modelled, just after it was answered with its  *)
(* code: requests share no state.  Polls by other clients and decisions by *)
(* users the request is not for are refused without touching anything and  *)
(* are left out.                                                           *)
(*                                                                         *)
(* The device grant keeps its record under two keys and writes it back     *)
(* with plain sets; CIBA keeps one and swaps it.  Every await is a step.   *)
(***************************************************************************)
EXTENDS Naturals, FiniteSets

CONSTANTS
    Flows,          \* the grants considered: some of "device", "ciba"
    Polls,          \* polls in flight at a time
    Approvers,      \* approval forms in flight at a time
    Users,          \* who may sign in on the device page
    Lifetime,       \* expires_in: from issue to expires_at
    StoreDelay,     \* bound on the time from fixing expires_at to the write of the record
    Interval,       \* polling interval
    SlowDown,       \* what a CIBA poll that comes too early adds to it
    LockTTL,        \* lifetime of the CIBA poll lock
    MaxTime,        \* bound on the clock
    MaxPolls,       \* bound on polls that find the request
    MaxForms,       \* bound on approval forms that find it
    MaxLost         \* bound on handlers that die and cache writes that fail

Nobody == "nobody"

ASSUME PolledAssumption ==
    /\ Flows \subseteq {"device", "ciba"} /\ Nobody \notin Users
    /\ IsFiniteSet(Polls) /\ Polls \cap Approvers = {}
    /\ {Lifetime, StoreDelay, Interval, SlowDown, LockTTL} \subseteq Nat
    /\ {MaxTime, MaxPolls, MaxForms, MaxLost} \subseteq Nat

VARIABLES
    flow,       \* which grant this is
    now,        \* the clock; expires_at was fixed at 0
    entry,      \* device_code:{..} or ciba:{..}, [rec, exp]
    mirror,     \* user_code:{..}, the device record again
    lock,       \* mcp:ciba-poll:{..}: when it expires
    task,       \* what each handler is about to do
    hist        \* history: see InitHist

vars == <<flow, now, entry, mirror, lock, task, hist>>

Never  == MaxTime + 1
Tasks  == Polls \cup Approvers

\* DeviceCodeData and CibaAuthReqData as they are first stored.  A CIBA request
\* names its one user from the start, which the model does not write down.
NewRecord == [user |-> Nobody, authorized |-> FALSE, denied |-> FALSE,
              polled |-> Never, interval |-> Interval]
NoEntry   == [rec |-> NewRecord, exp |-> 0]
IdleTask  == [pc |-> "idle", orig |-> NewRecord, rec |-> NewRecord, ttl |-> 0]

\* tokens: responses that carried tokens; late: how long after its expires_at
\* the request was taken at the latest, 0 when in time; owners: the users the
\* tokens were for; approvers, denied: decisions stored; clobbered: device
\* writes that replaced another record than the one the writer had read; gap:
\* shortest time between two CIBA polls let through, last: when the last one
\* was; polls, forms, lost: how much of each bound is used up.
InitHist == [tokens |-> 0, late |-> 0, owners |-> {}, approvers |-> {}, denied |-> FALSE,
             decisions |-> 0, clobbered |-> 0, gap |-> Never, last |-> Never,
             polls |-> 0, forms |-> 0, lost |-> 0]

\* The client has its answer: the record was stored with its whole lifetime, and
\* for a device once more after that, some time after expires_at was fixed.
Init ==
    /\ flow \in Flows
    /\ \E d \in 0 .. StoreDelay : entry = [rec |-> NewRecord, exp |-> d + Lifetime]
    /\ \/ flow = "ciba" /\ mirror = NoEntry /\ now = entry.exp - Lifetime
       \/ /\ flow = "device"
          /\ \E d \in entry.exp - Lifetime .. StoreDelay :
                mirror = [rec |-> NewRecord, exp |-> d + Lifetime] /\ now = d
    /\ lock = 0
    /\ task = [t \in Tasks |-> IdleTask]
    /\ hist = InitHist

Live(e)  == e.exp > now
Expired  == now >= Lifetime
\* How far the request is past its expires_at.
Lateness == IF Expired THEN now + 1 - Lifetime ELSE 0
Taking(h) == [h EXCEPT !.late = IF Lateness > @ THEN Lateness ELSE @]
\* remaining_ttl(expires_at)
Remaining == Lifetime - now

Goto(t, pc) == task' = [task EXCEPT ![t] = [@ EXCEPT !.pc = pc]]
Done(t)     == task' = [task EXCEPT ![t] = IdleTask]
Fail(h)     == [h EXCEPT !.lost = @ + 1]

Polled == hist.polls < MaxPolls /\ hist' = [hist EXCEPT !.polls = @ + 1]
Opened == hist.forms < MaxForms /\ hist' = [hist EXCEPT !.forms = @ + 1]

-----------------------------------------------------------------------------
(* The device grant *)

\* The pacing write starts from a fresh record.
BugPaced(r) == [NewRecord EXCEPT !.polled = now]

\* The record a poll writes back.
Paced(r) == [r EXCEPT !.polled = now]

\* A poll reads the record.  Too early, expired or gone: refused, nothing is
\* written.  Otherwise it goes on with a copy that carries its own time.
DevicePoll(t) ==
    LET r == entry.rec
        early == r.polled # Never /\ now - r.polled < Interval
    IN  /\ flow = "device" /\ t \in Polls /\ task[t].pc = "idle"
        /\ Live(entry) /\ ~early /\ ~Expired
        /\ task' = [task EXCEPT ![t] = [pc |-> "write", orig |-> r,
                                        rec |-> Paced(r), ttl |-> Remaining]]
        /\ Polled
        /\ UNCHANGED <<now, entry, mirror, lock>>

\* The device page looks the record up by its user code.
VerifyRead(t) ==
    /\ flow = "device" /\ t \in Approvers /\ task[t].pc = "idle"
    /\ Live(mirror)
    /\ task' = [task EXCEPT ![t] = [@ EXCEPT !.pc = "authenticate", !.orig = mirror.rec]]
    /\ Opened
    /\ UNCHANGED <<now, entry, mirror, lock>>

\* Somebody signs in on it, which approves the request in their name, or fails
\* to.  An approval stored before is neither looked at nor kept.
VerifyAuthenticate(t) ==
    /\ task[t].pc = "authenticate"
    /\ \/ Done(t)
       \/ /\ ~Expired
          /\ \E u \in Users :
                task' = [task EXCEPT ![t] =
                    [@ EXCEPT !.pc = "write", !.ttl = Remaining,
                              !.rec = [task[t].orig EXCEPT !.user = u, !.authorized = TRUE,
                                                            !.polled = Never]]]
    /\ UNCHANGED <<now, entry, mirror, lock, hist>>

\* Polls and approvals write the record back under both keys, whatever is
\* stored there by now; a failed write is ignored.  What was read is not needed
\* any more.
DeviceWrite(t) ==
    LET clobbers == entry.rec # task[t].orig \/ ~Live(entry)
        approves == t \in Approvers
    IN  /\ task[t].pc = "write"
        /\ task' = [task EXCEPT ![t] = [@ EXCEPT !.pc = "mirror", !.orig = NewRecord]]
        /\ \/ /\ entry' = [rec |-> task[t].rec, exp |-> now + task[t].ttl]
              /\ hist' = [hist EXCEPT !.clobbered = IF clobbers THEN @ + 1 ELSE @,
                                      !.approvers = IF approves THEN @ \cup {task[t].rec.user} ELSE @,
                                      !.decisions = IF approves THEN @ + 1 ELSE @]
           \/ hist.lost < MaxLost /\ hist' = Fail(hist) /\ UNCHANGED entry
        /\ UNCHANGED <<now, mirror, lock>>

\* An approval is answered here; a poll of an undecided request too.
DeviceWriteMirror(t) ==
    /\ task[t].pc = "mirror"
    /\ \/ mirror' = [rec |-> task[t].rec, exp |-> now + task[t].ttl] /\ UNCHANGED hist
       \/ hist.lost < MaxLost /\ hist' = Fail(hist) /\ UNCHANGED mirror
    /\ IF t \in Polls /\ task[t].rec.authorized THEN Goto(t, "user") ELSE Done(t)
    /\ UNCHANGED <<now, entry, lock>>

\* The lifetime is left to the cache entry's TTL.
BugConsumedValid(t) == entry.rec.authorized /\ entry.rec.user = task[t].rec.user

\* The record that was taken may not be the one that was read.
ConsumedValid(t) ==
    /\ entry.rec.authorized /\ entry.rec.user = task[t].rec.user
    /\ ~Expired

\* get_and_delete leaves nothing behind.
Taken(e) == NoEntry

\* The atomic take: the poll that gets the record goes on, whoever wrote it;
\* a record that does not fit is burnt all the same.
DeviceConsume(t) ==
    /\ flow = "device" /\ task[t].pc = "consume"
    /\ entry' = Taken(entry)
    /\ IF Live(entry) /\ ConsumedValid(t)
       THEN Goto(t, "clean") /\ hist' = Taking(hist)
       ELSE Done(t) /\ UNCHANGED hist
    /\ UNCHANGED <<now, mirror, lock>>

DeviceClean(t) ==
    /\ task[t].pc = "clean"
    /\ \/ mirror' = NoEntry /\ UNCHANGED hist
       \/ hist.lost < MaxLost /\ hist' = Fail(hist) /\ UNCHANGED mirror
    /\ Goto(t, "issue")
    /\ UNCHANGED <<now, entry, lock>>

-----------------------------------------------------------------------------
(* CIBA *)

\* A poll reads the request; expired or gone: refused.
CibaPoll(t) ==
    /\ flow = "ciba" /\ t \in Polls /\ task[t].pc = "idle"
    /\ Live(entry) /\ ~Expired
    /\ task' = [task EXCEPT ![t] = [@ EXCEPT !.pc = "lock", !.orig = entry.rec]]
    /\ Polled
    /\ UNCHANGED <<now, entry, mirror, lock>>

\* create_if_absent: a second poll of the same request is told to slow down.
\* The holder of the lock reads the clock: too early raises the interval.
CibaLock(t) ==
    LET r == task[t].orig
        early == r.polled # Never /\ now - r.polled < r.interval
    IN  /\ task[t].pc = "lock"
        /\ \/ lock > now /\ Done(t) /\ UNCHANGED lock
           \/ /\ lock <= now
              /\ lock' = now + LockTTL
              /\ task' = [task EXCEPT ![t] =
                    IF early THEN [@ EXCEPT !.pc = "slow", !.rec = [r EXCEPT !.interval = @ + SlowDown]]
                             ELSE [@ EXCEPT !.pc = "pace", !.rec = Paced(r)]]
        /\ UNCHANGED <<now, entry, mirror, hist>>

\* A plain set instead of the swap.
BugSwaps(t) == TRUE

\* compare_and_swap: the stored bytes are the ones this handler has read.
Swaps(t) == Live(entry) /\ entry.rec = task[t].orig

\* The swap gives the record its whole lifetime again.
BugSwapped(t) == [rec |-> task[t].rec, exp |-> now + Lifetime]

\* KEEPTTL
Swapped(t) == [entry EXCEPT !.rec = task[t].rec]

\* An early poll stores the longer interval and is told to slow down.
CibaSlow(t) ==
    /\ task[t].pc = "slow"
    /\ entry' = IF Swaps(t) THEN Swapped(t) ELSE entry
    /\ Goto(t, "unlock")
    /\ UNCHANGED <<now, mirror, lock, hist>>

\* A poll in time stores when it came.  Denied, undecided or overtaken: it is
\* answered; approved: it goes on to the user and the tokens.
CibaPace(t) ==
    LET r == task[t].rec
        gap == r.polled - hist.last
    IN  /\ task[t].pc = "pace"
        /\ IF Swaps(t)
           THEN /\ entry' = Swapped(t)
                /\ hist' = [hist EXCEPT !.last = r.polled,
                                        !.gap = IF hist.last # Never /\ gap < @ THEN gap ELSE @]
           ELSE UNCHANGED <<entry, hist>>
        /\ Goto(t, IF Swaps(t) /\ r.authorized /\ ~r.denied THEN "user" ELSE "unlock")
        /\ UNCHANGED <<now, mirror, lock>>

\* The answer of the delete is not looked at.
BugTakes(t) == TRUE

\* compare_and_delete: only while the request is as this poll has left it.
Takes(t) == Live(entry) /\ entry.rec = task[t].rec

CibaConsume(t) ==
    /\ flow = "ciba" /\ task[t].pc = "consume"
    /\ IF Takes(t)
       THEN /\ entry' = NoEntry /\ Goto(t, "issue")
            /\ hist' = Taking(hist)
       ELSE Goto(t, "unlock") /\ UNCHANGED <<entry, hist>>
    /\ UNCHANGED <<now, mirror, lock>>

\* The lock is deleted, whoever holds it by now.
CibaUnlock(t) ==
    /\ task[t].pc = "unlock"
    /\ lock' = 0
    /\ Done(t)
    /\ UNCHANGED <<now, entry, mirror, hist>>

\* The check that refuses a second decision.
Undecided(r) == ~r.authorized /\ ~r.denied

\* The approval page reads the request; the user it is for decides.
DecideRead(t) ==
    /\ flow = "ciba" /\ t \in Approvers /\ task[t].pc = "idle"
    /\ Live(entry) /\ Undecided(entry.rec)
    /\ \E yes \in BOOLEAN :
          task' = [task EXCEPT ![t] =
            [@ EXCEPT !.pc = "decide", !.orig = entry.rec,
                      !.rec = [entry.rec EXCEPT !.authorized = @ \/ yes, !.denied = @ \/ ~yes]]]
    /\ Opened
    /\ UNCHANGED <<now, entry, mirror, lock>>

\* The decision is stored if nothing else was in between, or answered with a
\* conflict.
DecideSwap(t) ==
    /\ task[t].pc = "decide"
    /\ IF ~Expired /\ Swaps(t)
       THEN /\ entry' = Swapped(t)
            /\ hist' = [hist EXCEPT !.decisions = @ + 1, !.denied = @ \/ task[t].rec.denied]
       ELSE UNCHANGED <<entry, hist>>
    /\ Done(t)
    /\ UNCHANGED <<now, mirror, lock>>

-----------------------------------------------------------------------------
(* Both grants *)

\* The user, and for a device its client, are loaded: gone or disabled ends
\* the poll.
LoadUser(t) ==
    /\ task[t].pc = "user"
    /\ \/ Goto(t, "consume")
       \/ IF flow = "device" THEN Done(t) ELSE Goto(t, "unlock")
    /\ UNCHANGED <<now, entry, mirror, lock, hist>>

\* A session is stored and the tokens are answered.
Issue(t) ==
    /\ task[t].pc = "issue"
    /\ hist' = [hist EXCEPT !.tokens = @ + 1, !.owners = @ \cup {task[t].rec.user}]
    /\ IF flow = "device" THEN Done(t) ELSE Goto(t, "unlock")
    /\ UNCHANGED <<now, entry, mirror, lock>>

\* A handler dies between two awaits, or an error ends it early.  A poll lock
\* then stays until it expires.
Lose(t) ==
    /\ task[t].pc # "idle" /\ hist.lost < MaxLost
    /\ hist' = Fail(hist)
    /\ Done(t)
    /\ UNCHANGED <<now, entry, mirror, lock>>

Tick ==
    /\ now < MaxTime
    /\ now' = now + 1
    /\ UNCHANGED <<entry, mirror, lock, task, hist>>

Next ==
    /\ \/ \E t \in Tasks :
             \/ DevicePoll(t) \/ VerifyRead(t) \/ VerifyAuthenticate(t) \/ DeviceWrite(t)
             \/ DeviceWriteMirror(t) \/ DeviceConsume(t) \/ DeviceClean(t)
             \/ CibaPoll(t) \/ CibaLock(t) \/ CibaSlow(t) \/ CibaPace(t) \/ CibaConsume(t)
             \/ CibaUnlock(t) \/ DecideRead(t) \/ DecideSwap(t)
             \/ LoadUser(t) \/ Issue(t) \/ Lose(t)
       \/ Tick
    /\ UNCHANGED flow

Spec == Init /\ [][Next]_vars

-----------------------------------------------------------------------------
(* Properties *)

\* One decision on a CIBA request is stored and one response carries tokens,
\* after an approval only: two forms that were opened together cannot both
\* decide (ciba_approve_handler answers the second with a conflict), and two
\* polls cannot both exchange, although the poll lock expires and is deleted by
\* whoever finishes, its holder or not (poll_locked takes the request by
\* comparison).
CibaExchangedOnce == flow = "ciba" =>
    /\ hist.decisions <= 1 /\ hist.tokens <= hist.decisions
    /\ hist.tokens > 0 => ~hist.denied

\* Polls that CIBA lets through are an interval apart, however many are sent
\* at once: the clock is read under the lock, the record before it.
CibaPollsPaced == flow = "ciba" /\ hist.gap < Never => hist.gap >= Interval

\* A device code is never redeemed past its expires_at, although every write of
\* its record sets a TTL that was computed some time before ("polling must not
\* extend it"): the record that was taken is checked again.  CIBA checks only
\* what a poll has read, and leaves the rest to the entry's TTL, which started
\* when the request was stored: a request is taken after its expires_at only by
\* as much as its storing was delayed, because neither polls nor the decision
\* prolong it.
NoLateTokens ==
    /\ flow = "device" => hist.late = 0
    /\ flow = "ciba" => hist.late <= StoreDelay

\* A device code gives tokens only in the name of somebody who signed in for
\* it, and once: every further time takes a write that put a record in the place
\* of one its writer had not read, as the pacing write of a poll does when the
\* code was taken in between.  Without such a write an approval stays until it
\* is redeemed, burnt or expires: the pacing writes of the polls keep it.
DeviceApprovalSpentOnce == flow = "device" =>
    /\ hist.owners \subseteq hist.approvers
    /\ hist.tokens <= 1 + hist.clobbered
    /\ hist.approvers # {} /\ hist.clobbered = 0 /\ Live(entry) => entry.rec.authorized

=============================================================================
