---------------------------- MODULE LoginThrottle ----------------------------
(***************************************************************************)
(* The failure counter and the lockout marker that throttle guesses at one *)
(* credential of one user (issuerd-auth-flow/src/login_failures.rs) and    *)
(* the requests that race on them: a password form (counted after a wrong  *)
(* check) or a one-time code (counted before the check).  Each await is a  *)
(* step of its own, so requests interleave between any two cache calls.    *)
(*                                                                         *)
(* One slot (realm, identifier, source) is modelled: slots share no state. *)
(* path says which credential the slot guards.                             *)
(***************************************************************************)
EXTENDS Naturals, FiniteSets

CONSTANTS
    Tasks,            \* requests in flight at a time
    Paths,            \* the credentials considered: some of "password", "otp"
    MaxFailures,      \* LoginFailureConfig::max_failures
    FailureTTL,       \* failure_ttl_secs: lifetime of a counter
    WaitIncrement,    \* wait_increment_secs, 0 = fixed lockout
    MaxWait,          \* max_failure_wait_secs, 0 = uncapped
    LockoutDuration,  \* lockout_duration_secs
    Period,           \* OtpPolicy::period_secs
    LookAhead,        \* OtpPolicy::look_ahead_window
    MaxTime,          \* bound on the clock
    MaxClears,        \* bound on correct submissions and admin clears
    MaxLost           \* bound on requests that die half way or go unrecorded

ASSUME ThrottleAssumption ==
    /\ Paths \subseteq {"password", "otp"}
    /\ IsFiniteSet(Tasks) /\ Tasks # {}
    /\ {MaxFailures, WaitIncrement, MaxWait, LockoutDuration, LookAhead} \subseteq Nat
    /\ {MaxTime, MaxClears, MaxLost} \subseteq Nat
    /\ {FailureTTL, Period} \subseteq Nat \ {0}

VARIABLES
    path,       \* what the slot guards: "password" or "otp"
    now,        \* the clock
    counter,    \* login-failure:{realm}:{identifier}:{source}, [n, exp]
    marker,     \* login-lockout:{realm}:{identifier}:{source}, [n, exp]
    watermark,  \* last_used_step of the TOTP credential, 0 = none
    task,       \* what each request is about to do
    hist,       \* history: see InitHist
    accepted    \* history: how often the code of each time step let someone in

vars == <<path, now, counter, marker, watermark, task, hist, accepted>>

NoEntry  == [n |-> 0, exp |-> 0]
IdleTask == [pc |-> "idle", n |-> 0, seen |-> 0, step |-> 0]

\* tried: checks admitted since the counter was last cleared, at time epoch;
\* lifted: markers deleted early since then; clears, lost: how much of each
\* bound is used up.
InitHist == [tried |-> 0, epoch |-> 0, lifted |-> 0, clears |-> 0, lost |-> 0]

\* The time steps a code can be for (step 0, the epoch, is left out).
Steps == 1 .. ((MaxTime \div Period) + 1 + LookAhead)

Init ==
    /\ path \in Paths
    /\ now = 0
    /\ counter = NoEntry /\ marker = NoEntry
    /\ watermark = 0
    /\ task = [t \in Tasks |-> IdleTask]
    /\ hist = InitHist
    /\ accepted = [s \in Steps |-> 0]

-----------------------------------------------------------------------------
(* The cache calls and the lockout arithmetic *)

Live(e) == e.exp > now

\* DistributedCache::increment: the TTL is applied on creation only.
Increment(e, ttl) == IF Live(e) THEN [e EXCEPT !.n = @ + 1] ELSE [n |-> 1, exp |-> now + ttl]

Min2(a, b) == IF a < b THEN a ELSE b

\* lockout_for: fixed, or growing with the failures past the threshold up to
\* a cap.
LockoutFor(n) ==
    LET over == (IF n > MaxFailures THEN n - MaxFailures ELSE 0) + 1
    IN  IF WaitIncrement = 0 THEN LockoutDuration
        ELSE IF MaxWait = 0 THEN WaitIncrement * over
        ELSE Min2(WaitIncrement * over, MaxWait)

\* A lockout armed only by the failure that reaches the threshold.
BugPastThreshold(n) == n = MaxFailures

\* The failure count at which a lockout is due.
PastThreshold(n) == n >= MaxFailures

Goto(t, pc) == task' = [task EXCEPT ![t] = [@ EXCEPT !.pc = pc]]
Done(t)     == task' = [task EXCEPT ![t] = IdleTask]

\* An admitted check, counted in the history.
Admitted(h) == [h EXCEPT !.tried = @ + 1]

-----------------------------------------------------------------------------
(* A request *)

\* A submission arrives.  The code stage reads the credential, replay
\* watermark included, before it asks for an attempt.
Submit(t) ==
    /\ task[t].pc = "idle"
    /\ task' = [task EXCEPT ![t] = [pc |-> "gate", n |-> 0, seen |-> watermark, step |-> 0]]
    /\ UNCHANGED <<now, counter, marker, watermark, hist, accepted>>

\* is_temporarily_locked: the lockout gate of both paths.
Gate(t) ==
    /\ task[t].pc = "gate"
    /\ \/ Live(marker) /\ Done(t) /\ UNCHANGED hist
       \/ ~Live(marker) /\ path = "otp" /\ Goto(t, "count") /\ UNCHANGED hist
       \/ ~Live(marker) /\ path = "password" /\ Goto(t, "check") /\ hist' = Admitted(hist)
    /\ UNCHANGED <<now, counter, marker, watermark, accepted>>

\* reserve_otp_attempt, the count: below the threshold the code is checked,
\* at or past it the lockout has to be armed first.  Without a lockout
\* duration the counting window alone bounds the attempts.
Count(t) ==
    LET c == Increment(counter, FailureTTL)
        wait == LockoutFor(c.n)
        admit == \/ ~PastThreshold(c.n)
                 \/ wait = 0 /\ c.n <= (IF MaxFailures = 0 THEN 1 ELSE MaxFailures)
    IN  /\ task[t].pc = "count"
        /\ counter' = c
        /\ \/ admit /\ Goto(t, "check") /\ hist' = Admitted(hist)
           \/ ~admit /\ wait = 0 /\ Done(t) /\ UNCHANGED hist
           \/ ~admit /\ wait > 0 /\ UNCHANGED hist
                     /\ task' = [task EXCEPT ![t] = [@ EXCEPT !.pc = "arm", !.n = c.n]]
        /\ UNCHANGED <<now, marker, watermark, accepted>>

\* Every racing request is checked, whoever armed the lockout.
BugArms(m) == TRUE

\* The increment that creates the marker is the one that armed it.
Arms(m) == m.n = 1

\* reserve_otp_attempt, the arming of the lockout.
Arm(t) ==
    LET wait == LockoutFor(task[t].n)
        m == Increment(marker, wait)
    IN  /\ task[t].pc = "arm"
        /\ marker' = m
        /\ IF Arms(m)
           THEN Goto(t, "check") /\ hist' = Admitted(hist)
           ELSE Done(t) /\ UNCHANGED hist
        /\ UNCHANGED <<now, counter, watermark, accepted>>

\* totp::verify tries the previous step, the current one and LookAhead more,
\* and skips every step at or before the watermark the request has read.
Window(seen) ==
    LET current == now \div Period
    IN  {s \in Steps : s + 1 >= current /\ s <= current + LookAhead /\ s > seen}

\* The credential is checked.  A wrong password goes on to be recorded, a
\* right one to clear the slot; a wrong, replayed or outdated code was counted
\* already.
Check(t) ==
    /\ task[t].pc = "check"
    /\ \/ path = "password" /\ Goto(t, "record")
       \/ path = "password" /\ hist.clears < MaxClears /\ Goto(t, "clearCounter")
       \/ path = "otp" /\ Done(t)
       \/ /\ path = "otp"
          /\ \E s \in Window(task[t].seen) :
                task' = [task EXCEPT ![t] = [@ EXCEPT !.pc = "consume", !.step = s]]
    /\ UNCHANGED <<now, counter, marker, watermark, hist, accepted>>

\* A federated user whose realm's provider list cannot be loaded is checked
\* against the local password alone, and the answer returned as it is: a
\* failure is not recorded, a success clears nothing.
CheckUnrecorded(t) ==
    /\ path = "password" /\ task[t].pc = "check" /\ hist.lost < MaxLost
    /\ hist' = [hist EXCEPT !.lost = @ + 1]
    /\ Done(t)
    /\ UNCHANGED <<now, counter, marker, watermark, accepted>>

\* The write of the watermark without its comparison.
BugConsumes(step) == TRUE

\* consume_totp_step: an atomic compare and update of the watermark.
Consumes(step) == watermark < step

\* A correct code claims its time step; the loser of a race is refused.
Consume(t) ==
    LET s == task[t].step
    IN  /\ task[t].pc = "consume"
        /\ \/ /\ Consumes(s) /\ hist.clears < MaxClears
              /\ watermark' = s
              /\ accepted' = [accepted EXCEPT ![s] = @ + 1]
              /\ Goto(t, "clearCounter")
           \/ ~Consumes(s) /\ Done(t) /\ UNCHANGED <<watermark, accepted>>
        /\ UNCHANGED <<now, counter, marker, hist>>

\* record_failure, the count of a wrong password.
Record(t) ==
    LET c == Increment(counter, FailureTTL)
    IN  /\ task[t].pc = "record"
        /\ counter' = c
        /\ IF PastThreshold(c.n) /\ LockoutFor(c.n) > 0
           THEN task' = [task EXCEPT ![t] = [@ EXCEPT !.pc = "lock", !.n = c.n]]
           ELSE Done(t)
        /\ UNCHANGED <<now, marker, watermark, hist, accepted>>

\* record_failure, the lockout marker: written over whatever is there.
Lock(t) ==
    LET wait == LockoutFor(task[t].n)
    IN  /\ task[t].pc = "lock"
        /\ marker' = [n |-> 1, exp |-> now + wait]
        /\ Done(t)
        /\ UNCHANGED <<now, counter, watermark, hist, accepted>>

\* clear_user_brute_force_state: an admin unlocks the user.
AdminClear(t) ==
    /\ task[t].pc = "idle" /\ hist.clears < MaxClears
    /\ Goto(t, "clearCounter")
    /\ UNCHANGED <<now, counter, marker, watermark, hist, accepted>>

\* reset_failures, the counter.  A new count begins.
ClearCounter(t) ==
    /\ task[t].pc = "clearCounter"
    /\ counter' = NoEntry
    /\ hist' = [tried |-> 0, epoch |-> now, lifted |-> 0,
                clears |-> hist.clears + 1, lost |-> hist.lost]
    /\ Goto(t, "clearMarker")
    /\ UNCHANGED <<now, marker, watermark, accepted>>

\* reset_failures, the marker.
ClearMarker(t) ==
    /\ task[t].pc = "clearMarker"
    /\ marker' = NoEntry
    /\ hist' = [hist EXCEPT !.lifted = IF Live(marker) THEN @ + 1 ELSE @]
    /\ Done(t)
    /\ UNCHANGED <<now, counter, watermark, accepted>>

\* A cache or storage error ends the request, or its client goes away: the
\* rest of the handler does not run.
Lose(t) ==
    /\ task[t].pc # "idle" /\ hist.lost < MaxLost
    /\ hist' = [hist EXCEPT !.lost = @ + 1]
    /\ Done(t)
    /\ UNCHANGED <<now, counter, marker, watermark, accepted>>

Tick ==
    /\ now < MaxTime
    /\ now' = now + 1
    /\ UNCHANGED <<counter, marker, watermark, task, hist, accepted>>

Next ==
    /\ \/ \E t \in Tasks :
             \/ Submit(t) \/ Gate(t) \/ Count(t) \/ Arm(t) \/ Check(t) \/ Consume(t)
             \/ CheckUnrecorded(t)
             \/ Record(t) \/ Lock(t) \/ AdminClear(t) \/ ClearCounter(t) \/ ClearMarker(t)
             \/ Lose(t)
       \/ Tick
    /\ UNCHANGED path

Spec == Init /\ [][Next]_vars

-----------------------------------------------------------------------------
(* Properties *)

PCs == {"idle", "gate", "count", "arm", "check", "consume", "record", "lock",
        "clearCounter", "clearMarker"}
TaskState == [pc : PCs, n : Nat, seen : Nat, step : Nat]

\* Every variable has its type.
TypeOK ==
    /\ path \in Paths /\ now \in Nat /\ watermark \in Nat
    /\ counter \in [n : Nat, exp : Nat] /\ marker \in [n : Nat, exp : Nat]
    /\ task \in [Tasks -> TaskState]
    /\ accepted \in [Steps -> Nat]

Elapsed  == now - hist.epoch
MinWait  == LockoutFor(MaxFailures)
Windows  == 1 + (Elapsed \div FailureTTL)
Lockouts == hist.lifted + (IF MinWait = 0 THEN Windows ELSE 1 + (Elapsed \div MinWait))

\* However many requests race, the codes checked since the budget was last
\* cleared are at most the sub-threshold attempts of each counting window plus
\* one for each lockout there was time for, or, where lockouts are not
\* configured, for each window (reserve_otp_attempt: "concurrent submissions
\* cannot outrun the threshold").
OtpRateBounded == path = "otp" =>
    hist.tried <= (IF MaxFailures = 0 THEN 0 ELSE MaxFailures - 1) * Windows + Lockouts

\* The password path counts after the check, so requests in flight together
\* overrun the threshold, but, where lockouts are configured, only by one check
\* per request and lockout: whoever records a failure past the threshold sets
\* the marker before it can try again.  A request that dies half way, or is
\* checked while the federation providers cannot be loaded, escapes the count.
PasswordRateBounded == path = "password" /\ MinWait > 0 =>
    hist.tried <= (IF MaxFailures = 0 THEN 0 ELSE MaxFailures - 1) * Windows
                  + Cardinality(Tasks) * (1 + Lockouts) + hist.lost

\* The code of one time step lets at most one request in, although the
\* watermark each request compares with was read before its check.
CodeAcceptedOnce == \A s \in Steps : accepted[s] <= 1

=============================================================================
