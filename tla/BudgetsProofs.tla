---------------------------- MODULE BudgetsProofs ----------------------------
(***************************************************************************)
(* The budgets of attempts, for any number of requests, any limits and any *)
(* clock.  Login throttle: one-time codes are accepted once (the watermark *)
(* is at or past every accepted time step, and a claim has to move it      *)
(* forward), and guesses are throttled.  Initial access tokens and codes   *)
(* sent by e-mail: what an attempt is counted by outlives what it is an    *)
(* attempt at.                                                             *)
(***************************************************************************)
EXTENDS MCBudgets, Integers, FiniteSetTheorems, TLAPS

-----------------------------------------------------------------------------
(* The login throttle *)

\* The inductive invariant: an accepted step lies at or before the watermark.
Behind == \A s \in Steps : accepted[s] > 0 => s <= watermark

OtpInv == TypeOK /\ Behind /\ CodeAcceptedOnce

\* A lockout is a natural number of seconds, whatever the settings.
LEMMA LockoutForType ==
    ASSUME NEW n \in Nat
    PROVE  LockoutFor(n) \in Nat
  BY ThrottleAssumption DEF ThrottleAssumption, LockoutFor, Min2

\* The cache's increment keeps the shape of an entry.
LEMMA IncrementType ==
    ASSUME now \in Nat, NEW e \in [n : Nat, exp : Nat], NEW ttl \in Nat
    PROVE  Increment(e, ttl) \in [n : Nat, exp : Nat]
  BY DEF Increment, Live

\* A request that moves on keeps the shape of its state.
LEMMA TaskType ==
    ASSUME NEW x \in TaskState
    PROVE  /\ x.n \in Nat /\ x.step \in Nat
           /\ \A pc \in PCs : [x EXCEPT !.pc = pc] \in TaskState
           /\ \A pc \in PCs, n \in Nat : [x EXCEPT !.pc = pc, !.n = n] \in TaskState
           /\ \A pc \in PCs, s \in Nat : [x EXCEPT !.pc = pc, !.step = s] \in TaskState
<1>1. x.n \in Nat /\ x.step \in Nat
  BY DEF TaskState
<1>2. ASSUME NEW pc \in PCs PROVE [x EXCEPT !.pc = pc] \in TaskState
  BY DEF TaskState
<1>3. ASSUME NEW pc \in PCs, NEW n \in Nat PROVE [x EXCEPT !.pc = pc, !.n = n] \in TaskState
  BY DEF TaskState
<1>4. ASSUME NEW pc \in PCs, NEW s \in Nat PROVE [x EXCEPT !.pc = pc, !.step = s] \in TaskState
  BY DEF TaskState
<1> QED BY <1>1, <1>2, <1>3, <1>4

\* A step that gives one request a new state of the right shape.
LEMMA Moved ==
    ASSUME task \in [Tasks -> TaskState], NEW t \in Tasks, NEW x \in TaskState,
           task' = [task EXCEPT ![t] = x]
    PROVE  task' \in [Tasks -> TaskState]
  OBVIOUS

\* A step that leaves everything but one request and the history alone.
LEMMA GotoType ==
    ASSUME TypeOK, NEW t \in Tasks, NEW pc \in PCs, Goto(t, pc)
    PROVE  task' \in [Tasks -> TaskState]
<1>1. task[t] \in TaskState
  BY DEF TypeOK
<1>2. [task[t] EXCEPT !.pc = pc] \in TaskState
  BY <1>1, TaskType
<1>3. task' = [task EXCEPT ![t] = [task[t] EXCEPT !.pc = pc]]
  BY DEF Goto
<1> HIDE DEF TaskState
<1> QED BY <1>2, <1>3, Moved DEF TypeOK

\* Ending a request keeps its task's state well typed.
LEMMA DoneType ==
    ASSUME TypeOK, NEW t \in Tasks, Done(t)
    PROVE  task' \in [Tasks -> TaskState]
<1>1. IdleTask \in TaskState
  BY DEF IdleTask, TaskState, PCs
<1> QED BY <1>1 DEF Done, TypeOK

\* Every step keeps the types.
LEMMA TypePreserved ==
    ASSUME TypeOK, [Next]_vars
    PROVE  TypeOK'
<1> USE ThrottleAssumption DEF ThrottleAssumption, PCs
<1>0. path' = path
  BY DEF Next, vars
<1> USE <1>0
<1>1. ASSUME NEW t \in Tasks, Submit(t) PROVE TypeOK'
  <2>1. [pc |-> "gate", n |-> 0, seen |-> watermark, step |-> 0] \in TaskState
    BY DEF TypeOK, TaskState
  <2> QED BY <1>1, <2>1 DEF Submit, TypeOK
<1>2. ASSUME NEW t \in Tasks, Gate(t) PROVE TypeOK'
  <2>1. Goto(t, "count") \/ Goto(t, "check") \/ Done(t)
    BY <1>2 DEF Gate
  <2>2. task' \in [Tasks -> TaskState]
    BY <2>1, GotoType, DoneType
  <2> QED BY <1>2, <2>2 DEF Gate, TypeOK
<1>3. ASSUME NEW t \in Tasks, Count(t) PROVE TypeOK'
  <2> DEFINE c == Increment(counter, FailureTTL)
  <2>1. c \in [n : Nat, exp : Nat] /\ c.n \in Nat
    BY IncrementType DEF TypeOK
  <2>2. [task[t] EXCEPT !.pc = "arm", !.n = c.n] \in TaskState
    BY <2>1, TaskType DEF TypeOK
  <2>3. \/ Goto(t, "check") \/ Done(t)
        \/ task' = [task EXCEPT ![t] = [task[t] EXCEPT !.pc = "arm", !.n = c.n]]
    BY <1>3 DEF Count
  <2>4. task' \in [Tasks -> TaskState]
    <3>1. CASE Goto(t, "check") \/ Done(t)
      BY <3>1, GotoType, DoneType
    <3>2. CASE task' = [task EXCEPT ![t] = [task[t] EXCEPT !.pc = "arm", !.n = c.n]]
      BY <3>2, <2>2, Moved DEF TypeOK
    <3> QED BY <2>3, <3>1, <3>2
  <2>5. counter' = c /\ UNCHANGED <<now, marker, watermark, accepted>>
    BY <1>3 DEF Count
  <2> QED BY <2>1, <2>4, <2>5 DEF TypeOK
<1>4. ASSUME NEW t \in Tasks, Arm(t) PROVE TypeOK'
  <2>1. LockoutFor(task[t].n) \in Nat
    BY LockoutForType, TaskType DEF TypeOK
  <2>2. marker' \in [n : Nat, exp : Nat]
    BY <1>4, <2>1, IncrementType DEF Arm, TypeOK
  <2>3. Goto(t, "check") \/ Done(t)
    BY <1>4 DEF Arm
  <2>4. task' \in [Tasks -> TaskState]
    BY <2>3, GotoType, DoneType
  <2> QED BY <1>4, <2>2, <2>4 DEF Arm, TypeOK
<1>5. ASSUME NEW t \in Tasks, Check(t) PROVE TypeOK'
  <2>1. ASSUME NEW s \in Window(task[t].seen),
               task' = [task EXCEPT ![t] = [task[t] EXCEPT !.pc = "consume", !.step = s]]
        PROVE  task' \in [Tasks -> TaskState]
    <3>1. s \in Nat
      BY <2>1 DEF Window, Steps
    <3>2. [task[t] EXCEPT !.pc = "consume", !.step = s] \in TaskState
      BY <3>1, TaskType DEF TypeOK
    <3> QED BY <2>1, <3>2, Moved DEF TypeOK
  <2>2. ASSUME Goto(t, "record") \/ Goto(t, "clearCounter") \/ Done(t)
        PROVE  task' \in [Tasks -> TaskState]
    BY <2>2, GotoType, DoneType
  <2>3. task' \in [Tasks -> TaskState]
    BY <1>5, <2>1, <2>2 DEF Check
  <2> QED BY <1>5, <2>3 DEF Check, TypeOK
<1>6. ASSUME NEW t \in Tasks, CheckUnrecorded(t) PROVE TypeOK'
  BY <1>6, DoneType DEF CheckUnrecorded, TypeOK
<1>7. ASSUME NEW t \in Tasks, Consume(t) PROVE TypeOK'
  <2>1. Goto(t, "clearCounter") \/ Done(t)
    BY <1>7 DEF Consume
  <2>2. task' \in [Tasks -> TaskState]
    BY <2>1, GotoType, DoneType
  <2>3. task[t].step \in Nat
    BY TaskType DEF TypeOK
  <2>4. watermark' \in Nat /\ accepted' \in [Steps -> Nat]
    BY <1>7, <2>3 DEF Consume, TypeOK
  <2> QED BY <1>7, <2>2, <2>4 DEF Consume, TypeOK
<1>8. ASSUME NEW t \in Tasks, Record(t) PROVE TypeOK'
  <2> DEFINE c == Increment(counter, FailureTTL)
  <2>1. c \in [n : Nat, exp : Nat] /\ c.n \in Nat
    BY IncrementType DEF TypeOK
  <2>2. [task[t] EXCEPT !.pc = "lock", !.n = c.n] \in TaskState
    BY <2>1, TaskType DEF TypeOK
  <2>3. Done(t) \/ task' = [task EXCEPT ![t] = [task[t] EXCEPT !.pc = "lock", !.n = c.n]]
    BY <1>8 DEF Record
  <2>4. task' \in [Tasks -> TaskState]
    <3>1. CASE Done(t)
      BY <3>1, DoneType
    <3>2. CASE task' = [task EXCEPT ![t] = [task[t] EXCEPT !.pc = "lock", !.n = c.n]]
      BY <3>2, <2>2, Moved DEF TypeOK
    <3> QED BY <2>3, <3>1, <3>2
  <2>5. counter' = c /\ UNCHANGED <<now, marker, watermark, accepted>>
    BY <1>8 DEF Record
  <2> QED BY <2>1, <2>4, <2>5 DEF TypeOK
<1>9. ASSUME NEW t \in Tasks, Lock(t) PROVE TypeOK'
  <2>1. LockoutFor(task[t].n) \in Nat
    BY LockoutForType, TaskType DEF TypeOK
  <2>2. marker' \in [n : Nat, exp : Nat]
    BY <1>9, <2>1 DEF Lock, TypeOK
  <2> QED BY <1>9, <2>2, DoneType DEF Lock, TypeOK
<1>10. ASSUME NEW t \in Tasks, AdminClear(t) PROVE TypeOK'
  <2>1. task' \in [Tasks -> TaskState]
    BY <1>10, GotoType DEF AdminClear
  <2> QED BY <1>10, <2>1 DEF AdminClear, TypeOK
<1>11. ASSUME NEW t \in Tasks, ClearCounter(t) PROVE TypeOK'
  <2>1. task' \in [Tasks -> TaskState]
    BY <1>11, GotoType DEF ClearCounter
  <2> QED BY <1>11, <2>1 DEF ClearCounter, NoEntry, TypeOK
<1>12. ASSUME NEW t \in Tasks, ClearMarker(t) PROVE TypeOK'
  BY <1>12, DoneType DEF ClearMarker, NoEntry, TypeOK
<1>13. ASSUME NEW t \in Tasks, Lose(t) PROVE TypeOK'
  BY <1>13, DoneType DEF Lose, TypeOK
<1>14. CASE Tick
  BY <1>14 DEF Tick, TypeOK
<1>15. CASE UNCHANGED vars
  BY <1>15 DEF vars, TypeOK
<1> QED
  BY <1>1, <1>2, <1>3, <1>4, <1>5, <1>6, <1>7, <1>8, <1>9, <1>10, <1>11, <1>12, <1>13,
     <1>14, <1>15 DEF Next

\* Only Consume accepts a code or moves the watermark, and it moves it past
\* every step accepted before.
LEMMA AcceptPreserved ==
    ASSUME OtpInv, [Next]_vars
    PROVE  Behind' /\ CodeAcceptedOnce'
<1>1. ASSUME NEW t \in Tasks, Consume(t), UNCHANGED <<watermark, accepted>>
      PROVE  Behind' /\ CodeAcceptedOnce'
  BY <1>1 DEF OtpInv, Behind, CodeAcceptedOnce
<1>2. ASSUME NEW t \in Tasks, Consume(t), Consumes(task[t].step),
             watermark' = task[t].step,
             accepted' = [accepted EXCEPT ![task[t].step] = @ + 1]
      PROVE  Behind' /\ CodeAcceptedOnce'
  <2> DEFINE s == task[t].step
  <2>1. watermark \in Nat /\ s \in Nat /\ watermark < s
    BY <1>2, TaskType DEF OtpInv, TypeOK, Consumes
  <2>2. \A r \in Steps : accepted[r] \in Nat
    BY DEF OtpInv, TypeOK
  <2>3. s \in Steps => accepted[s] = 0
    BY <2>1, <2>2 DEF OtpInv, Behind, Steps
  <2>4. \A r \in Steps : r # s => accepted'[r] = accepted[r]
    BY <1>2 DEF OtpInv, TypeOK
  <2>5. s \in Steps => accepted'[s] = 1
    BY <1>2, <2>3 DEF OtpInv, TypeOK
  <2>6. \A r \in Steps : r \in Nat
    BY DEF Steps
  <2>7. Behind'
    BY <1>2, <2>1, <2>4, <2>6 DEF OtpInv, Behind, Steps
  <2>8. CodeAcceptedOnce'
    BY <2>4, <2>5 DEF OtpInv, CodeAcceptedOnce, Steps
  <2> QED BY <2>7, <2>8
<1>3. CASE UNCHANGED <<watermark, accepted>>
  BY <1>3 DEF OtpInv, Behind, CodeAcceptedOnce, Steps
<1> QED
  BY <1>1, <1>2, <1>3 DEF Next, Submit, Gate, Count, Arm, Check, CheckUnrecorded, Consume,
     Record, Lock, AdminClear, ClearCounter, ClearMarker, Lose, Tick, vars

\* The code of a time step is accepted at most once, however many requests
\* have read the same watermark before their check (consume_totp_step).
THEOREM AcceptedOnce == Spec => []CodeAcceptedOnce
<1>1. Init => OtpInv
  <2> SUFFICES ASSUME Init PROVE OtpInv
    OBVIOUS
  <2>1. IdleTask \in TaskState
    BY DEF IdleTask, TaskState, PCs
  <2>2. accepted \in [Steps -> Nat] /\ \A s \in Steps : accepted[s] = 0
    BY DEF Init
  <2> QED BY <2>1, <2>2 DEF Init, OtpInv, TypeOK, Behind, CodeAcceptedOnce, NoEntry
<1>2. OtpInv /\ [Next]_vars => OtpInv'
  BY TypePreserved, AcceptPreserved DEF OtpInv
<1>3. OtpInv => CodeAcceptedOnce
  BY DEF OtpInv
<1> QED BY <1>1, <1>2, <1>3, PTL DEF Spec

-----------------------------------------------------------------------------
(* The rate of guesses: what the counter and the marker account for. *)

HistState == [tried : Nat, epoch : Nat, lifted : Nat, clears : Nat, lost : Nat]

\* The checks of one counting window that no lockout is armed for.
Sub == IF MaxFailures = 0 THEN 0 ELSE MaxFailures - 1

\* Counter c, at time n, is of the window after the first W, of length T each,
\* since e, or new.
Windowed(T, W, c, n, e) ==
    /\ e + W * T <= n
    /\ \/ c.exp >= e + (W + 1) * T
       \/ W = 0 /\ c = NoEntry

\* What W windows and counter c account for, b checks per window.
Counted(b, W, c) == b * W + Min2(c.n, b)

\* A request past the threshold has seen it, and where lockouts are configured.
ThrottleTasks ==
    \A t \in Tasks :
        /\ task[t].pc \in {"arm", "lock"} => task[t].n >= MaxFailures /\ MinWait > 0
        /\ task[t].pc \in {"record", "lock"} => path = "password"
        /\ task[t].pc \in {"count", "arm", "consume"} => path = "otp"

\* Without lockouts the check that reaches the threshold needs no marker.
OtpShare == IF MinWait = 0 THEN Sub + 1 ELSE Sub

\* W windows have passed, and K lockouts began that were not lifted: each one
\* after the marker of the one before had run out.
OtpFits(W, K) ==
    /\ Windowed(FailureTTL, W, counter, now, hist.epoch)
    /\ K > 0 =>
        /\ MinWait > 0 /\ hist.epoch + (K - 1) * MinWait <= now
        /\ \/ marker.exp >= hist.epoch + K * MinWait
           \/ now >= hist.epoch + K * MinWait
    /\ hist.tried <= Counted(OtpShare, W, counter) + hist.lifted + K

\* Checks that are not accounted for yet, or will clear the count.
InFlight == {t \in Tasks : task[t].pc \in {"check", "record", "clearCounter"}}

\* The round of lockouts that began at time s, after l markers were lifted, is
\* over.
Over(l, s) == hist.lifted > l \/ now >= s + MinWait

\* R rounds are over and a round began at s, in which the requests in D have
\* failed past the threshold.  Each of them sets a marker, and is checked
\* again only when the round is over.
PasswordFits(W, R, K, l, s, D) ==
    /\ Windowed(FailureTTL, W, counter, now, hist.epoch)
    /\ R <= K + l /\ l <= hist.lifted /\ hist.epoch + K * MinWait <= s /\ s <= now
    /\ \A t \in D : task[t].pc # "lock" =>
        \/ Over(l, s)
        \/ marker.exp >= s + MinWait /\ task[t].pc \notin {"check", "record"}
    /\ hist.tried <= Counted(Sub, W, counter) + Cardinality(Tasks) * R + Cardinality(D)
                     + Cardinality(InFlight) + hist.lost

RateInv ==
    /\ TypeOK /\ hist \in HistState /\ ThrottleTasks
    /\ marker = NoEntry \/ marker.n > 0
    /\ path = "otp" => \E W \in Nat, K \in Nat : OtpFits(W, K)
    /\ path = "password" /\ MinWait > 0 =>
        \E W \in Nat, R \in Nat, K \in Nat, l \in Nat, s \in Nat, D \in SUBSET Tasks :
            PasswordFits(W, R, K, l, s, D)

-----------------------------------------------------------------------------
(* Arithmetic *)

\* What one more multiple adds.
LEMMA NextMultiple ==
    ASSUME NEW k \in Nat, NEW b \in Nat
    PROVE  k * b \in Nat /\ b * k = k * b /\ (k + 1) * b = k * b + b
  OBVIOUS

\* A product grows with its factor.
LEMMA ProductGrows ==
    ASSUME NEW k \in Nat, NEW q \in Nat, NEW b \in Nat, k <= q
    PROVE  b * k <= b * q
<1>1. PICK d \in Nat : q = k + d
  BY q - k \in Nat
<1>2. b * q = b * k + b * d /\ b * d >= 0 /\ b * k \in Nat /\ b * d \in Nat
  BY <1>1
<1> QED BY <1>2

\* Every multiple of b within a is counted by the quotient.
LEMMA DivBound ==
    ASSUME NEW a \in Nat, NEW b \in Nat \ {0}, NEW k \in Nat, k * b <= a
    PROVE  a \div b \in Nat /\ k <= a \div b
<1>1. a \div b \in Nat /\ a < b * ((a \div b) + 1)
  OBVIOUS
<1>2. SUFFICES ASSUME k >= (a \div b) + 1 PROVE FALSE
  BY <1>1
<1>3. b * ((a \div b) + 1) <= b * k
  BY <1>1, <1>2, ProductGrows
<1> QED BY <1>1, <1>3

\* The settings a lockout depends on.
LEMMA WaitFacts ==
    ASSUME NEW n \in Nat, n >= MaxFailures
    PROVE  /\ MinWait \in Nat /\ LockoutFor(n) \in Nat
           /\ LockoutFor(n) >= MinWait
           /\ LockoutFor(n) = 0 <=> MinWait = 0
<1> USE ThrottleAssumption DEF ThrottleAssumption
<1> DEFINE over == (IF n > MaxFailures THEN n - MaxFailures ELSE 0) + 1
<1>1. MinWait \in Nat /\ LockoutFor(n) \in Nat
  BY LockoutForType DEF MinWait
<1>2. over \in Nat /\ over >= 1
  OBVIOUS
<1>3. WaitIncrement * 1 <= WaitIncrement * over /\ WaitIncrement * over \in Nat
  BY <1>2, ProductGrows
<1>4. MinWait = IF WaitIncrement = 0 THEN LockoutDuration
                ELSE IF MaxWait = 0 THEN WaitIncrement ELSE Min2(WaitIncrement, MaxWait)
  BY DEF MinWait, LockoutFor
<1>5. LockoutFor(n) = IF WaitIncrement = 0 THEN LockoutDuration
                      ELSE IF MaxWait = 0 THEN WaitIncrement * over
                      ELSE Min2(WaitIncrement * over, MaxWait)
  BY DEF LockoutFor
<1> HIDE DEF over
<1> QED BY <1>1, <1>3, <1>4, <1>5 DEF Min2

\* The account is a number.
LEMMA CountedType ==
    ASSUME NEW b \in Nat, NEW W \in Nat, NEW c \in [n : Nat, exp : Nat]
    PROVE  Counted(b, W, c) \in Nat
  BY NextMultiple DEF Counted, Min2

\* The shares of a window are numbers.
LEMMA SharesType == Sub \in Nat /\ OtpShare \in Nat
  BY ThrottleAssumption DEF ThrottleAssumption, Sub, OtpShare

\* A failure is counted in the window of the counter or opens the next one;
\* either way the account only grows, and by one while it is below b.
LEMMA CountStep ==
    ASSUME now \in Nat, NEW c \in [n : Nat, exp : Nat], NEW d \in [n : Nat, exp : Nat],
           NEW e \in Nat, NEW W \in Nat, NEW b \in Nat, NEW T \in Nat \ {0},
           Windowed(T, W, c, now, e), d = Increment(c, T)
    PROVE  \E V \in Nat : /\ Windowed(T, V, d, now, e)
                          /\ Counted(b, W, c) <= Counted(b, V, d)
                          /\ d.n <= b => Counted(b, W, c) + 1 <= Counted(b, V, d)
<1> USE DEF Windowed, Counted, Min2
<1>0. /\ W * T \in Nat /\ (W + 1) * T = W * T + T
      /\ ((W + 1) + 1) * T = W * T + T + T
      /\ b * W \in Nat /\ b * (W + 1) = b * W + b
      /\ 0 * T = 0 /\ (0 + 1) * T = T /\ b * 0 = 0
  BY NextMultiple
<1>1. CASE c.exp > now
  <2>1. d.n = c.n + 1 /\ d.exp = c.exp
    BY <1>1 DEF Increment, Live
  <2>2. Windowed(T, W, d, now, e)
    BY <1>0, <1>1, <2>1 DEF NoEntry
  <2>3. /\ Counted(b, W, c) <= Counted(b, W, d)
        /\ d.n <= b => Counted(b, W, c) + 1 <= Counted(b, W, d)
    BY <1>0, <2>1
  <2> HIDE DEF Windowed, Counted, Min2
  <2> QED BY <2>2, <2>3
<1>2. CASE ~(c.exp > now) /\ c.exp >= e + (W + 1) * T
  <2>1. d.n = 1 /\ d.exp = now + T
    BY <1>2 DEF Increment, Live
  <2>2. Windowed(T, W + 1, d, now, e)
    BY <1>0, <1>2, <2>1
  <2>3. /\ Counted(b, W, c) <= Counted(b, W + 1, d)
        /\ d.n <= b => Counted(b, W, c) + 1 <= Counted(b, W + 1, d)
    BY <1>0, <2>1
  <2> HIDE DEF Windowed, Counted, Min2
  <2> QED BY <2>2, <2>3
<1>3. CASE ~(c.exp > now) /\ W = 0 /\ c = NoEntry
  <2>1. d.n = 1 /\ d.exp = now + T /\ c.n = 0
    BY <1>3 DEF Increment, Live, NoEntry
  <2>2. Windowed(T, 0, d, now, e)
    BY <1>0, <1>3, <2>1
  <2>3. /\ Counted(b, W, c) <= Counted(b, 0, d)
        /\ d.n <= b => Counted(b, W, c) + 1 <= Counted(b, 0, d)
    BY <1>0, <1>3, <2>1
  <2> HIDE DEF Windowed, Counted, Min2
  <2> QED BY <2>2, <2>3
<1> QED BY <1>1, <1>2, <1>3

\* Time passes, and the account stays.
LEMMA OtpQuiet ==
    ASSUME TypeOK, hist \in HistState, NEW W \in Nat, NEW K \in Nat, OtpFits(W, K),
           UNCHANGED <<counter, marker>>, now' \in Nat, now' >= now,
           hist'.tried = hist.tried, hist'.epoch = hist.epoch, hist'.lifted = hist.lifted
    PROVE  OtpFits(W, K)'
<1> USE ThrottleAssumption DEF ThrottleAssumption, TypeOK, HistState
<1>1. MinWait \in Nat
  BY WaitFacts
<1>2. W * FailureTTL \in Nat /\ (W + 1) * FailureTTL \in Nat /\ K * MinWait \in Nat
  BY <1>1, NextMultiple
<1>3. K > 0 => (K - 1) * MinWait \in Nat
  BY <1>1, NextMultiple
<1>4. Windowed(FailureTTL, W, counter, now, hist.epoch)'
  BY <1>2 DEF OtpFits, Windowed
<1>5. hist'.tried <= Counted(OtpShare, W, counter') + hist'.lifted + K
  BY DEF OtpFits
<1> QED BY <1>1, <1>2, <1>3, <1>4, <1>5 DEF OtpFits

\* What the updates of the history leave.
LEMMA HistFacts ==
    ASSUME NEW h \in HistState, NEW n \in Nat
    PROVE  /\ h.tried \in Nat /\ h.epoch \in Nat /\ h.lifted \in Nat /\ h.lost \in Nat
           /\ Admitted(h) \in HistState
           /\ [h EXCEPT !.lost = @ + 1] \in HistState
           /\ [h EXCEPT !.lifted = n] \in HistState
           /\ [tried |-> 0, epoch |-> n, lifted |-> 0,
               clears |-> h.clears + 1, lost |-> h.lost] \in HistState
<1>1. h.tried \in Nat /\ h.epoch \in Nat /\ h.lifted \in Nat /\ h.lost \in Nat /\ h.clears \in Nat
  BY DEF HistState
<1>2. [h EXCEPT !.tried = h.tried + 1] \in HistState
  BY <1>1 DEF HistState
<1>3. [h EXCEPT !.lost = h.lost + 1] \in HistState
  BY <1>1 DEF HistState
<1>4. [h EXCEPT !.lifted = n] \in HistState
  BY DEF HistState
<1>5. [tried |-> 0, epoch |-> n, lifted |-> 0, clears |-> h.clears + 1, lost |-> h.lost] \in HistState
  BY <1>1 DEF HistState
<1> QED BY <1>1, <1>2, <1>3, <1>4, <1>5 DEF Admitted

\* The history stays a history.
LEMMA HistPreserved ==
    ASSUME TypeOK, hist \in HistState, [Next]_vars
    PROVE  hist' \in HistState
<1>1. ASSUME NEW t \in Tasks, ClearMarker(t) PROVE hist' \in HistState
  <2>1. PICK n \in Nat : hist' = [hist EXCEPT !.lifted = n]
    <3>1. hist.lifted \in Nat /\ hist.lifted + 1 \in Nat
      BY DEF HistState
    <3>2. CASE Live(marker)
      BY <1>1, <3>1, <3>2 DEF ClearMarker
    <3>3. CASE ~Live(marker)
      BY <1>1, <3>1, <3>3 DEF ClearMarker
    <3> QED BY <3>2, <3>3
  <2> QED BY <2>1, HistFacts
<1>2. ASSUME NEW t \in Tasks, ClearCounter(t) PROVE hist' \in HistState
  BY <1>2, HistFacts DEF ClearCounter, TypeOK
<1>3. ASSUME hist' = Admitted(hist) \/ hist' = [hist EXCEPT !.lost = @ + 1] \/ hist' = hist
      PROVE hist' \in HistState
  BY <1>3, HistFacts DEF HistState
<1> QED
  BY <1>1, <1>2, <1>3 DEF Next, Submit, Gate, Count, Arm, Check, CheckUnrecorded, Consume,
     Record, Lock, AdminClear, Lose, Tick, vars

\* A request is past the threshold only where lockouts are configured, and
\* stays on the path of the slot.
LEMMA ThrottleTasksPreserved ==
    ASSUME TypeOK, ThrottleTasks, [Next]_vars
    PROVE  ThrottleTasks'
<1> DEFINE Good(x) == /\ x.pc \in {"arm", "lock"} => x.n >= MaxFailures /\ MinWait > 0
                      /\ x.pc \in {"record", "lock"} => path = "password"
                      /\ x.pc \in {"count", "arm", "consume"} => path = "otp"
<1> USE ThrottleAssumption DEF ThrottleAssumption
<1>0. path' = path
  BY DEF Next, vars
<1>1. ASSUME NEW t \in Tasks, NEW x, task' = [task EXCEPT ![t] = x], Good(x)
      PROVE  ThrottleTasks'
  BY <1>0, <1>1 DEF ThrottleTasks, TypeOK
<1>2. ASSUME NEW t \in Tasks, Done(t) PROVE ThrottleTasks'
  <2>1. Good(IdleTask)
    BY DEF IdleTask
  <2> QED BY <1>1, <1>2, <2>1 DEF Done
<1>3. ASSUME NEW t \in Tasks, NEW pc \in PCs, Goto(t, pc), pc \notin {"arm", "lock"},
             pc = "record" => path = "password", pc \in {"count", "consume"} => path = "otp"
      PROVE  ThrottleTasks'
  <2>1. [task[t] EXCEPT !.pc = pc].pc = pc
    BY DEF TypeOK, TaskState
  <2>2. Good([task[t] EXCEPT !.pc = pc])
    BY <1>3, <2>1
  <2> QED BY <1>1, <1>3, <2>2 DEF Goto
<1>4. ASSUME NEW t \in Tasks, NEW pc \in {"arm", "lock"}, NEW n \in Nat, n >= MaxFailures,
             LockoutFor(n) > 0, pc = "lock" => path = "password", pc = "arm" => path = "otp",
             task' = [task EXCEPT ![t] = [@ EXCEPT !.pc = pc, !.n = n]]
      PROVE  ThrottleTasks'
  <2>1. [task[t] EXCEPT !.pc = pc, !.n = n].pc = pc /\ [task[t] EXCEPT !.pc = pc, !.n = n].n = n
    BY DEF TypeOK, TaskState
  <2>2. MinWait > 0
    BY <1>4, WaitFacts
  <2>3. Good([task[t] EXCEPT !.pc = pc, !.n = n])
    BY <1>4, <2>1, <2>2
  <2>4. task' = [task EXCEPT ![t] = [task[t] EXCEPT !.pc = pc, !.n = n]]
    BY <1>4
  <2> QED BY <1>1, <2>3, <2>4
<1> HIDE DEF Good
<1>5. ASSUME NEW t \in Tasks, Submit(t) PROVE ThrottleTasks'
  <2>1. Good([pc |-> "gate", n |-> 0, seen |-> watermark, step |-> 0])
    BY DEF Good
  <2> QED BY <1>1, <1>5, <2>1 DEF Submit
<1>6. ASSUME NEW t \in Tasks, Gate(t) PROVE ThrottleTasks'
  <2>1. CASE path = "otp" /\ Goto(t, "count")
    BY <1>3, <2>1 DEF PCs
  <2>2. CASE Goto(t, "check")
    BY <1>3, <2>2 DEF PCs
  <2>3. CASE Done(t)
    BY <1>2, <2>3
  <2> QED BY <1>6, <2>1, <2>2, <2>3 DEF Gate
<1>7. ASSUME NEW t \in Tasks, Count(t) PROVE ThrottleTasks'
  <2>1. PICK c \in [n : Nat, exp : Nat] : c = Increment(counter, FailureTTL)
    BY IncrementType DEF TypeOK
  <2>2. CASE Goto(t, "check")
    BY <1>3, <2>2 DEF PCs
  <2>3. CASE Done(t)
    BY <1>2, <2>3
  <2>4. CASE /\ PastThreshold(c.n) /\ LockoutFor(c.n) > 0
             /\ task' = [task EXCEPT ![t] = [@ EXCEPT !.pc = "arm", !.n = c.n]]
    <3>1. path = "otp"
      BY <1>7 DEF Count, ThrottleTasks
    <3>2. c.n \in Nat /\ c.n >= MaxFailures
      BY <2>4 DEF PastThreshold
    <3> QED BY <1>4, <2>4, <3>1, <3>2
  <2> QED BY <1>7, <2>1, <2>2, <2>3, <2>4 DEF Count
<1>8. ASSUME NEW t \in Tasks, Arm(t) PROVE ThrottleTasks'
  <2>1. CASE Goto(t, "check")
    BY <1>3, <2>1 DEF PCs
  <2>2. CASE Done(t)
    BY <1>2, <2>2
  <2> QED BY <1>8, <2>1, <2>2 DEF Arm
<1>9. ASSUME NEW t \in Tasks, Check(t) PROVE ThrottleTasks'
  <2>1. CASE path = "password" /\ (Goto(t, "record") \/ Goto(t, "clearCounter"))
    BY <1>3, <2>1 DEF PCs
  <2>2. CASE Done(t)
    BY <1>2, <2>2
  <2>3. ASSUME NEW s, path = "otp",
               task' = [task EXCEPT ![t] = [@ EXCEPT !.pc = "consume", !.step = s]]
        PROVE ThrottleTasks'
    <3>1. [task[t] EXCEPT !.pc = "consume", !.step = s].pc = "consume"
      BY DEF TypeOK, TaskState
    <3>2. Good([task[t] EXCEPT !.pc = "consume", !.step = s])
      BY <2>3, <3>1 DEF Good
    <3>3. task' = [task EXCEPT ![t] = [task[t] EXCEPT !.pc = "consume", !.step = s]]
      BY <2>3
    <3> QED BY <1>1, <3>2, <3>3
  <2> QED BY <1>9, <2>1, <2>2, <2>3 DEF Check
<1>10. ASSUME NEW t \in Tasks, Consume(t) \/ AdminClear(t) \/ ClearCounter(t) PROVE ThrottleTasks'
  <2>1. CASE Goto(t, "clearCounter") \/ Goto(t, "clearMarker")
    BY <1>3, <2>1 DEF PCs
  <2>2. CASE Done(t)
    BY <1>2, <2>2
  <2> QED BY <1>10, <2>1, <2>2 DEF Consume, AdminClear, ClearCounter
<1>11. ASSUME NEW t \in Tasks, Record(t) PROVE ThrottleTasks'
  <2>1. PICK c \in [n : Nat, exp : Nat] : c = Increment(counter, FailureTTL)
    BY IncrementType DEF TypeOK
  <2>2. CASE Done(t)
    BY <1>2, <2>2
  <2>3. CASE /\ PastThreshold(c.n) /\ LockoutFor(c.n) > 0
             /\ task' = [task EXCEPT ![t] = [@ EXCEPT !.pc = "lock", !.n = c.n]]
    <3>1. path = "password"
      BY <1>11 DEF Record, ThrottleTasks
    <3>2. c.n \in Nat /\ c.n >= MaxFailures
      BY <2>3 DEF PastThreshold
    <3> QED BY <1>4, <2>3, <3>1, <3>2
  <2> QED BY <1>11, <2>1, <2>2, <2>3 DEF Record
<1>12. ASSUME NEW t \in Tasks, CheckUnrecorded(t) \/ Lock(t) \/ ClearMarker(t) \/ Lose(t)
       PROVE ThrottleTasks'
  BY <1>2, <1>12 DEF CheckUnrecorded, Lock, ClearMarker, Lose
<1>13. CASE UNCHANGED task
  BY <1>0, <1>13 DEF ThrottleTasks
<1> QED
  BY <1>5, <1>6, <1>7, <1>8, <1>9, <1>10, <1>11, <1>12, <1>13 DEF Next, Tick, vars

\* A marker that is there has been counted.
LEMMA MarkerCounted ==
    ASSUME TypeOK, marker = NoEntry \/ marker.n > 0, [Next]_vars
    PROVE  (marker = NoEntry \/ marker.n > 0)'
<1>1. ASSUME NEW t \in Tasks, Arm(t) PROVE marker'.n > 0
  BY <1>1 DEF Arm, Increment, Live, NoEntry, TypeOK
<1>2. ASSUME NEW t \in Tasks, Lock(t) PROVE marker'.n > 0
  BY <1>2 DEF Lock
<1>3. ASSUME NEW t \in Tasks, ClearMarker(t) PROVE marker' = NoEntry
  BY <1>3 DEF ClearMarker
<1>4. CASE UNCHANGED marker
  BY <1>4
<1> QED
  BY <1>1, <1>2, <1>3, <1>4 DEF Next, Submit, Gate, Count, Check, CheckUnrecorded, Consume,
     Record, AdminClear, ClearCounter, Lose, Tick, vars

\* A code is admitted within the share of its window, or with a lockout.
LEMMA OtpCount ==
    ASSUME TypeOK, hist \in HistState, NEW W \in Nat, NEW K \in Nat, OtpFits(W, K),
           NEW t \in Tasks, Count(t)
    PROVE  \E V \in Nat : OtpFits(V, K)'
<1> USE ThrottleAssumption DEF ThrottleAssumption
<1>1. MinWait \in Nat
  BY WaitFacts
<1>2. OtpShare \in Nat
  BY DEF OtpShare, Sub
<1>3. PICK c \in [n : Nat, exp : Nat] : c = Increment(counter, FailureTTL)
  BY IncrementType DEF TypeOK
<1>4. PICK V \in Nat :
        /\ Windowed(FailureTTL, V, c, now, hist.epoch)
        /\ Counted(OtpShare, W, counter) <= Counted(OtpShare, V, c)
        /\ c.n <= OtpShare => Counted(OtpShare, W, counter) + 1 <= Counted(OtpShare, V, c)
  BY <1>2, <1>3, CountStep, HistFacts DEF OtpFits, TypeOK
<1>5. Counted(OtpShare, W, counter) \in Nat /\ Counted(OtpShare, V, c) \in Nat
  BY <1>2, CountedType DEF TypeOK
<1>6. counter' = c /\ UNCHANGED <<now, marker>>
  BY <1>3 DEF Count
<1>7. /\ hist'.epoch = hist.epoch /\ hist'.lifted = hist.lifted
      /\ hist'.tried <= Counted(OtpShare, V, c) + hist.lifted + K
  <2>0. hist.tried \in Nat /\ hist.lifted \in Nat
    BY HistFacts
  <2>1. CASE hist' = hist
    BY <1>4, <1>5, <2>0, <2>1 DEF OtpFits
  <2>2. CASE /\ hist' = Admitted(hist)
             /\ \/ ~PastThreshold(c.n)
                \/ LockoutFor(c.n) = 0 /\ c.n <= (IF MaxFailures = 0 THEN 1 ELSE MaxFailures)
    <3>1. c.n <= OtpShare
      <4>1. CASE ~PastThreshold(c.n)
        BY <1>1, <4>1 DEF PastThreshold, OtpShare, Sub
      <4>2. CASE PastThreshold(c.n)
        <5>1. MinWait = 0
          BY <2>2, <4>2, WaitFacts DEF PastThreshold
        <5> QED BY <2>2, <4>2, <5>1 DEF OtpShare, Sub
      <4> QED BY <4>1, <4>2
    <3>2. hist'.tried = hist.tried + 1 /\ hist'.epoch = hist.epoch /\ hist'.lifted = hist.lifted
      BY <2>2 DEF Admitted, HistState
    <3> QED BY <1>4, <1>5, <2>0, <3>1, <3>2 DEF OtpFits
  <2> QED BY <1>3, <2>1, <2>2 DEF Count
<1> QED BY <1>4, <1>6, <1>7 DEF OtpFits

\* A lockout begins when no marker is left, MinWait after the one before.
LEMMA OtpArm ==
    ASSUME TypeOK, hist \in HistState, ThrottleTasks, marker = NoEntry \/ marker.n > 0,
           NEW W \in Nat, NEW K \in Nat, OtpFits(W, K), NEW t \in Tasks, Arm(t)
    PROVE  \E L \in Nat : OtpFits(W, L)'
<1> USE ThrottleAssumption DEF ThrottleAssumption
<1>0. hist.tried \in Nat /\ hist.lifted \in Nat /\ hist.epoch \in Nat /\ now \in Nat
      /\ marker.exp \in Nat /\ Counted(OtpShare, W, counter) \in Nat
  BY HistFacts, CountedType, SharesType DEF TypeOK
<1>1. PICK wait \in Nat : wait = LockoutFor(task[t].n)
  BY LockoutForType, TaskType DEF TypeOK
<1>2. MinWait \in Nat /\ MinWait > 0 /\ wait >= MinWait
  BY <1>1, WaitFacts, TaskType DEF Arm, ThrottleTasks, TypeOK
<1>3. marker' = Increment(marker, wait) /\ UNCHANGED <<now, counter>>
  BY <1>1 DEF Arm
<1>4. CASE Live(marker)
  <2>1. marker'.exp = marker.exp /\ marker'.n = marker.n + 1 /\ marker.n > 0 /\ marker.n \in Nat
    BY <1>3, <1>4 DEF Increment, Live, TypeOK, NoEntry
  <2>2. hist' = hist
    BY <1>1, <1>3, <2>1 DEF Arm, Arms
  <2> QED BY <1>3, <2>1, <2>2 DEF OtpFits
<1>5. CASE ~Live(marker)
  <2>1. marker'.exp = now + wait /\ marker.exp <= now
    BY <1>0, <1>1, <1>3, <1>5 DEF Increment, Live
  <2>2. /\ hist'.tried \in Nat /\ hist'.tried <= hist.tried + 1
        /\ hist'.epoch = hist.epoch /\ hist'.lifted = hist.lifted
    <3>1. CASE hist' = hist
      BY <1>0, <3>1
    <3>2. CASE hist' = Admitted(hist)
      BY <1>0, <3>2 DEF Admitted, HistState
    <3> QED BY <3>1, <3>2 DEF Arm
  <2>3. K * MinWait \in Nat /\ (K + 1) * MinWait = K * MinWait + MinWait
    BY <1>2, NextMultiple
  <2>4. hist.epoch + K * MinWait <= now
    <3>1. CASE K = 0
      <4>1. 0 * MinWait = 0 /\ W * FailureTTL \in Nat
        BY <1>2, NextMultiple
      <4> QED BY <1>0, <3>1, <4>1 DEF OtpFits, Windowed
    <3>2. CASE K > 0
      BY <1>0, <2>1, <2>3, <3>2 DEF OtpFits
    <3> QED BY <3>1, <3>2
  <2>5. hist'.tried <= Counted(OtpShare, W, counter') + hist'.lifted + (K + 1)
    BY <1>0, <1>3, <2>2 DEF OtpFits
  <2>6. marker'.exp >= hist.epoch + (K + 1) * MinWait
    BY <1>0, <1>2, <2>1, <2>3, <2>4
  <2>7. (K + 1) - 1 = K
    OBVIOUS
  <2>8. OtpFits(W, K + 1)'
    BY <1>2, <1>3, <2>2, <2>4, <2>5, <2>6, <2>7 DEF OtpFits
  <2> QED BY <2>8
<1> QED BY <1>4, <1>5

\* A lockout that is lifted is counted as such.
LEMMA OtpLift ==
    ASSUME TypeOK, hist \in HistState, NEW W \in Nat, NEW K \in Nat, OtpFits(W, K),
           NEW t \in Tasks, ClearMarker(t)
    PROVE  \E L \in Nat : OtpFits(W, L)'
<1> USE ThrottleAssumption DEF ThrottleAssumption
<1>0. hist.tried \in Nat /\ hist.lifted \in Nat /\ hist.epoch \in Nat /\ now \in Nat
      /\ marker.exp \in Nat /\ Counted(OtpShare, W, counter) \in Nat
  BY HistFacts, CountedType, SharesType DEF TypeOK
<1>1. MinWait \in Nat /\ K * MinWait \in Nat
  BY WaitFacts, NextMultiple
<1>2. UNCHANGED <<now, counter>> /\ marker'.exp = 0
  BY DEF ClearMarker, NoEntry
<1>3. hist'.tried = hist.tried /\ hist'.epoch = hist.epoch
  BY DEF ClearMarker, HistState
<1>4. CASE ~Live(marker)
  <2>1. hist'.lifted = hist.lifted
    BY <1>4 DEF ClearMarker, HistState
  <2>2. K > 0 => now >= hist.epoch + K * MinWait
    BY <1>0, <1>1, <1>4 DEF OtpFits, Live
  <2> QED BY <1>2, <1>3, <2>1, <2>2 DEF OtpFits
<1>5. CASE Live(marker)
  <2>1. hist'.lifted = hist.lifted + 1
    BY <1>5 DEF ClearMarker, HistState
  <2>2. CASE K = 0
    BY <1>0, <1>2, <1>3, <2>1, <2>2 DEF OtpFits
  <2>3. CASE K > 0
    <3>1. PICK L \in Nat : L = K - 1 /\ K = L + 1
      BY <2>3
    <3>2. hist'.tried <= Counted(OtpShare, W, counter') + hist'.lifted + L
      BY <1>0, <1>2, <1>3, <2>1, <3>1 DEF OtpFits
    <3>3. MinWait > 0 /\ hist.epoch + L * MinWait <= now
      BY <2>3, <3>1 DEF OtpFits
    <3>4. ASSUME L > 0 PROVE (L - 1) * MinWait <= L * MinWait /\ (L - 1) * MinWait \in Nat
      <4>1. PICK M \in Nat : M = L - 1 /\ L = M + 1
        BY <3>4
      <4> QED BY <1>1, <4>1, NextMultiple
    <3>5. L > 0 => hist.epoch + (L - 1) * MinWait <= now
      BY <1>0, <1>1, <3>3, <3>4, NextMultiple
    <3>6. Windowed(FailureTTL, W, counter', now', hist'.epoch)
      BY <1>2, <1>3 DEF OtpFits
    <3>7. OtpFits(W, L)'
      BY <1>2, <1>3, <3>2, <3>3, <3>5, <3>6 DEF OtpFits
    <3> QED BY <3>7
  <2> QED BY <2>2, <2>3
<1> QED BY <1>4, <1>5

\* A cleared counter starts a new account.
LEMMA OtpClear ==
    ASSUME TypeOK, hist \in HistState, NEW t \in Tasks, ClearCounter(t)
    PROVE  OtpFits(0, 0)'
<1> USE ThrottleAssumption DEF ThrottleAssumption
<1>1. counter' = NoEntry /\ UNCHANGED now /\ now \in Nat
  BY DEF ClearCounter, TypeOK
<1>2. hist'.tried = 0 /\ hist'.epoch = now /\ hist'.lifted = 0
  BY DEF ClearCounter
<1>3. 0 * FailureTTL = 0 /\ OtpShare \in Nat /\ OtpShare * 0 = 0
  BY NextMultiple DEF OtpShare, Sub
<1>4. Windowed(FailureTTL, 0, counter', now', hist'.epoch)
  BY <1>1, <1>2, <1>3 DEF Windowed
<1>5. Counted(OtpShare, 0, counter') = 0
  BY <1>1, <1>3 DEF Counted, Min2, NoEntry
<1> QED BY <1>2, <1>4, <1>5 DEF OtpFits

\* No step of the slot of a one-time code admits a check the account misses.
LEMMA OtpPreserved ==
    ASSUME RateInv, path = "otp", [Next]_vars
    PROVE  (\E W \in Nat, K \in Nat : OtpFits(W, K))'
<1>0. TypeOK /\ hist \in HistState /\ ThrottleTasks /\ (marker = NoEntry \/ marker.n > 0)
  BY DEF RateInv
<1>1. PICK W \in Nat, K \in Nat : OtpFits(W, K)
  BY DEF RateInv
<1>2. ASSUME UNCHANGED <<counter, marker>>, now' \in Nat, now' >= now,
             \/ hist' = hist
             \/ hist' = [hist EXCEPT !.lost = @ + 1]
      PROVE  OtpFits(W, K)'
  <2>1. hist'.tried = hist.tried /\ hist'.epoch = hist.epoch /\ hist'.lifted = hist.lifted
    BY <1>0, <1>2 DEF HistState
  <2> QED BY <1>0, <1>1, <1>2, <2>1, OtpQuiet
<1>3. now \in Nat /\ now >= now
  BY <1>0 DEF TypeOK
<1>4. ASSUME NEW t \in Tasks, Count(t) PROVE \E V \in Nat : OtpFits(V, K)'
  BY <1>0, <1>1, <1>4, OtpCount
<1>5. ASSUME NEW t \in Tasks, Arm(t) PROVE \E L \in Nat : OtpFits(W, L)'
  BY <1>0, <1>1, <1>5, OtpArm
<1>6. ASSUME NEW t \in Tasks, ClearMarker(t) PROVE \E L \in Nat : OtpFits(W, L)'
  BY <1>0, <1>1, <1>6, OtpLift
<1>7. ASSUME NEW t \in Tasks, ClearCounter(t) PROVE OtpFits(0, 0)'
  BY <1>0, <1>7, OtpClear
<1>8. ASSUME NEW t \in Tasks,
             \/ Submit(t) \/ Gate(t) \/ Check(t) \/ Consume(t) \/ CheckUnrecorded(t)
             \/ AdminClear(t) \/ Lose(t)
      PROVE  OtpFits(W, K)'
  BY <1>2, <1>3, <1>8 DEF Submit, Gate, Check, Consume, CheckUnrecorded, AdminClear, Lose
<1>9. ASSUME NEW t \in Tasks, Record(t) \/ Lock(t) PROVE FALSE
  BY <1>0, <1>9 DEF Record, Lock, ThrottleTasks
<1>10. CASE Tick
  BY <1>2, <1>3, <1>10 DEF Tick
<1>11. CASE UNCHANGED vars
  BY <1>2, <1>3, <1>11 DEF vars
<1> QED
  BY <1>1, <1>4, <1>5, <1>6, <1>7, <1>8, <1>9, <1>10, <1>11 DEF Next

-----------------------------------------------------------------------------
(* The password path *)

Checking(pc) == pc \in {"check", "record", "clearCounter"}

\* A set of requests that a step changes by at most one.
LEMMA OneMoves ==
    ASSUME NEW F \in SUBSET Tasks, NEW G \in SUBSET Tasks, NEW t \in Tasks,
           \A r \in Tasks : r # t => (r \in F <=> r \in G)
    PROVE  /\ Cardinality(F) \in Nat /\ Cardinality(G) \in Nat
           /\ Cardinality(F) <= Cardinality(Tasks)
           /\ t \in F /\ t \in G => Cardinality(G) = Cardinality(F)
           /\ t \notin F /\ t \notin G => Cardinality(G) = Cardinality(F)
           /\ t \notin F /\ t \in G => Cardinality(G) = Cardinality(F) + 1
           /\ t \in F /\ t \notin G => Cardinality(F) = Cardinality(G) + 1
<1> USE ThrottleAssumption DEF ThrottleAssumption
<1>1. /\ IsFiniteSet(F) /\ IsFiniteSet(G)
      /\ Cardinality(F) \in Nat /\ Cardinality(G) \in Nat /\ Cardinality(F) <= Cardinality(Tasks)
  BY FS_Subset, FS_CardinalityType
<1>2. CASE (t \in F) <=> (t \in G)
  <2>1. F = G
    BY <1>2
  <2> QED BY <1>1, <1>2, <2>1
<1>3. CASE t \notin F /\ t \in G
  <2>1. G = F \cup {t}
    BY <1>3
  <2>2. Cardinality(G) = Cardinality(F) + 1
    BY <1>1, <1>3, <2>1, FS_AddElement
  <2> QED BY <1>1, <1>3, <2>2
<1>4. CASE t \in F /\ t \notin G
  <2>1. F = G \cup {t}
    BY <1>4
  <2>2. Cardinality(F) = Cardinality(G) + 1
    BY <1>1, <1>4, <2>1, FS_AddElement
  <2> QED BY <1>1, <1>4, <2>2
<1> QED BY <1>2, <1>3, <1>4

\* What a step of one request does to the number of checks in flight.
LEMMA FlightStep ==
    ASSUME TypeOK, NEW t \in Tasks, NEW x \in TaskState, task' = [task EXCEPT ![t] = x]
    PROVE  \E f \in Nat, g \in Nat :
             /\ f = Cardinality(InFlight) /\ g = Cardinality(InFlight')
             /\ f <= Cardinality(Tasks)
             /\ Checking(x.pc) /\ Checking(task[t].pc) => g = f
             /\ ~Checking(x.pc) /\ ~Checking(task[t].pc) => g = f
             /\ Checking(x.pc) /\ ~Checking(task[t].pc) => g = f + 1
             /\ ~Checking(x.pc) /\ Checking(task[t].pc) => f = g + 1
<1>1. PICK F, G : F = InFlight /\ G = InFlight'
  OBVIOUS
<1>2. F \in SUBSET Tasks /\ G \in SUBSET Tasks
  BY <1>1 DEF InFlight
<1>3. t \in F <=> Checking(task[t].pc)
  BY <1>1 DEF InFlight, Checking
<1>4. t \in G <=> Checking(x.pc)
  BY <1>1 DEF InFlight, Checking, TypeOK
<1>5. \A r \in Tasks : r # t => (r \in F <=> r \in G)
  BY <1>1 DEF InFlight, TypeOK
<1>6. /\ Cardinality(F) \in Nat /\ Cardinality(G) \in Nat
      /\ Cardinality(F) <= Cardinality(Tasks)
      /\ t \in F /\ t \in G => Cardinality(G) = Cardinality(F)
      /\ t \notin F /\ t \notin G => Cardinality(G) = Cardinality(F)
      /\ t \notin F /\ t \in G => Cardinality(G) = Cardinality(F) + 1
      /\ t \in F /\ t \notin G => Cardinality(F) = Cardinality(G) + 1
  BY <1>2, <1>5, OneMoves
<1> QED BY <1>1, <1>3, <1>4, <1>6

\* The numbers of the account of a password slot.
LEMMA AccountTypes ==
    ASSUME TypeOK, hist \in HistState, NEW W \in Nat, NEW R \in Nat, NEW K \in Nat,
           NEW D \in SUBSET Tasks
    PROVE  /\ hist.tried \in Nat /\ hist.epoch \in Nat /\ hist.lifted \in Nat /\ hist.lost \in Nat
           /\ now \in Nat /\ marker.exp \in Nat /\ MinWait \in Nat
           /\ Counted(Sub, W, counter) \in Nat
           /\ Cardinality(Tasks) \in Nat /\ Cardinality(Tasks) * R \in Nat
           /\ IsFiniteSet(D) /\ Cardinality(D) \in Nat /\ Cardinality(D) <= Cardinality(Tasks)
           /\ IsFiniteSet(InFlight) /\ Cardinality(InFlight) \in Nat
           /\ Cardinality(InFlight) <= Cardinality(Tasks)
           /\ K * MinWait \in Nat /\ W * FailureTTL \in Nat /\ (W + 1) * FailureTTL \in Nat
<1> USE ThrottleAssumption DEF ThrottleAssumption
<1>1. hist.tried \in Nat /\ hist.epoch \in Nat /\ hist.lifted \in Nat /\ hist.lost \in Nat
  BY HistFacts
<1>2. now \in Nat /\ marker.exp \in Nat /\ MinWait \in Nat
  BY WaitFacts DEF TypeOK
<1>3. Counted(Sub, W, counter) \in Nat
  BY CountedType, SharesType DEF TypeOK
<1>4. Cardinality(Tasks) \in Nat
  BY FS_CardinalityType
<1>5. IsFiniteSet(D) /\ Cardinality(D) \in Nat /\ Cardinality(D) <= Cardinality(Tasks)
  BY FS_Subset, FS_CardinalityType
<1>6. InFlight \subseteq Tasks
  BY DEF InFlight
<1>7. /\ IsFiniteSet(InFlight) /\ Cardinality(InFlight) \in Nat
      /\ Cardinality(InFlight) <= Cardinality(Tasks)
  BY <1>6, FS_Subset, FS_CardinalityType
<1>8. /\ Cardinality(Tasks) * R \in Nat
      /\ K * MinWait \in Nat /\ W * FailureTTL \in Nat /\ (W + 1) * FailureTTL \in Nat
  BY <1>2, <1>4, NextMultiple
<1> QED BY <1>1, <1>2, <1>3, <1>4, <1>5, <1>7, <1>8

\* A step of one request that leaves the cache and the clock alone: a check it
\* begins is in flight, and it begins none in a round it has failed in.
LEMMA PasswordQuiet ==
    ASSUME TypeOK, hist \in HistState, hist' \in HistState,
           NEW W \in Nat, NEW R \in Nat, NEW K \in Nat, NEW l \in Nat, NEW s \in Nat,
           NEW D \in SUBSET Tasks, NEW E \in SUBSET D, PasswordFits(W, R, K, l, s, D),
           NEW t \in Tasks, NEW x \in TaskState, task' = [task EXCEPT ![t] = x],
           UNCHANGED <<now, counter, marker>>,
           hist'.epoch = hist.epoch, hist'.lifted = hist.lifted,
           hist'.tried + Cardinality(D) + Cardinality(InFlight) + hist.lost
             <= hist.tried + Cardinality(E) + Cardinality(InFlight') + hist'.lost,
           t \in E /\ x.pc \in {"check", "record"} => Over(l, s),
           t \in E => task[t].pc # "lock"
    PROVE  PasswordFits(W, R, K, l, s, E)'
<1>1. \A r \in E : task'[r].pc # "lock" =>
        \/ Over(l, s)
        \/ marker.exp >= s + MinWait /\ task'[r].pc \notin {"check", "record"}
  <2> SUFFICES ASSUME NEW r \in E, task'[r].pc # "lock"
               PROVE  \/ Over(l, s)
                      \/ marker.exp >= s + MinWait /\ task'[r].pc \notin {"check", "record"}
    OBVIOUS
  <2>1. CASE r = t
    <3>1. task'[r] = x
      BY <2>1 DEF TypeOK
    <3> QED BY <2>1, <3>1 DEF PasswordFits
  <2>2. CASE r # t
    <3>1. task'[r] = task[r]
      BY <2>2 DEF TypeOK
    <3> QED BY <3>1 DEF PasswordFits
  <2> QED BY <2>1, <2>2
<1>2. Over(l, s)' <=> Over(l, s)
  BY DEF Over
<1>3. PICK f \in Nat, g \in Nat : f = Cardinality(InFlight) /\ g = Cardinality(InFlight')
  BY FlightStep
<1>4. E \in SUBSET Tasks
  OBVIOUS
<1>5. hist'.tried <= Counted(Sub, W, counter') + Cardinality(Tasks) * R + Cardinality(E)
                     + Cardinality(InFlight') + hist'.lost
  <2>1. hist'.tried \in Nat /\ hist'.lost \in Nat
    BY HistFacts
  <2>2. Cardinality(E) \in Nat
    BY <1>4, AccountTypes
  <2>3. PICK a \in Nat, p \in Nat, d \in Nat : a = Counted(Sub, W, counter)
                /\ p = Cardinality(Tasks) * R /\ d = Cardinality(D)
    BY AccountTypes, ZenonT(30)
  <2>4. hist.tried <= a + p + d + f + hist.lost /\ hist.tried \in Nat /\ hist.lost \in Nat
    BY <1>3, <2>3, AccountTypes DEF PasswordFits
  <2>5. hist'.tried <= a + p + Cardinality(E) + g + hist'.lost
    BY <1>3, <2>1, <2>2, <2>3, <2>4
  <2> QED BY <1>3, <2>3, <2>5
<1>6. Windowed(FailureTTL, W, counter', now', hist'.epoch)
  BY DEF PasswordFits
<1>7. R <= K + l /\ l <= hist'.lifted /\ hist'.epoch + K * MinWait <= s /\ s <= now'
  BY DEF PasswordFits
<1> QED BY <1>1, <1>2, <1>5, <1>6, <1>7 DEF PasswordFits

\* A request that only changes its place: no check begins outside the flight,
\* and a check that ends was counted or is recorded as lost.
LEMMA PasswordMove ==
    ASSUME TypeOK, hist \in HistState, hist' \in HistState,
           NEW W \in Nat, NEW R \in Nat, NEW K \in Nat, NEW l \in Nat, NEW s \in Nat,
           NEW D \in SUBSET Tasks, PasswordFits(W, R, K, l, s, D),
           NEW t \in Tasks, NEW x \in TaskState, task' = [task EXCEPT ![t] = x],
           UNCHANGED <<now, counter, marker>>, task[t].pc # "lock",
           x.pc \in {"check", "record"} => task[t].pc = "check" \/ ~Live(marker),
           \/ hist' = hist /\ (Checking(task[t].pc) => Checking(x.pc))
           \/ hist' = Admitted(hist) /\ Checking(x.pc) /\ ~Checking(task[t].pc)
           \/ hist' = [hist EXCEPT !.lost = @ + 1]
    PROVE  PasswordFits(W, R, K, l, s, D)'
<1>1. PICK f \in Nat, g \in Nat :
        /\ f = Cardinality(InFlight) /\ g = Cardinality(InFlight')
        /\ Checking(x.pc) /\ Checking(task[t].pc) => g = f
        /\ ~Checking(x.pc) /\ ~Checking(task[t].pc) => g = f
        /\ Checking(x.pc) /\ ~Checking(task[t].pc) => g = f + 1
        /\ ~Checking(x.pc) /\ Checking(task[t].pc) => f = g + 1
  BY FlightStep
<1>2. /\ hist.tried \in Nat /\ hist.lost \in Nat /\ Cardinality(D) \in Nat
      /\ now \in Nat /\ marker.exp \in Nat /\ MinWait \in Nat
  BY AccountTypes
<1>3. /\ hist'.epoch = hist.epoch /\ hist'.lifted = hist.lifted
      /\ hist'.tried + f + hist.lost <= hist.tried + g + hist'.lost
      /\ hist'.tried \in Nat /\ hist'.lost \in Nat
  <2>1. CASE hist' = hist /\ (Checking(task[t].pc) => Checking(x.pc))
    BY <1>1, <1>2, <2>1
  <2>2. CASE hist' = Admitted(hist) /\ Checking(x.pc) /\ ~Checking(task[t].pc)
    <3>1. /\ hist'.tried = hist.tried + 1 /\ hist'.lost = hist.lost
          /\ hist'.epoch = hist.epoch /\ hist'.lifted = hist.lifted
      BY <2>2 DEF Admitted, HistState
    <3> QED BY <1>1, <1>2, <2>2, <3>1
  <2>3. CASE hist' = [hist EXCEPT !.lost = @ + 1]
    <3>1. /\ hist'.tried = hist.tried /\ hist'.lost = hist.lost + 1
          /\ hist'.epoch = hist.epoch /\ hist'.lifted = hist.lifted
      BY <2>3 DEF HistState
    <3>2. f <= g + 1
      BY <1>1
    <3> QED BY <1>1, <1>2, <3>1, <3>2
  <2> QED BY <2>1, <2>2, <2>3
<1>4. hist'.tried + Cardinality(D) + Cardinality(InFlight) + hist.lost
        <= hist.tried + Cardinality(D) + Cardinality(InFlight') + hist'.lost
  BY <1>1, <1>2, <1>3
<1>5. t \in D /\ x.pc \in {"check", "record"} => Over(l, s)
  <2>1. SUFFICES ASSUME t \in D, x.pc \in {"check", "record"} PROVE Over(l, s)
    OBVIOUS
  <2>2. \/ Over(l, s)
        \/ marker.exp >= s + MinWait /\ task[t].pc # "check"
    BY <2>1 DEF PasswordFits
  <2>3. ~Live(marker) /\ marker.exp >= s + MinWait => now >= s + MinWait
    BY <1>2 DEF Live
  <2> QED BY <2>1, <2>2, <2>3 DEF Over
<1>6. D \in SUBSET D
  OBVIOUS
<1> QED BY <1>3, <1>4, <1>5, <1>6, PasswordQuiet

\* A request that is lost before it sets its marker leaves the round.
LEMMA PasswordLost ==
    ASSUME TypeOK, hist \in HistState, hist' \in HistState,
           NEW W \in Nat, NEW R \in Nat, NEW K \in Nat, NEW l \in Nat, NEW s \in Nat,
           NEW D \in SUBSET Tasks, PasswordFits(W, R, K, l, s, D),
           NEW t \in Tasks, Lose(t), task[t].pc = "lock"
    PROVE  PasswordFits(W, R, K, l, s, D \ {t})'
<1>1. IdleTask \in TaskState /\ IdleTask.pc = "idle"
  BY DEF IdleTask, TaskState, PCs
<1>2. task' = [task EXCEPT ![t] = IdleTask]
  BY DEF Lose, Done
<1>3. PICK f \in Nat, g \in Nat :
        f = Cardinality(InFlight) /\ g = Cardinality(InFlight') /\ g = f
  BY <1>1, <1>2, FlightStep DEF Checking
<1>4. hist.tried \in Nat /\ hist.lost \in Nat /\ Cardinality(D) \in Nat /\ IsFiniteSet(D)
  BY AccountTypes
<1>5. Cardinality(D \ {t}) \in Nat /\ Cardinality(D) <= Cardinality(D \ {t}) + 1
  <2>1. CASE t \in D
    <3>1. IsFiniteSet(D \ {t})
      BY <1>4, FS_RemoveElement
    <3>2. Cardinality(D \ {t}) = Cardinality(D) - 1
      BY <1>4, <2>1, FS_RemoveElement
    <3> QED BY <1>4, <3>1, <3>2, FS_CardinalityType
  <2>2. CASE t \notin D
    <3>1. D \ {t} = D
      BY <2>2
    <3> QED BY <1>4, <3>1
  <2> QED BY <2>1, <2>2
<1>6. /\ hist'.tried = hist.tried /\ hist'.lost = hist.lost + 1
      /\ hist'.epoch = hist.epoch /\ hist'.lifted = hist.lifted
  BY DEF Lose, HistState
<1>7. hist'.tried + Cardinality(D) + Cardinality(InFlight) + hist.lost
        <= hist.tried + Cardinality(D \ {t}) + Cardinality(InFlight') + hist'.lost
  BY <1>3, <1>4, <1>5, <1>6
<1>8. D \ {t} \in SUBSET D /\ t \notin D \ {t} /\ UNCHANGED <<now, counter, marker>>
  BY DEF Lose
<1> QED BY <1>1, <1>2, <1>6, <1>7, <1>8, PasswordQuiet

\* Time passes.
LEMMA PasswordTick ==
    ASSUME TypeOK, hist \in HistState,
           NEW W \in Nat, NEW R \in Nat, NEW K \in Nat, NEW l \in Nat, NEW s \in Nat,
           NEW D \in SUBSET Tasks, PasswordFits(W, R, K, l, s, D),
           UNCHANGED <<counter, marker, task, hist>>, now' \in Nat, now' >= now
    PROVE  PasswordFits(W, R, K, l, s, D)'
<1>0. /\ now \in Nat /\ MinWait \in Nat /\ hist.epoch \in Nat /\ hist.lifted \in Nat
      /\ W * FailureTTL \in Nat
  BY AccountTypes
<1>1. Windowed(FailureTTL, W, counter, now, hist.epoch)'
  BY <1>0 DEF PasswordFits, Windowed
<1>2. Over(l, s) => Over(l, s)'
  BY <1>0 DEF Over
<1>3. \A r \in D : task'[r].pc # "lock" =>
        \/ Over(l, s)'
        \/ marker'.exp >= s + MinWait /\ task'[r].pc \notin {"check", "record"}
  BY <1>2 DEF PasswordFits
<1>4. s <= now'
  BY AccountTypes DEF PasswordFits
<1>5. InFlight' = InFlight
  BY DEF InFlight
<1> QED BY <1>1, <1>3, <1>4, <1>5 DEF PasswordFits

\* The marker of a round lasts as long as the round.
LEMMA PasswordLock ==
    ASSUME TypeOK, hist \in HistState, ThrottleTasks,
           NEW W \in Nat, NEW R \in Nat, NEW K \in Nat, NEW l \in Nat, NEW s \in Nat,
           NEW D \in SUBSET Tasks, PasswordFits(W, R, K, l, s, D), NEW t \in Tasks, Lock(t)
    PROVE  PasswordFits(W, R, K, l, s, D)'
<1>1. IdleTask \in TaskState /\ IdleTask.pc = "idle"
  BY DEF IdleTask, TaskState, PCs
<1>2. task' = [task EXCEPT ![t] = IdleTask] /\ UNCHANGED <<now, counter, hist>>
  BY DEF Lock, Done
<1>3. Cardinality(InFlight') = Cardinality(InFlight)
  <2>1. ~Checking(IdleTask.pc) /\ ~Checking(task[t].pc)
    BY <1>1 DEF Checking, Lock
  <2>2. PICK f \in Nat, g \in Nat :
          f = Cardinality(InFlight) /\ g = Cardinality(InFlight') /\ g = f
    BY <1>1, <1>2, <2>1, FlightStep
  <2> QED BY <2>2
<1>4. marker'.exp >= s + MinWait
  <2>1. marker'.exp = now + LockoutFor(task[t].n)
    BY DEF Lock
  <2>2. LockoutFor(task[t].n) \in Nat /\ LockoutFor(task[t].n) >= MinWait /\ MinWait \in Nat
    BY WaitFacts, TaskType DEF Lock, ThrottleTasks, TypeOK
  <2>3. s <= now /\ now \in Nat
    BY AccountTypes DEF PasswordFits
  <2> QED BY <2>1, <2>2, <2>3
<1>5. \A r \in D : task'[r].pc # "lock" =>
        \/ Over(l, s)
        \/ marker'.exp >= s + MinWait /\ task'[r].pc \notin {"check", "record"}
  BY <1>1, <1>2, <1>4 DEF PasswordFits, TypeOK
<1>6. Over(l, s)' <=> Over(l, s)
  BY <1>2 DEF Over
<1> QED BY <1>2, <1>3, <1>5, <1>6 DEF PasswordFits

\* A lifted or dead marker ends the round.
LEMMA PasswordLift ==
    ASSUME TypeOK, hist \in HistState,
           NEW W \in Nat, NEW R \in Nat, NEW K \in Nat, NEW l \in Nat, NEW s \in Nat,
           NEW D \in SUBSET Tasks, PasswordFits(W, R, K, l, s, D), NEW t \in Tasks, ClearMarker(t)
    PROVE  PasswordFits(W, R, K, l, s, D)'
<1>0. now \in Nat /\ marker.exp \in Nat /\ MinWait \in Nat /\ hist.lifted \in Nat
  BY AccountTypes
<1>1. IdleTask \in TaskState /\ IdleTask.pc = "idle"
  BY DEF IdleTask, TaskState, PCs
<1>2. task' = [task EXCEPT ![t] = IdleTask] /\ UNCHANGED <<now, counter>>
  BY DEF ClearMarker, Done
<1>3. Cardinality(InFlight') = Cardinality(InFlight)
  <2>1. ~Checking(IdleTask.pc) /\ ~Checking(task[t].pc)
    BY <1>1 DEF Checking, ClearMarker
  <2>2. PICK f \in Nat, g \in Nat :
          f = Cardinality(InFlight) /\ g = Cardinality(InFlight') /\ g = f
    BY <1>1, <1>2, <2>1, FlightStep
  <2> QED BY <2>2
<1>4. /\ hist'.tried = hist.tried /\ hist'.lost = hist.lost /\ hist'.epoch = hist.epoch
      /\ hist'.lifted = IF Live(marker) THEN hist.lifted + 1 ELSE hist.lifted
  BY DEF ClearMarker, HistState
<1>5. l <= hist'.lifted
  BY <1>0, <1>4 DEF PasswordFits
<1>6. \A r \in D : task'[r].pc # "lock" => Over(l, s)'
  <2> SUFFICES ASSUME NEW r \in D, task'[r].pc # "lock" PROVE Over(l, s)'
    OBVIOUS
  <2>1. CASE Live(marker)
    BY <1>0, <1>4, <2>1 DEF Over, PasswordFits
  <2>2. CASE ~Live(marker)
    <3>1. task[r].pc # "lock"
      BY <1>2 DEF ClearMarker, TypeOK
    <3>2. Over(l, s) \/ marker.exp >= s + MinWait
      BY <3>1 DEF PasswordFits
    <3>3. Over(l, s)
      BY <1>0, <2>2, <3>2 DEF Over, Live
    <3> QED BY <1>2, <1>4, <2>2, <3>3 DEF Over
  <2> QED BY <2>1, <2>2
<1> QED BY <1>2, <1>3, <1>4, <1>5, <1>6 DEF PasswordFits

\* A cleared counter starts a new account.
LEMMA PasswordClear ==
    ASSUME TypeOK, TypeOK', hist \in HistState, hist' \in HistState, NEW t \in Tasks, ClearCounter(t)
    PROVE  \E s \in Nat : PasswordFits(0, 0, 0, 0, s, {})'
<1> USE ThrottleAssumption DEF ThrottleAssumption
<1>1. counter' = NoEntry /\ UNCHANGED now /\ now \in Nat
  BY DEF ClearCounter, TypeOK
<1>2. hist'.tried = 0 /\ hist'.epoch = now /\ hist'.lifted = 0
  BY DEF ClearCounter
<1>3. 0 * FailureTTL = 0 /\ 0 * MinWait = 0 /\ Sub \in Nat /\ Sub * 0 = 0 /\ MinWait \in Nat
  BY NextMultiple, SharesType, WaitFacts
<1>4. Windowed(FailureTTL, 0, counter', now', hist'.epoch)
  BY <1>1, <1>2, <1>3 DEF Windowed
<1>5. Counted(Sub, 0, counter') = 0
  BY <1>1, <1>3 DEF Counted, Min2, NoEntry
<1>6. Cardinality({}) = 0 /\ Cardinality(Tasks) \in Nat /\ Cardinality(Tasks) * 0 = 0
  BY FS_EmptySet, FS_CardinalityType, NextMultiple
<1>7. Cardinality(InFlight') \in Nat /\ hist'.lost \in Nat
  <2>1. InFlight' \subseteq Tasks
    BY DEF InFlight
  <2> QED BY <2>1, FS_Subset, FS_CardinalityType, HistFacts
<1>8. PasswordFits(0, 0, 0, 0, now, {})'
  BY <1>1, <1>2, <1>3, <1>4, <1>5, <1>6, <1>7 DEF PasswordFits
<1> QED BY <1>1, <1>8

\* A failure below the threshold is counted; the one that reaches it joins the
\* round, or, when it has been in it already, the round is over and it opens
\* the next.
LEMMA PasswordRecord ==
    ASSUME TypeOK, hist \in HistState, MinWait > 0,
           NEW W \in Nat, NEW R \in Nat, NEW K \in Nat, NEW l \in Nat, NEW s \in Nat,
           NEW D \in SUBSET Tasks, PasswordFits(W, R, K, l, s, D), NEW t \in Tasks, Record(t)
    PROVE  \E V \in Nat, Q \in Nat, L \in Nat, m \in Nat, u \in Nat, E \in SUBSET Tasks :
              PasswordFits(V, Q, L, m, u, E)'
<1>0. /\ hist.tried \in Nat /\ hist.epoch \in Nat /\ hist.lifted \in Nat /\ hist.lost \in Nat
      /\ now \in Nat /\ MinWait \in Nat /\ K * MinWait \in Nat
      /\ Cardinality(Tasks) \in Nat /\ Cardinality(Tasks) * R \in Nat
      /\ IsFiniteSet(D) /\ Cardinality(D) \in Nat /\ Cardinality(D) <= Cardinality(Tasks)
  BY AccountTypes
<1> USE ThrottleAssumption DEF ThrottleAssumption
<1>1. PICK c \in [n : Nat, exp : Nat] : c = Increment(counter, FailureTTL)
  BY IncrementType DEF TypeOK
<1>2. PICK V \in Nat :
        /\ Windowed(FailureTTL, V, c, now, hist.epoch)
        /\ Counted(Sub, W, counter) <= Counted(Sub, V, c)
        /\ c.n <= Sub => Counted(Sub, W, counter) + 1 <= Counted(Sub, V, c)
  BY <1>0, <1>1, CountStep, SharesType DEF PasswordFits, TypeOK
<1>3. PICK a \in Nat, b \in Nat : a = Counted(Sub, W, counter) /\ b = Counted(Sub, V, c)
  BY CountedType, SharesType DEF TypeOK
<1>4. task[t].pc = "record" /\ counter' = c /\ UNCHANGED <<now, marker, hist>>
  BY <1>1 DEF Record
<1>5. t \in D => Over(l, s)
  BY <1>4 DEF PasswordFits
<1>6. PICK x \in TaskState :
        /\ task' = [task EXCEPT ![t] = x]
        /\ \/ x.pc = "idle" /\ ~PastThreshold(c.n)
           \/ x.pc = "lock"
  <2>1. c.n >= MaxFailures => LockoutFor(c.n) > 0
    BY <1>0, WaitFacts
  <2>2. CASE PastThreshold(c.n)
    <3>1. task' = [task EXCEPT ![t] = [task[t] EXCEPT !.pc = "lock", !.n = c.n]]
      BY <1>1, <2>1, <2>2 DEF Record, PastThreshold
    <3>2. [task[t] EXCEPT !.pc = "lock", !.n = c.n] \in TaskState
      BY TaskType DEF TypeOK, PCs
    <3>3. [task[t] EXCEPT !.pc = "lock", !.n = c.n].pc = "lock"
      BY DEF TypeOK, TaskState
    <3> QED BY <3>1, <3>2, <3>3
  <2>3. CASE ~PastThreshold(c.n)
    <3>1. task' = [task EXCEPT ![t] = IdleTask]
      BY <1>1, <2>3 DEF Record, Done
    <3>2. IdleTask \in TaskState /\ IdleTask.pc = "idle"
      BY DEF IdleTask, TaskState, PCs
    <3> QED BY <2>3, <3>1, <3>2
  <2> QED BY <2>2, <2>3
<1>7. PICK f \in Nat, g \in Nat :
        f = Cardinality(InFlight) /\ g = Cardinality(InFlight') /\ f = g + 1
  <2>1. Checking(task[t].pc) /\ ~Checking(x.pc)
    BY <1>4, <1>6 DEF Checking
  <2> QED BY <1>6, <2>1, FlightStep
<1>8. hist.tried <= a + Cardinality(Tasks) * R + Cardinality(D) + (g + 1) + hist.lost
  BY <1>3, <1>7 DEF PasswordFits
<1>9. Over(l, s)' <=> Over(l, s)
  BY <1>4 DEF Over
<1>10. \A r \in D : r # t => task'[r] = task[r]
  BY <1>6 DEF TypeOK
<1>11. task'[t] = x
  BY <1>6 DEF TypeOK
<1>12. CASE x.pc = "idle" /\ ~PastThreshold(c.n)
  <2>1. c.n <= Sub
    BY <1>12 DEF PastThreshold, Sub
  <2>2. hist'.tried <= b + Cardinality(Tasks) * R + Cardinality(D) + g + hist'.lost
    BY <1>0, <1>2, <1>3, <1>4, <1>8, <2>1
  <2>3. \A r \in D : task'[r].pc # "lock" =>
          \/ Over(l, s)'
          \/ marker'.exp >= s + MinWait /\ task'[r].pc \notin {"check", "record"}
    BY <1>4, <1>5, <1>9, <1>10 DEF PasswordFits
  <2>4. PasswordFits(V, R, K, l, s, D)'
    BY <1>2, <1>3, <1>4, <1>7, <2>2, <2>3 DEF PasswordFits
  <2> QED BY <2>4
<1>13. CASE x.pc = "lock" /\ t \notin D
  <2>1. Cardinality(D \cup {t}) = Cardinality(D) + 1
    BY <1>0, <1>13, FS_AddElement
  <2>2. hist'.tried <= b + Cardinality(Tasks) * R + Cardinality(D \cup {t}) + g + hist'.lost
    BY <1>0, <1>2, <1>3, <1>4, <1>8, <2>1
  <2>3. \A r \in D \cup {t} : task'[r].pc # "lock" =>
          \/ Over(l, s)'
          \/ marker'.exp >= s + MinWait /\ task'[r].pc \notin {"check", "record"}
    BY <1>4, <1>9, <1>10, <1>11, <1>13 DEF PasswordFits
  <2>4. PasswordFits(V, R, K, l, s, D \cup {t})'
    BY <1>2, <1>3, <1>4, <1>7, <2>2, <2>3 DEF PasswordFits
  <2>5. D \cup {t} \in SUBSET Tasks
    OBVIOUS
  <2> QED BY <2>4, <2>5
<1>14. CASE x.pc = "lock" /\ t \in D
  <2>1. PICK L \in Nat : R + 1 <= L + hist.lifted /\ hist.epoch + L * MinWait <= now
    <3>0. R <= K + l /\ l <= hist.lifted /\ hist.epoch + K * MinWait <= s /\ s <= now
      BY DEF PasswordFits
    <3>1. CASE hist.lifted > l
      <4>1. R + 1 <= K + hist.lifted /\ hist.epoch + K * MinWait <= now
        BY <1>0, <3>0, <3>1
      <4> QED BY <4>1
    <3>2. CASE now >= s + MinWait
      <4>1. (K + 1) * MinWait = K * MinWait + MinWait
        BY <1>0, NextMultiple
      <4>2. R + 1 <= (K + 1) + hist.lifted /\ hist.epoch + (K + 1) * MinWait <= now
        BY <1>0, <3>0, <3>2, <4>1
      <4> QED BY <4>2
    <3> QED BY <1>5, <1>14, <3>1, <3>2 DEF Over
  <2>2. Cardinality({t}) = 1
    BY FS_Singleton
  <2>3. Cardinality(Tasks) * (R + 1) = Cardinality(Tasks) * R + Cardinality(Tasks)
    BY <1>0, NextMultiple
  <2>4. hist'.tried <= b + Cardinality(Tasks) * (R + 1) + Cardinality({t}) + g + hist'.lost
    BY <1>0, <1>2, <1>3, <1>4, <1>8, <2>2, <2>3
  <2>5. \A r \in {t} : task'[r].pc = "lock"
    BY <1>11, <1>14
  <2>6. PICK m \in Nat, u \in Nat : m = hist'.lifted /\ u = now'
    BY <1>0, <1>4
  <2>7. R + 1 <= L + m /\ m <= hist'.lifted /\ hist'.epoch + L * MinWait <= u /\ u <= now'
    BY <1>0, <1>4, <2>1, <2>6
  <2>8. PasswordFits(V, R + 1, L, m, u, {t})'
    BY <1>2, <1>3, <1>4, <1>7, <2>4, <2>5, <2>7 DEF PasswordFits
  <2>9. {t} \in SUBSET Tasks /\ R + 1 \in Nat
    OBVIOUS
  <2> QED BY <2>8, <2>9
<1> QED BY <1>6, <1>12, <1>13, <1>14

\* No step of a password's slot admits a check the account misses.
LEMMA PasswordPreserved ==
    ASSUME RateInv, TypeOK', hist' \in HistState, path = "password", MinWait > 0, [Next]_vars
    PROVE  (\E W \in Nat, R \in Nat, K \in Nat, l \in Nat, s \in Nat, D \in SUBSET Tasks :
              PasswordFits(W, R, K, l, s, D))'
<1>0. TypeOK /\ hist \in HistState /\ ThrottleTasks
  BY DEF RateInv
<1>1. PICK W \in Nat, R \in Nat, K \in Nat, l \in Nat, s \in Nat, D \in SUBSET Tasks :
        PasswordFits(W, R, K, l, s, D)
  BY DEF RateInv
<1>2. ASSUME NEW t \in Tasks, NEW x \in TaskState, task' = [task EXCEPT ![t] = x],
           UNCHANGED <<now, counter, marker>>, task[t].pc # "lock",
           x.pc \in {"check", "record"} => task[t].pc = "check" \/ ~Live(marker),
           \/ hist' = hist /\ (Checking(task[t].pc) => Checking(x.pc))
           \/ hist' = Admitted(hist) /\ Checking(x.pc) /\ ~Checking(task[t].pc)
           \/ hist' = [hist EXCEPT !.lost = @ + 1]
      PROVE  PasswordFits(W, R, K, l, s, D)'
  BY <1>0, <1>1, <1>2, PasswordMove
<1>3. IdleTask \in TaskState /\ IdleTask.pc = "idle"
  BY DEF IdleTask, TaskState, PCs
<1>4. ASSUME NEW t \in Tasks, NEW pc \in PCs, Goto(t, pc)
      PROVE  \E x \in TaskState : task' = [task EXCEPT ![t] = x] /\ x.pc = pc
  <2>1. [task[t] EXCEPT !.pc = pc] \in TaskState
    BY <1>0, TaskType DEF TypeOK
  <2>2. [task[t] EXCEPT !.pc = pc].pc = pc
    BY <1>0 DEF TypeOK, TaskState
  <2>3. task' = [task EXCEPT ![t] = [task[t] EXCEPT !.pc = pc]]
    BY <1>4 DEF Goto
  <2> QED BY <2>1, <2>2, <2>3
<1>5. ASSUME NEW t \in Tasks, Submit(t) PROVE PasswordFits(W, R, K, l, s, D)'
  <2>1. PICK x : x = [pc |-> "gate", n |-> 0, seen |-> watermark, step |-> 0]
    OBVIOUS
  <2>2. x \in TaskState /\ x.pc = "gate"
    BY <1>0, <2>1 DEF TypeOK, TaskState, PCs
  <2>3. task' = [task EXCEPT ![t] = x] /\ task[t].pc = "idle" /\ UNCHANGED <<now, counter, marker, hist>>
    BY <1>5, <2>1 DEF Submit
  <2> QED BY <1>2, <2>2, <2>3 DEF Checking
<1>6. ASSUME NEW t \in Tasks, Gate(t) PROVE PasswordFits(W, R, K, l, s, D)'
  <2>1. task[t].pc = "gate" /\ UNCHANGED <<now, counter, marker>>
    BY <1>6 DEF Gate
  <2>2. CASE Done(t) /\ UNCHANGED hist
    BY <1>2, <1>3, <2>1, <2>2 DEF Done, Checking
  <2>3. CASE ~Live(marker) /\ Goto(t, "check") /\ hist' = Admitted(hist)
    <3>1. PICK x \in TaskState : task' = [task EXCEPT ![t] = x] /\ x.pc = "check"
      BY <1>4, <2>3 DEF PCs
    <3> QED BY <1>2, <2>1, <2>3, <3>1 DEF Checking
  <2> QED BY <1>6, <2>2, <2>3 DEF Gate
<1>7. ASSUME NEW t \in Tasks, Check(t) PROVE PasswordFits(W, R, K, l, s, D)'
  <2>1. task[t].pc = "check" /\ UNCHANGED <<now, counter, marker, hist>>
    BY <1>7 DEF Check
  <2>2. PICK x \in TaskState : task' = [task EXCEPT ![t] = x] /\ x.pc \in {"record", "clearCounter"}
    BY <1>4, <1>7 DEF Check, PCs
  <2> QED BY <1>2, <2>1, <2>2 DEF Checking
<1>8. ASSUME NEW t \in Tasks, CheckUnrecorded(t) \/ Lose(t), task[t].pc # "lock"
      PROVE  PasswordFits(W, R, K, l, s, D)'
  BY <1>2, <1>3, <1>8 DEF CheckUnrecorded, Lose, Done
<1>9. ASSUME NEW t \in Tasks, Lose(t), task[t].pc = "lock"
      PROVE  PasswordFits(W, R, K, l, s, D \ {t})' /\ D \ {t} \in SUBSET Tasks
  BY <1>0, <1>1, <1>9, PasswordLost
<1>10. ASSUME NEW t \in Tasks, AdminClear(t) PROVE PasswordFits(W, R, K, l, s, D)'
  <2>1. task[t].pc = "idle" /\ UNCHANGED <<now, counter, marker, hist>>
    BY <1>10 DEF AdminClear
  <2>2. PICK x \in TaskState : task' = [task EXCEPT ![t] = x] /\ x.pc = "clearCounter"
    BY <1>4, <1>10 DEF AdminClear, PCs
  <2> QED BY <1>2, <2>1, <2>2 DEF Checking
<1>11. ASSUME NEW t \in Tasks, Count(t) \/ Arm(t) \/ Consume(t) PROVE FALSE
  BY <1>0, <1>11 DEF Count, Arm, Consume, ThrottleTasks
<1>12. ASSUME NEW t \in Tasks, Record(t)
       PROVE  \E V \in Nat, Q \in Nat, L \in Nat, m \in Nat, u \in Nat, E \in SUBSET Tasks :
                 PasswordFits(V, Q, L, m, u, E)'
  BY <1>0, <1>1, <1>12, PasswordRecord
<1>13. ASSUME NEW t \in Tasks, Lock(t) PROVE PasswordFits(W, R, K, l, s, D)'
  BY <1>0, <1>1, <1>13, PasswordLock
<1>14. ASSUME NEW t \in Tasks, ClearMarker(t) PROVE PasswordFits(W, R, K, l, s, D)'
  BY <1>0, <1>1, <1>14, PasswordLift
<1>15. ASSUME NEW t \in Tasks, ClearCounter(t)
       PROVE  \E u \in Nat : PasswordFits(0, 0, 0, 0, u, {})' /\ {} \in SUBSET Tasks
  BY <1>0, <1>15, PasswordClear
<1>16. CASE Tick \/ UNCHANGED vars
  <2>1. UNCHANGED <<counter, marker, task, hist>> /\ now' \in Nat /\ now' >= now
    BY <1>0, <1>16 DEF Tick, vars, TypeOK
  <2>2. PasswordFits(W, R, K, l, s, D)'
    BY <1>0, <1>1, <2>1, PasswordTick
  <2> QED BY <2>2
<1> HIDE DEF PasswordFits
<1>17. ASSUME NEW t \in Tasks,
              \/ Submit(t) \/ Gate(t) \/ Count(t) \/ Arm(t) \/ Check(t) \/ Consume(t)
              \/ CheckUnrecorded(t) \/ Lock(t) \/ AdminClear(t) \/ ClearMarker(t) \/ Lose(t)
       PROVE  \E E \in SUBSET Tasks : PasswordFits(W, R, K, l, s, E)'
  <2>1. CASE Lose(t) /\ task[t].pc = "lock"
    BY <1>9, <2>1
  <2>2. CASE ~(Lose(t) /\ task[t].pc = "lock")
    <3>1. CheckUnrecorded(t) => task[t].pc # "lock"
      BY DEF CheckUnrecorded
    <3>2. PasswordFits(W, R, K, l, s, D)'
      BY <1>5, <1>6, <1>7, <1>8, <1>10, <1>11, <1>13, <1>14, <1>17, <2>2, <3>1
    <3> QED BY <3>2
  <2> QED BY <2>1, <2>2
<1>18. ASSUME NEW t \in Tasks, Record(t) \/ ClearCounter(t)
       PROVE  (\E V \in Nat, Q \in Nat, L \in Nat, m \in Nat, u \in Nat, E \in SUBSET Tasks :
                  PasswordFits(V, Q, L, m, u, E))'
  BY <1>12, <1>15, <1>18
<1> QED BY <1>16, <1>17, <1>18 DEF Next

\* The account holds in every reachable state.
THEOREM GuessesAccounted == Spec => []RateInv
<1>1. Init => RateInv
  <2> SUFFICES ASSUME Init PROVE RateInv
    OBVIOUS
  <2> USE ThrottleAssumption DEF ThrottleAssumption
  <2>1. TypeOK
    <3>1. IdleTask \in TaskState
      BY DEF IdleTask, TaskState, PCs
    <3>2. accepted \in [Steps -> Nat]
      BY DEF Init
    <3> QED BY <3>1, <3>2 DEF Init, TypeOK, NoEntry
  <2>2. hist \in HistState /\ hist.tried = 0 /\ hist.epoch = 0 /\ hist.lifted = 0
    BY DEF Init, InitHist, HistState
  <2>3. ThrottleTasks
    BY DEF Init, ThrottleTasks, IdleTask
  <2>4. /\ 0 * FailureTTL = 0 /\ 0 * MinWait = 0 /\ MinWait \in Nat
        /\ Sub \in Nat /\ OtpShare \in Nat /\ Sub * 0 = 0 /\ OtpShare * 0 = 0
    BY NextMultiple, SharesType, WaitFacts
  <2>5. Windowed(FailureTTL, 0, counter, now, hist.epoch)
    BY <2>2, <2>4 DEF Init, Windowed
  <2>6. Counted(Sub, 0, counter) = 0 /\ Counted(OtpShare, 0, counter) = 0
    BY <2>4 DEF Init, Counted, Min2, NoEntry
  <2>7. OtpFits(0, 0)
    BY <2>2, <2>5, <2>6 DEF OtpFits
  <2>8. PasswordFits(0, 0, 0, 0, 0, {})
    <3>1. Cardinality({}) = 0 /\ Cardinality(Tasks) * 0 = 0
      BY FS_EmptySet, FS_CardinalityType, NextMultiple
    <3>2. Cardinality(InFlight) \in Nat /\ hist.lost \in Nat
      <4>1. InFlight \subseteq Tasks
        BY DEF InFlight
      <4> QED BY <2>2, <4>1, FS_Subset, FS_CardinalityType, HistFacts
    <3> QED BY <2>2, <2>4, <2>5, <2>6, <3>1, <3>2 DEF PasswordFits, Init
  <2> HIDE DEF OtpFits, PasswordFits
  <2>9. {} \in SUBSET Tasks
    OBVIOUS
  <2> QED BY <2>1, <2>2, <2>3, <2>7, <2>8, <2>9 DEF RateInv, Init
<1>2. RateInv /\ [Next]_vars => RateInv'
  <2> SUFFICES ASSUME RateInv, [Next]_vars PROVE RateInv'
    OBVIOUS
  <2>0. TypeOK /\ hist \in HistState /\ ThrottleTasks /\ (marker = NoEntry \/ marker.n > 0)
    BY DEF RateInv
  <2>1. TypeOK' /\ hist' \in HistState /\ ThrottleTasks' /\ (marker = NoEntry \/ marker.n > 0)'
    BY <2>0, TypePreserved, HistPreserved, ThrottleTasksPreserved, MarkerCounted
  <2>2. path' = path
    BY DEF Next, vars
  <2>3. path = "otp" => (\E W \in Nat, K \in Nat : OtpFits(W, K))'
    BY OtpPreserved
  <2>4. path = "password" /\ MinWait > 0 =>
          (\E W \in Nat, R \in Nat, K \in Nat, l \in Nat, s \in Nat, D \in SUBSET Tasks :
              PasswordFits(W, R, K, l, s, D))'
    BY <2>1, PasswordPreserved
  <2> QED BY <2>1, <2>2, <2>3, <2>4 DEF RateInv
<1> QED BY <1>1, <1>2, PTL DEF Spec

\* The windows counted are windows there was time for.
LEMMA WindowedBound ==
    ASSUME now \in Nat, NEW c \in [n : Nat, exp : Nat], NEW e \in Nat, NEW W \in Nat,
           NEW b \in Nat, NEW T \in Nat \ {0}, Windowed(T, W, c, now, e)
    PROVE  /\ now - e \in Nat /\ 1 + ((now - e) \div T) \in Nat
           /\ Counted(b, W, c) <= b * (1 + ((now - e) \div T))
           /\ b * (1 + ((now - e) \div T)) \in Nat
<1>1. W * T \in Nat
  BY NextMultiple
<1>2. now - e \in Nat /\ W * T <= now - e
  BY <1>1 DEF Windowed
<1>3. PICK w \in Nat : w = 1 + ((now - e) \div T) /\ W + 1 <= w
  <2>1. PICK a \in Nat : a = now - e /\ W * T <= a
    BY <1>2
  <2>2. a \div T \in Nat /\ W <= a \div T
    BY <2>1, DivBound
  <2> QED BY <2>1, <2>2
<1>4. b * (W + 1) <= b * w /\ b * (W + 1) = b * W + b /\ b * W \in Nat /\ b * w \in Nat
  BY <1>3, ProductGrows, NextMultiple
<1>5. Counted(b, W, c) <= b * W + b
  BY <1>4 DEF Counted, Min2
<1>6. Counted(b, W, c) \in Nat
  BY CountedType
<1> QED BY <1>2, <1>3, <1>4, <1>5, <1>6

\* The same for the slot's counter.
LEMMA WindowsBound ==
    ASSUME TypeOK, hist \in HistState, NEW W \in Nat, NEW b \in Nat,
           Windowed(FailureTTL, W, counter, now, hist.epoch)
    PROVE  /\ Elapsed \in Nat /\ Windows \in Nat
           /\ Counted(b, W, counter) <= b * Windows /\ b * Windows \in Nat
<1>1. hist.epoch \in Nat /\ now \in Nat /\ counter \in [n : Nat, exp : Nat] /\ FailureTTL \in Nat \ {0}
  BY HistFacts, ThrottleAssumption DEF TypeOK, ThrottleAssumption
<1> QED BY <1>1, WindowedBound DEF Windows, Elapsed

\* The codes checked are within the share of each window and one per lockout,
\* however many requests race (reserve_otp_attempt).
THEOREM OtpThrottled == Spec => []OtpRateBounded
<1>1. RateInv => OtpRateBounded
  <2> SUFFICES ASSUME RateInv, path = "otp"
               PROVE  hist.tried <= Sub * Windows + Lockouts
    BY DEF OtpRateBounded, Sub
  <2> USE ThrottleAssumption DEF ThrottleAssumption
  <2>0. TypeOK /\ hist \in HistState
    BY DEF RateInv
  <2>1. PICK W \in Nat, K \in Nat : OtpFits(W, K)
    BY DEF RateInv
  <2>2. /\ Elapsed \in Nat /\ Windows \in Nat
        /\ Counted(OtpShare, W, counter) <= OtpShare * Windows /\ OtpShare * Windows \in Nat
    BY <2>0, <2>1, WindowsBound, SharesType DEF OtpFits
  <2>3. /\ hist.tried \in Nat /\ hist.lifted \in Nat /\ hist.epoch \in Nat /\ MinWait \in Nat
        /\ Sub \in Nat /\ Sub * Windows \in Nat /\ Counted(OtpShare, W, counter) \in Nat
    <3>1. hist.tried \in Nat /\ hist.lifted \in Nat /\ hist.epoch \in Nat
      BY <2>0, HistFacts
    <3>2. MinWait \in Nat /\ Sub \in Nat /\ OtpShare \in Nat
      BY WaitFacts, SharesType
    <3>3. Sub * Windows \in Nat
      BY <2>2, <3>2, NextMultiple
    <3>4. Counted(OtpShare, W, counter) \in Nat
      BY <2>0, <3>2, CountedType DEF TypeOK
    <3> QED BY <3>1, <3>2, <3>3, <3>4
  <2>4. hist.tried <= OtpShare * Windows + hist.lifted + K
    BY <2>1, <2>2, <2>3 DEF OtpFits
  <2>5. CASE MinWait = 0
    <3>1. K = 0
      BY <2>1, <2>5 DEF OtpFits
    <3>2. OtpShare * Windows = Sub * Windows + Windows
      BY <2>2, <2>3, <2>5, NextMultiple DEF OtpShare
    <3>3. Lockouts = hist.lifted + Windows
      BY <2>5 DEF Lockouts
    <3> QED BY <2>2, <2>3, <2>4, <3>1, <3>2, <3>3
  <2>6. CASE MinWait > 0
    <3>1. OtpShare = Sub
      BY <2>6 DEF OtpShare
    <3>2. Elapsed \div MinWait \in Nat /\ K <= 1 + (Elapsed \div MinWait)
      <4>1. CASE K = 0
        BY <2>2, <2>3, <2>6, <4>1, DivBound
      <4>2. CASE K > 0
        <5>1. PICK L \in Nat : K = L + 1 /\ L = K - 1
          BY <4>2
        <5>2. L * MinWait \in Nat /\ now \in Nat
          BY <2>0, <2>3, NextMultiple DEF TypeOK
        <5>3. L * MinWait <= Elapsed
          BY <2>1, <2>3, <4>2, <5>1, <5>2 DEF OtpFits, Elapsed
        <5>4. Elapsed \div MinWait \in Nat /\ L <= Elapsed \div MinWait
          <6>1. MinWait \in Nat \ {0}
            BY <2>3, <2>6
          <6> QED BY <2>2, <5>3, <6>1, DivBound
        <5> QED BY <5>1, <5>4
      <4> QED BY <4>1, <4>2
    <3>3. Lockouts = hist.lifted + (1 + (Elapsed \div MinWait))
      BY <2>6 DEF Lockouts
    <3> QED BY <2>3, <2>4, <3>1, <3>2, <3>3
  <2> QED BY <2>3, <2>5, <2>6
<1> QED BY <1>1, GuessesAccounted, PTL

\* The passwords checked are within the share of each window, one per request
\* and lockout, and those whose request was lost (record_failure).
THEOREM PasswordThrottled == Spec => []PasswordRateBounded
<1>1. RateInv => PasswordRateBounded
  <2> SUFFICES ASSUME RateInv, path = "password", MinWait > 0
               PROVE  hist.tried <= Sub * Windows + Cardinality(Tasks) * (1 + Lockouts) + hist.lost
    BY DEF PasswordRateBounded, Sub
  <2>0. TypeOK /\ hist \in HistState
    BY DEF RateInv
  <2>1. PICK W \in Nat, R \in Nat, K \in Nat, l \in Nat, s \in Nat, D \in SUBSET Tasks :
          PasswordFits(W, R, K, l, s, D)
    BY DEF RateInv
  <2>2. /\ hist.tried \in Nat /\ hist.epoch \in Nat /\ hist.lifted \in Nat /\ hist.lost \in Nat
        /\ now \in Nat /\ MinWait \in Nat /\ K * MinWait \in Nat
        /\ Counted(Sub, W, counter) \in Nat
        /\ Cardinality(Tasks) \in Nat /\ Cardinality(Tasks) * R \in Nat
        /\ Cardinality(D) \in Nat /\ Cardinality(D) <= Cardinality(Tasks)
        /\ Cardinality(InFlight) \in Nat /\ Cardinality(InFlight) <= Cardinality(Tasks)
    <3>1. /\ hist.tried \in Nat /\ hist.epoch \in Nat /\ hist.lifted \in Nat /\ hist.lost \in Nat
          /\ now \in Nat /\ MinWait \in Nat
      <4>1. hist.tried \in Nat /\ hist.epoch \in Nat /\ hist.lifted \in Nat /\ hist.lost \in Nat
        BY <2>0 DEF HistState
      <4>2. now \in Nat
        BY <2>0 DEF TypeOK
      <4>3. MinWait \in Nat
        BY WaitFacts, ThrottleAssumption DEF ThrottleAssumption
      <4> QED BY <4>1, <4>2, <4>3
    <3>2. Counted(Sub, W, counter) \in Nat /\ K * MinWait \in Nat
      BY <2>0, AccountTypes
    <3>3. Cardinality(Tasks) \in Nat /\ Cardinality(Tasks) * R \in Nat
      BY <2>0, AccountTypes
    <3>4. Cardinality(D) \in Nat /\ Cardinality(D) <= Cardinality(Tasks)
      BY <2>0, AccountTypes
    <3>5. Cardinality(InFlight) \in Nat /\ Cardinality(InFlight) <= Cardinality(Tasks)
      BY <2>0, AccountTypes
    <3> QED BY <3>1, <3>2, <3>3, <3>4, <3>5
  <2>3. /\ Elapsed \in Nat /\ Counted(Sub, W, counter) <= Sub * Windows
        /\ Sub * Windows \in Nat
    BY <2>0, <2>1, WindowsBound, SharesType DEF PasswordFits
  <2>4. K * MinWait <= Elapsed /\ R <= K + hist.lifted
    BY <2>1, <2>2 DEF PasswordFits, Elapsed
  <2>5. Elapsed \div MinWait \in Nat /\ K <= Elapsed \div MinWait
    <3>1. MinWait \in Nat \ {0}
      BY <2>2
    <3> QED BY <2>3, <2>4, <3>1, DivBound
  <2>6. Lockouts \in Nat /\ R + 2 <= 1 + Lockouts
    BY <2>2, <2>4, <2>5 DEF Lockouts
  <2>7. /\ Cardinality(Tasks) * (R + 2) <= Cardinality(Tasks) * (1 + Lockouts)
        /\ Cardinality(Tasks) * (1 + Lockouts) \in Nat
    BY <2>2, <2>6, ProductGrows, NextMultiple
  <2>8. Cardinality(Tasks) * (R + 2)
          = Cardinality(Tasks) * R + Cardinality(Tasks) + Cardinality(Tasks)
    BY <2>2
  <2>9. hist.tried <= Counted(Sub, W, counter) + Cardinality(Tasks) * R + Cardinality(D)
                      + Cardinality(InFlight) + hist.lost
    BY <2>1 DEF PasswordFits
  <2> QED BY <2>2, <2>3, <2>7, <2>8, <2>9
<1> QED BY <1>1, GuessesAccounted, PTL

-----------------------------------------------------------------------------
(* Initial access tokens and codes sent by e-mail *)

Entries == [n : Nat, exp : Nat]

-----------------------------------------------------------------------------
(* Initial access tokens *)

RegState    == [pc : {"idle", "use", "revoke"}, since : Nat, late : BOOLEAN]
InitialHist == [begun : Nat, used : Nat, late : Nat, cleared : Nat, revoked : BOOLEAN]

InitialTypes ==
    /\ now \in Nat /\ token \in Nat /\ counter \in Entries
    /\ reg \in [Tasks \cup {Revoker} -> RegState]
    /\ hist \in InitialHist

\* When the token's entry ends, and what its counter lasts at least.
Ends == IF Expiration = 0 THEN Initial!Forever ELSE Expiration
Keeps == IF Expiration = 0 THEN Initial!Forever ELSE Expiration + Grace

\* Revoked, the token is gone for good.
TokenInv ==
    /\ now <= MaxTime /\ token \in {0, Ends}
    /\ hist.revoked \/ reg[Revoker].pc = "revoke" => token = 0

\* A registration under way has read the entry while it was there, not long ago.
RegsInv ==
    \A r \in Tasks :
        /\ reg[r].pc # "revoke"
        /\ reg[r].pc = "use" => /\ reg[r].since < Ends /\ now <= reg[r].since + MaxRequest
                                /\ ~reg[r].late

\* D counters have been deleted or may have been, and the one there is, which
\* lasts as long as anyone may come to use it, has counted the rest.
UsesCounted(D) ==
    /\ hist.cleared = IF reg[Revoker].pc = "revoke" THEN D + 1 ELSE D
    /\ UseCount > 0 => hist.used <= Counted(UseCount, D, counter)

InitialInv ==
    /\ InitialTypes /\ TokenInv /\ RegsInv
    /\ counter = NoEntry \/ counter.exp >= Keeps
    /\ hist.late = 0
    /\ \E D \in Nat : UsesCounted(D)

\* The history of registrations stays one.
LEMMA InitialHistFacts ==
    ASSUME NEW h \in InitialHist
    PROVE  /\ h.begun \in Nat /\ h.used \in Nat /\ h.late \in Nat /\ h.cleared \in Nat
           /\ h.revoked \in BOOLEAN
  BY DEF InitialHist

\* Reading the entry begins a registration.
LEMMA InitialVerify ==
    ASSUME InitialInv, NEW r \in Tasks, Initial!Verify(r)
    PROVE  InitialInv'
<1> USE BudgetsAssumption DEF BudgetsAssumption
<1>0. /\ InitialTypes /\ TokenInv /\ RegsInv /\ (counter = NoEntry \/ counter.exp >= Keeps)
      /\ hist.late = 0
  BY DEF InitialInv
<1>1. PICK D \in Nat : UsesCounted(D)
  BY DEF InitialInv
<1>2. PICK x : x = [pc |-> "use", since |-> now, late |-> hist.revoked]
  OBVIOUS
<1>3. hist.revoked = FALSE
  <2>1. token > now /\ token \in Nat /\ now \in Nat
    BY <1>0 DEF Initial!Verify, InitialTypes
  <2>2. token # 0
    BY <2>1
  <2> QED BY <1>0, <2>2, InitialHistFacts DEF TokenInv, InitialTypes
<1>4. x \in RegState /\ x.pc = "use" /\ x.since = now /\ x.late = FALSE
  BY <1>0, <1>2, <1>3 DEF RegState, InitialTypes
<1>5. reg' = [reg EXCEPT ![r] = x] /\ UNCHANGED <<now, token, counter>>
  BY <1>2 DEF Initial!Verify
<1>6. /\ hist' \in InitialHist
      /\ hist'.used = hist.used /\ hist'.late = hist.late /\ hist'.cleared = hist.cleared
      /\ hist'.revoked = hist.revoked
  BY <1>0 DEF Initial!Verify, InitialTypes, InitialHist
<1>7. InitialTypes'
  BY <1>0, <1>4, <1>5, <1>6 DEF InitialTypes
<1>8. reg'[Revoker] = reg[Revoker] /\ reg'[r] = x /\ \A q \in Tasks : q # r => reg'[q] = reg[q]
  BY <1>0, <1>5 DEF InitialTypes
<1>9. TokenInv'
  BY <1>0, <1>5, <1>6, <1>8 DEF TokenInv, Ends, Initial!Forever
<1>10. RegsInv'
  <2>1. token > now /\ token \in {0, Ends} /\ token \in Nat /\ now \in Nat
    BY <1>0 DEF Initial!Verify, TokenInv, InitialTypes
  <2>2. now < Ends
    BY <2>1
  <2> QED BY <1>0, <1>4, <1>5, <1>8, <2>1, <2>2 DEF RegsInv, Ends, Initial!Forever
<1>11. UsesCounted(D)'
  BY <1>1, <1>5, <1>6, <1>8 DEF UsesCounted
<1>12. (counter = NoEntry \/ counter.exp >= Keeps)'
  BY <1>0, <1>5 DEF Keeps, Initial!Forever
<1> QED BY <1>0, <1>6, <1>7, <1>9, <1>10, <1>11, <1>12 DEF InitialInv

\* A use finds the counter of the uses before it.
LEMMA InitialUse ==
    ASSUME InitialInv, NEW r \in Tasks, Initial!Use(r)
    PROVE  InitialInv'
<1> USE BudgetsAssumption DEF BudgetsAssumption
<1>0. /\ InitialTypes /\ TokenInv /\ RegsInv /\ (counter = NoEntry \/ counter.exp >= Keeps)
      /\ hist.late = 0
  BY DEF InitialInv
<1>1. PICK D \in Nat : UsesCounted(D)
  BY DEF InitialInv
<1>2. PICK c : c = IF counter.exp > now THEN [counter EXCEPT !.n = @ + 1]
                   ELSE [n |-> 1, exp |-> Initial!UsedCounterExp]
  OBVIOUS
<1>3. Initial!IdleReg \in RegState /\ Initial!IdleReg.pc = "idle"
  BY DEF Initial!IdleReg, RegState
<1>4. reg' = [reg EXCEPT ![r] = Initial!IdleReg] /\ UNCHANGED <<now, token>>
  BY DEF Initial!Use
<1>5. reg[r].late = FALSE
  BY <1>0 DEF Initial!Use, RegsInv, InitialTypes, RegState
<1>6. now \in Nat /\ now < Keeps
  <2>1. reg[r].since \in Nat /\ reg[r].since < Ends /\ now <= reg[r].since + MaxRequest
    BY <1>0 DEF Initial!Use, RegsInv, InitialTypes, RegState
  <2>2. MaxTime \in Nat /\ now \in Nat /\ now <= MaxTime
    BY <1>0, ThrottleAssumption DEF ThrottleAssumption, TokenInv, InitialTypes
  <2> QED BY <2>1, <2>2 DEF Ends, Keeps, Initial!Forever
<1>7. c \in Entries /\ c.n = counter.n + 1 /\ c.exp >= Keeps
  <2>1. MaxTime \in Nat /\ counter.n \in Nat /\ counter.exp \in Nat
    BY <1>0, ThrottleAssumption DEF ThrottleAssumption, InitialTypes, Entries
  <2>2. CASE counter = NoEntry
    <3>1. c.n = 1 /\ c.exp = Initial!UsedCounterExp /\ c = [n |-> 1, exp |-> Initial!UsedCounterExp]
      BY <1>2, <1>6, <2>2 DEF NoEntry
    <3>2. Initial!UsedCounterExp \in Nat /\ Initial!UsedCounterExp >= Keeps
      BY <1>6, <2>1 DEF Initial!UsedCounterExp, Initial!Forever, Keeps
    <3> QED BY <2>2, <3>1, <3>2 DEF NoEntry, Entries
  <2>3. CASE counter.exp >= Keeps
    <3>1. counter.exp > now
      BY <1>6, <2>1, <2>3 DEF Keeps, Initial!Forever
    <3>2. c = [counter EXCEPT !.n = counter.n + 1]
      BY <1>2, <3>1
    <3> QED BY <1>0, <2>1, <2>3, <3>2 DEF InitialTypes, Entries
  <2> QED BY <1>0, <2>2, <2>3
<1>8. counter' = (IF UseCount = 0 THEN counter ELSE c)
  BY <1>2 DEF Initial!Use
<1>9. \/ hist' = hist /\ UseCount > 0 /\ c.n > UseCount
      \/ /\ hist' = [hist EXCEPT !.used = hist.used + 1, !.late = hist.late]
         /\ UseCount = 0 \/ c.n <= UseCount
  <2>1. hist' = IF UseCount = 0 \/ c.n <= UseCount
                THEN [hist EXCEPT !.used = hist.used + 1, !.late = hist.late] ELSE hist
    BY <1>2, <1>5 DEF Initial!Use
  <2>2. c.n \in Nat
    BY <1>7 DEF Entries
  <2> QED BY <2>1, <2>2
<1>10. /\ hist' \in InitialHist /\ hist'.late = 0
       /\ hist'.cleared = hist.cleared /\ hist'.revoked = hist.revoked
       /\ hist'.used = IF UseCount = 0 \/ c.n <= UseCount THEN hist.used + 1 ELSE hist.used
  <2>1. CASE hist' = hist /\ UseCount > 0 /\ c.n > UseCount
    <3>1. ~(UseCount = 0 \/ c.n <= UseCount)
      BY <1>7, <2>1 DEF Entries
    <3> QED BY <1>0, <2>1, <3>1 DEF InitialTypes
  <2>2. CASE /\ hist' = [hist EXCEPT !.used = hist.used + 1, !.late = hist.late]
             /\ UseCount = 0 \/ c.n <= UseCount
    <3>1. PICK h \in InitialHist : h = [hist EXCEPT !.used = hist.used + 1]
      <4>1. [hist EXCEPT !.used = hist.used + 1] \in InitialHist
        BY <1>0 DEF InitialTypes, InitialHist
      <4> QED BY <4>1
    <3>2. /\ h.used = hist.used + 1 /\ h.late = 0
          /\ h.cleared = hist.cleared /\ h.revoked = hist.revoked
      BY <1>0, <3>1 DEF InitialTypes, InitialHist
    <3>3. hist' = h
      BY <1>0, <2>2, <3>1 DEF InitialTypes, InitialHist
    <3> QED BY <2>2, <3>2, <3>3
  <2> QED BY <1>9, <2>1, <2>2
<1>11. InitialTypes'
  BY <1>0, <1>3, <1>4, <1>7, <1>8, <1>10 DEF InitialTypes
<1>12. /\ reg'[Revoker] = reg[Revoker] /\ reg'[r] = Initial!IdleReg
       /\ \A q \in Tasks : q # r => reg'[q] = reg[q]
  BY <1>0, <1>4 DEF InitialTypes
<1>13. TokenInv'
  BY <1>0, <1>4, <1>10, <1>12 DEF TokenInv, Ends, Initial!Forever
<1>14. RegsInv'
  BY <1>0, <1>3, <1>4, <1>12 DEF RegsInv, Ends, Initial!Forever
<1>15. (counter = NoEntry \/ counter.exp >= Keeps)'
  BY <1>0, <1>7, <1>8 DEF Keeps, Initial!Forever
<1>16. UsesCounted(D)'
  <2>1. UseCount > 0 => hist'.used <= Counted(UseCount, D, counter')
    <3>1. SUFFICES ASSUME UseCount > 0 PROVE hist'.used <= Counted(UseCount, D, c)
      BY <1>8
    <3>2. hist.used <= Counted(UseCount, D, counter) /\ UseCount * D \in Nat /\ hist.used \in Nat
      BY <1>0, <1>1, <3>1, InitialHistFacts, NextMultiple DEF UsesCounted, InitialTypes
    <3>3. counter.n \in Nat
      BY <1>0 DEF InitialTypes, Entries
    <3> QED BY <1>7, <1>10, <3>1, <3>2, <3>3 DEF Counted, Min2
  <2> QED BY <1>1, <1>10, <1>12, <2>1 DEF UsesCounted
<1> QED BY <1>10, <1>11, <1>13, <1>14, <1>15, <1>16 DEF InitialInv

\* A revocation deletes the entry, and lets as many through again.
LEMMA InitialRevoke ==
    ASSUME InitialInv, Initial!RevokeToken \/ Initial!RevokeCounter
    PROVE  InitialInv'
<1> USE BudgetsAssumption DEF BudgetsAssumption
<1>0. /\ InitialTypes /\ TokenInv /\ RegsInv /\ (counter = NoEntry \/ counter.exp >= Keeps)
      /\ hist.late = 0
  BY DEF InitialInv
<1>1. PICK D \in Nat : UsesCounted(D)
  BY DEF InitialInv
<1>2. PICK x : /\ x \in RegState /\ reg' = [reg EXCEPT ![Revoker] = x]
               /\ x.pc = IF Initial!RevokeToken THEN "revoke" ELSE "idle"
  <2>1. Initial!IdleReg \in RegState /\ [Initial!IdleReg EXCEPT !.pc = "revoke"] \in RegState
    BY DEF Initial!IdleReg, RegState
  <2>2. Initial!IdleReg.pc = "idle" /\ [Initial!IdleReg EXCEPT !.pc = "revoke"].pc = "revoke"
    BY DEF Initial!IdleReg
  <2>3. CASE Initial!RevokeToken
    BY <2>1, <2>2, <2>3 DEF Initial!RevokeToken
  <2>4. CASE ~Initial!RevokeToken
    BY <2>1, <2>2, <2>4 DEF Initial!RevokeCounter
  <2> QED BY <2>3, <2>4
<1>3. reg'[Revoker] = x /\ \A q \in Tasks : reg'[q] = reg[q]
  BY <1>0, <1>2 DEF InitialTypes
<1>4. UNCHANGED now
  BY DEF Initial!RevokeToken, Initial!RevokeCounter
<1>5. RegsInv'
  BY <1>0, <1>3, <1>4 DEF RegsInv, Ends, Initial!Forever
<1>6. CASE Initial!RevokeToken
  <2>1. token' = 0 /\ UNCHANGED counter /\ reg[Revoker].pc = "idle" /\ x.pc = "revoke"
    BY <1>2, <1>6 DEF Initial!RevokeToken
  <2>2. /\ hist' \in InitialHist /\ hist'.late = 0 /\ hist'.used = hist.used
        /\ hist'.cleared = hist.cleared + 1 /\ hist'.revoked = hist.revoked
    BY <1>0, <1>6 DEF Initial!RevokeToken, InitialTypes, InitialHist
  <2>3. InitialTypes'
    BY <1>0, <1>2, <1>4, <2>1, <2>2 DEF InitialTypes
  <2>4. TokenInv'
    BY <1>0, <1>4, <2>1 DEF TokenInv
  <2>5. (counter = NoEntry \/ counter.exp >= Keeps)'
    BY <1>0, <2>1 DEF Keeps, Initial!Forever
  <2>6. UsesCounted(D)'
    BY <1>1, <1>3, <2>1, <2>2 DEF UsesCounted
  <2> QED BY <1>5, <2>2, <2>3, <2>4, <2>5, <2>6 DEF InitialInv
<1>7. CASE Initial!RevokeCounter
  <2>1. /\ UNCHANGED token /\ reg[Revoker].pc = "revoke" /\ x.pc = "idle"
        /\ counter' = NoEntry \/ counter' = counter
    BY <1>2, <1>7 DEF Initial!RevokeToken, Initial!RevokeCounter, Initial!NoCounter, NoEntry
  <2>2. /\ hist' \in InitialHist /\ hist'.late = 0 /\ hist'.used = hist.used
        /\ hist'.cleared = hist.cleared /\ hist'.revoked = TRUE
    BY <1>0, <1>7 DEF Initial!RevokeCounter, InitialTypes, InitialHist
  <2>3. NoEntry \in Entries
    BY DEF NoEntry, Entries
  <2>4. InitialTypes'
    BY <1>0, <1>2, <1>4, <2>1, <2>2, <2>3 DEF InitialTypes
  <2>5. TokenInv'
    BY <1>0, <1>4, <2>1 DEF TokenInv, Ends, Initial!Forever
  <2>6. (counter = NoEntry \/ counter.exp >= Keeps)'
    BY <1>0, <2>1 DEF Keeps, Initial!Forever
  <2>7. UsesCounted(D + 1)'
    <3>1. UseCount > 0 => hist'.used <= Counted(UseCount, D + 1, counter')
      <4>1. SUFFICES ASSUME UseCount > 0 PROVE hist'.used <= Counted(UseCount, D + 1, counter')
        OBVIOUS
      <4>2. UseCount * D \in Nat /\ UseCount * (D + 1) = UseCount * D + UseCount
        BY NextMultiple
      <4>3. hist.used <= Counted(UseCount, D, counter) /\ hist.used \in Nat
        BY <1>0, <1>1, <4>1, InitialHistFacts DEF UsesCounted, InitialTypes
      <4>4. counter.n \in Nat /\ counter'.n \in Nat
        BY <1>0, <2>4 DEF InitialTypes, Entries
      <4> QED BY <2>2, <4>1, <4>2, <4>3, <4>4 DEF Counted, Min2
    <3> QED BY <1>1, <1>3, <2>1, <2>2, <3>1 DEF UsesCounted
  <2>8. D + 1 \in Nat
    OBVIOUS
  <2> QED BY <1>5, <2>2, <2>4, <2>5, <2>6, <2>7, <2>8 DEF InitialInv
<1> QED BY <1>6, <1>7

\* Time passes for no registration longer than a request takes.
LEMMA InitialTick ==
    ASSUME InitialInv, Initial!Tick
    PROVE  InitialInv'
<1> USE BudgetsAssumption, ThrottleAssumption DEF BudgetsAssumption, ThrottleAssumption
<1>0. /\ InitialTypes /\ TokenInv /\ RegsInv /\ (counter = NoEntry \/ counter.exp >= Keeps)
      /\ hist.late = 0
  BY DEF InitialInv
<1>1. PICK D \in Nat : UsesCounted(D)
  BY DEF InitialInv
<1>2. now' = now + 1 /\ now < MaxTime /\ UNCHANGED <<token, counter, reg, hist>> /\ now \in Nat
  BY <1>0 DEF Initial!Tick, InitialTypes
<1>3. InitialTypes'
  BY <1>0, <1>2 DEF InitialTypes
<1>4. TokenInv'
  BY <1>0, <1>2 DEF TokenInv, Ends, Initial!Forever
<1>5. RegsInv'
  <2>1. \A r \in Tasks : reg[r].pc = "use" => now < reg[r].since + MaxRequest /\ reg[r].since \in Nat
    BY <1>0 DEF Initial!Tick, InitialTypes, RegState
  <2> QED BY <1>0, <1>2, <2>1 DEF RegsInv, Ends, Initial!Forever
<1>6. UsesCounted(D)' /\ (counter = NoEntry \/ counter.exp >= Keeps)'
  BY <1>0, <1>1, <1>2 DEF UsesCounted, Keeps, Initial!Forever
<1> QED BY <1>0, <1>2, <1>3, <1>4, <1>5, <1>6 DEF InitialInv

\* Whatever a token's owner does, its registrations are counted.
LEMMA InitialStep ==
    ASSUME InitialInv, Initial!Next \/ UNCHANGED Initial!vars
    PROVE  InitialInv'
<1>1. CASE UNCHANGED Initial!vars
  BY <1>1 DEF Initial!vars, InitialInv, InitialTypes, TokenInv, RegsInv, UsesCounted,
     Ends, Keeps, Initial!Forever
<1>2. CASE Initial!Next
  BY <1>2, InitialVerify, InitialUse, InitialRevoke, InitialTick DEF Initial!Next
<1> QED BY <1>1, <1>2

\* A limited token lets through its count, as many again after a revocation and
\* nothing that begins after one (verify_and_consume_initial_access_token).
THEOREM RegistrationsLimited == MCSpec => []RegistrationsBounded
<1> DEFINE Inv == on = "initial" => InitialInv
<1> USE BudgetsAssumption, ThrottleAssumption DEF BudgetsAssumption, ThrottleAssumption
<1>1. MCInit => Inv
  <2> SUFFICES ASSUME Initial!Init PROVE InitialInv
    BY DEF MCInit
  <2>1. Initial!IdleReg \in RegState /\ Initial!IdleReg.pc = "idle"
    BY DEF Initial!IdleReg, RegState
  <2>2. counter = NoEntry /\ NoEntry \in Entries
    BY DEF Initial!Init, Initial!NoCounter, NoEntry, Entries
  <2>3. /\ hist \in InitialHist /\ hist.late = 0 /\ hist.used = 0 /\ hist.cleared = 0
        /\ hist.revoked = FALSE
    BY DEF Initial!Init, InitialHist
  <2>4. reg \in [Tasks \cup {Revoker} -> RegState] /\ \A r \in Tasks \cup {Revoker} : reg[r].pc = "idle"
    BY <2>1 DEF Initial!Init
  <2>5. token = Ends /\ token \in Nat /\ now = 0
    BY DEF Initial!Init, Ends, Initial!Forever
  <2>6. InitialTypes
    BY <2>2, <2>3, <2>4, <2>5 DEF InitialTypes
  <2>7. TokenInv /\ RegsInv
    BY <2>3, <2>4, <2>5 DEF TokenInv, RegsInv
  <2>8. UsesCounted(0)
    BY <2>2, <2>3, <2>4, NextMultiple DEF UsesCounted, Counted, Min2, NoEntry
  <2> QED BY <2>2, <2>3, <2>6, <2>7, <2>8 DEF InitialInv
<1>2. Inv /\ [MCNext]_<<vars, on, emailVars, initialVars>> => Inv'
  <2> SUFFICES ASSUME on = "initial", InitialInv, [MCNext]_<<vars, on, emailVars, initialVars>>
               PROVE  InitialInv'
    BY DEF MCNext
  <2>1. Initial!Next \/ UNCHANGED Initial!vars
    BY DEF MCNext, vars, initialVars, Initial!vars
  <2> QED BY <2>1, InitialStep
<1>3. Inv => RegistrationsBounded
  <2> SUFFICES ASSUME InitialInv PROVE Initial!RegistrationsBounded
    BY DEF RegistrationsBounded
  <2>1. hist.late = 0 /\ InitialTypes
    BY DEF InitialInv
  <2>2. ASSUME UseCount > 0 PROVE hist.used <= UseCount * (1 + hist.cleared)
    <3>1. PICK D \in Nat : UsesCounted(D)
      BY DEF InitialInv
    <3>2. hist.used \in Nat /\ hist.cleared \in Nat /\ D <= hist.cleared /\ counter.n \in Nat
      BY <2>1, <3>1, InitialHistFacts DEF UsesCounted, InitialTypes, Entries
    <3>3. hist.used <= UseCount * D + UseCount /\ UseCount * D \in Nat
      BY <2>2, <3>1, <3>2, NextMultiple DEF UsesCounted, Counted, Min2
    <3>4. UseCount * (D + 1) = UseCount * D + UseCount
      BY NextMultiple
    <3>5. UseCount * (D + 1) <= UseCount * (1 + hist.cleared) /\ UseCount * (1 + hist.cleared) \in Nat
      BY <3>2, ProductGrows, NextMultiple
    <3> QED BY <3>2, <3>3, <3>4, <3>5
  <2> QED BY <2>1, <2>2 DEF Initial!RegistrationsBounded
<1> QED BY <1>1, <1>2, <1>3, PTL DEF MCSpec

-----------------------------------------------------------------------------
(* Codes sent by e-mail *)

Tally == [Email!Codes -> Nat]
EmailHist == [minted : Nat, counted : Tally, compared : Tally, accepted : Tally,
              burnt : SUBSET Email!Codes, mails : Nat, epoch : Nat, asks : Nat, submits : Nat,
              lost : Nat]

EmailPCs  == {"idle", "charge", "store", "source", "count", "compare", "user", "accept",
              "clear", "burn"}
\* The places where a request has a code in its hands.
Submitted == {"source", "count", "compare", "user", "accept", "burn"}
ReqState  == [pc : EmailPCs, ip : Sources \cup {0}, code : Nat, n : Nat]

EmailTypes ==
    /\ now \in Nat /\ entry \in Entries /\ sends \in Entries
    /\ tries \in [Email!Codes -> Entries]
    /\ req \in [Tasks -> ReqState]
    /\ hist \in EmailHist

\* Requests that may still mint a code.
Asking == {r \in Tasks : req[r].pc \in {"charge", "store"}}

\* Codes are minted in order, each for a request that asked, and nobody knows
\* one before.
MintInv ==
    /\ hist.minted + Cardinality(Asking) <= hist.asks /\ hist.asks <= MaxCodes
    /\ entry = NoEntry \/ entry.n > 0
    /\ entry.n <= hist.minted /\ entry.exp <= now + CodeTTL
    /\ \A r \in Tasks : /\ req[r].code <= hist.minted
                        /\ req[r].pc \in Submitted => req[r].code > 0
    /\ \A c \in Email!Codes : c > hist.minted =>
          tries[c] = NoEntry /\ hist.compared[c] = 0 /\ hist.accepted[c] = 0

\* A code that gave a login is not the one in the cache.
LoginInv ==
    \A c \in Email!Codes :
        hist.accepted[c] <= 1 /\ (entry.n = c => hist.accepted[c] = 0)

\* Submissions of a code that are counted, in its budget, and not compared yet.
Pending(c) == {r \in Tasks : /\ req[r].pc = "compare" /\ req[r].code = c
                             /\ req[r].n <= MaxAttempts}

\* As long as a code is in force, the counter of its attempts is not older than
\* the first of them, and every comparison has a number of its own.
AttemptInv ==
    \A c \in Email!Codes :
        /\ hist.compared[c] <= MaxAttempts
        /\ Email!InForce(c) =>
            /\ tries[c] = NoEntry \/ tries[c].exp >= entry.exp
            /\ hist.compared[c] + Cardinality(Pending(c)) <= Min2(tries[c].n, MaxAttempts)

\* The number of an attempt is one that was counted.
BurnInv ==
    /\ \A c \in Email!Codes : tries[c].n <= hist.counted[c]
    /\ \A r \in Tasks :
        /\ req[r].pc \in {"compare", "burn"} => req[r].n <= hist.counted[req[r].code]
        /\ req[r].pc = "burn" => req[r].n >= MaxAttempts
    /\ \A c \in hist.burnt : hist.counted[c] >= MaxAttempts

\* The mails charged fit the windows of their counter.
MailsFit(W) ==
    /\ Windowed(CodeTTL, W, sends, now, hist.epoch)
    /\ hist.mails <= Counted(MaxSends, W, sends)

CodesInv == EmailTypes /\ MintInv /\ LoginInv /\ AttemptInv /\ BurnInv

EmailInv == CodesInv /\ \E W \in Nat : MailsFit(W)

\* What the fields of a history are.
LEMMA EmailHistFields ==
    ASSUME NEW h \in EmailHist
    PROVE  /\ h.minted \in Nat /\ h.counted \in Tally /\ h.compared \in Tally
           /\ h.accepted \in Tally /\ h.burnt \in SUBSET Email!Codes
           /\ h.mails \in Nat /\ h.epoch \in Nat /\ h.asks \in Nat /\ h.submits \in Nat
           /\ h.lost \in Nat
  BY DEF EmailHist

\* What a request's state is, and what an update of it leaves.
LEMMA ReqFacts ==
    ASSUME NEW x \in ReqState
    PROVE  /\ x.pc \in EmailPCs /\ x.code \in Nat /\ x.n \in Nat
           /\ Email!IdleReq \in ReqState /\ Email!IdleReq.pc = "idle" /\ Email!IdleReq.code = 0
           /\ \A pc \in EmailPCs :
                /\ [x EXCEPT !.pc = pc] \in ReqState
                /\ [x EXCEPT !.pc = pc].pc = pc /\ [x EXCEPT !.pc = pc].code = x.code
                /\ [x EXCEPT !.pc = pc].n = x.n
<1>1. x.pc \in EmailPCs /\ x.code \in Nat /\ x.n \in Nat
  BY DEF ReqState
<1>2. Email!IdleReq \in ReqState /\ Email!IdleReq.pc = "idle" /\ Email!IdleReq.code = 0
  BY DEF Email!IdleReq, ReqState, EmailPCs
<1>3. ASSUME NEW pc \in EmailPCs
      PROVE  /\ [x EXCEPT !.pc = pc] \in ReqState
             /\ [x EXCEPT !.pc = pc].pc = pc /\ [x EXCEPT !.pc = pc].code = x.code
             /\ [x EXCEPT !.pc = pc].n = x.n
  BY DEF ReqState
<1> QED BY <1>1, <1>2, <1>3

\* A request goes on to another place, or ends.
LEMMA ReqGoes ==
    ASSUME EmailTypes, NEW r \in Tasks
    PROVE  /\ \A pc \in EmailPCs : Email!Goto(r, pc) =>
                \E x \in ReqState : /\ req' = [req EXCEPT ![r] = x]
                                    /\ x.pc = pc /\ x.code = req[r].code /\ x.n = req[r].n
           /\ Email!Done(r) =>
                \E x \in ReqState : req' = [req EXCEPT ![r] = x] /\ x.pc = "idle" /\ x.code = 0
<1>1. req[r] \in ReqState
  BY DEF EmailTypes
<1>2. ASSUME NEW pc \in EmailPCs, Email!Goto(r, pc)
      PROVE  \E x \in ReqState : /\ req' = [req EXCEPT ![r] = x]
                                 /\ x.pc = pc /\ x.code = req[r].code /\ x.n = req[r].n
  <2>1. PICK x \in ReqState : x = [req[r] EXCEPT !.pc = pc] /\ x.pc = pc
                              /\ x.code = req[r].code /\ x.n = req[r].n
    BY <1>1, ReqFacts, ZenonT(30)
  <2>2. req' = [req EXCEPT ![r] = x]
    BY <1>2, <2>1 DEF Email!Goto
  <2> QED BY <2>1, <2>2
<1>3. ASSUME Email!Done(r)
      PROVE  \E x \in ReqState : req' = [req EXCEPT ![r] = x] /\ x.pc = "idle" /\ x.code = 0
  BY <1>1, <1>3, ReqFacts DEF Email!Done
<1> QED BY <1>2, <1>3

Asks(pc) == pc \in {"charge", "store"}

\* What a step of one request does to the number of those that ask.
LEMMA AskStep ==
    ASSUME EmailTypes, NEW r \in Tasks, NEW x \in ReqState, req' = [req EXCEPT ![r] = x]
    PROVE  \E f \in Nat, g \in Nat :
             /\ f = Cardinality(Asking) /\ g = Cardinality(Asking')
             /\ g <= f + 1
             /\ Asks(x.pc) /\ Asks(req[r].pc) => g = f
             /\ ~Asks(x.pc) => g <= f
             /\ ~Asks(x.pc) /\ Asks(req[r].pc) => f = g + 1
<1>1. PICK F, G : F = Asking /\ G = Asking'
  OBVIOUS
<1>2. F \in SUBSET Tasks /\ G \in SUBSET Tasks
  BY <1>1 DEF Asking
<1>3. (r \in F <=> Asks(req[r].pc)) /\ (r \in G <=> Asks(x.pc))
  BY <1>1 DEF Asking, Asks, EmailTypes
<1>4. \A q \in Tasks : q # r => (q \in F <=> q \in G)
  BY <1>1 DEF Asking, EmailTypes
<1>5. /\ Cardinality(F) \in Nat /\ Cardinality(G) \in Nat
      /\ r \in F /\ r \in G => Cardinality(G) = Cardinality(F)
      /\ r \notin F /\ r \notin G => Cardinality(G) = Cardinality(F)
      /\ r \notin F /\ r \in G => Cardinality(G) = Cardinality(F) + 1
      /\ r \in F /\ r \notin G => Cardinality(F) = Cardinality(G) + 1
  BY <1>2, <1>4, OneMoves
<1> QED BY <1>1, <1>3, <1>5

Pends(x, c) == x.pc = "compare" /\ x.code = c /\ x.n <= MaxAttempts

\* What a step of one request does to the number of comparisons ahead.
LEMMA PendingStep ==
    ASSUME EmailTypes, NEW r \in Tasks, NEW x \in ReqState, req' = [req EXCEPT ![r] = x],
           NEW c
    PROVE  \E f \in Nat, g \in Nat :
             /\ f = Cardinality(Pending(c)) /\ g = Cardinality(Pending(c)')
             /\ g <= f + 1
             /\ ~Pends(x, c) => g <= f
             /\ ~Pends(x, c) /\ Pends(req[r], c) => f = g + 1
<1>1. PICK F, G : F = Pending(c) /\ G = Pending(c)'
  OBVIOUS
<1>2. F \in SUBSET Tasks /\ G \in SUBSET Tasks
  BY <1>1 DEF Pending
<1>3. (r \in F <=> Pends(req[r], c)) /\ (r \in G <=> Pends(x, c))
  BY <1>1 DEF Pending, Pends, EmailTypes
<1>4. \A q \in Tasks : q # r => (q \in F <=> q \in G)
  BY <1>1 DEF Pending, EmailTypes
<1>5. /\ Cardinality(F) \in Nat /\ Cardinality(G) \in Nat
      /\ r \in F /\ r \in G => Cardinality(G) = Cardinality(F)
      /\ r \notin F /\ r \notin G => Cardinality(G) = Cardinality(F)
      /\ r \notin F /\ r \in G => Cardinality(G) = Cardinality(F) + 1
      /\ r \in F /\ r \notin G => Cardinality(F) = Cardinality(G) + 1
  BY <1>2, <1>4, OneMoves
<1> QED BY <1>1, <1>3, <1>5

\* The entry is left or deleted, no code is minted.
LEMMA MintFrame ==
    ASSUME EmailTypes, MintInv, hist' \in EmailHist, NEW r \in Tasks, NEW x \in ReqState,
           req' = [req EXCEPT ![r] = x], entry' \in {entry, NoEntry}, UNCHANGED now,
           hist'.minted = hist.minted, hist'.asks <= MaxCodes,
           Cardinality(Asking') + hist.asks <= Cardinality(Asking) + hist'.asks,
           \A c \in Email!Codes : c > hist.minted =>
              /\ tries'[c] = tries[c] /\ hist'.compared[c] = hist.compared[c]
              /\ hist'.accepted[c] = hist.accepted[c],
           x.code <= hist.minted, x.pc \in Submitted => x.code > 0
    PROVE  MintInv'
<1> USE BudgetsAssumption DEF BudgetsAssumption
<1>1. PICK f \in Nat, g \in Nat : f = Cardinality(Asking) /\ g = Cardinality(Asking')
  BY AskStep
<1>2. hist.minted \in Nat /\ hist.asks \in Nat /\ hist'.asks \in Nat
  BY EmailHistFields DEF EmailTypes
<1>3. hist'.minted + Cardinality(Asking') <= hist'.asks
  BY <1>1, <1>2 DEF MintInv
<1>4. /\ entry' = NoEntry \/ entry'.n > 0
      /\ entry'.n <= hist'.minted /\ entry'.exp <= now' + CodeTTL
  BY <1>2 DEF MintInv, NoEntry, EmailTypes
<1>5. \A q \in Tasks : /\ req'[q].code <= hist'.minted
                       /\ req'[q].pc \in Submitted => req'[q].code > 0
  BY DEF MintInv, EmailTypes
<1>6. \A c \in Email!Codes : c > hist'.minted =>
         tries'[c] = NoEntry /\ hist'.compared[c] = 0 /\ hist'.accepted[c] = 0
  BY DEF MintInv
<1> QED BY <1>3, <1>4, <1>5, <1>6 DEF MintInv, Email!Codes

\* The entry is left or deleted, no comparison is made or numbered.
LEMMA AttemptFrame ==
    ASSUME EmailTypes, AttemptInv, NEW r \in Tasks, NEW x \in ReqState,
           req' = [req EXCEPT ![r] = x], entry' \in {entry, NoEntry}, UNCHANGED <<now, tries>>,
           hist'.compared = hist.compared, x.pc # "compare"
    PROVE  AttemptInv'
<1> USE BudgetsAssumption DEF BudgetsAssumption
<1> SUFFICES ASSUME NEW c \in Email!Codes
             PROVE  /\ hist'.compared[c] <= MaxAttempts
                    /\ Email!InForce(c)' =>
                        /\ tries'[c] = NoEntry \/ tries'[c].exp >= entry'.exp
                        /\ hist'.compared[c] + Cardinality(Pending(c)') <= Min2(tries'[c].n, MaxAttempts)
  BY DEF AttemptInv, Email!Codes
<1>1. hist'.compared[c] <= MaxAttempts
  BY DEF AttemptInv
<1>2. ASSUME Email!InForce(c)' PROVE entry' = entry /\ Email!InForce(c)
  <2>1. entry' # NoEntry
    BY <1>2 DEF Email!InForce, Email!Live, NoEntry, EmailTypes
  <2> QED BY <1>2, <2>1 DEF Email!InForce, Email!Live
<1>3. ASSUME Email!InForce(c)'
      PROVE  hist'.compared[c] + Cardinality(Pending(c)') <= Min2(tries'[c].n, MaxAttempts)
  <2>1. PICK f \in Nat, g \in Nat :
          f = Cardinality(Pending(c)) /\ g = Cardinality(Pending(c)') /\ g <= f
    BY PendingStep, ZenonT(30) DEF Pends
  <2>2. hist.compared[c] \in Nat /\ tries[c].n \in Nat
    BY EmailHistFields DEF EmailTypes, Tally, Entries
  <2>3. hist.compared[c] + f <= Min2(tries[c].n, MaxAttempts)
    BY <1>2, <1>3, <2>1 DEF AttemptInv
  <2>4. hist.compared[c] + g <= Min2(tries[c].n, MaxAttempts)
    BY <2>1, <2>2, <2>3 DEF Min2
  <2> QED BY <2>1, <2>4
<1>4. Email!InForce(c)' => tries'[c] = NoEntry \/ tries'[c].exp >= entry'.exp
  BY <1>2 DEF AttemptInv
<1> QED BY <1>1, <1>3, <1>4

\* The entry is left or deleted, no code accepted.
LEMMA LoginFrame ==
    ASSUME LoginInv, entry' \in {entry, NoEntry}, hist'.accepted = hist.accepted
    PROVE  LoginInv'
<1>1. \A c \in Email!Codes : NoEntry.n # c
  BY BudgetsAssumption DEF NoEntry, Email!Codes, BudgetsAssumption
<1> QED BY <1>1 DEF LoginInv, Email!Codes

\* Nothing is counted or burnt.
LEMMA BurnFrame ==
    ASSUME EmailTypes, BurnInv, NEW r \in Tasks, NEW x \in ReqState,
           req' = [req EXCEPT ![r] = x], UNCHANGED tries,
           hist'.counted = hist.counted, hist'.burnt = hist.burnt, x.pc # "compare",
           x.pc = "burn" => x.n >= MaxAttempts /\ x.n <= hist.counted[x.code]
    PROVE  BurnInv'
<1>1. \A q \in Tasks :
        /\ req'[q].pc \in {"compare", "burn"} => req'[q].n <= hist'.counted[req'[q].code]
        /\ req'[q].pc = "burn" => req'[q].n >= MaxAttempts
  BY DEF BurnInv, EmailTypes
<1> QED BY <1>1 DEF BurnInv, Email!Codes

\* A step of one request that touches no code.
LEMMA CodesQuiet ==
    ASSUME CodesInv, EmailTypes', NEW r \in Tasks, NEW x \in ReqState,
           req' = [req EXCEPT ![r] = x], UNCHANGED <<now, entry, tries>>,
           hist'.minted = hist.minted, hist'.counted = hist.counted,
           hist'.compared = hist.compared, hist'.accepted = hist.accepted,
           hist'.burnt = hist.burnt, hist'.asks <= MaxCodes,
           \/ hist'.asks = hist.asks + 1
           \/ hist'.asks = hist.asks /\ (Asks(x.pc) => Asks(req[r].pc)),
           x.code <= hist.minted, x.pc \in Submitted => x.code > 0, x.pc # "compare",
           x.pc = "burn" => x.n >= MaxAttempts /\ x.n <= hist.counted[x.code]
    PROVE  CodesInv'
<1>0. EmailTypes /\ MintInv /\ LoginInv /\ AttemptInv /\ BurnInv
  BY DEF CodesInv
<1>1. PICK f \in Nat, g \in Nat :
        /\ f = Cardinality(Asking) /\ g = Cardinality(Asking')
        /\ g <= f + 1
        /\ Asks(x.pc) /\ Asks(req[r].pc) => g = f
        /\ ~Asks(x.pc) => g <= f
  BY <1>0, AskStep
<1>2. hist' \in EmailHist /\ hist'.asks \in Nat /\ hist.asks \in Nat
  BY <1>0, EmailHistFields DEF EmailTypes
<1>3. Cardinality(Asking') + hist.asks <= Cardinality(Asking) + hist'.asks
  BY <1>1, <1>2
<1>4. MintInv'
  BY <1>0, <1>2, <1>3, MintFrame
<1>5. LoginInv'
  BY <1>0, LoginFrame
<1>6. AttemptInv'
  BY <1>0, AttemptFrame
<1>7. BurnInv'
  BY <1>0, BurnFrame
<1> QED BY <1>4, <1>5, <1>6, <1>7 DEF CodesInv

\* One field of the history changed.
LEMMA EmailHistOther ==
    ASSUME hist \in EmailHist, NEW n \in Nat,
           \/ hist' = [hist EXCEPT !.mails = n]
           \/ hist' = [hist EXCEPT !.submits = n]
           \/ hist' = [hist EXCEPT !.lost = n]
           \/ hist' = hist
    PROVE  /\ hist' \in EmailHist
           /\ hist'.minted = hist.minted /\ hist'.counted = hist.counted
           /\ hist'.compared = hist.compared /\ hist'.accepted = hist.accepted
           /\ hist'.burnt = hist.burnt /\ hist'.asks = hist.asks /\ hist'.epoch = hist.epoch
<1>1. CASE hist' = [hist EXCEPT !.mails = n]
  <2>1. hist' \in EmailHist
    BY <1>1 DEF EmailHist
  <2> QED BY <1>1, <2>1 DEF EmailHist
<1>2. CASE hist' = [hist EXCEPT !.submits = n]
  <2>1. hist' \in EmailHist
    BY <1>2 DEF EmailHist
  <2> QED BY <1>2, <2>1 DEF EmailHist
<1>3. CASE hist' = [hist EXCEPT !.lost = n]
  <2>1. hist' \in EmailHist
    BY <1>3 DEF EmailHist
  <2> QED BY <1>3, <2>1 DEF EmailHist
<1>4. CASE hist' = hist
  BY <1>4
<1> QED BY <1>1, <1>2, <1>3, <1>4

\* The increment of the cache, as LoginThrottle has it.
LEMMA SameIncrement ==
    ASSUME NEW e, NEW ttl
    PROVE  Email!Increment(e, ttl) = Increment(e, ttl) /\ (Email!Live(e) <=> Live(e))
  BY DEF Email!Increment, Increment, Email!Live, Live

\* Asking for a code: the counts of the source and of the user.
LEMMA CodesCharge ==
    ASSUME CodesInv, NEW r \in Tasks, Email!ChargeSource(r) \/ Email!ChargeUser(r)
    PROVE  CodesInv'
<1> USE BudgetsAssumption DEF BudgetsAssumption
<1>0. EmailTypes /\ MintInv
  BY DEF CodesInv
<1>1. req[r] \in ReqState /\ req[r].code <= hist.minted /\ hist.minted \in Nat
  BY <1>0, EmailHistFields DEF EmailTypes, MintInv
<1>2. UNCHANGED <<now, entry, tries>>
  BY DEF Email!ChargeSource, Email!ChargeUser
<1>3. CASE Email!ChargeSource(r)
  <2>1. req[r].pc = "idle"
    BY <1>3 DEF Email!ChargeSource
  <2>2. PICK x \in ReqState :
          req' = [req EXCEPT ![r] = x] /\ x.pc \in {"idle", "charge"} /\ x.code = req[r].code
    <3>1. PICK ip \in Sources : req' = req \/ req' = [req EXCEPT ![r] = [@ EXCEPT !.pc = "charge", !.ip = ip]]
      BY <1>3 DEF Email!ChargeSource
    <3>2. [req[r] EXCEPT !.pc = "charge", !.ip = ip] \in ReqState
      BY <1>1, <3>1 DEF ReqState, EmailPCs
    <3>3. /\ [req[r] EXCEPT !.pc = "charge", !.ip = ip].pc = "charge"
          /\ [req[r] EXCEPT !.pc = "charge", !.ip = ip].code = req[r].code
      BY <1>1 DEF ReqState
    <3>4. req = [req EXCEPT ![r] = req[r]]
      BY <1>0 DEF EmailTypes
    <3> QED BY <1>1, <2>1, <3>1, <3>2, <3>3, <3>4
  <2>3. /\ hist' \in EmailHist /\ hist'.asks = hist.asks + 1 /\ hist.asks < MaxCodes
        /\ hist.asks \in Nat /\ hist'.minted = hist.minted /\ hist'.counted = hist.counted
        /\ hist'.compared = hist.compared /\ hist'.accepted = hist.accepted
        /\ hist'.burnt = hist.burnt
    <3>1. hist \in EmailHist /\ hist.asks \in Nat /\ hist.asks + 1 \in Nat
      BY <1>0, EmailHistFields DEF EmailTypes
    <3>2. hist' = [hist EXCEPT !.asks = hist.asks + 1] /\ hist.asks < MaxCodes
      BY <1>3 DEF Email!ChargeSource
    <3>3. hist' \in EmailHist
      BY <3>1, <3>2 DEF EmailHist
    <3> QED BY <3>1, <3>2, <3>3 DEF EmailHist
  <2>4. EmailTypes'
    <3>1. UNCHANGED sends
      BY <1>3 DEF Email!ChargeSource
    <3>2. req' \in [Tasks -> ReqState]
      BY <1>0, <2>2 DEF EmailTypes
    <3> QED BY <1>0, <1>2, <2>3, <3>1, <3>2 DEF EmailTypes, Email!Codes
  <2>5. hist'.asks <= MaxCodes
    BY <2>3
  <2> QED BY <1>1, <1>2, <2>2, <2>3, <2>4, <2>5, CodesQuiet DEF Submitted
<1>4. CASE Email!ChargeUser(r)
  <2>1. req[r].pc = "charge"
    BY <1>4 DEF Email!ChargeUser
  <2>2. PICK x \in ReqState :
          req' = [req EXCEPT ![r] = x] /\ x.pc \in {"idle", "store"} /\ x.code <= hist.minted
    <3>1. CASE Email!Goto(r, "store")
      BY <1>0, <1>1, <3>1, ReqGoes DEF EmailPCs
    <3>2. CASE Email!Done(r)
      BY <1>0, <1>1, <3>2, ReqGoes
    <3> QED BY <1>4, <3>1, <3>2 DEF Email!ChargeUser
  <2>3. PICK n \in Nat : hist' = [hist EXCEPT !.mails = n] \/ hist' = hist
    <3>1. hist.mails + 1 \in Nat
      BY <1>0, EmailHistFields DEF EmailTypes
    <3> QED BY <1>4, <3>1 DEF Email!ChargeUser
  <2>4. /\ hist' \in EmailHist
        /\ hist'.minted = hist.minted /\ hist'.counted = hist.counted
        /\ hist'.compared = hist.compared /\ hist'.accepted = hist.accepted
        /\ hist'.burnt = hist.burnt /\ hist'.asks = hist.asks
    BY <1>0, <2>3, EmailHistOther DEF EmailTypes
  <2>5. sends' \in Entries
    <3>1. sends' = Increment(sends, CodeTTL)
      BY <1>4, SameIncrement DEF Email!ChargeUser
    <3> QED BY <1>0, <3>1, IncrementType DEF EmailTypes, Entries
  <2>6. EmailTypes'
    <3>1. req' \in [Tasks -> ReqState]
      BY <1>0, <2>2 DEF EmailTypes
    <3> QED BY <1>0, <1>2, <2>4, <2>5, <3>1 DEF EmailTypes, Email!Codes
  <2>7. hist'.asks <= MaxCodes /\ Asks(req[r].pc) /\ x.pc \notin Submitted
        /\ x.pc # "compare" /\ x.pc # "burn"
    BY <1>0, <2>1, <2>2, <2>4 DEF MintInv, Asks, Submitted
  <2> QED BY <1>2, <2>2, <2>4, <2>6, <2>7, CodesQuiet
<1> QED BY <1>3, <1>4

\* A new code: nobody has it yet.
LEMMA CodesStore ==
    ASSUME CodesInv, NEW r \in Tasks, Email!Store(r)
    PROVE  CodesInv'
<1> USE BudgetsAssumption DEF BudgetsAssumption
<1>0. EmailTypes /\ MintInv /\ LoginInv /\ AttemptInv /\ BurnInv
  BY DEF CodesInv
<1>1. hist \in EmailHist /\ hist.minted \in Nat /\ hist.asks \in Nat /\ now \in Nat
  BY <1>0, EmailHistFields DEF EmailTypes
<1>2. PICK m \in Nat : m = hist.minted + 1
  BY <1>1
<1>3. entry' = [n |-> m, exp |-> now + CodeTTL] /\ UNCHANGED <<now, sends, tries>> /\ req[r].pc = "store"
  BY <1>2 DEF Email!Store
<1>4. PICK x \in ReqState : req' = [req EXCEPT ![r] = x] /\ x.pc = "idle" /\ x.code = 0
  BY <1>0, ReqGoes DEF Email!Store
<1>5. /\ hist' \in EmailHist /\ hist'.minted = m
      /\ hist'.counted = hist.counted /\ hist'.compared = hist.compared
      /\ hist'.accepted = hist.accepted /\ hist'.burnt = hist.burnt /\ hist'.asks = hist.asks
  <2>1. hist' = [hist EXCEPT !.minted = m]
    BY <1>2 DEF Email!Store
  <2>2. hist' \in EmailHist
    BY <1>1, <2>1 DEF EmailHist
  <2> QED BY <1>1, <2>1, <2>2 DEF EmailHist
<1>6. EmailTypes'
  <2>1. req' \in [Tasks -> ReqState]
    BY <1>0, <1>4 DEF EmailTypes
  <2>2. entry' \in Entries
    BY <1>1, <1>3 DEF Entries
  <2> QED BY <1>0, <1>3, <1>5, <2>1, <2>2 DEF EmailTypes, Email!Codes
<1>7. \A q \in Tasks : req'[q].code <= hist.minted /\ (req'[q].pc \in Submitted => req'[q].code > 0)
  BY <1>0, <1>1, <1>4 DEF MintInv, EmailTypes, Submitted
<1>8. m <= MaxCodes /\ hist'.minted + Cardinality(Asking') <= hist'.asks
  <2>1. PICK f \in Nat, g \in Nat :
          f = Cardinality(Asking) /\ g = Cardinality(Asking') /\ f = g + 1
    <3>1. ~Asks(x.pc) /\ Asks(req[r].pc)
      BY <1>3, <1>4 DEF Asks
    <3> QED BY <1>0, <1>4, <3>1, AskStep
  <2> QED BY <1>0, <1>1, <1>2, <1>5, <2>1 DEF MintInv
<1>9. \A c \in Email!Codes : c > hist.minted =>
         tries[c] = NoEntry /\ hist.compared[c] = 0 /\ hist.accepted[c] = 0
  BY <1>0 DEF MintInv
<1>10. \A c \in Email!Codes : c \in Nat
  BY DEF Email!Codes
<1>11. MintInv'
  <2>1. \A q \in Tasks : req'[q].code <= m /\ req'[q].code \in Nat
    BY <1>1, <1>2, <1>6, <1>7, ReqFacts DEF EmailTypes
  <2>2. \A c \in Email!Codes : c > m => c > hist.minted
    BY <1>1, <1>2, <1>10
  <2>3. entry'.n = m /\ m > 0 /\ entry'.exp = now + CodeTTL /\ entry'.exp <= now' + CodeTTL
    BY <1>1, <1>2, <1>3
  <2> QED BY <1>0, <1>3, <1>5, <1>7, <1>8, <1>9, <2>1, <2>2, <2>3 DEF MintInv, Email!Codes
<1>12. LoginInv'
  <2>1. \A c \in Email!Codes : entry'.n = c => c > hist.minted
    BY <1>1, <1>2, <1>3
  <2> QED BY <1>0, <1>5, <1>9, <2>1 DEF LoginInv, Email!Codes
<1>13. AttemptInv'
  <2> SUFFICES ASSUME NEW c \in Email!Codes
               PROVE  /\ hist'.compared[c] <= MaxAttempts
                      /\ Email!InForce(c)' =>
                          /\ tries'[c] = NoEntry \/ tries'[c].exp >= entry'.exp
                          /\ hist'.compared[c] + Cardinality(Pending(c)')
                               <= Min2(tries'[c].n, MaxAttempts)
    BY DEF AttemptInv, Email!Codes
  <2>1. hist'.compared[c] <= MaxAttempts
    BY <1>0, <1>5 DEF AttemptInv
  <2>2. ASSUME Email!InForce(c)'
        PROVE  /\ tries'[c] = NoEntry
               /\ hist'.compared[c] + Cardinality(Pending(c)') <= Min2(tries'[c].n, MaxAttempts)
    <3>1. c = m /\ c > hist.minted
      BY <1>1, <1>2, <1>3, <2>2 DEF Email!InForce
    <3>2. tries'[c] = NoEntry /\ hist'.compared[c] = 0
      BY <1>3, <1>5, <1>9, <3>1
    <3>3. Pending(c)' = {}
      <4>1. \A q \in Tasks : req'[q].code # c
        BY <1>1, <1>6, <1>7, <3>1, ReqFacts DEF EmailTypes
      <4> QED BY <4>1 DEF Pending
    <3>4. Cardinality(Pending(c)') = 0
      BY <3>3, FS_EmptySet
    <3> QED BY <3>2, <3>4 DEF NoEntry, Min2
  <2> QED BY <2>1, <2>2
<1>14. BurnInv'
  <2>1. x.pc # "compare" /\ x.pc # "burn"
    BY <1>4
  <2> QED BY <1>0, <1>3, <1>4, <1>5, <2>1, BurnFrame
<1> QED BY <1>6, <1>11, <1>12, <1>13, <1>14 DEF CodesInv

\* Steps that change nothing but their request and counts that no code depends on.
LEMMA CodesPlain ==
    ASSUME CodesInv, NEW r \in Tasks, NEW x \in ReqState, NEW n \in Nat,
           req' = [req EXCEPT ![r] = x], UNCHANGED <<now, entry, tries>>, sends' \in Entries,
           \/ hist' = [hist EXCEPT !.mails = n]
           \/ hist' = [hist EXCEPT !.submits = n]
           \/ hist' = [hist EXCEPT !.lost = n]
           \/ hist' = hist,
           ~Asks(x.pc), x.pc # "compare",
           x.code <= hist.minted, x.pc \in Submitted => x.code > 0,
           x.pc = "burn" => x.n >= MaxAttempts /\ x.n <= hist.counted[x.code]
    PROVE  CodesInv'
<1>0. EmailTypes /\ MintInv
  BY DEF CodesInv
<1>1. /\ hist' \in EmailHist
      /\ hist'.minted = hist.minted /\ hist'.counted = hist.counted
      /\ hist'.compared = hist.compared /\ hist'.accepted = hist.accepted
      /\ hist'.burnt = hist.burnt /\ hist'.asks = hist.asks
  BY <1>0, EmailHistOther DEF EmailTypes
<1>2. EmailTypes'
  <2>1. req' \in [Tasks -> ReqState]
    BY <1>0 DEF EmailTypes
  <2> QED BY <1>0, <1>1, <2>1 DEF EmailTypes, Email!Codes
<1>3. hist'.asks <= MaxCodes
  BY <1>0, <1>1 DEF MintInv
<1> QED BY <1>1, <1>2, <1>3, CodesQuiet

\* A submission is loaded, limited by its source, and its user looked up; it may
\* end at any place.
LEMMA CodesPass ==
    ASSUME CodesInv, NEW r \in Tasks,
           Email!Load(r) \/ Email!CountSource(r) \/ Email!LoadUser(r) \/ Email!Lose(r)
    PROVE  CodesInv'
<1>0. EmailTypes /\ MintInv
  BY DEF CodesInv
<1>1. UNCHANGED <<now, entry, tries>> /\ sends' \in Entries
  BY <1>0 DEF Email!Load, Email!CountSource, Email!LoadUser, Email!Lose, EmailTypes
<1>2. PICK n \in Nat : \/ hist' = [hist EXCEPT !.submits = n]
                       \/ hist' = [hist EXCEPT !.lost = n]
                       \/ hist' = hist
  <2>1. hist.submits + 1 \in Nat /\ hist.lost + 1 \in Nat
    BY <1>0, EmailHistFields DEF EmailTypes
  <2> QED BY <2>1 DEF Email!Load, Email!CountSource, Email!LoadUser, Email!Lose
<1>3. /\ req[r] \in ReqState /\ req[r].code <= hist.minted /\ hist.minted \in Nat
      /\ req[r].pc \in Submitted => req[r].code > 0
  BY <1>0, EmailHistFields DEF EmailTypes, MintInv
<1>4. PICK x \in ReqState :
        /\ req' = [req EXCEPT ![r] = x] /\ x.pc \in {"idle", "source", "count", "accept"}
        /\ x.code <= hist.minted /\ (x.pc \in Submitted => x.code > 0)
  <2>1. CASE Email!Done(r)
    <3>1. PICK x \in ReqState : req' = [req EXCEPT ![r] = x] /\ x.pc = "idle" /\ x.code = 0
      BY <1>0, <2>1, ReqGoes
    <3>2. x.code <= hist.minted /\ x.pc \notin Submitted
      BY <1>3, <3>1 DEF Submitted
    <3> QED BY <3>1, <3>2
  <2>2. CASE \/ Email!Goto(r, "count") /\ req[r].pc \in Submitted
             \/ Email!Goto(r, "accept") /\ req[r].pc \in Submitted
    <3>1. PICK x \in ReqState : /\ req' = [req EXCEPT ![r] = x] /\ x.pc \in {"count", "accept"}
                                /\ x.code = req[r].code
      BY <1>0, <2>2, ReqGoes DEF EmailPCs
    <3> QED BY <1>3, <2>2, <3>1
  <2>3. CASE Email!Load(r)
    <3>1. PICK ip \in Sources :
            req' = [req EXCEPT ![r] = [@ EXCEPT !.pc = "source", !.ip = ip, !.code = entry.n]]
      BY <2>3 DEF Email!Load
    <3>2. entry.n \in Nat /\ entry.exp \in Nat /\ now \in Nat
      BY <1>0 DEF EmailTypes, Entries
    <3>3. entry.n > 0 /\ entry.n <= hist.minted
      <4>1. entry.exp > now
        BY <2>3 DEF Email!Load, Email!Live
      <4>2. entry # NoEntry
        BY <3>2, <4>1 DEF NoEntry
      <4> QED BY <1>0, <3>2, <4>2 DEF MintInv
    <3>4. PICK x : x = [req[r] EXCEPT !.pc = "source", !.ip = ip, !.code = entry.n]
      OBVIOUS
    <3>5. x \in ReqState /\ x.pc = "source" /\ x.code = entry.n
      BY <1>3, <3>1, <3>2, <3>4 DEF ReqState, EmailPCs
    <3> QED BY <3>1, <3>3, <3>4, <3>5
  <2>4. CASE Email!CountSource(r) \/ Email!LoadUser(r) \/ Email!Lose(r)
    <3>1. \/ Email!Done(r)
          \/ Email!Goto(r, "count") /\ req[r].pc \in Submitted
          \/ Email!Goto(r, "accept") /\ req[r].pc \in Submitted
      BY <2>4 DEF Email!CountSource, Email!LoadUser, Email!Lose, Submitted
    <3> QED BY <2>1, <2>2, <3>1
  <2> QED BY <2>3, <2>4
<1>5. ~Asks(x.pc) /\ x.pc # "compare" /\ x.pc # "burn"
  BY <1>4 DEF Asks
<1> QED BY <1>1, <1>2, <1>4, <1>5, CodesPlain

\* A login clears the count of mails.
LEMMA CodesClear ==
    ASSUME CodesInv, NEW r \in Tasks, Email!ClearSendBudget(r)
    PROVE  CodesInv'
<1>0. EmailTypes /\ MintInv
  BY DEF CodesInv
<1>1. /\ hist' \in EmailHist
      /\ hist'.minted = hist.minted /\ hist'.counted = hist.counted
      /\ hist'.compared = hist.compared /\ hist'.accepted = hist.accepted
      /\ hist'.burnt = hist.burnt /\ hist'.asks = hist.asks
  <2>1. hist \in EmailHist /\ now \in Nat
    BY <1>0 DEF EmailTypes
  <2>2. PICK h : h = [hist EXCEPT !.mails = 0]
    OBVIOUS
  <2>3. h \in EmailHist
    BY <2>1, <2>2 DEF EmailHist
  <2>4. hist' = [h EXCEPT !.epoch = now]
    BY <2>1, <2>2, <2>3 DEF Email!ClearSendBudget, EmailHist
  <2>5. hist' \in EmailHist
    BY <2>1, <2>3, <2>4 DEF EmailHist
  <2>6. /\ h.minted = hist.minted /\ h.counted = hist.counted /\ h.compared = hist.compared
        /\ h.accepted = hist.accepted /\ h.burnt = hist.burnt /\ h.asks = hist.asks
    BY <2>1, <2>2 DEF EmailHist
  <2>7. /\ hist'.minted = h.minted /\ hist'.counted = h.counted /\ hist'.compared = h.compared
        /\ hist'.accepted = h.accepted /\ hist'.burnt = h.burnt /\ hist'.asks = h.asks
    BY <2>3, <2>4 DEF EmailHist
  <2> QED BY <2>5, <2>6, <2>7
<1>2. PICK x \in ReqState : req' = [req EXCEPT ![r] = x] /\ x.pc = "idle" /\ x.code = 0
  BY <1>0, ReqGoes DEF Email!ClearSendBudget
<1>3. UNCHANGED <<now, entry, tries>> /\ sends' = NoEntry /\ NoEntry \in Entries
  BY DEF Email!ClearSendBudget, NoEntry, Email!NoEntry, Entries
<1>4. EmailTypes'
  <2>1. req' \in [Tasks -> ReqState]
    BY <1>0, <1>2 DEF EmailTypes
  <2> QED BY <1>0, <1>1, <1>3, <2>1 DEF EmailTypes, Email!Codes
<1>5. hist'.asks <= MaxCodes /\ x.code <= hist.minted
  BY <1>0, <1>1, <1>2, EmailHistFields DEF MintInv, EmailTypes
<1>6. ~Asks(x.pc) /\ x.pc \notin Submitted /\ x.pc # "compare" /\ x.pc # "burn"
  BY <1>2 DEF Asks, Submitted
<1> QED BY <1>1, <1>2, <1>3, <1>4, <1>5, <1>6, CodesQuiet

\* Time passes: a code in force was in force.
LEMMA CodesTick ==
    ASSUME CodesInv, now' \in Nat, now' >= now, UNCHANGED <<entry, sends, tries, req, hist>>
    PROVE  CodesInv'
<1> USE BudgetsAssumption DEF BudgetsAssumption
<1>0. EmailTypes /\ MintInv /\ LoginInv /\ AttemptInv /\ BurnInv
  BY DEF CodesInv
<1>1. EmailTypes'
  BY <1>0 DEF EmailTypes, Email!Codes
<1>2. MintInv'
  <2>1. Asking' = Asking
    BY DEF Asking
  <2>2. entry.exp <= now' + CodeTTL
    BY <1>0 DEF MintInv, EmailTypes, Entries
  <2> QED BY <1>0, <2>1, <2>2 DEF MintInv, Email!Codes
<1>3. LoginInv' /\ BurnInv'
  BY <1>0 DEF LoginInv, BurnInv, Email!Codes
<1>4. \A c : Email!InForce(c)' => Email!InForce(c)
  BY <1>0 DEF Email!InForce, Email!Live, EmailTypes, Entries
<1>5. \A c : Pending(c)' = Pending(c)
  BY DEF Pending
<1>6. AttemptInv'
  BY <1>0, <1>4, <1>5 DEF AttemptInv, Email!Codes
<1> QED BY <1>1, <1>2, <1>3, <1>6 DEF CodesInv

\* How many ask is a number.
LEMMA AskStepType ==
    ASSUME EmailTypes
    PROVE  Cardinality(Asking) \in Nat
<1>1. IsFiniteSet(Asking)
  BY FS_Subset, ThrottleAssumption DEF Asking, ThrottleAssumption
<1> QED BY <1>1, FS_CardinalityType

\* A code that a request has in its hands is one that was minted.
LEMMA CodeInHand ==
    ASSUME EmailTypes, MintInv, NEW q \in Tasks, req[q].pc \in Submitted
    PROVE  req[q].code \in Email!Codes /\ req[q].code <= hist.minted
<1> USE BudgetsAssumption DEF BudgetsAssumption
<1>1. hist.minted \in Nat /\ hist.asks \in Nat /\ req[q].code \in Nat
  BY EmailHistFields, ReqFacts DEF EmailTypes
<1>2. PICK f \in Nat : f = Cardinality(Asking)
  BY AskStepType
<1>3. req[q].code > 0 /\ req[q].code <= hist.minted /\ hist.minted <= MaxCodes
  BY <1>1, <1>2 DEF MintInv
<1> QED BY <1>1, <1>3 DEF Email!Codes

\* One tally of the history goes up by one.
LEMMA TallyStep ==
    ASSUME NEW t \in Tally, NEW k \in Email!Codes
    PROVE  \E u \in Tally : /\ u = [t EXCEPT ![k] = t[k] + 1]
                            /\ t[k] \in Nat /\ u[k] = t[k] + 1
                            /\ \A c \in Email!Codes : t[c] \in Nat /\ (c # k => u[c] = t[c])
<1>1. t[k] \in Nat /\ [t EXCEPT ![k] = t[k] + 1] \in Tally
  BY DEF Tally
<1>2. PICK u : u = [t EXCEPT ![k] = t[k] + 1]
  OBVIOUS
<1>3. u \in Tally /\ u[k] = t[k] + 1 /\ \A c \in Email!Codes : t[c] \in Nat /\ (c # k => u[c] = t[c])
  BY <1>1, <1>2 DEF Tally
<1> QED BY <1>1, <1>2, <1>3

\* An attempt is counted before it is compared: it has a number of its own.
LEMMA CodesCountAttempt ==
    ASSUME CodesInv, NEW r \in Tasks, Email!CountAttempt(r)
    PROVE  CodesInv'
<1> USE BudgetsAssumption DEF BudgetsAssumption
<1>0. EmailTypes /\ MintInv /\ LoginInv /\ AttemptInv /\ BurnInv
  BY DEF CodesInv
<1>1. req[r] \in ReqState /\ hist \in EmailHist /\ hist.minted \in Nat /\ hist.asks \in Nat /\ now \in Nat
  BY <1>0, EmailHistFields DEF EmailTypes
<1>2. PICK k \in Nat : k = req[r].code
  BY <1>1, ReqFacts
<1>3. k \in Email!Codes /\ k > 0 /\ k <= hist.minted
  <2>1. k \in Email!Codes /\ k <= hist.minted
    BY <1>0, <1>2, CodeInHand DEF Email!CountAttempt, Submitted
  <2> QED BY <2>1 DEF Email!Codes
<1>4. PICK c : c = Increment(tries[k], Email!AttemptTTL)
  OBVIOUS
<1>5. /\ tries' = [tries EXCEPT ![k] = c] /\ UNCHANGED <<now, entry, sends>>
      /\ req' = [req EXCEPT ![r] = [req[r] EXCEPT !.pc = "compare", !.n = c.n]]
      /\ hist' = [hist EXCEPT !.counted = [hist.counted EXCEPT ![k] = hist.counted[k] + 1]]
  <2>1. Email!CounterOf(req[r].code) = k
    BY <1>2 DEF Email!CounterOf
  <2>2. c = Email!Increment(tries[k], Email!AttemptTTL)
    BY <1>4, SameIncrement
  <2> QED BY <1>1, <1>2, <2>1, <2>2 DEF Email!CountAttempt
<1>6. Email!AttemptTTL \in Nat /\ Email!AttemptTTL >= CodeTTL
  <2>1. CodeTTL \in Nat /\ MaxAttempts \in Nat /\ MaxAttempts >= 1
    OBVIOUS
  <2>2. CodeTTL * 1 <= CodeTTL * MaxAttempts /\ CodeTTL * 1 = CodeTTL
    BY <2>1, ProductGrows
  <2>3. CodeTTL * MaxAttempts \in Nat
    BY <2>1, NextMultiple
  <2> QED BY <2>1, <2>2, <2>3 DEF Email!AttemptTTL
<1>7. tries[k] \in Entries /\ tries[k].n \in Nat /\ tries[k].exp \in Nat
  BY <1>0, <1>3 DEF EmailTypes, Entries
<1>8. /\ c \in Entries /\ c.n \in Nat /\ c.n <= tries[k].n + 1
      /\ \/ tries[k].exp > now /\ c.n = tries[k].n + 1 /\ c.exp = tries[k].exp
         \/ ~(tries[k].exp > now) /\ c.n = 1 /\ c.exp = now + Email!AttemptTTL
  <2>1. CASE tries[k].exp > now
    BY <1>4, <1>7, <2>1 DEF Increment, Live, Entries
  <2>2. CASE ~(tries[k].exp > now)
    BY <1>1, <1>4, <1>6, <1>7, <2>2 DEF Increment, Live, Entries
  <2> QED BY <2>1, <2>2
<1>9. PICK x \in ReqState : /\ req' = [req EXCEPT ![r] = x] /\ x.pc = "compare"
                            /\ x.code = k /\ x.n = c.n
  <2>1. PICK x : x = [req[r] EXCEPT !.pc = "compare", !.n = c.n]
    OBVIOUS
  <2>2. x \in ReqState /\ x.pc = "compare" /\ x.code = k /\ x.n = c.n
    BY <1>1, <1>2, <1>8, <2>1 DEF ReqState, EmailPCs
  <2> QED BY <1>5, <2>1, <2>2
<1>10. PICK u \in Tally : /\ u = [hist.counted EXCEPT ![k] = hist.counted[k] + 1]
                          /\ hist.counted[k] \in Nat /\ u[k] = hist.counted[k] + 1
                          /\ \A d \in Email!Codes : /\ hist.counted[d] \in Nat
                                                    /\ d # k => u[d] = hist.counted[d]
  BY <1>1, <1>3, TallyStep, EmailHistFields
<1>11. /\ hist' \in EmailHist /\ hist'.counted = u /\ hist'.minted = hist.minted
       /\ hist'.compared = hist.compared /\ hist'.accepted = hist.accepted
       /\ hist'.burnt = hist.burnt /\ hist'.asks = hist.asks
  <2>1. hist' = [hist EXCEPT !.counted = u]
    BY <1>5, <1>10
  <2>2. hist' \in EmailHist
    BY <1>1, <2>1 DEF EmailHist
  <2> QED BY <1>1, <2>1, <2>2 DEF EmailHist
<1>12. /\ tries' \in [Email!Codes -> Entries] /\ tries'[k] = c
       /\ \A d \in Email!Codes : d # k => tries'[d] = tries[d]
  BY <1>0, <1>3, <1>5, <1>8 DEF EmailTypes
<1>13. EmailTypes'
  <2>1. req' \in [Tasks -> ReqState]
    BY <1>0, <1>9 DEF EmailTypes
  <2> QED BY <1>0, <1>5, <1>11, <1>12, <2>1 DEF EmailTypes, Email!Codes
<1>14. MintInv'
  <2>1. PICK f \in Nat, g \in Nat : f = Cardinality(Asking) /\ g = Cardinality(Asking') /\ g <= f
    BY <1>0, <1>9, AskStep DEF Asks
  <2>2. Cardinality(Asking') + hist.asks <= Cardinality(Asking) + hist'.asks
    BY <1>1, <1>11, <2>1
  <2>3. \A d \in Email!Codes : d > hist.minted => tries'[d] = tries[d]
    BY <1>1, <1>3, <1>12
  <2>4. hist'.asks <= MaxCodes
    BY <1>0, <1>11 DEF MintInv
  <2>5. \A d \in Email!Codes : d > hist.minted =>
           /\ tries'[d] = tries[d] /\ hist'.compared[d] = hist.compared[d]
           /\ hist'.accepted[d] = hist.accepted[d]
    BY <1>11, <2>3
  <2>6. x.code <= hist.minted /\ x.code > 0 /\ entry' \in {entry, NoEntry}
    BY <1>3, <1>5, <1>9
  <2> HIDE DEF BudgetsAssumption
  <2> QED BY <1>0, <1>5, <1>9, <1>11, <2>2, <2>4, <2>5, <2>6, MintFrame
<1>15. LoginInv'
  BY <1>0, <1>5, <1>11, LoginFrame
<1>16. BurnInv'
  <2>1. c.n <= u[k]
    BY <1>0, <1>3, <1>7, <1>8, <1>10 DEF BurnInv
  <2>2. \A d \in Email!Codes : tries'[d].n <= u[d]
    BY <1>0, <1>10, <1>12, <2>1 DEF BurnInv
  <2>3. \A d \in Email!Codes : u[d] \in Nat /\ u[d] >= hist.counted[d]
    BY <1>10
  <2>4. \A d \in hist.burnt : u[d] >= MaxAttempts
    <3> SUFFICES ASSUME NEW d \in hist.burnt PROVE u[d] >= MaxAttempts
      OBVIOUS
    <3>1. d \in Email!Codes
      BY <1>1, EmailHistFields
    <3>2. hist.counted[d] >= MaxAttempts /\ hist.counted[d] \in Nat
      BY <1>0, <1>10, <3>1 DEF BurnInv
    <3> QED BY <2>3, <3>1, <3>2
  <2>5. ASSUME NEW q \in Tasks
        PROVE  /\ req'[q].pc \in {"compare", "burn"} => req'[q].n <= u[req'[q].code]
               /\ req'[q].pc = "burn" => req'[q].n >= MaxAttempts
    <3>1. CASE q = r
      BY <1>0, <1>9, <2>1, <3>1 DEF EmailTypes
    <3>2. CASE q # r
      <4>1. req'[q] = req[q] /\ req[q] \in ReqState
        BY <1>0, <1>9, <3>2 DEF EmailTypes
      <4>2. ASSUME req[q].pc \in {"compare", "burn"} PROVE req[q].n <= u[req[q].code]
        <5>1. req[q].code \in Email!Codes
          BY <1>0, <4>2, CodeInHand DEF Submitted
        <5>2. req[q].n <= hist.counted[req[q].code] /\ req[q].n \in Nat
          BY <1>0, <4>1, <4>2, ReqFacts DEF BurnInv
        <5> QED BY <1>10, <2>3, <5>1, <5>2
      <4>3. req[q].pc = "burn" => req[q].n >= MaxAttempts
        BY <1>0 DEF BurnInv
      <4> QED BY <4>1, <4>2, <4>3
    <3> QED BY <3>1, <3>2
  <2> QED BY <1>11, <2>2, <2>4, <2>5 DEF BurnInv, Email!Codes
<1>17. AttemptInv'
  <2> SUFFICES ASSUME NEW d \in Email!Codes
               PROVE  /\ hist'.compared[d] <= MaxAttempts
                      /\ Email!InForce(d)' =>
                          /\ tries'[d] = NoEntry \/ tries'[d].exp >= entry'.exp
                          /\ hist'.compared[d] + Cardinality(Pending(d)')
                               <= Min2(tries'[d].n, MaxAttempts)
    BY DEF AttemptInv, Email!Codes
  <2>1. hist'.compared[d] <= MaxAttempts
    BY <1>0, <1>11 DEF AttemptInv
  <2>2. ASSUME Email!InForce(d)'
        PROVE  /\ tries'[d] = NoEntry \/ tries'[d].exp >= entry'.exp
               /\ hist'.compared[d] + Cardinality(Pending(d)') <= Min2(tries'[d].n, MaxAttempts)
    <3>1. entry.exp > now /\ Email!InForce(d)
      BY <1>5, <2>2 DEF Email!InForce, Email!Live
    <3>2. /\ tries[d] = NoEntry \/ tries[d].exp >= entry.exp
          /\ hist.compared[d] + Cardinality(Pending(d)) <= Min2(tries[d].n, MaxAttempts)
      BY <1>0, <3>1 DEF AttemptInv
    <3>3. /\ hist.compared[d] \in Nat /\ tries[d].n \in Nat /\ tries[d].exp \in Nat
          /\ entry.exp \in Nat /\ entry.exp <= now + CodeTTL
      BY <1>0, <1>1, EmailHistFields DEF EmailTypes, Tally, Entries, MintInv
    <3>4. PICK f \in Nat, g \in Nat :
            /\ f = Cardinality(Pending(d)) /\ g = Cardinality(Pending(d)')
            /\ g <= f + 1 /\ (~Pends(x, d) => g <= f)
      BY <1>0, <1>9, PendingStep
    <3>5. CASE d # k
      <4>1. ~Pends(x, d)
        BY <1>9, <3>5 DEF Pends
      <4>2. hist.compared[d] + g <= Min2(tries[d].n, MaxAttempts)
        BY <3>2, <3>3, <3>4, <4>1 DEF Min2
      <4> QED BY <1>5, <1>11, <1>12, <3>2, <3>4, <3>5, <4>2
    <3>6. CASE d = k
      <4>1. c.n = tries[k].n + 1 /\ c.exp >= entry.exp
        <5>1. CASE tries[k].exp > now
          BY <1>1, <1>7, <1>8, <3>1, <3>2, <3>3, <3>6, <5>1 DEF NoEntry
        <5>2. CASE ~(tries[k].exp > now)
          <6>1. tries[k] = NoEntry
            BY <1>1, <1>7, <3>1, <3>2, <3>3, <3>6, <5>2
          <6> QED BY <1>1, <1>6, <1>8, <3>3, <5>2, <6>1 DEF NoEntry
        <5> QED BY <5>1, <5>2
      <4>2. hist.compared[d] + g <= Min2(c.n, MaxAttempts)
        <5>1. hist.compared[d] + f <= Min2(tries[d].n, MaxAttempts)
          BY <3>2, <3>4
        <5>2. c.n <= MaxAttempts \/ g <= f
          BY <1>8, <1>9, <3>4 DEF Pends
        <5> QED BY <1>8, <3>3, <3>4, <3>6, <4>1, <5>1, <5>2 DEF Min2
      <4> QED BY <1>5, <1>11, <1>12, <3>4, <3>6, <4>1, <4>2
    <3> QED BY <3>5, <3>6
  <2> QED BY <2>1, <2>2
<1> QED BY <1>13, <1>14, <1>15, <1>16, <1>17 DEF CodesInv

\* A comparison uses up the number of its attempt.
LEMMA CodesCompare ==
    ASSUME CodesInv, NEW r \in Tasks, Email!Compare(r)
    PROVE  CodesInv'
<1> USE BudgetsAssumption DEF BudgetsAssumption
<1>0. EmailTypes /\ MintInv /\ LoginInv /\ AttemptInv /\ BurnInv
  BY DEF CodesInv
<1>1. /\ req[r] \in ReqState /\ hist \in EmailHist /\ hist.minted \in Nat /\ hist.asks \in Nat
      /\ hist.asks <= MaxCodes /\ req[r].n \in Nat
  BY <1>0, EmailHistFields, ReqFacts DEF EmailTypes, MintInv
<1>2. PICK k \in Email!Codes : k = req[r].code /\ k <= hist.minted /\ k \in Nat /\ k > 0
  <2>1. req[r].code \in Email!Codes /\ req[r].code <= hist.minted
    BY <1>0, CodeInHand DEF Email!Compare, Submitted
  <2> QED BY <2>1 DEF Email!Codes
<1>3. /\ UNCHANGED <<now, entry, sends, tries>> /\ req[r].pc = "compare"
      /\ hist' = IF req[r].n <= MaxAttempts /\ Email!InForce(k)
                 THEN [hist EXCEPT !.compared = [hist.compared EXCEPT ![k] = hist.compared[k] + 1]]
                 ELSE hist
  BY <1>2 DEF Email!Compare, Email!InBudget
<1>4. PICK x \in ReqState : /\ req' = [req EXCEPT ![r] = x]
                            /\ x.pc \in {"user", "burn", "idle"}
                            /\ \/ x.code = k /\ x.n = req[r].n
                               \/ x.code = 0 /\ x.pc = "idle"
                            /\ x.pc = "burn" => req[r].n >= MaxAttempts
  <2>1. CASE Email!Goto(r, "user")
    BY <1>0, <1>2, <2>1, ReqGoes DEF EmailPCs
  <2>2. CASE req[r].n >= MaxAttempts /\ Email!Goto(r, "burn")
    BY <1>0, <1>2, <2>2, ReqGoes DEF EmailPCs
  <2>3. CASE Email!Done(r)
    BY <1>0, <2>3, ReqGoes
  <2> QED BY <2>1, <2>2, <2>3 DEF Email!Compare
<1>5. /\ ~Asks(x.pc) /\ x.pc # "compare" /\ x.code <= hist.minted
      /\ x.pc \in Submitted => x.code > 0
      /\ x.pc = "burn" => x.n >= MaxAttempts /\ x.n <= hist.counted[x.code]
  <2>1. ~Asks(x.pc) /\ x.pc # "compare"
    BY <1>4 DEF Asks
  <2>2. x.code <= hist.minted /\ (x.pc \in Submitted => x.code > 0)
    BY <1>1, <1>2, <1>4 DEF Submitted
  <2>3. req[r].n <= hist.counted[k]
    BY <1>0, <1>2, <1>3 DEF BurnInv
  <2>4. x.pc = "burn" => x.n >= MaxAttempts /\ x.n <= hist.counted[x.code]
    BY <1>4, <2>3
  <2> QED BY <2>1, <2>2, <2>4
<1>6. CASE ~(req[r].n <= MaxAttempts /\ Email!InForce(k))
  <2>1. hist' = hist /\ sends' \in Entries /\ 0 \in Nat
    BY <1>0, <1>3, <1>6 DEF EmailTypes
  <2> HIDE DEF BudgetsAssumption
  <2> QED BY <1>3, <1>4, <1>5, <2>1, CodesPlain
<1>7. CASE req[r].n <= MaxAttempts /\ Email!InForce(k)
  <2>1. PICK u \in Tally : /\ u = [hist.compared EXCEPT ![k] = hist.compared[k] + 1]
                           /\ hist.compared[k] \in Nat /\ u[k] = hist.compared[k] + 1
                           /\ \A d \in Email!Codes : /\ hist.compared[d] \in Nat
                                                     /\ d # k => u[d] = hist.compared[d]
    BY <1>1, TallyStep, EmailHistFields
  <2>2. /\ hist' \in EmailHist /\ hist'.compared = u /\ hist'.minted = hist.minted
        /\ hist'.counted = hist.counted /\ hist'.accepted = hist.accepted
        /\ hist'.burnt = hist.burnt /\ hist'.asks = hist.asks
    <3>1. hist' = [hist EXCEPT !.compared = u]
      BY <1>3, <1>7, <2>1
    <3>2. hist' \in EmailHist
      BY <1>1, <3>1 DEF EmailHist
    <3> QED BY <1>1, <3>1, <3>2 DEF EmailHist
  <2>3. EmailTypes'
    <3>1. req' \in [Tasks -> ReqState]
      BY <1>0, <1>4 DEF EmailTypes
    <3> QED BY <1>0, <1>3, <2>2, <3>1 DEF EmailTypes, Email!Codes
  <2>4. MintInv'
    <3>1. PICK f \in Nat, g \in Nat : f = Cardinality(Asking) /\ g = Cardinality(Asking') /\ g <= f
      BY <1>0, <1>4, <1>5, AskStep
    <3>2. Cardinality(Asking') + hist.asks <= Cardinality(Asking) + hist'.asks
      BY <1>1, <2>2, <3>1
    <3>3. \A d \in Email!Codes : d > hist.minted =>
             /\ tries'[d] = tries[d] /\ hist'.compared[d] = hist.compared[d]
             /\ hist'.accepted[d] = hist.accepted[d]
      BY <1>1, <1>2, <1>3, <2>1, <2>2
    <3>4. hist'.asks <= MaxCodes /\ entry' \in {entry, NoEntry}
      BY <1>1, <1>3, <2>2
    <3> HIDE DEF BudgetsAssumption
    <3> QED BY <1>0, <1>3, <1>4, <1>5, <2>2, <3>2, <3>3, <3>4, MintFrame
  <2>5. LoginInv'
    BY <1>0, <1>3, <2>2, LoginFrame
  <2>6. BurnInv'
    BY <1>0, <1>3, <1>4, <1>5, <2>2, BurnFrame
  <2>7. AttemptInv'
    <3>1. ASSUME NEW d \in Email!Codes, Email!InForce(d)
          PROVE  /\ tries[d] = NoEntry \/ tries[d].exp >= entry.exp
                 /\ u[d] + Cardinality(Pending(d)') <= Min2(tries[d].n, MaxAttempts)
                 /\ Cardinality(Pending(d)') \in Nat
      <4>1. /\ tries[d] = NoEntry \/ tries[d].exp >= entry.exp
            /\ hist.compared[d] + Cardinality(Pending(d)) <= Min2(tries[d].n, MaxAttempts)
        BY <1>0, <3>1 DEF AttemptInv
      <4>2. d = k
        BY <1>7, <3>1 DEF Email!InForce
      <4>3. Pends(req[r], d) /\ ~Pends(x, d)
        BY <1>2, <1>3, <1>5, <1>7, <4>2 DEF Pends
      <4>4. PICK f \in Nat, g \in Nat :
              f = Cardinality(Pending(d)) /\ g = Cardinality(Pending(d)') /\ f = g + 1
        BY <1>0, <1>4, <4>3, PendingStep, ZenonT(30)
      <4>5. hist.compared[d] + (g + 1) <= Min2(tries[d].n, MaxAttempts)
        BY <4>1, <4>4
      <4>6. u[d] + g <= Min2(tries[d].n, MaxAttempts)
        <5>1. u[d] = hist.compared[d] + 1 /\ hist.compared[d] \in Nat /\ tries[d].n \in Nat
          BY <1>0, <2>1, <4>2 DEF EmailTypes, Entries
        <5> QED BY <4>5, <5>1 DEF Min2
      <4> QED BY <4>1, <4>4, <4>6
    <3>2. ASSUME NEW d \in Email!Codes PROVE u[d] <= MaxAttempts
      <4>1. CASE d = k
        <5>1. Email!InForce(d)
          BY <1>7, <4>1
        <5>2. PICK g \in Nat : g = Cardinality(Pending(d)') /\ u[d] + g <= Min2(tries[d].n, MaxAttempts)
          BY <3>1, <5>1
        <5>3. tries[d].n \in Nat /\ u[d] \in Nat
          BY <1>0, <2>1, <4>1 DEF EmailTypes, Entries
        <5> QED BY <5>2, <5>3 DEF Min2
      <4>2. CASE d # k
        BY <1>0, <2>1, <4>2 DEF AttemptInv
      <4> QED BY <4>1, <4>2
    <3>3. \A d : Email!InForce(d)' => Email!InForce(d)
      BY <1>3 DEF Email!InForce, Email!Live
    <3> HIDE DEF BudgetsAssumption
    <3> QED BY <1>3, <2>2, <3>1, <3>2, <3>3 DEF AttemptInv, Email!Codes
  <2> QED BY <2>3, <2>4, <2>5, <2>6, <2>7 DEF CodesInv
<1> QED BY <1>6, <1>7

\* Whoever finds another code, or none, deletes nothing and ends.
LEMMA CodesMissed ==
    ASSUME CodesInv, NEW r \in Tasks, Email!Done(r), UNCHANGED <<now, entry, sends, tries, hist>>
    PROVE  CodesInv'
<1>0. EmailTypes /\ MintInv /\ hist.minted \in Nat
  BY EmailHistFields DEF CodesInv, EmailTypes
<1>1. PICK x \in ReqState : req' = [req EXCEPT ![r] = x] /\ x.pc = "idle" /\ x.code = 0
  BY <1>0, ReqGoes
<1>2. sends' \in Entries /\ 0 \in Nat /\ x.code <= hist.minted
  BY <1>0, <1>1 DEF EmailTypes
<1>3. ~Asks(x.pc) /\ x.pc # "compare" /\ x.pc # "burn" /\ x.pc \notin Submitted
  BY <1>1 DEF Asks, Submitted
<1> QED BY <1>1, <1>2, <1>3, CodesPlain

\* Whoever deletes the code in force has the login.
LEMMA CodesAccept ==
    ASSUME CodesInv, NEW r \in Tasks, Email!Accept(r)
    PROVE  CodesInv'
<1> USE BudgetsAssumption DEF BudgetsAssumption
<1>0. EmailTypes /\ MintInv /\ LoginInv /\ AttemptInv /\ BurnInv
  BY DEF CodesInv
<1>1. /\ req[r] \in ReqState /\ hist \in EmailHist /\ hist.minted \in Nat /\ hist.asks \in Nat
      /\ hist.asks <= MaxCodes
  BY <1>0, EmailHistFields DEF EmailTypes, MintInv
<1>2. PICK k \in Email!Codes : k = req[r].code /\ k <= hist.minted /\ k \in Nat /\ k > 0
  <2>1. req[r].code \in Email!Codes /\ req[r].code <= hist.minted
    BY <1>0, CodeInHand DEF Email!Accept, Submitted
  <2> QED BY <2>1 DEF Email!Codes
<1>3. CASE ~Email!InForce(k)
  <2>1. Email!Done(r) /\ UNCHANGED <<now, entry, sends, tries, hist>>
    BY <1>2, <1>3 DEF Email!Accept, Email!Deletes
  <2> QED BY <2>1, CodesMissed
<1>4. CASE Email!InForce(k)
  <2>1. /\ entry' = NoEntry /\ UNCHANGED <<now, sends, tries>> /\ Email!Goto(r, "clear")
        /\ hist' = [hist EXCEPT !.accepted = [hist.accepted EXCEPT ![k] = hist.accepted[k] + 1]]
    BY <1>2, <1>4 DEF Email!Accept, Email!Deletes, Email!NoEntry, NoEntry
  <2>2. PICK x \in ReqState : req' = [req EXCEPT ![r] = x] /\ x.pc = "clear" /\ x.code = k
    BY <1>0, <1>2, <2>1, ReqGoes DEF EmailPCs
  <2>3. PICK u \in Tally : /\ u = [hist.accepted EXCEPT ![k] = hist.accepted[k] + 1]
                           /\ hist.accepted[k] \in Nat /\ u[k] = hist.accepted[k] + 1
                           /\ \A d \in Email!Codes : /\ hist.accepted[d] \in Nat
                                                     /\ d # k => u[d] = hist.accepted[d]
    BY <1>1, TallyStep, EmailHistFields
  <2>4. /\ hist' \in EmailHist /\ hist'.accepted = u /\ hist'.minted = hist.minted
        /\ hist'.counted = hist.counted /\ hist'.compared = hist.compared
        /\ hist'.burnt = hist.burnt /\ hist'.asks = hist.asks
    <3>1. hist' = [hist EXCEPT !.accepted = u]
      BY <2>1, <2>3
    <3>2. hist' \in EmailHist
      BY <1>1, <3>1 DEF EmailHist
    <3> QED BY <1>1, <3>1, <3>2 DEF EmailHist
  <2>5. ~Asks(x.pc) /\ x.pc # "compare" /\ x.pc # "burn" /\ x.code <= hist.minted /\ x.code > 0
    BY <1>2, <2>2 DEF Asks
  <2>6. EmailTypes'
    <3>1. req' \in [Tasks -> ReqState]
      BY <1>0, <2>2 DEF EmailTypes
    <3>2. NoEntry \in Entries
      BY DEF NoEntry, Entries
    <3> QED BY <1>0, <2>1, <2>4, <3>1, <3>2 DEF EmailTypes, Email!Codes
  <2>7. MintInv'
    <3>1. PICK f \in Nat, g \in Nat : f = Cardinality(Asking) /\ g = Cardinality(Asking') /\ g <= f
      BY <1>0, <2>2, <2>5, AskStep
    <3>2. Cardinality(Asking') + hist.asks <= Cardinality(Asking) + hist'.asks
      BY <1>1, <2>4, <3>1
    <3>3. \A d \in Email!Codes : d > hist.minted =>
             /\ tries'[d] = tries[d] /\ hist'.compared[d] = hist.compared[d]
             /\ hist'.accepted[d] = hist.accepted[d]
      BY <1>1, <1>2, <2>1, <2>3, <2>4
    <3>4. hist'.asks <= MaxCodes /\ entry' \in {entry, NoEntry}
      BY <1>1, <2>1, <2>4
    <3> HIDE DEF BudgetsAssumption
    <3> QED BY <1>0, <2>1, <2>2, <2>4, <2>5, <3>2, <3>3, <3>4, MintFrame
  <2>8. LoginInv'
    <3>1. hist.accepted[k] = 0
      BY <1>0, <1>4 DEF LoginInv, Email!InForce
    <3>2. \A d \in Email!Codes : u[d] <= 1 /\ NoEntry.n # d
      BY <1>0, <2>3, <3>1 DEF LoginInv, NoEntry, Email!Codes
    <3> QED BY <2>1, <2>4, <3>2 DEF LoginInv, Email!Codes
  <2>9. AttemptInv'
    <3>1. entry' \in {entry, NoEntry}
      BY <2>1
    <3> QED BY <1>0, <2>1, <2>2, <2>4, <2>5, <3>1, AttemptFrame
  <2>10. BurnInv'
    BY <1>0, <2>1, <2>2, <2>4, <2>5, BurnFrame
  <2> QED BY <2>6, <2>7, <2>8, <2>9, <2>10 DEF CodesInv
<1> QED BY <1>3, <1>4

\* The code that is burnt is the one whose attempts are used up.
LEMMA CodesBurn ==
    ASSUME CodesInv, NEW r \in Tasks, Email!Burn(r)
    PROVE  CodesInv'
<1> USE BudgetsAssumption DEF BudgetsAssumption
<1>0. EmailTypes /\ MintInv /\ LoginInv /\ AttemptInv /\ BurnInv
  BY DEF CodesInv
<1>1. /\ req[r] \in ReqState /\ hist \in EmailHist /\ hist.minted \in Nat /\ hist.asks \in Nat
      /\ hist.asks <= MaxCodes /\ req[r].n \in Nat /\ hist.burnt \in SUBSET Email!Codes
      /\ hist.counted \in Tally
  BY <1>0, EmailHistFields, ReqFacts DEF EmailTypes, MintInv
<1>2. PICK k \in Email!Codes : k = req[r].code
  BY <1>0, CodeInHand DEF Email!Burn, Submitted
<1>3. CASE ~Email!InForce(k)
  <2>1. Email!Done(r) /\ UNCHANGED <<now, entry, sends, tries, hist>>
    BY <1>2, <1>3 DEF Email!Burn, Email!Deletes
  <2> QED BY <2>1, CodesMissed
<1>4. CASE Email!InForce(k)
  <2>1. /\ entry' = NoEntry /\ UNCHANGED <<now, sends, tries>> /\ Email!Done(r)
        /\ hist' = [hist EXCEPT !.burnt = hist.burnt \cup {k}]
    BY <1>2, <1>4 DEF Email!Burn, Email!Deletes, Email!InForce, Email!NoEntry, NoEntry
  <2>2. PICK x \in ReqState : req' = [req EXCEPT ![r] = x] /\ x.pc = "idle" /\ x.code = 0
    BY <1>0, <2>1, ReqGoes
  <2>3. PICK b : b = hist.burnt \cup {k} /\ b \in SUBSET Email!Codes
    BY <1>1
  <2>4. /\ hist' \in EmailHist /\ hist'.burnt = b /\ hist'.minted = hist.minted
        /\ hist'.counted = hist.counted /\ hist'.compared = hist.compared
        /\ hist'.accepted = hist.accepted /\ hist'.asks = hist.asks
    <3>1. hist' = [hist EXCEPT !.burnt = b]
      BY <2>1, <2>3
    <3>2. hist' \in EmailHist
      BY <1>1, <2>3, <3>1 DEF EmailHist
    <3> QED BY <1>1, <3>1, <3>2 DEF EmailHist
  <2>5. /\ ~Asks(x.pc) /\ x.pc # "compare" /\ x.pc # "burn" /\ x.code <= hist.minted
        /\ x.pc \notin Submitted /\ entry' \in {entry, NoEntry}
    BY <1>1, <2>1, <2>2 DEF Asks, Submitted
  <2>6. EmailTypes'
    <3>1. req' \in [Tasks -> ReqState]
      BY <1>0, <2>2 DEF EmailTypes
    <3>2. NoEntry \in Entries
      BY DEF NoEntry, Entries
    <3> QED BY <1>0, <2>1, <2>4, <3>1, <3>2 DEF EmailTypes, Email!Codes
  <2>7. MintInv'
    <3>1. PICK f \in Nat, g \in Nat : f = Cardinality(Asking) /\ g = Cardinality(Asking') /\ g <= f
      BY <1>0, <2>2, <2>5, AskStep
    <3>2. Cardinality(Asking') + hist.asks <= Cardinality(Asking) + hist'.asks
      BY <1>1, <2>4, <3>1
    <3>3. hist'.asks <= MaxCodes
      BY <1>1, <2>4
    <3> HIDE DEF BudgetsAssumption
    <3> QED BY <1>0, <2>1, <2>2, <2>4, <2>5, <3>2, <3>3, MintFrame
  <2>8. LoginInv' /\ AttemptInv'
    BY <1>0, <2>1, <2>2, <2>4, <2>5, LoginFrame, AttemptFrame
  <2>9. BurnInv'
    <3>1. req[r].n >= MaxAttempts /\ req[r].n <= hist.counted[k]
      BY <1>0, <1>2 DEF BurnInv, Email!Burn
    <3>2. hist.counted[k] >= MaxAttempts
      BY <1>1, <3>1 DEF Tally
    <3>3. \A d \in b : hist.counted[d] >= MaxAttempts
      BY <1>0, <2>3, <3>2 DEF BurnInv
    <3>4. \A q \in Tasks :
            /\ req'[q].pc \in {"compare", "burn"} => req'[q].n <= hist'.counted[req'[q].code]
            /\ req'[q].pc = "burn" => req'[q].n >= MaxAttempts
      BY <1>0, <2>2, <2>4 DEF BurnInv, EmailTypes
    <3> QED BY <1>0, <2>1, <2>4, <3>3, <3>4 DEF BurnInv, Email!Codes
  <2> QED BY <2>6, <2>7, <2>8, <2>9 DEF CodesInv
<1> QED BY <1>3, <1>4

\* What no mail is charged by leaves the account.
LEMMA MailsQuiet ==
    ASSUME EmailTypes, NEW W \in Nat, MailsFit(W), now' \in Nat, now' >= now, UNCHANGED sends,
           hist'.mails = hist.mails, hist'.epoch = hist.epoch
    PROVE  MailsFit(W)'
<1> USE BudgetsAssumption DEF BudgetsAssumption
<1>1. hist.epoch \in Nat /\ now \in Nat /\ W * CodeTTL \in Nat
  BY EmailHistFields, NextMultiple DEF EmailTypes
<1>2. hist.epoch + W * CodeTTL <= now'
  BY <1>1 DEF MailsFit, Windowed
<1> QED BY <1>2 DEF MailsFit, Windowed, Counted, NoEntry

\* A mail is charged before it is sent.
LEMMA MailsCharge ==
    ASSUME EmailTypes, NEW W \in Nat, MailsFit(W), NEW r \in Tasks, Email!ChargeUser(r)
    PROVE  \E V \in Nat : MailsFit(V)'
<1> USE BudgetsAssumption DEF BudgetsAssumption
<1>1. /\ hist \in EmailHist /\ hist.epoch \in Nat /\ hist.mails \in Nat
      /\ now \in Nat /\ sends \in [n : Nat, exp : Nat]
  BY EmailHistFields DEF EmailTypes, Entries
<1>2. PICK d : d = Increment(sends, CodeTTL)
  OBVIOUS
<1>3. d \in [n : Nat, exp : Nat]
  BY <1>1, <1>2, IncrementType
<1>4. sends' = d /\ UNCHANGED now
  BY <1>2, SameIncrement DEF Email!ChargeUser
<1>5. PICK V \in Nat :
        /\ Windowed(CodeTTL, V, d, now, hist.epoch)
        /\ Counted(MaxSends, W, sends) <= Counted(MaxSends, V, d)
        /\ d.n <= MaxSends => Counted(MaxSends, W, sends) + 1 <= Counted(MaxSends, V, d)
  <2>1. Windowed(CodeTTL, W, sends, now, hist.epoch) /\ CodeTTL \in Nat \ {0} /\ MaxSends \in Nat
    BY DEF MailsFit
  <2> HIDE DEF BudgetsAssumption
  <2> QED BY <1>1, <1>2, <1>3, <2>1, CountStep
<1>6. /\ hist'.epoch = hist.epoch
      /\ hist'.mails = hist.mails \/ (hist'.mails = hist.mails + 1 /\ d.n <= MaxSends)
  <2>1. \/ hist' = hist
        \/ hist' = [hist EXCEPT !.mails = hist.mails + 1] /\ d.n <= MaxSends
    BY <1>2, SameIncrement DEF Email!ChargeUser, Email!MayMail
  <2> QED BY <1>1, <2>1 DEF EmailHist
<1>7. hist'.mails <= Counted(MaxSends, V, d)
  <2>1. PICK a \in Nat, b \in Nat : a = Counted(MaxSends, W, sends) /\ b = Counted(MaxSends, V, d)
    BY <1>1, <1>3, CountedType
  <2>2. hist.mails <= a
    BY <2>1 DEF MailsFit
  <2> QED BY <1>1, <1>5, <1>6, <2>1, <2>2
<1>8. Windowed(CodeTTL, V, sends', now', hist'.epoch)
  BY <1>4, <1>5, <1>6
<1> QED BY <1>4, <1>7, <1>8 DEF MailsFit, Windowed, Counted, NoEntry

\* A login starts the account again.
LEMMA MailsClear ==
    ASSUME EmailTypes, NEW r \in Tasks, Email!ClearSendBudget(r)
    PROVE  MailsFit(0)'
<1> USE BudgetsAssumption DEF BudgetsAssumption
<1>1. hist \in EmailHist /\ now \in Nat
  BY DEF EmailTypes
<1>2. hist' = [hist EXCEPT !.mails = 0, !.epoch = now] /\ UNCHANGED now /\ sends' = NoEntry
  BY DEF Email!ClearSendBudget, Email!NoEntry, NoEntry
<1>3. hist'.mails = 0 /\ hist'.epoch = now
  BY <1>1, <1>2 DEF EmailHist
<1>4. 0 * CodeTTL = 0 /\ MaxSends * 0 = 0
  OBVIOUS
<1> QED BY <1>1, <1>2, <1>3, <1>4 DEF MailsFit, Windowed, Counted, Min2, NoEntry

\* Whatever the requests do, codes and mails are accounted for.
LEMMA EmailStep ==
    ASSUME EmailInv, Email!Next \/ UNCHANGED Email!vars
    PROVE  EmailInv'
<1>0. CodesInv /\ EmailTypes /\ hist \in EmailHist /\ now \in Nat
  BY DEF EmailInv, CodesInv, EmailTypes
<1>1. PICK W \in Nat : MailsFit(W)
  BY DEF EmailInv
<1>2. CASE Email!Tick \/ UNCHANGED Email!vars
  <2>1. now' \in Nat /\ now' >= now /\ UNCHANGED <<entry, sends, tries, req, hist>>
    BY <1>0, <1>2 DEF Email!Tick, Email!vars
  <2>2. CodesInv'
    BY <1>0, <2>1, CodesTick
  <2>3. MailsFit(W)'
    BY <1>0, <1>1, <2>1, MailsQuiet
  <2> QED BY <2>2, <2>3 DEF EmailInv
<1>3. ASSUME NEW r \in Tasks, Email!ChargeUser(r) PROVE EmailInv'
  BY <1>0, <1>1, <1>3, CodesCharge, MailsCharge DEF EmailInv
<1>4. ASSUME NEW r \in Tasks, Email!ClearSendBudget(r) PROVE EmailInv'
  <2>1. MailsFit(0)'
    BY <1>0, <1>4, MailsClear
  <2>2. CodesInv'
    BY <1>4, <1>0, CodesClear
  <2> QED BY <2>1, <2>2 DEF EmailInv
<1>5. ASSUME NEW r \in Tasks,
             \/ Email!ChargeSource(r) \/ Email!Store(r) \/ Email!Load(r) \/ Email!CountSource(r)
             \/ Email!CountAttempt(r) \/ Email!Compare(r) \/ Email!LoadUser(r)
             \/ Email!Accept(r) \/ Email!Burn(r) \/ Email!Lose(r)
      PROVE  EmailInv'
  <2>1. CodesInv'
    BY <1>0, <1>5, CodesCharge, CodesStore, CodesPass, CodesCountAttempt, CodesCompare,
       CodesAccept, CodesBurn
  <2>2. UNCHANGED <<now, sends>>
    BY <1>5 DEF Email!ChargeSource, Email!Store, Email!Load, Email!CountSource,
       Email!CountAttempt, Email!Compare, Email!LoadUser, Email!Accept, Email!Burn, Email!Lose
  <2>3. hist'.mails = hist.mails /\ hist'.epoch = hist.epoch
    <3>1. CASE Email!ChargeSource(r) \/ Email!Store(r)
      BY <1>0, <3>1 DEF Email!ChargeSource, Email!Store, EmailHist
    <3>2. CASE Email!Load(r) \/ Email!CountSource(r) \/ Email!LoadUser(r) \/ Email!Lose(r)
      BY <1>0, <3>2 DEF Email!Load, Email!CountSource, Email!LoadUser, Email!Lose, EmailHist
    <3>3. CASE Email!CountAttempt(r)
      BY <1>0, <3>3 DEF Email!CountAttempt, EmailHist
    <3>4. CASE Email!Compare(r)
      BY <1>0, <3>4 DEF Email!Compare, EmailHist
    <3>5. CASE Email!Accept(r)
      BY <1>0, <3>5 DEF Email!Accept, EmailHist
    <3>6. CASE Email!Burn(r)
      BY <1>0, <3>6 DEF Email!Burn, EmailHist
    <3> QED BY <1>5, <3>1, <3>2, <3>3, <3>4, <3>5, <3>6
  <2>4. now' \in Nat /\ now' >= now
    BY <1>0, <2>2
  <2>5. MailsFit(W)'
    BY <1>0, <1>1, <2>2, <2>3, <2>4, MailsQuiet
  <2> QED BY <2>1, <2>5 DEF EmailInv
<1> QED BY <1>2, <1>3, <1>4, <1>5 DEF Email!Next

\* All the invariants of the codes hold of every behaviour of the composition.
LEMMA EmailAlways == MCSpec => [](on = "email" => EmailInv)
<1> DEFINE Inv == on = "email" => EmailInv
<1>1. MCInit => Inv
  <2> USE BudgetsAssumption DEF BudgetsAssumption
  <2> SUFFICES ASSUME Email!Init PROVE EmailInv
    BY DEF MCInit
  <2>1. /\ now = 0 /\ entry = NoEntry /\ sends = NoEntry
        /\ tries = [c \in Email!Codes |-> NoEntry] /\ hist = Email!InitHist
        /\ req = [r \in Tasks |-> Email!IdleReq]
    BY DEF Email!Init, NoEntry, Email!NoEntry
  <2>2. Email!IdleReq \in ReqState /\ Email!IdleReq.pc = "idle" /\ Email!IdleReq.code = 0
    BY DEF Email!IdleReq, ReqState, EmailPCs
  <2>3. PICK z \in Tally : z = [c \in Email!Codes |-> 0]
    BY DEF Tally
  <2>4. /\ hist \in EmailHist /\ hist.minted = 0 /\ hist.counted = z /\ hist.compared = z
        /\ hist.accepted = z /\ hist.burnt = {} /\ hist.mails = 0 /\ hist.epoch = 0 /\ hist.asks = 0
    BY <2>1, <2>3 DEF Email!InitHist, EmailHist
  <2>5. NoEntry \in Entries
    BY DEF NoEntry, Entries
  <2>6. EmailTypes
    BY <2>1, <2>2, <2>4, <2>5 DEF EmailTypes
  <2>7. Asking = {} /\ \A c : Pending(c) = {}
    BY <2>1, <2>2 DEF Asking, Pending
  <2>8. MintInv
    BY <2>1, <2>2, <2>3, <2>4, <2>7, FS_EmptySet DEF MintInv, NoEntry, Submitted
  <2>9. LoginInv /\ BurnInv
    BY <2>1, <2>2, <2>3, <2>4 DEF LoginInv, BurnInv, NoEntry
  <2>10. AttemptInv
    BY <2>1, <2>3, <2>4 DEF AttemptInv, Email!InForce, Email!Live, NoEntry
  <2>11. MailsFit(0)
    BY <2>1, <2>4 DEF MailsFit, Windowed, Counted, Min2, NoEntry
  <2> QED BY <2>6, <2>8, <2>9, <2>10, <2>11 DEF EmailInv, CodesInv
<1>2. Inv /\ [MCNext]_<<vars, on, emailVars, initialVars>> => Inv'
  <2> SUFFICES ASSUME on = "email", EmailInv, [MCNext]_<<vars, on, emailVars, initialVars>>
               PROVE  EmailInv'
    BY DEF MCNext
  <2>1. Email!Next \/ UNCHANGED Email!vars
    BY DEF MCNext, vars, emailVars, Email!vars
  <2> QED BY <2>1, EmailStep
<1> QED BY <1>1, <1>2, PTL DEF MCSpec

\* However many flows submit at once, a code is compared at most MaxAttempts
\* times while it is in force, and only its own attempts burn it (verify).
THEOREM EmailAttempts == MCSpec => []EmailAttemptsExact
<1>1. (on = "email" => EmailInv) => EmailAttemptsExact
  BY DEF EmailInv, CodesInv, AttemptInv, BurnInv, EmailAttemptsExact, Email!EmailAttemptsExact
<1> QED BY <1>1, EmailAlways, PTL

\* A code gives one login: compare_and_delete lets one of the flows that
\* compared it have it (verify).
THEOREM EmailLoginOnce == MCSpec => []EmailCodeAcceptedOnce
<1>1. (on = "email" => EmailInv) => EmailCodeAcceptedOnce
  BY DEF EmailInv, CodesInv, LoginInv, EmailCodeAcceptedOnce, Email!EmailCodeAcceptedOnce
<1> QED BY <1>1, EmailAlways, PTL

\* The mails to one user fit the windows of the send limit since the last login
\* (charge_send, clear_send_budget).
THEOREM EmailMails == MCSpec => []EmailSendsBounded
<1>1. (on = "email" => EmailInv) => EmailSendsBounded
  <2> SUFFICES ASSUME EmailInv PROVE Email!EmailSendsBounded
    BY DEF EmailSendsBounded
  <2>1. PICK W \in Nat : MailsFit(W)
    BY DEF EmailInv
  <2>2. now \in Nat /\ sends \in [n : Nat, exp : Nat] /\ hist.epoch \in Nat /\ hist.mails \in Nat
    BY EmailHistFields DEF EmailInv, CodesInv, EmailTypes, Entries
  <2>3. CodeTTL \in Nat \ {0} /\ MaxSends \in Nat
    BY BudgetsAssumption DEF BudgetsAssumption
  <2>4. PICK a \in Nat, b \in Nat : /\ a = Counted(MaxSends, W, sends)
                                    /\ b = MaxSends * (1 + ((now - hist.epoch) \div CodeTTL))
                                    /\ a <= b
    <3>1. Windowed(CodeTTL, W, sends, now, hist.epoch)
      BY <2>1 DEF MailsFit
    <3>2. /\ Counted(MaxSends, W, sends) <= MaxSends * (1 + ((now - hist.epoch) \div CodeTTL))
          /\ MaxSends * (1 + ((now - hist.epoch) \div CodeTTL)) \in Nat
      BY <2>2, <2>3, <3>1, WindowedBound
    <3>3. Counted(MaxSends, W, sends) \in Nat
      BY <2>2, <2>3, CountedType
    <3> QED BY <3>2, <3>3
  <2>5. hist.mails <= a
    BY <2>1, <2>4 DEF MailsFit
  <2>6. hist.mails <= b
    BY <2>2, <2>4, <2>5
  <2> QED BY <2>4, <2>6 DEF Email!EmailSendsBounded
<1> QED BY <1>1, EmailAlways, PTL

=============================================================================
