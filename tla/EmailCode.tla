------------------------------ MODULE EmailCode ------------------------------
(***************************************************************************)
(* Login by a code sent by e-mail (issuerd-auth-flow/src/email_code.rs):   *)
(* one user, whose code any number of login flows ask for and submit from  *)
(* several addresses.  The code in force and the counters live in the      *)
(* distributed cache; every await is a step.                               *)
(*                                                                         *)
(* A code is named by its nonce.  Requests that resolve to no eligible     *)
(* user change nothing and are left out.                                   *)
(***************************************************************************)
EXTENDS Naturals

CONSTANTS
    Requests,        \* requests in flight at a time
    Sources,         \* client addresses
    MaxAttempts,     \* MAX_VERIFY_ATTEMPTS
    MaxSends,        \* MAX_SENDS
    MaxSendsPerIp,   \* MAX_SENDS_PER_IP
    CodeTTL,         \* ttl_secs
    MaxTime,         \* bound on the clock
    MaxCodes,        \* bound on requests for a code
    MaxSubmits,      \* bound on submissions that find a code
    MaxLost          \* bound on requests that die half way

VARIABLES
    now,       \* the clock
    entry,     \* email-code:{realm}:{user}: the code in force, [n, exp]
    sends,     \* email-code-sends:{..}, [n, exp]
    sendsIp,   \* email-code-sends-ip:{..}:{ip}, [n, exp]
    tries,     \* email-code-attempts:{..}:{nonce}, [n, exp]
    triesIp,   \* email-code-attempts-ip:{..}:{ip}, [n, exp]
    req,       \* what each request is about to do
    hist       \* history: see InitHist

vars == <<now, entry, sends, sendsIp, tries, triesIp, req, hist>>

Codes   == 1 .. MaxCodes
NoEntry == [n |-> 0, exp |-> 0]
IdleReq == [pc |-> "idle", ip |-> 0, code |-> 0, n |-> 0]

MaxAttemptsPerIp == MaxSendsPerIp * MaxAttempts
\* The counters of attempts outlive the code.
AttemptTTL == CodeTTL * MaxAttempts

\* minted: codes made so far; counted: submissions counted against a code, as
\* many as its counter shows while it lasts; compared: submissions compared with a code that
\* was in force; accepted: logins it gave; burnt: codes deleted as spent;
\* mails: mails charged since the budget was last cleared, at time epoch;
\* asks, submits, lost: how much of each bound is used up.
InitHist == [minted |-> 0, counted |-> [c \in Codes |-> 0], compared |-> [c \in Codes |-> 0],
             accepted |-> [c \in Codes |-> 0], burnt |-> {}, mails |-> 0, epoch |-> 0,
             asks |-> 0, submits |-> 0, lost |-> 0]

Init ==
    /\ now = 0
    /\ entry = NoEntry /\ sends = NoEntry
    /\ sendsIp = [s \in Sources |-> NoEntry] /\ triesIp = [s \in Sources |-> NoEntry]
    /\ tries = [c \in Codes |-> NoEntry]
    /\ req = [r \in Requests |-> IdleReq]
    /\ hist = InitHist

Live(e) == e.exp > now

\* DistributedCache::increment: the TTL is applied on creation only, so a
\* window never slides.
Increment(e, ttl) == IF Live(e) THEN [e EXCEPT !.n = @ + 1] ELSE [n |-> 1, exp |-> now + ttl]

InForce(c) == Live(entry) /\ entry.n = c

Goto(r, pc) == req' = [req EXCEPT ![r] = [@ EXCEPT !.pc = pc]]
Done(r)     == req' = [req EXCEPT ![r] = IdleReq]

-----------------------------------------------------------------------------
(* Asking for a code, on the login page or with the resend button *)

\* charge_send, the count of this source.
ChargeSource(r) ==
    /\ req[r].pc = "idle" /\ hist.asks < MaxCodes
    /\ \E ip \in Sources :
          LET c == Increment(sendsIp[ip], CodeTTL)
          IN  /\ sendsIp' = [sendsIp EXCEPT ![ip] = c]
              /\ req' = IF c.n <= MaxSendsPerIp
                        THEN [req EXCEPT ![r] = [@ EXCEPT !.pc = "charge", !.ip = ip]] ELSE req
    /\ hist' = [hist EXCEPT !.asks = @ + 1]
    /\ UNCHANGED <<now, entry, sends, tries, triesIp>>

\* One mail more than the limit.
BugMayMail(n) == n <= MaxSends + 1

\* The limit on mails to one user.
MayMail(n) == n <= MaxSends

\* charge_send, the count of the user.
ChargeUser(r) ==
    LET c == Increment(sends, CodeTTL)
    IN  /\ req[r].pc = "charge"
        /\ sends' = c
        /\ \/ MayMail(c.n) /\ Goto(r, "store") /\ hist' = [hist EXCEPT !.mails = @ + 1]
           \/ ~MayMail(c.n) /\ Done(r) /\ UNCHANGED hist
        /\ UNCHANGED <<now, entry, sendsIp, tries, triesIp>>

\* issue_code: a fresh code replaces the one in force and is mailed.  A mail
\* that fails leaves the code stored.
Store(r) ==
    /\ req[r].pc = "store"
    /\ entry' = [n |-> hist.minted + 1, exp |-> now + CodeTTL]
    /\ hist' = [hist EXCEPT !.minted = @ + 1]
    /\ Done(r)
    /\ UNCHANGED <<now, sends, sendsIp, tries, triesIp>>

-----------------------------------------------------------------------------
(* Submitting a code: verify *)

\* The code in force is loaded and kept for the rest of the request.
Load(r) ==
    /\ req[r].pc = "idle" /\ hist.submits < MaxSubmits
    /\ Live(entry)
    /\ \E ip \in Sources :
          req' = [req EXCEPT ![r] = [@ EXCEPT !.pc = "source", !.ip = ip, !.code = entry.n]]
    /\ hist' = [hist EXCEPT !.submits = @ + 1]
    /\ UNCHANGED <<now, entry, sends, sendsIp, tries, triesIp>>

\* The submissions of one source are limited over all its codes.
CountSource(r) ==
    LET ip == req[r].ip
        c  == Increment(triesIp[ip], AttemptTTL)
    IN  /\ req[r].pc = "source"
        /\ triesIp' = [triesIp EXCEPT ![ip] = c]
        /\ IF c.n > MaxAttemptsPerIp THEN Done(r) ELSE Goto(r, "count")
        /\ UNCHANGED <<now, entry, sends, sendsIp, tries, hist>>

\* attempts_key: every code has a counter of its own.
CounterOf(c) == c

\* count_attempt: counted before it is compared.
CountAttempt(r) ==
    LET k == CounterOf(req[r].code)
        c == Increment(tries[k], AttemptTTL)
    IN  /\ req[r].pc = "count"
        /\ tries' = [tries EXCEPT ![k] = c]
        /\ req' = [req EXCEPT ![r] = [@ EXCEPT !.pc = "compare", !.n = c.n]]
        /\ hist' = [hist EXCEPT !.counted[req[r].code] = @ + 1]
        /\ UNCHANGED <<now, entry, sends, sendsIp, triesIp>>

\* Any number of submissions is compared.
BugInBudget(n) == TRUE

\* Submissions past the limit are not compared.
InBudget(n) == n <= MaxAttempts

\* The comparison, whose outcome is left open.
Compare(r) ==
    LET q == req[r]
    IN  /\ q.pc = "compare"
        /\ hist' = IF InBudget(q.n) /\ InForce(q.code)
                   THEN [hist EXCEPT !.compared[q.code] = @ + 1] ELSE hist
        /\ \/ InBudget(q.n) /\ Goto(r, "user")
           \/ IF q.n >= MaxAttempts THEN Goto(r, "burn") ELSE Done(r)
        /\ UNCHANGED <<now, entry, sends, sendsIp, tries, triesIp>>

\* The user is loaded again: disabled in the meantime ends it.
LoadUser(r) ==
    /\ req[r].pc = "user"
    /\ Goto(r, "accept") \/ Done(r)
    /\ UNCHANGED <<now, entry, sends, sendsIp, tries, triesIp, hist>>

\* compare_and_delete without the comparison.
BugDeletes(c) == TRUE

\* compare_and_delete: the code in force is the one that was loaded.
Deletes(c) == InForce(c)

\* A matching code is used up by whoever deletes it.
Accept(r) ==
    LET c == req[r].code
    IN  /\ req[r].pc = "accept"
        /\ IF Deletes(c)
           THEN /\ entry' = NoEntry
                /\ hist' = [hist EXCEPT !.accepted[c] = @ + 1]
                /\ Goto(r, "clear")
           ELSE Done(r) /\ UNCHANGED <<entry, hist>>
        /\ UNCHANGED <<now, sends, sendsIp, tries, triesIp>>

\* clear_send_budget: a login clears the user's count of mails, not those of
\* the sources.
ClearSendBudget(r) ==
    /\ req[r].pc = "clear"
    /\ sends' = NoEntry
    /\ hist' = [hist EXCEPT !.mails = 0, !.epoch = now]
    /\ Done(r)
    /\ UNCHANGED <<now, entry, sendsIp, tries, triesIp>>

\* The last wrong submission takes the code out of force.
Burn(r) ==
    LET c == req[r].code
    IN  /\ req[r].pc = "burn"
        /\ IF Deletes(c)
           THEN /\ entry' = NoEntry
                /\ hist' = IF Live(entry) THEN [hist EXCEPT !.burnt = @ \cup {entry.n}] ELSE hist
           ELSE UNCHANGED <<entry, hist>>
        /\ Done(r)
        /\ UNCHANGED <<now, sends, sendsIp, tries, triesIp>>

-----------------------------------------------------------------------------

\* A cache, storage or mail error ends the request with a failure, or its
\* client goes away.
Lose(r) ==
    /\ req[r].pc # "idle" /\ hist.lost < MaxLost
    /\ hist' = [hist EXCEPT !.lost = @ + 1]
    /\ Done(r)
    /\ UNCHANGED <<now, entry, sends, sendsIp, tries, triesIp>>

Tick ==
    /\ now < MaxTime
    /\ now' = now + 1
    /\ UNCHANGED <<entry, sends, sendsIp, tries, triesIp, req, hist>>

Next ==
    \/ \E r \in Requests :
          \/ ChargeSource(r) \/ ChargeUser(r) \/ Store(r)
          \/ Load(r) \/ CountSource(r) \/ CountAttempt(r) \/ Compare(r) \/ LoadUser(r)
          \/ Accept(r) \/ ClearSendBudget(r) \/ Burn(r) \/ Lose(r)
    \/ Tick

Spec == Init /\ [][Next]_vars

-----------------------------------------------------------------------------
(* Properties *)

\* At most MaxAttempts submissions are compared with a code while it is in
\* force, however many flows submit at once (verify: "at most
\* MAX_VERIFY_ATTEMPTS are ever compared per code"); and only a code that used
\* up its own attempts is burnt: a flow that still holds an older one does not
\* take the newer out of force ("A stale flow must never burn a newer code
\* issued for the user").
EmailAttemptsExact ==
    /\ \A c \in Codes : hist.compared[c] <= MaxAttempts
    /\ \A c \in hist.burnt : hist.counted[c] >= MaxAttempts

\* A code gives one login, although it is compared long before it is deleted.
EmailCodeAcceptedOnce == \A c \in Codes : hist.accepted[c] <= 1

\* The mails charged since the last login fit into the windows of the send
\* limit that began since then.
EmailSendsBounded == hist.mails <= MaxSends * (1 + ((now - hist.epoch) \div CodeTTL))

=============================================================================
