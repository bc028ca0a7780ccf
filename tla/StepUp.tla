------------------------------- MODULE StepUp -------------------------------
(***************************************************************************)
(* The exact-operation approval protocol: an MCP strict tool call becomes  *)
(* a pending operation in the distributed cache, a CIBA request claims it, *)
(* a human decides, the client polls for an operation-bound token, and the *)
(* durable grant behind that token is executed in one storage transaction. *)
(*                                                                         *)
(* Handlers of every node run concurrently against one shared cache and    *)
(* one database.  A handler is a task with a program counter; its steps    *)
(* are the awaits at which it touches shared state.  A handler that is     *)
(* dropped (node crash, client disconnect) stops between two steps.        *)
(*                                                                         *)
(* Cache entries are represented by their expiry time: 0 is "deleted", and *)
(* an entry is visible while its expiry lies in the future.                *)
(***************************************************************************)
EXTENDS Naturals, Sequences, FiniteSets

CONSTANTS
    Ops,          \* operation ids that may be proposed
    Reqs,         \* fresh (auth_req_id, approval_id) pairs; secure_id never repeats
    Initiators,   \* tasks running ciba_step_up::initiate
    Approvers,    \* tasks running ciba_approval::post_handler
    Pollers,      \* tasks running ciba_step_up::poll
    Executors,    \* tasks running McpExecutor::coordinate_strict with a step-up token
    Seen,         \* contents of the target as the redacted_* functions leave them
    Hidden,       \* what redaction takes away: secrets, sensitive attributes
    OperationTTL, \* DEFAULT_OPERATION_TTL_SECS
    GrantTTL,     \* min(DEFAULT_GRANT_TTL_SECS, realm access-token lifespan)
    LockTTL,      \* TTL of the poll lock
    MaxAuthAge,   \* DEFAULT_APPROVAL_MAX_AUTH_AGE_SECS
    PollInterval, \* initial interval and increment of slow_down
    MaxTime,      \* bound: the clock stops here
    MaxDrift,     \* bound: other administrators change the target this often
    MaxInterval   \* bound: a request's poll interval grows no further

NoOp == "no_op"
Blank == "blank"

ASSUME TimeAssumption ==
    /\ OperationTTL \in Nat \ {0}
    /\ GrantTTL \in Nat \ {0}
    /\ LockTTL \in Nat \ {0}
    /\ MaxAuthAge \in Nat
    /\ PollInterval \in Nat
    /\ MaxTime \in Nat
    /\ MaxDrift \in Nat
    /\ MaxInterval \in Nat

ASSUME NoOpAssumption == NoOp \notin Ops

VARIABLES
    now,       \* wall clock (starts at 1; 0 stands for "never")
    target,    \* content of the entity the operations are about
    trail,     \* history: the contents it had, and the operation behind each
    drift,     \* how often it was changed by someone else (bound only)
    op,        \* op[o]: the proposed operation, exp = 0 while not proposed
    pending,   \* cache: pending_operation_key(o) -> expiry
    approval,  \* cache: approval_key(r) -> expiry
    request,   \* cache: request_key(r) -> CibaAuthReqData
    lock,      \* cache: poll_lock_key(r) -> expiry
    opOf,      \* opOf[r]: the operation that request r was minted for
    session,   \* requests whose deterministic user session was persisted
    grant,     \* table mcp_step_up_grants, keyed by token_jti (one per r)
    token,     \* requests whose access token reached the client
    ini, app, pol, exe,   \* local state of the handler tasks
    decision,  \* history: what the human decided for r
    applied,   \* history: how often the mutation of o was committed
    announced  \* history: how often strict_committed ran for o

cacheVars == <<pending, approval, request, lock>>
dbVars    == <<target, trail, session, grant, applied>>
envVars   == <<now, drift, op, opOf>>
histVars  == <<token, decision, announced>>
taskVars  == <<ini, app, pol, exe>>
vars      == <<cacheVars, dbVars, envVars, histVars, taskVars>>

-----------------------------------------------------------------------------
(* Data. *)

Statuses  == {"none", "active", "succeeded", "failed_definite"}
Decisions == {"none", "authorized", "denied"}

\* How a remote call ends: done and answered; done, but the answer was lost;
\* not done and reported as an error.
Outcomes == {"ok", "lost", "fail"}

\* The target: what an operation is compared with and what it never sees.
Content == [seen : Seen, hidden : Hidden]
Redacted(t) == t.seen

\* A content the target was given, by an operation or by someone else (NoOp).
Entry == [by : Ops \cup {NoOp}, seen : Seen]

NoRequest == [exp |-> 0, until |-> 0, state |-> "none", authTime |-> 0, last |-> 0,
              interval |-> 0]
NoGrant   == [status |-> "none", exp |-> 0, authTime |-> 0]
NotProposed == [exp |-> 0, expected |-> Blank, updated |-> Blank, parked |-> FALSE]

\* exp is when the cache drops the entry, until the expires_at in the record.
RequestData == [exp : Nat, until : Nat, state : Decisions, authTime : Nat, last : Nat,
                interval : Nat]
GrantRow    == [status : Statuses, exp : Nat, authTime : Nat]
\* parked: its cache entry was written.
Operation   == [exp : Nat, expected : Seen \cup {Blank}, updated : Seen \cup {Blank},
                parked : BOOLEAN]

IniTask == [pc : {"idle", "claim", "create", "restore"}, op : Ops \cup {NoOp},
            req : Reqs \cup {NoOp}, ttl : Nat, left : Nat, exp : Nat]
AppTask == [pc : {"idle", "lock", "read", "claim", "unlock"}, req : Reqs \cup {NoOp},
            act : Decisions, authTime : Nat, snap : RequestData, left : Nat]
PolTask == [pc : {"idle", "lock", "cas", "issue", "grant", "consume", "unlock"},
            req : Reqs \cup {NoOp}, snap : RequestData, exp : Nat]
ExeTask == [pc : {"idle", "exec", "commit"}, req : Reqs \cup {NoOp}, reconciled : BOOLEAN]

IdleIni == [pc |-> "idle", op |-> NoOp, req |-> NoOp, ttl |-> 0, left |-> 0, exp |-> 0]
IdleApp == [pc |-> "idle", req |-> NoOp, act |-> "none", authTime |-> 0, snap |-> NoRequest,
            left |-> 0]
IdlePol == [pc |-> "idle", req |-> NoOp, snap |-> NoRequest, exp |-> 0]
IdleExe == [pc |-> "idle", req |-> NoOp, reconciled |-> FALSE]

\* All that a handler still needs on its way out.
Leaving(r) == [IdlePol EXCEPT !.pc = "unlock", !.req = r]

Min2(a, b) == IF a < b THEN a ELSE b
Live(e) == e > now

\* remaining_ttl: a lifetime of zero is still one.
Remains(until) == until >= now

-----------------------------------------------------------------------------
(* The decisions of the code that the protocol rests on, each an operator   *)
(* of its own.  An operator named Bug... is the form a plausible defect     *)
(* would give the operator after it; no action uses it.                     *)

\* claim_and_create: the claimed key must still hold the expected bytes.
BugClaims(e) == TRUE
Claims(e) == Live(e)

\* compare_and_swap(request): the record must still be the one that was read.
BugSwaps(r, snap) == TRUE
Swaps(r, snap) == Live(request[r].exp) /\ request[r] = snap

\* decide: a request that was decided already is not decided again.
Undecided(r) == Live(request[r].exp) /\ request[r].state = "none"

\* poll_locked: only an authorized request is exchanged for a token.
BugExchangeable(snap) == TRUE
Exchangeable(snap) == snap.state = "authorized"

\* issue: the freshness of the operation and of the human's sign-in.
Issuable(o, t) == op[o].exp > now /\ t <= now /\ now - t <= MaxAuthAge

\* issue: the grant lives as long as the token, which never outlives the
\* operation.
BugGrantExpiry(o) == now + GrantTTL
GrantExpiry(o) == now + Min2(GrantTTL, op[o].exp - now)

\* create_grant: primary key token_jti, UNIQUE operation_id.
GrantConflict(r) == \E q \in Reqs : opOf[q] = opOf[r] /\ grant[q].status # "none"

\* execute_grant_once: only an active, unexpired grant runs its mutation.
BugRunnable(g) == g.status \in {"active", "succeeded"} /\ Live(g.exp)
Runnable(g) == g.status = "active" /\ Live(g.exp)

\* apply_mutation: the redacted target equals what the operation captured.
BugPrecondition(o) == TRUE
Precondition(o) == Redacted(target) = op[o].expected

\* apply_mutation: what redaction removed is merged back from the current row.
Effective(o) == [target EXCEPT !.seen = op[o].updated]

-----------------------------------------------------------------------------
Init ==
    /\ now = 1 /\ drift = 0
    /\ target \in Content
    /\ trail = <<[by |-> NoOp, seen |-> Redacted(target)]>>
    /\ op = [o \in Ops |-> NotProposed]
    /\ pending = [o \in Ops |-> 0]
    /\ approval = [r \in Reqs |-> 0]
    /\ request = [r \in Reqs |-> NoRequest]
    /\ lock = [r \in Reqs |-> 0]
    /\ opOf = [r \in Reqs |-> NoOp]
    /\ session = {} /\ token = {}
    /\ grant = [r \in Reqs |-> NoGrant]
    /\ ini = [i \in Initiators |-> IdleIni]
    /\ app = [a \in Approvers |-> IdleApp]
    /\ pol = [p \in Pollers |-> IdlePol]
    /\ exe = [e \in Executors |-> IdleExe]
    /\ decision = [r \in Reqs |-> "none"]
    /\ applied = [o \in Ops |-> 0]
    /\ announced = [o \in Ops |-> 0]

-----------------------------------------------------------------------------
(* coordinate_strict without a step-up token *)

\* Captures the expected state, computes the updated one (which may equal it)
\* and fixes expires_at.
Propose(o) ==
    /\ op[o].exp = 0
    /\ \E u \in Seen :
         op' = [op EXCEPT ![o] = [exp |-> now + OperationTTL, expected |-> Redacted(target),
                                  updated |-> u, parked |-> FALSE]]
    /\ UNCHANGED <<now, drift, opOf>>
    /\ UNCHANGED <<cacheVars, dbVars, histVars, taskVars>>

\* create_if_absent never meets an existing key, because operation ids are
\* fresh; the entry's lifetime starts here.  A lost answer leaves it behind.
Park(o) ==
    /\ op[o].exp # 0 /\ ~op[o].parked
    /\ op' = [op EXCEPT ![o].parked = TRUE]
    /\ pending' = [pending EXCEPT ![o] = now + OperationTTL]
    /\ UNCHANGED <<now, drift, opOf, approval, request, lock>>
    /\ UNCHANGED <<dbVars, histVars, taskVars>>

-----------------------------------------------------------------------------
(* ciba_step_up::initiate *)

\* Reads the pending operation and mints the identifiers of a new request.
InitiateStart(i, o, r) ==
    /\ ini[i].pc = "idle"
    /\ Live(pending[o]) /\ op[o].exp > now
    /\ opOf[r] = NoOp
    /\ \E ttl \in 1 .. (op[o].exp - now) :
         ini' = [ini EXCEPT ![i] = [pc |-> "claim", op |-> o, req |-> r, ttl |-> ttl,
                                    left |-> op[o].exp - now, exp |-> now + ttl]]
    /\ opOf' = [opOf EXCEPT ![r] = o]
    /\ UNCHANGED <<now, drift, op, app, pol, exe>>
    /\ UNCHANGED <<cacheVars, dbVars, histVars>>

\* claim_and_create(pending -> approval)
InitiateClaim(i, out) ==
    LET o == ini[i].op
        r == ini[i].req
        claimed == out # "fail" /\ Claims(pending[o])
    IN  /\ ini[i].pc = "claim"
        /\ pending' = IF claimed THEN [pending EXCEPT ![o] = 0] ELSE pending
        /\ approval' = IF claimed THEN [approval EXCEPT ![r] = now + ini[i].ttl] ELSE approval
        /\ ini' = [ini EXCEPT ![i] = IF claimed /\ out = "ok" THEN [@ EXCEPT !.pc = "create"]
                                                              ELSE IdleIni]
        /\ UNCHANGED <<request, lock, app, pol, exe>>
        /\ UNCHANGED <<envVars, dbVars, histVars>>

\* create_if_absent(request); the key is fresh, so only an error leads to the
\* compensation.
InitiateCreate(i, out) ==
    LET r == ini[i].req
        data == [exp |-> now + ini[i].ttl, until |-> ini[i].exp, state |-> "none",
                 authTime |-> 0, last |-> 0, interval |-> PollInterval]
    IN  /\ ini[i].pc = "create"
        /\ request' = IF out # "fail" THEN [request EXCEPT ![r] = data] ELSE request
        /\ ini' = [ini EXCEPT ![i] = IF out = "ok" THEN IdleIni ELSE [@ EXCEPT !.pc = "restore"]]
        /\ UNCHANGED <<pending, approval, lock, app, pol, exe>>
        /\ UNCHANGED <<envVars, dbVars, histVars>>

\* claim_and_create(approval -> pending): hand the operation back.
InitiateRestore(i, out) ==
    LET o == ini[i].op
        r == ini[i].req
        claimed == out # "fail" /\ Claims(approval[r])
    IN  /\ ini[i].pc = "restore"
        /\ approval' = IF claimed THEN [approval EXCEPT ![r] = 0] ELSE approval
        /\ pending' = IF claimed THEN [pending EXCEPT ![o] = now + ini[i].left] ELSE pending
        /\ ini' = [ini EXCEPT ![i] = IdleIni]
        /\ UNCHANGED <<request, lock, app, pol, exe>>
        /\ UNCHANGED <<envVars, dbVars, histVars>>

-----------------------------------------------------------------------------
(* ciba_approval::post_handler *)

\* load, authenticate and preconditions: the session belongs to the subject
\* and signed in at t; the target must still be what the operation captured.
ApproveLoad(a, r, act, t) ==
    /\ app[a].pc = "idle"
    /\ Live(approval[r]) /\ Live(request[r].exp) /\ request[r].until > now
    /\ t <= now /\ now - t <= MaxAuthAge
    /\ Precondition(opOf[r])
    /\ app' = [app EXCEPT ![a] = [pc |-> "lock", req |-> r, act |-> act, authTime |-> t,
                                  snap |-> NoRequest, left |-> 0]]
    /\ UNCHANGED <<ini, pol, exe>>
    /\ UNCHANGED <<cacheVars, envVars, dbVars, histVars>>

\* decide_with_poll_lock: create_if_absent on the lock the pollers use.
ApproveLock(a, out) ==
    LET r == app[a].req
        taken == out # "fail" /\ ~Live(lock[r])
    IN  /\ app[a].pc = "lock"
        /\ lock' = IF taken THEN [lock EXCEPT ![r] = now + LockTTL] ELSE lock
        /\ app' = [app EXCEPT ![a] = IF taken /\ out = "ok" THEN [@ EXCEPT !.pc = "read"]
                                                            ELSE IdleApp]
        /\ UNCHANGED <<pending, approval, request, ini, pol, exe>>
        /\ UNCHANGED <<envVars, dbVars, histVars>>

\* decide, up to the claim: re-read the request and the approval, and compute
\* what is left of the request's lifetime.
DecideRead(a) ==
    LET r == app[a].req
        open == Undecided(r) /\ Live(approval[r]) /\ Remains(request[r].until)
    IN  /\ app[a].pc = "read"
        /\ app' = [app EXCEPT ![a] = IF open THEN [@ EXCEPT !.pc = "claim", !.snap = request[r],
                                                           !.left = request[r].until - now]
                                             ELSE [@ EXCEPT !.pc = "unlock"]]
        /\ UNCHANGED <<ini, pol, exe>>
        /\ UNCHANGED <<cacheVars, envVars, dbVars, histVars>>

\* claim_and_create(approval -> request): the decision replaces whatever the
\* request record holds by now.
DecideClaim(a, out) ==
    LET r == app[a].req
        claimed == out # "fail" /\ Claims(approval[r])
    IN  /\ app[a].pc = "claim"
        /\ approval' = IF claimed THEN [approval EXCEPT ![r] = 0] ELSE approval
        /\ request' = IF claimed
                      THEN [request EXCEPT ![r] = [app[a].snap EXCEPT !.state = app[a].act,
                                                                      !.authTime = app[a].authTime,
                                                                      !.exp = now + app[a].left]]
                      ELSE request
        /\ decision' = IF claimed THEN [decision EXCEPT ![r] = app[a].act] ELSE decision
        /\ app' = [app EXCEPT ![a].pc = "unlock"]
        /\ UNCHANGED <<pending, lock, token, announced, ini, pol, exe>>
        /\ UNCHANGED <<envVars, dbVars>>

\* The lock is deleted whoever holds it by now.
ApproveUnlock(a, out) ==
    /\ app[a].pc = "unlock"
    /\ lock' = IF out # "fail" THEN [lock EXCEPT ![app[a].req] = 0] ELSE lock
    /\ app' = [app EXCEPT ![a] = IdleApp]
    /\ UNCHANGED <<pending, approval, request, ini, pol, exe>>
    /\ UNCHANGED <<envVars, dbVars, histVars>>

-----------------------------------------------------------------------------
(* ciba_step_up::poll *)

\* The request is read before the lock is taken.
PollRead(p, r) ==
    /\ pol[p].pc = "idle"
    /\ Live(request[r].exp) /\ request[r].until > now
    /\ pol' = [pol EXCEPT ![p] = [pc |-> "lock", req |-> r, snap |-> request[r], exp |-> 0]]
    /\ UNCHANGED <<ini, app, exe>>
    /\ UNCHANGED <<cacheVars, envVars, dbVars, histVars>>

PollLock(p, out) ==
    LET r == pol[p].req
        taken == out # "fail" /\ ~Live(lock[r])
    IN  /\ pol[p].pc = "lock"
        /\ lock' = IF taken THEN [lock EXCEPT ![r] = now + LockTTL] ELSE lock
        /\ pol' = [pol EXCEPT ![p] = IF taken /\ out = "ok" THEN [@ EXCEPT !.pc = "cas"]
                                                            ELSE IdlePol]
        /\ UNCHANGED <<pending, approval, request, ini, app, exe>>
        /\ UNCHANGED <<envVars, dbVars, histVars>>

\* poll_locked: note the poll (or the too-early poll) in the record, by
\* compare_and_swap against the bytes read before the lock.
PollCas(p, out) ==
    LET r == pol[p].req
        snap == pol[p].snap
        early == snap.last # 0 /\ now < snap.last + snap.interval
        new == IF early THEN [snap EXCEPT !.interval = @ + PollInterval]
                        ELSE [snap EXCEPT !.last = now]
        swapped == out # "fail" /\ Swaps(r, snap)
        proceed == swapped /\ out = "ok" /\ ~early /\ Exchangeable(snap)
    IN  /\ pol[p].pc = "cas"
        /\ new.interval <= MaxInterval
        /\ request' = IF swapped THEN [request EXCEPT ![r] = new] ELSE request
        /\ pol' = [pol EXCEPT ![p] = IF proceed THEN [@ EXCEPT !.pc = "issue", !.snap = new]
                                                ELSE Leaving(r)]
        /\ UNCHANGED <<pending, approval, lock, ini, app, exe>>
        /\ UNCHANGED <<envVars, dbVars, histVars>>

\* issue, up to the grant: the checks, the deterministic session (created
\* only if it does not exist yet) and the token, whose lifetime bounds the
\* grant.  A disabled user or a failing storage call ends the poll here.
PollIssue(p, out) ==
    LET r == pol[p].req
        o == opOf[r]
        valid == Issuable(o, pol[p].snap.authTime)
    IN  /\ pol[p].pc = "issue"
        /\ session' = IF valid /\ out # "fail" THEN session \cup {r} ELSE session
        /\ pol' = [pol EXCEPT ![p] = IF valid /\ out = "ok"
                                     THEN [@ EXCEPT !.pc = "grant",
                                                    !.exp = GrantExpiry(o)]
                                     ELSE Leaving(r)]
        /\ UNCHANGED <<target, trail, grant, applied, ini, app, exe>>
        /\ UNCHANGED <<cacheVars, envVars, histVars>>

\* create_mcp_step_up_grant: token_jti is the primary key and operation_id is
\* unique.  On a conflict the poll goes on only with its own earlier grant.
PollGrant(p, out) ==
    LET r == pol[p].req
        mine == grant[r].status \in {"active", "succeeded"}
        inserted == out # "fail" /\ ~GrantConflict(r)
    IN  /\ pol[p].pc = "grant"
        /\ grant' = IF inserted
                    THEN [grant EXCEPT ![r] = [status |-> "active", exp |-> pol[p].exp,
                                               authTime |-> pol[p].snap.authTime]]
                    ELSE grant
        /\ pol' = [pol EXCEPT ![p] = IF out = "ok" /\ (inserted \/ mine)
                                     THEN [@ EXCEPT !.pc = "consume"] ELSE Leaving(r)]
        /\ UNCHANGED <<target, trail, session, applied, ini, app, exe>>
        /\ UNCHANGED <<cacheVars, envVars, histVars>>

\* The request is consumed and the token response is sent; when the delete
\* fails the client gets 503 and polls again.
PollConsume(p, out) ==
    LET r == pol[p].req
    IN  /\ pol[p].pc = "consume"
        /\ request' = IF out # "fail" THEN [request EXCEPT ![r] = NoRequest] ELSE request
        /\ token' = IF out = "ok" THEN token \cup {r} ELSE token
        /\ pol' = [pol EXCEPT ![p] = Leaving(r)]
        /\ UNCHANGED <<pending, approval, lock, decision, announced, ini, app, exe>>
        /\ UNCHANGED <<envVars, dbVars>>

PollUnlock(p, out) ==
    /\ pol[p].pc = "unlock"
    /\ lock' = IF out # "fail" THEN [lock EXCEPT ![pol[p].req] = 0] ELSE lock
    /\ pol' = [pol EXCEPT ![p] = IdlePol]
    /\ UNCHANGED <<pending, approval, request, ini, app, exe>>
    /\ UNCHANGED <<envVars, dbVars, histVars>>

-----------------------------------------------------------------------------
(* McpExecutor::execute_strict *)

\* Reads the grant behind the presented token and verifies it; the status
\* read here decides later whether the commit is announced.
ExecVerify(e, r) ==
    LET g == grant[r]
    IN  /\ exe[e].pc = "idle"
        /\ r \in token /\ g.status \in {"active", "succeeded"}
        /\ g.authTime <= now /\ now - g.authTime <= MaxAuthAge
        /\ g.status = "active" => g.exp > now
        /\ exe' = [exe EXCEPT ![e] = [pc |-> "exec", req |-> r,
                                      reconciled |-> g.status = "succeeded"]]
        /\ UNCHANGED <<ini, app, pol>>
        /\ UNCHANGED <<cacheVars, envVars, dbVars, histVars>>

\* The defect: a transaction that checks neither the status nor the target.
BugExecTx(e, out) ==
    LET r == exe[e].req
    IN  /\ exe[e].pc = "exec" /\ out # "fail"
        /\ grant' = [grant EXCEPT ![r].status = "succeeded"]
        /\ target' = Effective(opOf[r])
        /\ trail' = Append(trail, [by |-> opOf[r], seen |-> Redacted(target')])
        /\ applied' = [applied EXCEPT ![opOf[r]] = @ + 1]
        /\ exe' = [exe EXCEPT ![e].pc = "commit"]
        /\ UNCHANGED <<session, ini, app, pol, cacheVars, envVars, histVars>>

\* execute_grant: one serializable transaction over the grant row and the
\* target.  "lost" is a commit whose answer never arrived.
ExecTx(e, out) ==
    LET r == exe[e].req
        o == opOf[r]
        g == grant[r]
        runs == out # "fail" /\ Runnable(g)
        match == Precondition(o)
        answered == out = "ok" /\ (g.status = "succeeded" \/ (runs /\ match))
    IN  /\ exe[e].pc = "exec"
        /\ grant' = IF runs
                    THEN [grant EXCEPT ![r].status = IF match THEN "succeeded"
                                                              ELSE "failed_definite"]
                    ELSE grant
        /\ target' = IF runs /\ match THEN Effective(o) ELSE target
        /\ trail' = IF runs /\ match THEN Append(trail, [by |-> o, seen |-> Redacted(target')])
                                      ELSE trail
        /\ applied' = IF runs /\ match THEN [applied EXCEPT ![o] = @ + 1] ELSE applied
        /\ exe' = [exe EXCEPT ![e] = IF answered THEN [@ EXCEPT !.pc = "commit"] ELSE IdleExe]
        /\ UNCHANGED <<session, ini, app, pol>>
        /\ UNCHANGED <<cacheVars, envVars, histVars>>

\* strict_committed (audit event, cache invalidation) unless the grant had
\* already succeeded when this call read it.
ExecCommitted(e) ==
    LET o == opOf[exe[e].req]
    IN  /\ exe[e].pc = "commit"
        /\ announced' = IF exe[e].reconciled THEN announced
                                             ELSE [announced EXCEPT ![o] = @ + 1]
        /\ exe' = [exe EXCEPT ![e] = IdleExe]
        /\ UNCHANGED <<token, decision, ini, app, pol>>
        /\ UNCHANGED <<cacheVars, envVars, dbVars>>

-----------------------------------------------------------------------------
(* The environment. *)

Tick ==
    /\ now < MaxTime
    /\ now' = now + 1
    /\ UNCHANGED <<drift, op, opOf>>
    /\ UNCHANGED <<cacheVars, dbVars, histVars, taskVars>>

\* Another administrator changes the target: to a new content, back to an old
\* one, or only in what redaction hides.
Drift ==
    /\ drift < MaxDrift
    /\ drift' = drift + 1
    /\ target' \in Content \ {target}
    /\ trail' = Append(trail, [by |-> NoOp, seen |-> Redacted(target')])
    /\ UNCHANGED <<now, op, opOf, session, grant, applied>>
    /\ UNCHANGED <<cacheVars, histVars, taskVars>>

\* The cache is restarted empty; the database survives.
CacheLoss ==
    /\ pending' = [o \in Ops |-> 0]
    /\ approval' = [r \in Reqs |-> 0]
    /\ request' = [r \in Reqs |-> NoRequest]
    /\ lock' = [r \in Reqs |-> 0]
    /\ UNCHANGED <<envVars, dbVars, histVars, taskVars>>

\* A handler is dropped between two of its steps.
Crash ==
    /\ \/ \E i \in Initiators : /\ ini[i].pc # "idle"
                                /\ ini' = [ini EXCEPT ![i] = IdleIni]
                                /\ UNCHANGED <<app, pol, exe>>
       \/ \E a \in Approvers : /\ app[a].pc # "idle"
                               /\ app' = [app EXCEPT ![a] = IdleApp]
                               /\ UNCHANGED <<ini, pol, exe>>
       \/ \E p \in Pollers : /\ pol[p].pc # "idle"
                             /\ pol' = [pol EXCEPT ![p] = IdlePol]
                             /\ UNCHANGED <<ini, app, exe>>
       \/ \E e \in Executors : /\ exe[e].pc # "idle"
                               /\ exe' = [exe EXCEPT ![e] = IdleExe]
                               /\ UNCHANGED <<ini, app, pol>>
    /\ UNCHANGED <<cacheVars, envVars, dbVars, histVars>>

-----------------------------------------------------------------------------
Initiate(i) ==
    \/ \E o \in Ops, r \in Reqs : InitiateStart(i, o, r)
    \/ \E out \in Outcomes : InitiateClaim(i, out) \/ InitiateCreate(i, out)
                             \/ InitiateRestore(i, out)

Approve(a) ==
    \/ \E r \in Reqs, act \in {"authorized", "denied"}, t \in 1 .. now : ApproveLoad(a, r, act, t)
    \/ DecideRead(a)
    \/ \E out \in Outcomes : ApproveLock(a, out) \/ DecideClaim(a, out) \/ ApproveUnlock(a, out)

Poll(p) ==
    \/ \E r \in Reqs : PollRead(p, r)
    \/ \E out \in Outcomes : \/ PollLock(p, out) \/ PollCas(p, out) \/ PollIssue(p, out)
                             \/ PollGrant(p, out) \/ PollConsume(p, out) \/ PollUnlock(p, out)

Execute(e) ==
    \/ \E r \in Reqs : ExecVerify(e, r)
    \/ \E out \in Outcomes : ExecTx(e, out)
    \/ ExecCommitted(e)

Next ==
    \/ \E o \in Ops : Propose(o) \/ Park(o)
    \/ \E i \in Initiators : Initiate(i)
    \/ \E a \in Approvers : Approve(a)
    \/ \E p \in Pollers : Poll(p)
    \/ \E e \in Executors : Execute(e)
    \/ Tick \/ Drift \/ CacheLoss \/ Crash

Spec == Init /\ [][Next]_vars

-----------------------------------------------------------------------------
(* Properties *)

\* Every variable has the shape the code's types give it.
TypeOK ==
    /\ now \in Nat /\ target \in Content /\ drift \in Nat
    /\ trail \in Seq(Entry)
    /\ op \in [Ops -> Operation]
    /\ pending \in [Ops -> Nat]
    /\ approval \in [Reqs -> Nat]
    /\ request \in [Reqs -> RequestData]
    /\ lock \in [Reqs -> Nat]
    /\ opOf \in [Reqs -> Ops \cup {NoOp}]
    /\ session \subseteq Reqs /\ token \subseteq Reqs
    /\ grant \in [Reqs -> GrantRow]
    /\ ini \in [Initiators -> IniTask]
    /\ app \in [Approvers -> AppTask]
    /\ pol \in [Pollers -> PolTask]
    /\ exe \in [Executors -> ExeTask]
    /\ decision \in [Reqs -> Decisions]
    /\ applied \in [Ops -> Nat]
    /\ announced \in [Ops -> Nat]

\* One terminal winner: whatever races, fails half-way and is compensated,
\* the human decides at most one of the requests minted for an operation
\* (the operation is claimed, restored and claimed again through the cache).
OneDecisionPerOperation ==
    \A r, q \in Reqs : /\ opOf[r] = opOf[q]
                       /\ decision[r] # "none" /\ decision[q] # "none"
                       => r = q

\* The mutation of an operation is committed at most once, however many
\* pollers, executors and retries run.
AppliedAtMostOnce == \A o \in Ops : applied[o] <= 1

\* What was executed was approved, and nothing that was denied is executed.
AppliedOnlyIfApproved ==
    \A o \in Ops : applied[o] > 0 =>
        /\ \E r \in Reqs : opOf[r] = o /\ decision[r] = "authorized"
        /\ \A r \in Reqs : opOf[r] = o => decision[r] # "denied"

\* What an operation captured can be spent once: when two operations that
\* captured the same content are both applied and the first changed it, the
\* content came back in between, by someone else's edit or by an operation
\* that was approved to restore it.
SnapshotSpentUntilRestored ==
    \A j, k \in DOMAIN trail :
        /\ j < k /\ trail[j].by # NoOp /\ trail[k].by # NoOp
        /\ op[trail[j].by].expected = op[trail[k].by].expected
        /\ trail[j].seen # op[trail[j].by].expected
        => \E m \in j + 1 .. k - 1 : trail[m].seen = op[trail[k].by].expected

\* A durable grant never outlives the pending operation it was issued for,
\* and belongs to a session.
GrantWithinOperation ==
    \A r \in Reqs : grant[r].status # "none" =>
        grant[r].exp <= op[opOf[r]].exp /\ r \in session

\* A decision is final, and a request that was exchanged for a grant and
\* consumed never comes back (a later poll gets invalid_grant).
DecisionsAreFinal ==
    [][\A r \in Reqs :
         /\ decision[r] # "none" => decision'[r] = decision[r]
         /\ grant[r].status # "none" /\ ~Live(request[r].exp) => request'[r].exp <= now]_vars

-----------------------------------------------------------------------------
(* The inductive invariant behind the properties.  The right to decide an   *)
(* operation is a token that moves from the pending entry to an approval    *)
(* entry (or back) and is spent by the decision.                            *)

\* Request r has the right to decide, or has used it.
Held(r) == Live(approval[r]) \/ decision[r] # "none"

\* There is one such token per operation, and a decision uses it up.
Capability ==
    /\ \A r \in Reqs : opOf[r] # NoOp /\ Live(pending[opOf[r]]) => ~Held(r)
    /\ \A r, q \in Reqs : opOf[r] = opOf[q] /\ Held(r) /\ Held(q) => r = q
    /\ \A r \in Reqs : Live(approval[r]) => decision[r] = "none"

\* A request belongs to a parked operation; an unused identifier to nothing.
Minted ==
    /\ \A o \in Ops : pending[o] # 0 => op[o].parked
    /\ \A r \in Reqs : IF opOf[r] = NoOp
                        THEN approval[r] = 0 /\ request[r].exp = 0 /\ decision[r] = "none"
                        ELSE op[opOf[r]].parked

IniInv ==
    /\ \A i \in Initiators : ini[i].pc # "idle" =>
          /\ ini[i].op \in Ops /\ ini[i].req \in Reqs /\ opOf[ini[i].req] = ini[i].op
          /\ ini[i].pc \in {"claim", "create"} =>
                /\ request[ini[i].req].exp = 0 /\ decision[ini[i].req] = "none"
                /\ \A a \in Approvers : app[a].pc # "idle" => app[a].req # ini[i].req
    /\ \A i, j \in Initiators : /\ ini[i].pc # "idle" /\ ini[j].pc # "idle"
                                /\ ini[i].req = ini[j].req
                                => i = j

AppInv ==
    \A a \in Approvers : app[a].pc # "idle" =>
        /\ app[a].req \in Reqs /\ opOf[app[a].req] # NoOp
        /\ app[a].act \in {"authorized", "denied"}

\* Whatever says "authorized" was authorized by the human.
Authority ==
    /\ \A r \in Reqs : request[r].state = "authorized" => decision[r] = "authorized"
    /\ \A r \in Reqs : grant[r].status # "none" => decision[r] = "authorized"
    /\ \A p \in Pollers : pol[p].pc # "idle" =>
          /\ pol[p].req \in Reqs
          /\ pol[p].snap.state = "authorized" => decision[pol[p].req] = "authorized"
          /\ pol[p].pc \in {"issue", "grant", "consume"} => pol[p].snap.state = "authorized"
          /\ pol[p].pc = "grant" => /\ pol[p].exp <= op[opOf[pol[p].req]].exp
                                    /\ pol[p].req \in session
    /\ \A e \in Executors : exe[e].pc # "idle" =>
          exe[e].req \in Reqs /\ grant[exe[e].req].status # "none"

\* The history counter agrees with the grant table.
Applied ==
    \A o \in Ops :
        applied[o] = IF \E r \in Reqs : opOf[r] = o /\ grant[r].status = "succeeded"
                     THEN 1 ELSE 0

\* A proposed operation knows the content it captured and the one it asks for.
Proposed ==
    \A o \in Ops : /\ op[o].parked => op[o].exp # 0
                   /\ op[o].exp # 0 => op[o].expected \in Seen /\ op[o].updated \in Seen

\* The trail ends at the target, and every operation in it replaced exactly
\* what it had captured by exactly what was proposed.
Exact ==
    /\ Len(trail) > 0 /\ trail[Len(trail)].seen = Redacted(target)
    /\ \A k \in DOMAIN trail : trail[k].by # NoOp =>
          /\ k > 1 /\ op[trail[k].by].exp # 0
          /\ trail[k - 1].seen = op[trail[k].by].expected
          /\ trail[k].seen = op[trail[k].by].updated

IInv ==
    /\ TypeOK /\ now > 0
    /\ Capability /\ Minted /\ IniInv /\ AppInv /\ Authority /\ Applied
    /\ Proposed /\ Exact /\ GrantWithinOperation

\* The exact-operation contract (ExactOperation), with the phase of an
\* operation read off the human's decision and its outcome off the grant.
phaseBar == [o \in Ops |->
    IF op[o].exp = 0 THEN "none"
    ELSE IF \E r \in Reqs : opOf[r] = o /\ decision[r] = "authorized" THEN "authorized"
    ELSE IF \E r \in Reqs : opOf[r] = o /\ decision[r] = "denied" THEN "denied"
    ELSE "proposed"]

outcomeBar == [o \in Ops |->
    IF \E r \in Reqs : opOf[r] = o /\ grant[r].status = "succeeded" THEN "applied"
    ELSE IF \E r \in Reqs : opOf[r] = o /\ grant[r].status = "failed_definite" THEN "failed"
    ELSE "none"]

snapshotBar == [o \in Ops |-> op[o].expected]
planBar     == [o \in Ops |-> op[o].updated]

Contract == INSTANCE ExactOperation
                WITH target <- Redacted(target), phase <- phaseBar, outcome <- outcomeBar,
                     snapshot <- snapshotBar, plan <- planBar

ImplementsContract == Contract!Spec

\* What docs/mcp-server.md promises of a repeated call: audit and cache
\* invalidation are not repeated.
AnnouncedAtMostOnce == \A o \in Ops : announced[o] <= 1

=============================================================================
