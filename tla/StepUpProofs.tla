---------------------------- MODULE StepUpProofs ----------------------------
(***************************************************************************)
(* Proofs about StepUp, for every set of operations, requests and tasks    *)
(* and every value of the time-outs.                                       *)
(***************************************************************************)
EXTENDS StepUp, TLAPS

USE DEF cacheVars, dbVars, envVars, histVars, taskVars

-----------------------------------------------------------------------------
(* Type correctness *)

\* The records the handlers are reset to are well-typed.
LEMMA IdleTypes ==
    /\ IdleIni \in IniTask /\ IdleApp \in AppTask
    /\ IdlePol \in PolTask /\ IdleExe \in ExeTask
    /\ NoRequest \in RequestData /\ NoGrant \in GrantRow /\ NotProposed \in Operation
    /\ \A r \in Reqs : Leaving(r) \in PolTask
<1>1. NoRequest \in RequestData
  BY DEF NoRequest, RequestData, Decisions
<1>2. NoGrant \in GrantRow /\ NotProposed \in Operation
  BY DEF NoGrant, GrantRow, Statuses, NotProposed, Operation
<1>3. IdleIni \in IniTask /\ IdleExe \in ExeTask
  BY DEF IdleIni, IniTask, IdleExe, ExeTask
<1>4. IdleApp \in AppTask /\ IdlePol \in PolTask
  BY <1>1 DEF IdleApp, AppTask, Decisions, IdlePol, PolTask
<1>5. \A r \in Reqs : Leaving(r) \in PolTask
  BY <1>4 DEF Leaving, PolTask
<1> QED BY <1>1, <1>2, <1>3, <1>4, <1>5

\* The initial state is well-typed.
LEMMA TypeInit == Init => TypeOK
<1> SUFFICES ASSUME Init PROVE TypeOK
  OBVIOUS
<1>1. target \in Content /\ trail \in Seq(Entry)
  <2>1. [by |-> NoOp, seen |-> Redacted(target)] \in Entry
    BY DEF Init, Content, Redacted, Entry
  <2> QED BY <2>1 DEF Init
<1> QED BY <1>1, IdleTypes DEF Init, TypeOK, Decisions

\* A further entry of the trail keeps its type.
LEMMA TypeTrail ==
    ASSUME trail \in Seq(Entry), NEW o \in Ops \cup {NoOp}, NEW c \in Seen
    PROVE  Append(trail, [by |-> o, seen |-> c]) \in Seq(Entry)
<1>1. [by |-> o, seen |-> c] \in Entry
  BY DEF Entry
<1> QED BY <1>1

\* Propose keeps the types.
LEMMA TypePropose ==
    ASSUME TypeOK, NEW o \in Ops, Propose(o)
    PROVE  TypeOK'
<1>0. PICK u \in Seen :
        op' = [op EXCEPT ![o] = [exp |-> now + OperationTTL, expected |-> Redacted(target),
                                 updated |-> u, parked |-> FALSE]]
  BY DEF Propose
<1>1. [exp |-> now + OperationTTL, expected |-> Redacted(target),
       updated |-> u, parked |-> FALSE] \in Operation
  BY TimeAssumption DEF TypeOK, Operation, Content, Redacted
<1>2. op' \in [Ops -> Operation]
  BY <1>0, <1>1 DEF TypeOK
<1> QED BY <1>2 DEF TypeOK, Propose

\* Park keeps the types.
LEMMA TypePark ==
    ASSUME TypeOK, NEW o \in Ops, Park(o)
    PROVE  TypeOK'
<1>0. op \in [Ops -> Operation] /\ pending \in [Ops -> Nat] /\ now \in Nat
  BY DEF TypeOK
<1>1. [op[o] EXCEPT !.parked = TRUE] \in Operation
  BY <1>0 DEF Operation
<1>2. op' \in [Ops -> Operation] /\ pending' \in [Ops -> Nat]
  BY <1>0, <1>1, TimeAssumption DEF Park
<1> QED BY <1>2 DEF TypeOK, Park

\* The steps of initiate keep the types.
LEMMA TypeInitiate ==
    ASSUME TypeOK, NEW i \in Initiators, Initiate(i)
    PROVE  TypeOK'
<1>0. ini[i] \in IniTask /\ now \in Nat
  BY DEF TypeOK
<1>1. ASSUME NEW o \in Ops, NEW r \in Reqs, InitiateStart(i, o, r) PROVE TypeOK'
  <2>1. PICK ttl \in 1 .. (op[o].exp - now) :
          ini' = [ini EXCEPT ![i] = [pc |-> "claim", op |-> o, req |-> r, ttl |-> ttl,
                                     left |-> op[o].exp - now, exp |-> now + ttl]]
    BY <1>1 DEF InitiateStart
  <2>2. op[o].exp \in Nat /\ op[o].exp > now
    BY <1>1 DEF InitiateStart, TypeOK, Operation
  <2>3. [pc |-> "claim", op |-> o, req |-> r, ttl |-> ttl,
         left |-> op[o].exp - now, exp |-> now + ttl] \in IniTask
    BY <1>0, <2>2 DEF IniTask
  <2>4. ini' \in [Initiators -> IniTask] /\ opOf' \in [Reqs -> Ops \cup {NoOp}]
    BY <1>1, <2>1, <2>3 DEF InitiateStart, TypeOK
  <2> QED BY <1>1, <2>4 DEF InitiateStart, TypeOK
<1>2. ASSUME NEW out \in Outcomes, InitiateClaim(i, out) PROVE TypeOK'
  <2>1. [ini[i] EXCEPT !.pc = "create"] \in IniTask /\ now + ini[i].ttl \in Nat
    BY <1>0 DEF IniTask
  <2>2. ini' \in [Initiators -> IniTask]
    BY <1>2, <2>1, IdleTypes DEF InitiateClaim, TypeOK
  <2>3. pending' \in [Ops -> Nat] /\ approval' \in [Reqs -> Nat]
    BY <1>2, <2>1 DEF InitiateClaim, TypeOK
  <2> QED BY <1>2, <2>2, <2>3 DEF InitiateClaim, TypeOK
<1>3. ASSUME NEW out \in Outcomes, InitiateCreate(i, out) PROVE TypeOK'
  <2>1. [exp |-> now + ini[i].ttl, until |-> ini[i].exp, state |-> "none", authTime |-> 0,
         last |-> 0, interval |-> PollInterval] \in RequestData
    BY <1>0, TimeAssumption DEF IniTask, RequestData, Decisions
  <2>2. [ini[i] EXCEPT !.pc = "restore"] \in IniTask
    BY <1>0 DEF IniTask
  <2>3. ini' \in [Initiators -> IniTask] /\ request' \in [Reqs -> RequestData]
    BY <1>3, <2>1, <2>2, IdleTypes DEF InitiateCreate, TypeOK
  <2> QED BY <1>3, <2>3 DEF InitiateCreate, TypeOK
<1>4. ASSUME NEW out \in Outcomes, InitiateRestore(i, out) PROVE TypeOK'
  <2>1. now + ini[i].left \in Nat
    BY <1>0 DEF IniTask
  <2>2. ini' \in [Initiators -> IniTask]
    BY <1>4, IdleTypes DEF InitiateRestore, TypeOK
  <2>3. pending' \in [Ops -> Nat] /\ approval' \in [Reqs -> Nat]
    BY <1>4, <2>1 DEF InitiateRestore, TypeOK
  <2> QED BY <1>4, <2>2, <2>3 DEF InitiateRestore, TypeOK
<1> QED BY <1>1, <1>2, <1>3, <1>4 DEF Initiate

\* The steps of post_handler keep the types.
LEMMA TypeApprove ==
    ASSUME TypeOK, AppInv, NEW a \in Approvers, Approve(a)
    PROVE  TypeOK'
<1>0. /\ app[a] \in AppTask /\ now \in Nat
      /\ \A c \in {"idle", "lock", "read", "claim", "unlock"} : [app[a] EXCEPT !.pc = c] \in AppTask
  BY DEF TypeOK, AppTask
<1>1. ASSUME NEW r \in Reqs, NEW act \in {"authorized", "denied"}, NEW t \in 1 .. now,
             ApproveLoad(a, r, act, t)
      PROVE  TypeOK'
  <2>2. t \in Nat /\ act \in Decisions
    BY <1>0 DEF Decisions
  <2>3. [pc |-> "lock", req |-> r, act |-> act, authTime |-> t, snap |-> NoRequest,
         left |-> 0] \in AppTask
    BY <2>2, IdleTypes DEF AppTask
  <2>4. app' \in [Approvers -> AppTask]
    BY <1>1, <2>3 DEF ApproveLoad, TypeOK
  <2> QED BY <1>1, <2>4 DEF ApproveLoad, TypeOK
<1>2. ASSUME DecideRead(a) PROVE TypeOK'
  <2>0. app[a].req \in Reqs
    BY <1>2 DEF DecideRead, AppInv
  <2>1. ASSUME Remains(request[app[a].req].until)
        PROVE  [app[a] EXCEPT !.pc = "claim", !.snap = request[app[a].req],
                              !.left = request[app[a].req].until - now] \in AppTask
    <3>1. request[app[a].req] \in RequestData /\ request[app[a].req].until \in Nat
      BY <2>0 DEF TypeOK, RequestData
    <3>2. request[app[a].req].until - now \in Nat
      BY <1>0, <2>1, <3>1 DEF Remains
    <3> QED BY <1>0, <3>1, <3>2, ZenonT(30) DEF AppTask
  <2>2. app' \in [Approvers -> AppTask]
    BY <1>0, <1>2, <2>1 DEF DecideRead, TypeOK
  <2> QED BY <1>2, <2>2 DEF DecideRead, TypeOK
<1>3. ASSUME NEW out \in Outcomes, ApproveLock(a, out) PROVE TypeOK'
  <2>1. app' \in [Approvers -> AppTask]
    BY <1>0, <1>3, IdleTypes DEF ApproveLock, TypeOK
  <2>2. lock' \in [Reqs -> Nat]
    <3>1. now + LockTTL \in Nat
      BY TimeAssumption DEF TypeOK
    <3> QED BY <1>3, <3>1 DEF ApproveLock, TypeOK
  <2> QED BY <1>3, <2>1, <2>2 DEF ApproveLock, TypeOK
<1>4. ASSUME NEW out \in Outcomes, DecideClaim(a, out) PROVE TypeOK'
  <2>1. app[a].act \in Decisions /\ app[a].authTime \in Nat /\ app[a].snap \in RequestData
    BY <1>0 DEF AppTask
  <2>2. [app[a].snap EXCEPT !.state = app[a].act, !.authTime = app[a].authTime,
                            !.exp = now + app[a].left] \in RequestData
    <3>1. now + app[a].left \in Nat
      BY <1>0 DEF AppTask
    <3> QED BY <2>1, <3>1, ZenonT(30) DEF RequestData
  <2>3. app' \in [Approvers -> AppTask]
    BY <1>0, <1>4 DEF DecideClaim, TypeOK
  <2>4. /\ approval' \in [Reqs -> Nat] /\ request' \in [Reqs -> RequestData]
        /\ decision' \in [Reqs -> Decisions]
    BY <1>4, <2>1, <2>2 DEF DecideClaim, TypeOK
  <2> QED BY <1>4, <2>3, <2>4 DEF DecideClaim, TypeOK
<1>5. ASSUME NEW out \in Outcomes, ApproveUnlock(a, out) PROVE TypeOK'
  <2>1. app' \in [Approvers -> AppTask] /\ lock' \in [Reqs -> Nat]
    BY <1>5, IdleTypes DEF ApproveUnlock, TypeOK
  <2> QED BY <1>5, <2>1 DEF ApproveUnlock, TypeOK
<1> QED BY <1>1, <1>2, <1>3, <1>4, <1>5 DEF Approve

\* The steps of poll keep the types.
LEMMA TypePoll ==
    ASSUME TypeOK, Authority, Minted, NEW p \in Pollers, Poll(p)
    PROVE  TypeOK'
<1>0. /\ pol[p] \in PolTask /\ now \in Nat /\ pol[p].snap \in RequestData
      /\ \A c \in {"idle", "lock", "cas", "issue", "grant", "consume", "unlock"} :
            [pol[p] EXCEPT !.pc = c] \in PolTask
  BY DEF TypeOK, PolTask
<1>1. ASSUME NEW r \in Reqs, PollRead(p, r) PROVE TypeOK'
  <2>2. [pc |-> "lock", req |-> r, snap |-> request[r], exp |-> 0] \in PolTask
    BY DEF PolTask, TypeOK
  <2>3. pol' \in [Pollers -> PolTask]
    BY <1>1, <2>2 DEF PollRead, TypeOK
  <2> QED BY <1>1, <2>3 DEF PollRead, TypeOK
<1>2. ASSUME NEW out \in Outcomes, PollLock(p, out) PROVE TypeOK'
  <2>1. pol' \in [Pollers -> PolTask]
    BY <1>0, <1>2, IdleTypes DEF PollLock, TypeOK
  <2>2. lock' \in [Reqs -> Nat]
    <3>1. now + LockTTL \in Nat
      BY TimeAssumption DEF TypeOK
    <3> QED BY <1>2, <3>1 DEF PollLock, TypeOK
  <2> QED BY <1>2, <2>1, <2>2 DEF PollLock, TypeOK
<1>3. ASSUME NEW out \in Outcomes, PollCas(p, out) PROVE TypeOK'
  <2> DEFINE early == pol[p].snap.last # 0 /\ now < pol[p].snap.last + pol[p].snap.interval
             new == IF early THEN [pol[p].snap EXCEPT !.interval = @ + PollInterval]
                             ELSE [pol[p].snap EXCEPT !.last = now]
  <2>1. new \in RequestData
    <3>1. [pol[p].snap EXCEPT !.interval = @ + PollInterval] \in RequestData
      BY <1>0, TimeAssumption DEF RequestData
    <3>2. [pol[p].snap EXCEPT !.last = now] \in RequestData
      BY <1>0 DEF RequestData
    <3> QED BY <3>1, <3>2
  <2>2. request' \in [Reqs -> RequestData]
    BY <1>3, <2>1 DEF PollCas, TypeOK
  <2>a. pol[p].req \in Reqs
    BY <1>3 DEF PollCas, Authority
  <2> HIDE DEF new
  <2>3. [pol[p] EXCEPT !.pc = "issue", !.snap = new] \in PolTask
    BY <1>0, <2>1 DEF PolTask
  <2>4. \/ pol' = [pol EXCEPT ![p] = [@ EXCEPT !.pc = "issue", !.snap = new]]
        \/ pol' = [pol EXCEPT ![p] = Leaving(pol[p].req)]
    BY <1>3 DEF PollCas, new
  <2>5. pol' \in [Pollers -> PolTask]
    BY <2>a, <2>3, <2>4, IdleTypes DEF TypeOK
  <2> QED BY <1>3, <2>2, <2>5 DEF PollCas, TypeOK
<1>4. ASSUME NEW out \in Outcomes, PollIssue(p, out) PROVE TypeOK'
  <2>0. pol[p].req \in Reqs
    BY <1>4 DEF PollIssue, Authority
  <2>1. session' \subseteq Reqs
    BY <1>4, <2>0 DEF PollIssue, TypeOK
  <2>2. CASE pol' = [pol EXCEPT ![p] = Leaving(pol[p].req)]
    <3>1. pol' \in [Pollers -> PolTask]
      BY <2>0, <2>2, IdleTypes DEF TypeOK
    <3> QED BY <1>4, <2>1, <3>1 DEF PollIssue, TypeOK
  <2>3. CASE /\ Issuable(opOf[pol[p].req], pol[p].snap.authTime)
             /\ pol' = [pol EXCEPT ![p] = [@ EXCEPT !.pc = "grant",
                                                    !.exp = GrantExpiry(opOf[pol[p].req])]]
    <3>1. opOf[pol[p].req] \in Ops
      BY <2>0, <2>3, <1>4 DEF TypeOK, Authority, Minted, PollIssue
    <3>a. op[opOf[pol[p].req]].exp \in Nat
      BY <3>1 DEF TypeOK, Operation
    <3>2. GrantExpiry(opOf[pol[p].req]) \in Nat
      BY <1>0, <2>3, <3>a, TimeAssumption DEF GrantExpiry, Min2, Issuable
    <3>3. [pol[p] EXCEPT !.pc = "grant", !.exp = GrantExpiry(opOf[pol[p].req])] \in PolTask
      BY <1>0, <3>2, ZenonT(30) DEF PolTask
    <3>4. pol' \in [Pollers -> PolTask]
      BY <2>3, <3>3 DEF TypeOK
    <3> QED BY <1>4, <2>1, <3>4 DEF PollIssue, TypeOK
  <2> QED BY <1>4, <2>2, <2>3 DEF PollIssue
<1>5. ASSUME NEW out \in Outcomes, PollGrant(p, out) PROVE TypeOK'
  <2>1. [status |-> "active", exp |-> pol[p].exp, authTime |-> pol[p].snap.authTime] \in GrantRow
    BY <1>0 DEF GrantRow, Statuses, PolTask, RequestData
  <2>2. grant' \in [Reqs -> GrantRow]
    BY <1>5, <2>1 DEF PollGrant, TypeOK
  <2>3. pol' \in [Pollers -> PolTask]
    BY <1>0, <1>5, IdleTypes DEF PollGrant, TypeOK, Authority
  <2> QED BY <1>5, <2>2, <2>3 DEF PollGrant, TypeOK
<1>6. ASSUME NEW out \in Outcomes, PollConsume(p, out) PROVE TypeOK'
  <2>0. pol[p].req \in Reqs
    BY <1>6 DEF PollConsume, Authority
  <2>1. request' \in [Reqs -> RequestData] /\ token' \subseteq Reqs
    BY <1>6, <2>0, IdleTypes DEF PollConsume, TypeOK
  <2>2. pol' \in [Pollers -> PolTask]
    BY <2>0, <1>6, IdleTypes DEF PollConsume, TypeOK
  <2> QED BY <1>6, <2>1, <2>2 DEF PollConsume, TypeOK
<1>7. ASSUME NEW out \in Outcomes, PollUnlock(p, out) PROVE TypeOK'
  <2>1. pol' \in [Pollers -> PolTask] /\ lock' \in [Reqs -> Nat]
    BY <1>7, IdleTypes DEF PollUnlock, TypeOK
  <2> QED BY <1>7, <2>1 DEF PollUnlock, TypeOK
<1> QED BY <1>1, <1>2, <1>3, <1>4, <1>5, <1>6, <1>7 DEF Poll

\* The steps of execute_strict keep the types.
LEMMA TypeExecute ==
    ASSUME TypeOK, Authority, Minted, Proposed, NEW e \in Executors, Execute(e)
    PROVE  TypeOK'
<1>0. exe[e] \in ExeTask /\ [exe[e] EXCEPT !.pc = "commit"] \in ExeTask
  BY DEF TypeOK, ExeTask
<1>1. ASSUME NEW r \in Reqs, ExecVerify(e, r) PROVE TypeOK'
  <2>1. [pc |-> "exec", req |-> r, reconciled |-> grant[r].status = "succeeded"] \in ExeTask
    BY DEF ExeTask
  <2>2. exe' \in [Executors -> ExeTask]
    BY <1>1, <2>1 DEF ExecVerify, TypeOK
  <2> QED BY <1>1, <2>2 DEF ExecVerify, TypeOK
<1>2. ASSUME NEW out \in Outcomes, ExecTx(e, out) PROVE TypeOK'
  <2>1. grant' \in [Reqs -> GrantRow]
    BY <1>2, ZenonT(30) DEF ExecTx, TypeOK, GrantRow, Statuses
  <2>2. target' \in Content /\ trail' \in Seq(Entry)
    <3> DEFINE o == opOf[exe[e].req]
    <3>0. target \in Content /\ trail \in Seq(Entry)
      BY DEF TypeOK
    <3>1. \/ UNCHANGED <<target, trail>>
          \/ /\ target' = Effective(o)
             /\ trail' = Append(trail, [by |-> o, seen |-> Redacted(target')])
      BY <1>2 DEF ExecTx
    <3>2. o \in Ops /\ op[o].updated \in Seen
      <4>1. exe[e].req \in Reqs /\ decision[exe[e].req] = "authorized"
        BY <1>2 DEF ExecTx, Authority
      <4>2. o \in Ops /\ op[o].parked
        BY <4>1 DEF Minted, TypeOK
      <4> QED BY <4>2 DEF Proposed
    <3> HIDE DEF o
    <3>3. Effective(o) \in Content /\ Redacted(Effective(o)) \in Seen
      BY <3>0, <3>2 DEF Effective, Content, Redacted
    <3> QED BY <3>0, <3>1, <3>2, <3>3, TypeTrail
  <2>4. applied' \in [Ops -> Nat]
    <3>1. applied' = applied \/ applied' = [applied EXCEPT ![opOf[exe[e].req]] = @ + 1]
      BY <1>2 DEF ExecTx
    <3>2. applied \in [Ops -> Nat]
      BY DEF TypeOK
    <3> QED BY <3>1, <3>2
  <2>3. exe' \in [Executors -> ExeTask]
    BY <1>0, <1>2, IdleTypes DEF ExecTx, TypeOK
  <2> QED BY <1>2, <2>1, <2>2, <2>3, <2>4 DEF ExecTx, TypeOK
<1>3. ASSUME ExecCommitted(e) PROVE TypeOK'
  <2>1. exe' \in [Executors -> ExeTask]
    BY <1>3, IdleTypes DEF ExecCommitted, TypeOK
  <2>2. announced' \in [Ops -> Nat]
    <3>1. announced' = announced \/ announced' = [announced EXCEPT ![opOf[exe[e].req]] = @ + 1]
      BY <1>3 DEF ExecCommitted
    <3> QED BY <3>1 DEF TypeOK
  <2> QED BY <1>3, <2>1, <2>2 DEF ExecCommitted, TypeOK
<1> QED BY <1>1, <1>2, <1>3 DEF Execute

\* The environment keeps the types.
LEMMA TypeEnvironment ==
    ASSUME TypeOK, Tick \/ Drift \/ CacheLoss \/ Crash
    PROVE  TypeOK'
<1>1. CASE Tick
  BY <1>1 DEF Tick, TypeOK
<1>2. CASE Drift
  <2>1. target' \in Content /\ Redacted(target') \in Seen
    BY <1>2 DEF Drift, Content, Redacted
  <2>2. trail' \in Seq(Entry)
    BY <1>2, <2>1, TypeTrail DEF Drift, TypeOK
  <2> QED BY <1>2, <2>1, <2>2 DEF Drift, TypeOK
<1>3. CASE CacheLoss
  BY <1>3, IdleTypes DEF CacheLoss, TypeOK
<1>4. CASE Crash
  BY <1>4, IdleTypes DEF Crash, TypeOK
<1> QED BY <1>1, <1>2, <1>3, <1>4

-----------------------------------------------------------------------------
(* The inductive step, action by action: one step per conjunct of IInv that *)
(* the action can disturb.                                                  *)

\* A further entry of the trail is exact when it is someone else's, or when the
\* operation had captured the content the target has.
LEMMA ExactAppend ==
    ASSUME Exact, trail \in Seq(Entry), op' = op, NEW o \in Ops \cup {NoOp},
           trail' = Append(trail, [by |-> o, seen |-> Redacted(target')]),
           o # NoOp => /\ op[o].exp # 0 /\ op[o].expected = Redacted(target)
                       /\ op[o].updated = Redacted(target')
    PROVE  Exact'
<1> DEFINE n == Len(trail)
<1>1. n \in Nat \ {0} /\ trail[n].seen = Redacted(target)
  BY DEF Exact
<1>2. /\ Len(trail') = n + 1 /\ DOMAIN trail' = 1 .. n + 1 /\ DOMAIN trail = 1 .. n
      /\ trail'[n + 1] = [by |-> o, seen |-> Redacted(target')]
      /\ \A k \in 1 .. n : trail'[k] = trail[k]
  OBVIOUS
<1> HIDE DEF n
<1>3. ASSUME NEW k \in 1 .. n + 1, trail'[k].by # NoOp
      PROVE  /\ k > 1 /\ op[trail'[k].by].exp # 0
             /\ trail'[k - 1].seen = op[trail'[k].by].expected
             /\ trail'[k].seen = op[trail'[k].by].updated
  <2>1. CASE k = n + 1
    <3>1. k - 1 = n /\ k > 1 /\ k - 1 \in 1 .. n
      BY <1>1, <2>1
    <3> QED BY <1>1, <1>2, <1>3, <2>1, <3>1
  <2>2. CASE k # n + 1
    <3>1. k \in 1 .. n /\ k \in DOMAIN trail
      BY <1>1, <1>2, <2>2
    <3>2. k > 1 /\ trail[k].by # NoOp
      BY <1>2, <1>3, <3>1 DEF Exact
    <3>3. k - 1 \in 1 .. n
      BY <1>1, <3>1, <3>2
    <3> QED BY <1>2, <3>1, <3>2, <3>3 DEF Exact
  <2> QED BY <2>1, <2>2
<1> QED BY <1>1, <1>2, <1>3 DEF Exact

\* A proposed operation holds no token yet.
LEMMA InductivePropose ==
    ASSUME IInv, NEW o \in Ops, Propose(o)
    PROVE  IInv'
<1>0. PICK u \in Seen :
        op' = [op EXCEPT ![o] = [exp |-> now + OperationTTL, expected |-> Redacted(target),
                                 updated |-> u, parked |-> FALSE]]
  BY DEF Propose
<1>a. /\ op'[o].exp # 0 /\ op'[o].expected = Redacted(target) /\ op'[o].updated = u
      /\ ~op'[o].parked
      /\ \A k \in Ops : k # o => op'[k] = op[k]
  BY <1>0, TimeAssumption DEF IInv, TypeOK, Operation
<1>b. op[o].exp = 0 /\ ~op[o].parked /\ \A r \in Reqs : opOf[r] # o
  BY NoOpAssumption DEF IInv, Minted, Proposed, Propose
<1>1. TypeOK' /\ now' > 0
  BY TypePropose DEF IInv, Propose, TypeOK
<1>2. Capability' /\ IniInv' /\ AppInv' /\ Applied'
  BY DEF IInv, Propose, Capability, IniInv, AppInv, Applied, Live, Held
<1>3. Minted'
  BY <1>a, <1>b DEF IInv, TypeOK, Minted, Propose
<1>4. \A r \in Reqs : decision[r] # "none" => op'[opOf[r]] = op[opOf[r]]
  BY <1>a, <1>b DEF IInv, TypeOK, Minted
<1>5. Authority'
  BY <1>4 DEF IInv, TypeOK, Authority, Propose
<1>6. Proposed'
  BY <1>a DEF IInv, TypeOK, Proposed, Content, Redacted
<1>7. Exact'
  <2>0. \A k \in DOMAIN trail : trail[k] \in Entry
    BY DEF IInv, TypeOK
  <2>1. \A k \in DOMAIN trail : trail[k].by # NoOp => op'[trail[k].by] = op[trail[k].by]
    BY <1>a, <1>b, <2>0 DEF IInv, Exact, Entry
  <2> QED BY <2>1 DEF IInv, Exact, Propose
<1>8. GrantWithinOperation'
  BY <1>4 DEF IInv, TypeOK, GrantWithinOperation, Authority, Propose
<1> QED BY <1>1, <1>2, <1>3, <1>5, <1>6, <1>7, <1>8 DEF IInv

\* The entry of an operation is written before any request is minted for it.
LEMMA InductivePark ==
    ASSUME IInv, NEW o \in Ops, Park(o)
    PROVE  IInv'
<1>1. TypeOK' /\ now' > 0
  BY TypePark DEF IInv, Park, TypeOK
<1>2. IniInv' /\ AppInv' /\ Applied'
  BY DEF IInv, Park, IniInv, AppInv, Applied, Live, Held
<1>3. \A r \in Reqs : opOf[r] # o
  BY NoOpAssumption DEF IInv, Minted, Park
<1>4. Capability'
  BY <1>3 DEF IInv, TypeOK, Capability, Park, Live, Held
<1>5. \A k \in Ops : /\ op'[k].exp = op[k].exp /\ op'[k].expected = op[k].expected
                      /\ op'[k].updated = op[k].updated /\ (op[k].parked => op'[k].parked)
                      /\ (op'[k].parked => op[k].parked \/ k = o)
  BY DEF IInv, TypeOK, Operation, Park
<1>6. Minted' /\ Proposed'
  BY <1>5 DEF IInv, TypeOK, Minted, Proposed, Park
<1>7. \A r \in Reqs : decision[r] # "none" => op'[opOf[r]].exp = op[opOf[r]].exp
  BY <1>5 DEF IInv, TypeOK, Minted
<1>8. Authority' /\ GrantWithinOperation'
  BY <1>7 DEF IInv, TypeOK, Authority, GrantWithinOperation, Park
<1>9. Exact'
  <2>1. \A k \in DOMAIN trail : trail[k] \in Entry
    BY DEF IInv, TypeOK
  <2>2. UNCHANGED <<trail, target>>
    BY DEF Park
  <2> QED BY <1>5, <2>1, <2>2 DEF IInv, Exact, Entry
<1> QED BY <1>1, <1>2, <1>4, <1>6, <1>8, <1>9 DEF IInv

\* Minting a request leaves the token where it is.
LEMMA InductiveInitiateStart ==
    ASSUME IInv, NEW i \in Initiators, NEW o \in Ops, NEW r \in Reqs, InitiateStart(i,
           o, r)
    PROVE  IInv'
<1>1. TypeOK' /\ now' > 0
  BY TypeInitiate DEF IInv, Initiate, InitiateStart, TypeOK
<1>2. Proposed' /\ Exact'
  BY DEF IInv, InitiateStart, Proposed, Exact, Live, Held
<1>3. Capability'
  BY DEF IInv, TypeOK, Capability, Minted, InitiateStart, Live, Held
<1>4. Minted'
  <2>1. pending[o] # 0 /\ opOf' = [opOf EXCEPT ![r] = o]
        /\ UNCHANGED <<pending, approval, request, decision, op>>
    BY DEF IInv, TypeOK, InitiateStart, Live
  <2>2. opOf \in [Reqs -> Ops \cup {NoOp}]
    BY DEF IInv, TypeOK
  <2> QED BY <2>1, <2>2, NoOpAssumption DEF IInv, Minted
<1>5. IniInv'
  <2>1. PICK x \in IniTask : /\ ini' = [ini EXCEPT ![i] = x]
                             /\ x.op = o /\ x.req = r /\ x.pc = "claim"
    <3>1. PICK ttl \in 1 .. (op[o].exp - now) :
            ini' = [ini EXCEPT ![i] = [pc |-> "claim", op |-> o, req |-> r, ttl |-> ttl,
                                       left |-> op[o].exp - now, exp |-> now + ttl]]
      BY DEF InitiateStart
    <3>2. ini'[i] \in IniTask
      BY <1>1 DEF TypeOK
    <3> QED BY <3>1, <3>2 DEF IInv, TypeOK
  <2>2. /\ opOf[r] = NoOp /\ opOf' = [opOf EXCEPT ![r] = o] /\ ini[i].pc = "idle"
        /\ UNCHANGED <<request, decision, app>>
    BY DEF InitiateStart
  <2>3. request[r].exp = 0 /\ decision[r] = "none"
    BY <2>2 DEF IInv, Minted
  <2>4. \A a \in Approvers : app[a].pc # "idle" => app[a].req # r
    BY <2>2 DEF IInv, AppInv
  <2>5. \A j \in Initiators : ini[j].pc # "idle" => ini[j].req # r
    BY <2>2, NoOpAssumption DEF IInv, IniInv
  <2>6. ini \in [Initiators -> IniTask] /\ opOf \in [Reqs -> Ops \cup {NoOp}]
    BY DEF IInv, TypeOK
  <2>7. /\ ini'[i] = x /\ opOf'[r] = o
        /\ \A j \in Initiators : j # i => ini'[j] = ini[j]
        /\ \A q \in Reqs : q # r => opOf'[q] = opOf[q]
    BY <2>1, <2>2, <2>6
  <2> QED BY <2>1, <2>2, <2>3, <2>4, <2>5, <2>7 DEF IInv, IniInv
<1>6. AppInv'
  BY DEF IInv, AppInv, InitiateStart, Live
<1>7. Authority'
  BY DEF IInv, TypeOK, Authority, Minted, InitiateStart, Live
<1>8. Applied'
  <2>1. grant[r].status = "none" /\ opOf[r] = NoOp
    BY DEF IInv, Authority, Minted, InitiateStart
  <2>2. \A q \in Reqs : q # r => opOf'[q] = opOf[q]
    BY DEF IInv, TypeOK, InitiateStart
  <2>3. UNCHANGED <<grant, applied>>
    BY DEF InitiateStart
  <2> QED BY <2>1, <2>2, <2>3, NoOpAssumption DEF IInv, Applied
<1>9. GrantWithinOperation'
  BY NoOpAssumption DEF IInv, TypeOK, GrantWithinOperation, Authority, Minted,
     InitiateStart, Live
<1> QED BY <1>1, <1>2, <1>3, <1>4, <1>5, <1>6, <1>7, <1>8, <1>9 DEF IInv

\* claim_and_create moves the token from the pending entry to an approval.
LEMMA InductiveInitiateClaim ==
    ASSUME IInv, NEW i \in Initiators, NEW out \in Outcomes, InitiateClaim(i, out)
    PROVE  IInv'
<1>1. TypeOK' /\ now' > 0
  BY TypeInitiate DEF IInv, Initiate, InitiateClaim, TypeOK
<1>2. AppInv' /\ Authority' /\ Applied' /\ Proposed' /\ Exact' /\ GrantWithinOperation'
  BY DEF IInv, InitiateClaim, AppInv, Authority, Applied, Proposed, Exact,
     GrantWithinOperation, Live, Held
<1>3. Capability'
  <2>1. CASE pending' = pending /\ approval' = approval
    BY <2>1 DEF IInv, Capability, InitiateClaim, Live, Held
  <2>2. CASE ~(pending' = pending /\ approval' = approval)
    <3> DEFINE o == ini[i].op
               r == ini[i].req
    <3>1. /\ Live(pending[o]) /\ pending' = [pending EXCEPT ![o] = 0]
          /\ approval' = [approval EXCEPT ![r] = now + ini[i].ttl]
          /\ UNCHANGED <<now, opOf, decision>>
      BY <2>2 DEF InitiateClaim, Claims
    <3>2. o \in Ops /\ r \in Reqs /\ opOf[r] = o /\ decision[r] = "none"
      BY DEF IInv, IniInv, InitiateClaim
    <3> HIDE DEF o, r
    <3>3. \A q \in Reqs : opOf[q] = o => ~Held(q)
      BY <3>1, <3>2, NoOpAssumption DEF IInv, Capability
    <3>4. /\ pending'[o] = 0 /\ \A k \in Ops : k # o => pending'[k] = pending[k]
          /\ \A q \in Reqs : q # r => approval'[q] = approval[q]
      BY <3>1, <3>2 DEF IInv, TypeOK
    <3>5. \A q \in Reqs : q # r => (Held(q)' <=> Held(q))
      BY <3>1, <3>4 DEF IInv, TypeOK, Live, Held
    <3>6. \A q \in Reqs : opOf[q] # NoOp /\ Live(pending[opOf[q]])' => ~Held(q)'
      <4>1. SUFFICES ASSUME NEW q \in Reqs, opOf[q] # NoOp, Live(pending[opOf[q]])'
                     PROVE  ~Held(q)'
        BY <3>1
      <4>2. opOf[q] \in Ops
        BY <4>1 DEF IInv, TypeOK
      <4>3. opOf[q] # o
        BY <3>1, <3>4, <4>1 DEF IInv, TypeOK, Live
      <4>4. q # r /\ Live(pending[opOf[q]])
        BY <3>1, <3>2, <3>4, <4>1, <4>2, <4>3 DEF Live
      <4> QED BY <3>5, <4>1, <4>4 DEF IInv, Capability
    <3>7. \A q, k \in Reqs : opOf[q] = opOf[k] /\ Held(q)' /\ Held(k)' => q = k
      BY <3>2, <3>3, <3>5 DEF IInv, Capability
    <3>8. \A q \in Reqs : Live(approval[q])' => decision[q] = "none"
      BY <3>1, <3>2, <3>4 DEF IInv, Capability, Live
    <3> QED BY <3>1, <3>6, <3>7, <3>8 DEF Capability
  <2> QED BY <2>1, <2>2
<1>4. Minted'
  BY NoOpAssumption DEF IInv, TypeOK, Minted, IniInv, AppInv, Authority, InitiateClaim,
     Claims, IdleIni, Live
<1>5. IniInv'
  BY DEF IInv, IniInv, InitiateClaim, Claims, IdleIni, Live
<1> QED BY <1>1, <1>2, <1>3, <1>4, <1>5 DEF IInv

\* Storing the request gives it no authority.
LEMMA InductiveInitiateCreate ==
    ASSUME IInv, NEW i \in Initiators, NEW out \in Outcomes, InitiateCreate(i, out)
    PROVE  IInv'
<1>1. TypeOK' /\ now' > 0
  BY TypeInitiate DEF IInv, Initiate, InitiateCreate, TypeOK
<1>2. Capability' /\ AppInv' /\ Applied' /\ Proposed' /\ Exact' /\ GrantWithinOperation'
  BY DEF IInv, InitiateCreate, Capability, AppInv, Applied, Proposed, Exact,
     GrantWithinOperation, Live, Held
<1>3. Minted'
  <2>1. ini[i].req \in Reqs /\ opOf[ini[i].req] # NoOp
    BY NoOpAssumption DEF IInv, IniInv, InitiateCreate
  <2>2. \A q \in Reqs : q # ini[i].req => request'[q] = request[q]
    BY DEF IInv, TypeOK, InitiateCreate
  <2>3. UNCHANGED <<pending, approval, decision, op, opOf>>
    BY DEF InitiateCreate
  <2> QED BY <2>1, <2>2, <2>3 DEF IInv, Minted
<1>4. IniInv'
  BY DEF IInv, TypeOK, IniInv, InitiateCreate, IdleIni
<1>5. Authority'
  BY DEF IInv, Authority, InitiateCreate, IdleIni
<1> QED BY <1>1, <1>2, <1>3, <1>4, <1>5 DEF IInv

\* The compensation moves the token back to the pending entry.
LEMMA InductiveInitiateRestore ==
    ASSUME IInv, NEW i \in Initiators, NEW out \in Outcomes, InitiateRestore(i, out)
    PROVE  IInv'
<1>1. TypeOK' /\ now' > 0
  BY TypeInitiate DEF IInv, Initiate, InitiateRestore, TypeOK
<1>2. AppInv' /\ Authority' /\ Applied' /\ Proposed' /\ Exact' /\ GrantWithinOperation'
  BY DEF IInv, InitiateRestore, AppInv, Authority, Applied, Proposed, Exact,
     GrantWithinOperation, Live, Held
<1>3. Capability'
  BY DEF IInv, TypeOK, Capability, IniInv, InitiateRestore, Claims, IdleIni, Live, Held
<1>4. Minted'
  BY NoOpAssumption DEF IInv, TypeOK, Minted, IniInv, InitiateRestore, Claims, IdleIni, Live
<1>5. IniInv'
  BY DEF IInv, IniInv, InitiateRestore, Claims, IdleIni, Live
<1> QED BY <1>1, <1>2, <1>3, <1>4, <1>5 DEF IInv

\* An approver starts.
LEMMA InductiveApproveLoad ==
    ASSUME IInv, NEW a \in Approvers, NEW r \in Reqs, NEW act \in {"authorized",
           "denied"}, NEW t \in 1 .. now, ApproveLoad(a, r, act, t)
    PROVE  IInv'
<1>1. TypeOK' /\ now' > 0
  BY TypeApprove DEF IInv, Approve, ApproveLoad, TypeOK
<1>2. Capability' /\ Minted' /\ Authority' /\ Applied' /\ Proposed' /\ Exact' /\
      GrantWithinOperation'
  BY DEF IInv, ApproveLoad, Capability, Minted, Authority, Applied, Proposed, Exact,
     GrantWithinOperation, Live, Held
<1>3. IniInv'
  BY DEF IInv, TypeOK, IniInv, ApproveLoad, Live
<1>4. AppInv'
  BY DEF IInv, TypeOK, AppInv, Minted, ApproveLoad, Live
<1> QED BY <1>1, <1>2, <1>3, <1>4 DEF IInv

\* An approver takes the poll lock.
LEMMA InductiveApproveLock ==
    ASSUME IInv, NEW a \in Approvers, NEW out \in Outcomes, ApproveLock(a, out)
    PROVE  IInv'
<1>1. TypeOK' /\ now' > 0
  BY TypeApprove DEF IInv, Approve, ApproveLock, TypeOK
<1>2. Capability' /\ Minted' /\ Authority' /\ Applied' /\ Proposed' /\ Exact' /\
      GrantWithinOperation'
  BY DEF IInv, ApproveLock, Capability, Minted, Authority, Applied, Proposed, Exact,
     GrantWithinOperation, Live, Held
<1>3. IniInv'
  BY DEF IInv, IniInv, ApproveLock, IdleApp
<1>4. AppInv'
  BY DEF IInv, AppInv, ApproveLock, IdleApp
<1> QED BY <1>1, <1>2, <1>3, <1>4 DEF IInv

\* An approver re-reads the request.
LEMMA InductiveDecideRead ==
    ASSUME IInv, NEW a \in Approvers, DecideRead(a)
    PROVE  IInv'
<1>1. TypeOK' /\ now' > 0
  BY TypeApprove DEF IInv, Approve, DecideRead, TypeOK
<1>2. Capability' /\ Minted' /\ Authority' /\ Applied' /\ Proposed' /\ Exact' /\
      GrantWithinOperation'
  BY DEF IInv, DecideRead, Capability, Minted, Authority, Applied, Proposed, Exact,
     GrantWithinOperation, Live, Held
<1>3. IniInv'
  BY DEF IInv, IniInv, DecideRead, Live
<1>4. AppInv'
  BY DEF IInv, AppInv, DecideRead, Live
<1> QED BY <1>1, <1>2, <1>3, <1>4 DEF IInv

\* The decision spends the token.
LEMMA InductiveDecideClaim ==
    ASSUME IInv, NEW a \in Approvers, NEW out \in Outcomes, DecideClaim(a, out)
    PROVE  IInv'
<1>1. TypeOK' /\ now' > 0
  BY TypeApprove DEF IInv, Approve, DecideClaim, TypeOK
<1>2. Applied' /\ Proposed' /\ Exact' /\ GrantWithinOperation'
  BY DEF IInv, DecideClaim, Applied, Proposed, Exact, GrantWithinOperation, Live, Held
<1>3. Capability'
  BY DEF IInv, TypeOK, Capability, DecideClaim, Claims, Live, Held
<1>4. Minted'
  BY DEF IInv, TypeOK, Minted, DecideClaim, Claims, Live
<1>5. IniInv'
  BY DEF IInv, IniInv, DecideClaim, Claims, Live
<1>6. AppInv'
  BY DEF IInv, AppInv, DecideClaim, Claims, Live
<1>7. Authority'
  BY DEF IInv, TypeOK, Authority, Capability, DecideClaim, Claims, Live
<1> QED BY <1>1, <1>2, <1>3, <1>4, <1>5, <1>6, <1>7 DEF IInv

\* An approver releases the poll lock.
LEMMA InductiveApproveUnlock ==
    ASSUME IInv, NEW a \in Approvers, NEW out \in Outcomes, ApproveUnlock(a, out)
    PROVE  IInv'
<1>1. TypeOK' /\ now' > 0
  BY TypeApprove DEF IInv, Approve, ApproveUnlock, TypeOK
<1>2. Capability' /\ Minted' /\ Authority' /\ Applied' /\ Proposed' /\ Exact' /\
      GrantWithinOperation'
  BY DEF IInv, ApproveUnlock, Capability, Minted, Authority, Applied, Proposed, Exact,
     GrantWithinOperation, Live, Held
<1>3. IniInv'
  BY DEF IInv, IniInv, ApproveUnlock, IdleApp
<1>4. AppInv'
  BY DEF IInv, AppInv, ApproveUnlock, IdleApp
<1> QED BY <1>1, <1>2, <1>3, <1>4 DEF IInv

\* A poller reads a request.
LEMMA InductivePollRead ==
    ASSUME IInv, NEW p \in Pollers, NEW r \in Reqs, PollRead(p, r)
    PROVE  IInv'
<1>1. TypeOK' /\ now' > 0
  BY TypePoll DEF IInv, Poll, PollRead, TypeOK
<1>2. Capability' /\ Minted' /\ IniInv' /\ AppInv' /\ Applied' /\ Proposed' /\ Exact' /\
      GrantWithinOperation'
  BY DEF IInv, PollRead, Capability, Minted, IniInv, AppInv, Applied, Proposed, Exact,
     GrantWithinOperation, Live, Held
<1>3. Authority'
  BY DEF IInv, Authority, PollRead, Live
<1> QED BY <1>1, <1>2, <1>3 DEF IInv

\* A poller takes the poll lock.
LEMMA InductivePollLock ==
    ASSUME IInv, NEW p \in Pollers, NEW out \in Outcomes, PollLock(p, out)
    PROVE  IInv'
<1>1. TypeOK' /\ now' > 0
  BY TypePoll DEF IInv, Poll, PollLock, TypeOK
<1>2. Capability' /\ Minted' /\ IniInv' /\ AppInv' /\ Applied' /\ Proposed' /\ Exact' /\
      GrantWithinOperation'
  BY DEF IInv, PollLock, Capability, Minted, IniInv, AppInv, Applied, Proposed, Exact,
     GrantWithinOperation, Live, Held
<1>3. Authority'
  BY DEF IInv, Authority, PollLock, IdlePol
<1> QED BY <1>1, <1>2, <1>3 DEF IInv

\* A poller swaps the record: the authority in it is what it read.
LEMMA InductivePollCas ==
    ASSUME IInv, NEW p \in Pollers, NEW out \in Outcomes, PollCas(p, out)
    PROVE  IInv'
<1>1. TypeOK' /\ now' > 0
  BY TypePoll DEF IInv, Poll, PollCas, TypeOK
<1>2. Capability' /\ AppInv' /\ Applied' /\ Proposed' /\ Exact' /\ GrantWithinOperation'
  BY DEF IInv, PollCas, Capability, AppInv, Applied, Proposed, Exact,
     GrantWithinOperation, Live, Held
<1>3. Minted'
  BY DEF IInv, Minted, PollCas, Swaps, Exchangeable, Live
<1>4. IniInv'
  BY DEF IInv, IniInv, PollCas, Swaps, Exchangeable, Live
<1>5. Authority'
  BY DEF IInv, Authority, PollCas, Swaps, Exchangeable, Live, Leaving, IdlePol, NoRequest
<1> QED BY <1>1, <1>2, <1>3, <1>4, <1>5 DEF IInv

\* A poller persists the session and fixes the grant's expiry.
LEMMA InductivePollIssue ==
    ASSUME IInv, NEW p \in Pollers, NEW out \in Outcomes, PollIssue(p, out)
    PROVE  IInv'
<1>1. TypeOK' /\ now' > 0
  BY TypePoll DEF IInv, Poll, PollIssue, TypeOK
<1>2. Capability' /\ Minted' /\ IniInv' /\ AppInv' /\ Applied' /\ Proposed' /\ Exact'
  BY DEF IInv, PollIssue, Capability, Minted, IniInv, AppInv, Applied, Proposed, Exact,
     Live, Held
<1>3. Authority'
  <2> DEFINE o == opOf[pol[p].req]
  <2>1. /\ pol[p] \in PolTask /\ pol[p].pc = "issue" /\ pol[p].req \in Reqs
        /\ decision[pol[p].req] = "authorized" /\ pol[p].snap.state = "authorized"
    BY DEF IInv, TypeOK, Authority, PollIssue
  <2>2. ASSUME Issuable(o, pol[p].snap.authTime) PROVE GrantExpiry(o) <= op[o].exp
    <3>1. o \in Ops
      BY <2>1 DEF IInv, TypeOK, Minted, Authority
    <3>2. op[o].exp \in Nat /\ now \in Nat
      BY <3>1 DEF IInv, TypeOK, Operation
    <3> QED BY <2>2, <3>2, TimeAssumption DEF Issuable, GrantExpiry, Min2
  <2> HIDE DEF o
  <2>3. ASSUME NEW q \in Pollers, pol'[q].pc # "idle"
        PROVE  /\ pol'[q].req \in Reqs
               /\ pol'[q].snap.state = "authorized" => decision[pol'[q].req] = "authorized"
               /\ pol'[q].pc \in {"issue", "grant", "consume"} => pol'[q].snap.state = "authorized"
               /\ pol'[q].pc = "grant" => /\ pol'[q].exp <= op[opOf[pol'[q].req]].exp
                                          /\ pol'[q].req \in session'
    <3>1. CASE q = p
      BY <2>1, <2>2, <2>3, <3>1 DEF IInv, TypeOK, PollIssue, PolTask, o, Leaving, IdlePol, NoRequest
    <3>2. CASE q # p
      BY <2>3, <3>2 DEF IInv, TypeOK, Authority, PollIssue
    <3> QED BY <3>1, <3>2
  <2> QED BY <2>3 DEF IInv, Authority, PollIssue, cacheVars, envVars, histVars
<1>4. GrantWithinOperation'
  BY DEF IInv, GrantWithinOperation, PollIssue, Issuable, GrantExpiry, Min2
<1> QED BY <1>1, <1>2, <1>3, <1>4 DEF IInv

\* A poller inserts the grant of an authorized request.
LEMMA InductivePollGrant ==
    ASSUME IInv, NEW p \in Pollers, NEW out \in Outcomes, PollGrant(p, out)
    PROVE  IInv'
<1>1. TypeOK' /\ now' > 0
  BY TypePoll DEF IInv, Poll, PollGrant, TypeOK
<1>2. Capability' /\ Minted' /\ IniInv' /\ AppInv' /\ Proposed' /\ Exact'
  BY DEF IInv, PollGrant, Capability, Minted, IniInv, AppInv, Proposed, Exact, Live,
     Held
<1>3. Authority'
  BY DEF IInv, Authority, PollGrant, GrantConflict, Leaving, IdlePol, NoRequest
<1>4. Applied'
  BY DEF IInv, Applied, PollGrant, GrantConflict
<1>5. GrantWithinOperation'
  BY DEF IInv, TypeOK, GrantWithinOperation, Authority, PollGrant, GrantConflict
<1> QED BY <1>1, <1>2, <1>3, <1>4, <1>5 DEF IInv

\* A poller consumes the request.
LEMMA InductivePollConsume ==
    ASSUME IInv, NEW p \in Pollers, NEW out \in Outcomes, PollConsume(p, out)
    PROVE  IInv'
<1>1. TypeOK' /\ now' > 0
  BY TypePoll DEF IInv, Poll, PollConsume, TypeOK
<1>2. Capability' /\ AppInv' /\ Applied' /\ Proposed' /\ Exact' /\ GrantWithinOperation'
  BY DEF IInv, PollConsume, Capability, AppInv, Applied, Proposed, Exact,
     GrantWithinOperation, Live, Held
<1>3. Minted'
  BY DEF IInv, Minted, PollConsume, NoRequest
<1>4. IniInv'
  BY DEF IInv, IniInv, PollConsume, NoRequest
<1>5. Authority'
  BY DEF IInv, Authority, PollConsume, Leaving, IdlePol, NoRequest
<1> QED BY <1>1, <1>2, <1>3, <1>4, <1>5 DEF IInv

\* A poller releases the lock.
LEMMA InductivePollUnlock ==
    ASSUME IInv, NEW p \in Pollers, NEW out \in Outcomes, PollUnlock(p, out)
    PROVE  IInv'
<1>1. TypeOK' /\ now' > 0
  BY TypePoll DEF IInv, Poll, PollUnlock, TypeOK
<1>2. Capability' /\ Minted' /\ IniInv' /\ AppInv' /\ Applied' /\ Proposed' /\ Exact' /\
      GrantWithinOperation'
  BY DEF IInv, PollUnlock, Capability, Minted, IniInv, AppInv, Applied,
     Proposed, Exact, GrantWithinOperation, Live, Held
<1>3. Authority'
  BY DEF IInv, Authority, PollUnlock, IdlePol
<1> QED BY <1>1, <1>2, <1>3 DEF IInv

\* An executor verifies a grant.
LEMMA InductiveExecVerify ==
    ASSUME IInv, NEW e \in Executors, NEW r \in Reqs, ExecVerify(e, r)
    PROVE  IInv'
<1>1. TypeOK' /\ now' > 0
  BY TypeExecute DEF IInv, Execute, ExecVerify, TypeOK
<1>2. Capability' /\ Minted' /\ IniInv' /\ AppInv' /\ Applied' /\ Proposed' /\ Exact' /\
      GrantWithinOperation'
  BY DEF IInv, ExecVerify, Capability, Minted, IniInv, AppInv, Applied,
     Proposed, Exact, GrantWithinOperation, Live, Held
<1>3. Authority'
  BY DEF IInv, Authority, ExecVerify
<1> QED BY <1>1, <1>2, <1>3 DEF IInv

\* The transaction runs the mutation of an active grant and settles it.
LEMMA InductiveExecTx ==
    ASSUME IInv, NEW e \in Executors, NEW out \in Outcomes, ExecTx(e, out)
    PROVE  IInv'
<1>1. TypeOK' /\ now' > 0
  BY TypeExecute DEF IInv, Execute, ExecTx, TypeOK
<1>2. Capability' /\ Minted' /\ IniInv' /\ AppInv'
  BY DEF IInv, ExecTx, Capability, Minted, IniInv, AppInv, Live, Held
<1>3. Authority'
  <2>1. UNCHANGED <<request, decision, pol, op, opOf, session>>
    BY DEF ExecTx, cacheVars, envVars, histVars
  <2>2. \A r \in Reqs : (grant'[r].status # "none") <=> (grant[r].status # "none")
    BY DEF IInv, TypeOK, ExecTx, Runnable
  <2>3. \A d \in Executors : exe'[d].pc # "idle" => exe[d].pc # "idle" /\ exe'[d].req = exe[d].req
    BY DEF IInv, TypeOK, ExecTx, IdleExe
  <2> QED BY <2>1, <2>2, <2>3 DEF IInv, Authority
<1>4. Applied'
  <2> DEFINE r == exe[e].req
             o == opOf[r]
             runs == out # "fail" /\ Runnable(grant[r])
  <2>1. r \in Reqs /\ grant[r].status # "none" /\ decision[r] = "authorized"
    BY DEF IInv, Authority, ExecTx
  <2>2. o \in Ops
    BY <2>1 DEF IInv, TypeOK, Minted
  <2>3. \A q \in Reqs : opOf[q] = o /\ grant[q].status # "none" => q = r
    BY <2>1 DEF IInv, Authority, Capability, Held
  <2>4. /\ grant \in [Reqs -> GrantRow] /\ applied \in [Ops -> Nat] /\ opOf' = opOf
    BY DEF IInv, TypeOK, ExecTx
  <2>5. CASE runs /\ Precondition(o)
    <3>1. /\ applied' = [applied EXCEPT ![o] = @ + 1] /\ grant[r].status = "active"
          /\ grant' = [grant EXCEPT ![r].status = "succeeded"]
      BY <2>5 DEF ExecTx, Runnable
    <3>2. /\ grant'[r].status = "succeeded" /\ \A q \in Reqs : q # r => grant'[q] = grant[q]
      BY <2>1, <2>4, <3>1 DEF GrantRow
    <3>3. applied[o] = 0
      BY <2>2, <2>3, <3>1 DEF IInv, Applied
    <3>4. applied'[o] = 1 /\ \A k \in Ops : k # o => applied'[k] = applied[k]
      BY <2>2, <2>4, <3>1, <3>3
    <3> QED BY <2>1, <2>4, <3>2, <3>4 DEF IInv, Applied
  <2>6. CASE runs /\ ~Precondition(o)
    <3>1. /\ applied' = applied /\ grant[r].status = "active"
          /\ grant' = [grant EXCEPT ![r].status = "failed_definite"]
      BY <2>6 DEF ExecTx, Runnable
    <3>2. /\ grant'[r].status = "failed_definite"
          /\ \A q \in Reqs : q # r => grant'[q] = grant[q]
      BY <2>1, <2>4, <3>1 DEF GrantRow
    <3> QED BY <2>1, <2>4, <3>1, <3>2 DEF IInv, Applied
  <2>7. CASE ~runs
    BY <2>4, <2>7 DEF IInv, Applied, ExecTx
  <2> QED BY <2>5, <2>6, <2>7
<1>5. Proposed' /\ Exact'
  <2>1. Proposed'
    BY DEF IInv, Proposed, ExecTx
  <2>2. CASE UNCHANGED <<target, trail>>
    BY <2>1, <2>2 DEF IInv, Exact, ExecTx
  <2>3. CASE ~UNCHANGED <<target, trail>>
    <3> DEFINE o == opOf[exe[e].req]
    <3>1. /\ target' = Effective(o) /\ Precondition(o) /\ exe[e].req \in Reqs
          /\ trail' = Append(trail, [by |-> o, seen |-> Redacted(target')])
          /\ grant[exe[e].req].status # "none" /\ op' = op
      BY <2>3 DEF IInv, Authority, ExecTx
    <3>2. o \in Ops /\ op[o].exp # 0
      BY <3>1, NoOpAssumption DEF IInv, TypeOK, Authority, Minted, Proposed
    <3>3. Redacted(target') = op[o].updated
      BY <3>1 DEF IInv, TypeOK, Content, Redacted, Effective
    <3> HIDE DEF o
    <3>4. Exact'
      BY <3>1, <3>2, <3>3, ExactAppend DEF IInv, TypeOK, Precondition
    <3> QED BY <2>1, <3>4
  <2> QED BY <2>2, <2>3
<1>6. GrantWithinOperation'
  BY DEF IInv, GrantWithinOperation, ExecTx, Runnable, Precondition, IdleExe, Live
<1> QED BY <1>1, <1>2, <1>3, <1>4, <1>5, <1>6 DEF IInv

\* An executor announces the commit.
LEMMA InductiveExecCommitted ==
    ASSUME IInv, NEW e \in Executors, ExecCommitted(e)
    PROVE  IInv'
<1>1. TypeOK' /\ now' > 0
  BY TypeExecute DEF IInv, Execute, ExecCommitted, TypeOK
<1>2. Capability' /\ Minted' /\ IniInv' /\ AppInv' /\ Applied' /\ Proposed' /\ Exact' /\
      GrantWithinOperation'
  BY DEF IInv, ExecCommitted, Capability, Minted, IniInv, AppInv, Applied,
     Proposed, Exact, GrantWithinOperation, Live, Held
<1>3. Authority'
  BY DEF IInv, Authority, ExecCommitted, IdleExe
<1> QED BY <1>1, <1>2, <1>3 DEF IInv

\* Time only takes entries away.
LEMMA InductiveTick ==
    ASSUME IInv, Tick
    PROVE  IInv'
<1>1. TypeOK' /\ now' > 0
  BY TypeEnvironment DEF IInv, Tick, TypeOK
<1>2. Minted' /\ IniInv' /\ AppInv' /\ Authority' /\ Applied' /\ Proposed' /\ Exact' /\
      GrantWithinOperation'
  BY DEF IInv, Tick, Minted, IniInv, AppInv, Authority, Applied, Proposed, Exact,
     GrantWithinOperation, Live, Held
<1>3. Capability'
  BY DEF IInv, TypeOK, Capability, Tick, Live, Held
<1> QED BY <1>1, <1>2, <1>3 DEF IInv

\* The target is changed by someone else.
LEMMA InductiveDrift ==
    ASSUME IInv, Drift
    PROVE  IInv'
<1>1. TypeOK' /\ now' > 0
  BY TypeEnvironment DEF IInv, Drift, TypeOK
<1>2. Capability' /\ Minted' /\ IniInv' /\ AppInv' /\ Authority' /\ Applied' /\
      Proposed' /\ GrantWithinOperation'
  BY DEF IInv, Drift, Capability, Minted, IniInv, AppInv, Authority, Applied, Proposed,
     GrantWithinOperation, Live, Held
<1>3. Exact'
  <2>1. Redacted(target') \in Seen /\ op' = op
    BY DEF Drift, Content, Redacted
  <2> QED BY <2>1, ExactAppend DEF IInv, TypeOK, Drift
<1> QED BY <1>1, <1>2, <1>3 DEF IInv

\* Losing the cache loses tokens, and forges none.
LEMMA InductiveCacheLoss ==
    ASSUME IInv, CacheLoss
    PROVE  IInv'
<1>1. TypeOK' /\ now' > 0
  BY TypeEnvironment DEF IInv, CacheLoss, TypeOK
<1>2. AppInv' /\ Applied' /\ Proposed' /\ Exact' /\ GrantWithinOperation'
  BY DEF IInv, CacheLoss, AppInv, Applied, Proposed, Exact, GrantWithinOperation, Live,
     Held
<1>3. Capability'
  BY DEF IInv, TypeOK, Capability, CacheLoss, NoRequest, Live, Held
<1>4. Minted'
  BY DEF IInv, Minted, CacheLoss, NoRequest
<1>5. IniInv'
  BY DEF IInv, IniInv, CacheLoss, NoRequest
<1>6. Authority'
  BY DEF IInv, Authority, CacheLoss, NoRequest
<1> QED BY <1>1, <1>2, <1>3, <1>4, <1>5, <1>6 DEF IInv

\* A dropped handler leaves the shared state as it is.
LEMMA InductiveCrash ==
    ASSUME IInv, Crash
    PROVE  IInv'
<1>1. TypeOK' /\ now' > 0
  BY TypeEnvironment DEF IInv, Crash, TypeOK
<1>2. Capability' /\ Minted' /\ Applied' /\ Proposed' /\ Exact' /\ GrantWithinOperation'
  BY DEF IInv, Crash, Capability, Minted, Applied, Proposed, Exact,
     GrantWithinOperation, Live, Held
<1>3. IniInv' /\ AppInv' /\ Authority'
  <2>1. CASE \E i \in Initiators : ini' = [ini EXCEPT ![i] = IdleIni] /\ UNCHANGED <<app, pol, exe>>
    BY <2>1 DEF IInv, TypeOK, IniInv, AppInv, Authority, Crash, IdleIni
  <2>2. CASE \E a \in Approvers : app' = [app EXCEPT ![a] = IdleApp] /\ UNCHANGED <<ini, pol, exe>>
    <3>0. app \in [Approvers -> AppTask]
      BY DEF IInv, TypeOK
    <3>1. \A a \in Approvers : app'[a].pc # "idle" => app'[a] = app[a]
      BY <2>2, <3>0 DEF IdleApp
    <3>2. UNCHANGED <<ini, pol, exe, request, decision, opOf, op, grant, session>>
      BY <2>2 DEF Crash
    <3> QED BY <3>1, <3>2 DEF IInv, IniInv, AppInv, Authority
  <2>3. CASE \E p \in Pollers : pol' = [pol EXCEPT ![p] = IdlePol] /\ UNCHANGED <<ini, app, exe>>
    <3>0. pol \in [Pollers -> PolTask]
      BY DEF IInv, TypeOK
    <3>1. \A p \in Pollers : pol'[p].pc # "idle" => pol'[p] = pol[p]
      BY <2>3, <3>0 DEF IdlePol
    <3>2. UNCHANGED <<ini, app, exe, request, decision, opOf, op, grant, session>>
      BY <2>3 DEF Crash
    <3> QED BY <3>1, <3>2 DEF IInv, IniInv, AppInv, Authority
  <2>4. CASE \E e \in Executors : exe' = [exe EXCEPT ![e] = IdleExe] /\ UNCHANGED <<ini, app, pol>>
    BY <2>4 DEF IInv, TypeOK, IniInv, AppInv, Authority, Crash, IdleExe
  <2> QED BY <2>1, <2>2, <2>3, <2>4 DEF Crash
<1> QED BY <1>1, <1>2, <1>3 DEF IInv

-----------------------------------------------------------------------------
(* The theorems. *)

\* Nothing has happened yet.
LEMMA InitInvariant == Init => IInv
<1> SUFFICES ASSUME Init PROVE IInv
  OBVIOUS
<1>1. TypeOK /\ now > 0
  BY TypeInit DEF Init
<1>2. Capability /\ Minted
  BY NoOpAssumption DEF Init, Capability, Minted, Held, Live, NoRequest
<1>3. IniInv /\ AppInv /\ Authority
  BY DEF Init, IniInv, AppInv, Authority, IdleIni, IdleApp, IdlePol, IdleExe, NoRequest, NoGrant
<1>4. Applied /\ GrantWithinOperation /\ Proposed
  BY DEF Init, Applied, GrantWithinOperation, Proposed, NotProposed, NoGrant
<1>5. Exact
  BY DEF Init, Exact
<1> QED BY <1>1, <1>2, <1>3, <1>4, <1>5 DEF IInv

\* A step of the specification preserves the inductive invariant.
LEMMA NextInvariant == IInv /\ [Next]_vars => IInv'
<1> SUFFICES ASSUME IInv, [Next]_vars PROVE IInv'
  OBVIOUS
<1>1. ASSUME NEW o \in Ops, Propose(o) \/ Park(o) PROVE IInv'
  BY <1>1, InductivePropose, InductivePark
<1>2. ASSUME NEW i \in Initiators, Initiate(i) PROVE IInv'
  BY <1>2, InductiveInitiateStart, InductiveInitiateClaim, InductiveInitiateCreate,
     InductiveInitiateRestore DEF Initiate
<1>3. ASSUME NEW a \in Approvers, Approve(a) PROVE IInv'
  BY <1>3, InductiveApproveLoad, InductiveApproveLock, InductiveDecideRead,
     InductiveDecideClaim, InductiveApproveUnlock DEF Approve
<1>4. ASSUME NEW p \in Pollers, Poll(p) PROVE IInv'
  BY <1>4, InductivePollRead, InductivePollLock, InductivePollCas, InductivePollIssue,
     InductivePollGrant, InductivePollConsume, InductivePollUnlock DEF Poll
<1>5. ASSUME NEW e \in Executors, Execute(e) PROVE IInv'
  BY <1>5, InductiveExecVerify, InductiveExecTx, InductiveExecCommitted DEF Execute
<1>6. CASE Tick \/ Drift \/ CacheLoss \/ Crash
  BY <1>6, InductiveTick, InductiveDrift, InductiveCacheLoss, InductiveCrash
<1>7. CASE UNCHANGED vars
  BY <1>7 DEF vars, IInv, TypeOK, Capability, Minted, IniInv, AppInv, Authority, Applied,
     Proposed, Exact, GrantWithinOperation, Held, Live
<1> QED BY <1>1, <1>2, <1>3, <1>4, <1>5, <1>6, <1>7 DEF Next

\* IInv is an invariant for every number of operations, requests and
\* concurrent handlers, and for every choice of the lifetimes.
THEOREM InductiveInvariant == Spec => []IInv
<1> QED BY InitInvariant, NextInvariant, PTL DEF Spec

\* Every variable keeps its type.
THEOREM TypeCorrect == Spec => []TypeOK
<1>1. IInv => TypeOK
  BY DEF IInv
<1> QED BY <1>1, InductiveInvariant, PTL

\* At most one request of an operation is decided: the right to decide is a
\* single token, and a decision keeps it.
THEOREM DecidedOnce == Spec => []OneDecisionPerOperation
<1>1. IInv => OneDecisionPerOperation
  BY DEF IInv, Capability, Held, OneDecisionPerOperation
<1> QED BY <1>1, InductiveInvariant, PTL

\* The mutation of an operation commits at most once.
THEOREM AppliedOnce == Spec => []AppliedAtMostOnce
<1>1. IInv => AppliedAtMostOnce
  BY DEF IInv, Applied, AppliedAtMostOnce
<1> QED BY <1>1, InductiveInvariant, PTL

\* Only what the human authorized is applied.
THEOREM AppliedApproved == Spec => []AppliedOnlyIfApproved
<1>1. ASSUME IInv PROVE AppliedOnlyIfApproved
  <2> SUFFICES ASSUME NEW o \in Ops, applied[o] > 0
               PROVE  /\ \E r \in Reqs : opOf[r] = o /\ decision[r] = "authorized"
                      /\ \A r \in Reqs : opOf[r] = o => decision[r] # "denied"
    BY DEF AppliedOnlyIfApproved
  <2>1. PICK r \in Reqs : opOf[r] = o /\ grant[r].status = "succeeded"
    BY <1>1 DEF IInv, Applied
  <2>2. decision[r] = "authorized"
    BY <1>1, <2>1 DEF IInv, Authority
  <2>3. ASSUME NEW q \in Reqs, opOf[q] = o, decision[q] = "denied" PROVE FALSE
    BY <1>1, <2>1, <2>2, <2>3 DEF IInv, Capability, Held
  <2> QED BY <2>1, <2>2, <2>3
<1> QED BY <1>1, InductiveInvariant, PTL

\* Of two operations that captured the same content, the second is applied
\* only after the content the first one replaced has come back.
THEOREM SnapshotOnce == Spec => []SnapshotSpentUntilRestored
<1>1. ASSUME IInv PROVE SnapshotSpentUntilRestored
  <2> SUFFICES ASSUME NEW j \in DOMAIN trail, NEW k \in DOMAIN trail,
                      j < k, trail[k].by # NoOp,
                      op[trail[j].by].expected = op[trail[k].by].expected,
                      trail[j].seen # op[trail[j].by].expected
               PROVE  \E m \in j + 1 .. k - 1 : trail[m].seen = op[trail[k].by].expected
    BY DEF SnapshotSpentUntilRestored
  <2>1. j \in Nat /\ k \in Nat
    BY <1>1 DEF IInv, TypeOK
  <2>2. trail[k - 1].seen = op[trail[k].by].expected
    BY <1>1 DEF IInv, Exact
  <2>3. k - 1 # j
    BY <2>2
  <2>4. k - 1 \in j + 1 .. k - 1
    BY <2>1, <2>3
  <2> QED BY <2>2, <2>4
<1> QED BY <1>1, InductiveInvariant, PTL

\* A durable grant expires with its operation and belongs to a session.
THEOREM GrantBounded == Spec => []GrantWithinOperation
<1>1. IInv => GrantWithinOperation
  BY DEF IInv
<1> QED BY <1>1, InductiveInvariant, PTL

-----------------------------------------------------------------------------
(* Decisions are final. *)

Final(r) ==
    /\ decision[r] # "none" => decision'[r] = decision[r]
    /\ grant[r].status # "none" /\ ~Live(request[r].exp) => request'[r].exp <= now

\* The steps that write a decision or a request record.
LEMMA FinalStep ==
    ASSUME IInv, [Next]_vars, NEW r \in Reqs
    PROVE  Final(r)
<1> USE DEF Final
<1>1. ASSUME UNCHANGED <<decision, request>> PROVE Final(r)
  BY <1>1 DEF IInv, TypeOK, RequestData, Live
<1>2. ASSUME NEW o \in Ops, Propose(o) \/ Park(o) PROVE Final(r)
  BY <1>1, <1>2 DEF Propose, Park
<1>3. ASSUME NEW i \in Initiators, Initiate(i) PROVE Final(r)
  <2>1. ASSUME NEW out \in Outcomes, InitiateCreate(i, out) PROVE Final(r)
    <3>1. r = ini[i].req => grant[r].status = "none"
      BY <2>1 DEF IInv, IniInv, Authority, InitiateCreate
    <3>2. r # ini[i].req => request'[r] = request[r]
      BY <2>1 DEF IInv, TypeOK, InitiateCreate
    <3> QED BY <2>1, <3>1, <3>2, <1>1 DEF IInv, TypeOK, RequestData, InitiateCreate, Live
  <2> QED BY <1>1, <1>3, <2>1 DEF Initiate, InitiateStart, InitiateClaim, InitiateRestore
<1>4. ASSUME NEW a \in Approvers, Approve(a) PROVE Final(r)
  <2>1. ASSUME NEW out \in Outcomes, DecideClaim(a, out) PROVE Final(r)
    <3>1. CASE r = app[a].req /\ Claims(approval[r])
      BY <2>1, <3>1 DEF IInv, Capability, Authority, Claims
    <3>2. CASE ~(r = app[a].req /\ Claims(approval[r]))
      <4>1. decision'[r] = decision[r] /\ request'[r] = request[r]
        BY <2>1, <3>2 DEF IInv, TypeOK, DecideClaim
      <4> QED BY <4>1 DEF IInv, TypeOK, RequestData, Live
    <3> QED BY <3>1, <3>2
  <2> QED BY <1>1, <1>4, <2>1 DEF Approve, ApproveLoad, ApproveLock, DecideRead, ApproveUnlock
<1>5. ASSUME NEW p \in Pollers, Poll(p) PROVE Final(r)
  <2>1. ASSUME NEW out \in Outcomes, PollCas(p, out) PROVE Final(r)
    <3>1. decision' = decision /\ (~Live(request[r].exp) => request'[r] = request[r])
      BY <2>1 DEF IInv, TypeOK, PollCas, Swaps
    <3> QED BY <3>1 DEF IInv, TypeOK, RequestData, Live
  <2>2. ASSUME NEW out \in Outcomes, PollConsume(p, out) PROVE Final(r)
    <3>1. decision' = decision /\ (request'[r] = request[r] \/ request'[r].exp = 0)
      BY <2>2 DEF IInv, TypeOK, PollConsume, NoRequest
    <3> QED BY <3>1 DEF IInv, TypeOK, RequestData, Live
  <2> QED BY <1>1, <1>5, <2>1, <2>2 DEF Poll, PollRead, PollLock, PollIssue, PollGrant, PollUnlock
<1>6. ASSUME NEW e \in Executors, Execute(e) PROVE Final(r)
  BY <1>1, <1>6 DEF Execute, ExecVerify, ExecTx, ExecCommitted
<1>7. CASE Tick \/ Drift \/ Crash \/ UNCHANGED vars
  BY <1>1, <1>7 DEF Tick, Drift, Crash, vars
<1>8. CASE CacheLoss
  BY <1>8 DEF CacheLoss, NoRequest, IInv, TypeOK
<1> QED BY <1>2, <1>3, <1>4, <1>5, <1>6, <1>7, <1>8 DEF Next

\* A decision is never changed, and an exchanged request that has gone from
\* the cache never comes back.
THEOREM DecisionFinality == Spec => DecisionsAreFinal
<1>1. IInv /\ [Next]_vars => [\A r \in Reqs : Final(r)]_vars
  BY FinalStep
<1>2. Spec => [][\A r \in Reqs : Final(r)]_vars
  BY <1>1, InductiveInvariant, PTL DEF Spec
<1> QED BY <1>2 DEF DecisionsAreFinal, Final

-----------------------------------------------------------------------------
(* StepUp implements ExactOperation. *)

\* An operation decided one way cannot have been decided the other way too.
LEMMA PhaseOf ==
    ASSUME IInv, NEW r \in Reqs, opOf[r] \in Ops, decision[r] # "none"
    PROVE  /\ op[opOf[r]].exp # 0
           /\ phaseBar[opOf[r]] = decision[r]
<1>1. op[opOf[r]].exp # 0
  BY NoOpAssumption DEF IInv, Minted, Proposed
<1>2. \A q \in Reqs : opOf[q] = opOf[r] /\ decision[q] # "none" => q = r
  BY DEF IInv, Capability, Held
<1>3. decision[r] \in {"authorized", "denied"}
  BY DEF IInv, TypeOK, Decisions
<1> QED BY <1>1, <1>2, <1>3 DEF phaseBar

\* One grant per operation: a grant belongs to the request that was authorized.
LEMMA OutcomeOf ==
    ASSUME IInv, NEW r \in Reqs, grant[r].status # "none"
    PROVE  /\ opOf[r] \in Ops
           /\ phaseBar[opOf[r]] = "authorized"
           /\ \A q \in Reqs : opOf[q] = opOf[r] /\ grant[q].status # "none" => q = r
<1>1. decision[r] = "authorized"
  BY DEF IInv, Authority
<1>2. opOf[r] \in Ops
  BY <1>1 DEF IInv, TypeOK, Minted
<1>3. phaseBar[opOf[r]] = "authorized"
  BY <1>1, <1>2, PhaseOf
<1>4. ASSUME NEW q \in Reqs, opOf[q] = opOf[r], grant[q].status # "none" PROVE q = r
  BY <1>1, <1>4 DEF IInv, Authority, Capability, Held
<1> QED BY <1>2, <1>3, <1>4

\* A step that changes none of what the mapping reads is a stutter.
LEMMA Stutter ==
    ASSUME UNCHANGED <<target, decision>>, 
           \A o \in Ops : /\ op'[o].exp = op[o].exp /\ op'[o].expected = op[o].expected
                          /\ op'[o].updated = op[o].updated,
           \A r \in Reqs : opOf'[r] = opOf[r] /\ grant'[r].status = grant[r].status
    PROVE  UNCHANGED Contract!cvars
<1>1. UNCHANGED phaseBar
  BY DEF phaseBar
<1>2. UNCHANGED outcomeBar
  BY DEF outcomeBar
<1>3. UNCHANGED <<snapshotBar, planBar>>
  BY DEF snapshotBar, planBar
<1> QED BY <1>1, <1>2, <1>3 DEF Contract!cvars

\* Proposing an operation is the contract's Propose.
LEMMA RefinePropose ==
    ASSUME IInv, NEW o \in Ops, Propose(o)
    PROVE  \E u \in Seen : Contract!Propose(o, u)
<1>0. PICK u \in Seen :
        op' = [op EXCEPT ![o] = [exp |-> now + OperationTTL, expected |-> Redacted(target),
                                 updated |-> u, parked |-> FALSE]]
  BY DEF Propose
<1>1. \A r \in Reqs : opOf[r] # o
  BY NoOpAssumption DEF IInv, Minted, Proposed, Propose
<1>2. /\ op'[o].exp # 0 /\ op'[o].expected = Redacted(target) /\ op'[o].updated = u
      /\ \A k \in Ops : k # o => op'[k] = op[k]
  BY <1>0, TimeAssumption DEF IInv, TypeOK, Operation
<1>3. phaseBar[o] = "none" /\ phaseBar' = [phaseBar EXCEPT ![o] = "proposed"]
  BY <1>1, <1>2 DEF phaseBar, Propose
<1>4. /\ snapshotBar' = [snapshotBar EXCEPT ![o] = Redacted(target)]
      /\ planBar' = [planBar EXCEPT ![o] = u]
  BY <1>2 DEF snapshotBar, planBar
<1>5. UNCHANGED <<target, outcomeBar>>
  BY DEF Propose, outcomeBar
<1>6. Contract!Propose(o, u)
  BY <1>3, <1>4, <1>5 DEF Contract!Propose
<1> QED BY <1>6

\* A new request changes neither the phase nor the outcome of its operation.
LEMMA RefineStart ==
    ASSUME IInv, NEW i \in Initiators, NEW o \in Ops, NEW r \in Reqs, InitiateStart(i, o, r)
    PROVE  UNCHANGED Contract!cvars
<1>1. decision[r] = "none" /\ grant[r].status = "none" /\ opOf[r] \notin Ops
  BY NoOpAssumption DEF IInv, Minted, Authority, InitiateStart
<1>2. \A q \in Reqs : q # r => opOf'[q] = opOf[q]
  BY DEF IInv, TypeOK, InitiateStart
<1>3. UNCHANGED <<target, op, decision, grant>>
  BY DEF InitiateStart
<1>4. UNCHANGED phaseBar
  BY <1>1, <1>2, <1>3 DEF phaseBar
<1>5. UNCHANGED outcomeBar
  BY <1>1, <1>2, <1>3 DEF outcomeBar
<1> QED BY <1>3, <1>4, <1>5 DEF snapshotBar, planBar, Contract!cvars

\* Spending the right to decide is the contract's Decide.
LEMMA RefineDecide ==
    ASSUME IInv, NEW a \in Approvers, NEW out \in Outcomes, DecideClaim(a, out)
    PROVE  [Contract!Next]_Contract!cvars
<1> DEFINE r == app[a].req
           o == opOf[r]
           d == app[a].act
<1>1. r \in Reqs /\ o \in Ops /\ d \in {"authorized", "denied"}
  BY DEF IInv, TypeOK, AppInv, DecideClaim
<1>2. UNCHANGED <<target, op, opOf, grant>>
  BY DEF DecideClaim
<1>3. CASE decision' = decision
  BY <1>2, <1>3, Stutter
<1>4. CASE decision' # decision
  <2>1. decision' = [decision EXCEPT ![r] = d] /\ Live(approval[r])
    BY <1>4 DEF DecideClaim, Claims
  <2>2. \A q \in Reqs : opOf[q] = o => decision[q] = "none"
    BY <1>1, <2>1 DEF IInv, Capability, Held
  <2>3. op[o].exp # 0
    BY <1>1, NoOpAssumption DEF IInv, Minted, Proposed
  <2>4. decision'[r] = d /\ \A q \in Reqs : q # r => decision'[q] = decision[q]
    BY <1>1, <2>1 DEF IInv, TypeOK
  <2>5. phaseBar[o] = "proposed"
    BY <1>1, <2>2, <2>3 DEF phaseBar
  <2>6. phaseBar' = [phaseBar EXCEPT ![o] = d]
    <3>1. \A k \in Ops : k # o => phaseBar'[k] = phaseBar[k]
      BY <1>1, <1>2, <2>4 DEF phaseBar
    <3>2. phaseBar'[o] = d
      BY <1>1, <1>2, <2>2, <2>3, <2>4 DEF phaseBar
    <3> QED BY <3>1, <3>2, <1>1, ZenonT(30) DEF phaseBar
  <2>7. UNCHANGED <<target, outcomeBar, snapshotBar, planBar>>
    BY <1>2 DEF outcomeBar, snapshotBar, planBar
  <2>8. Contract!Decide(o, d)
    BY <2>5, <2>6, <2>7 DEF Contract!Decide
  <2> QED BY <1>1, <2>8 DEF Contract!Next
<1> QED BY <1>3, <1>4

\* Inserting a grant is no outcome yet.
LEMMA RefineGrant ==
    ASSUME IInv, NEW p \in Pollers, NEW out \in Outcomes, PollGrant(p, out)
    PROVE  UNCHANGED Contract!cvars
<1>1. \A r \in Reqs : grant'[r].status # grant[r].status =>
                        grant[r].status = "none" /\ grant'[r].status = "active"
  BY DEF IInv, TypeOK, Authority, PollGrant, GrantConflict
<1>2. UNCHANGED <<target, op, opOf, decision>>
  BY DEF PollGrant
<1>3. UNCHANGED outcomeBar
  BY <1>1, <1>2 DEF outcomeBar
<1>4. UNCHANGED <<phaseBar, snapshotBar, planBar>>
  BY <1>2 DEF phaseBar, snapshotBar, planBar
<1> QED BY <1>2, <1>3, <1>4 DEF Contract!cvars

\* The transaction settles an authorized operation that had no outcome.
LEMMA RefineExecTx ==
    ASSUME IInv, NEW e \in Executors, NEW out \in Outcomes, ExecTx(e, out)
    PROVE  [Contract!Next]_Contract!cvars
<1> DEFINE r == exe[e].req
           o == opOf[r]
<1>1. r \in Reqs /\ grant[r].status # "none"
  BY DEF IInv, Authority, ExecTx
<1>2. UNCHANGED <<op, opOf, decision>>
  BY DEF ExecTx
<1>3. UNCHANGED <<phaseBar, snapshotBar, planBar>>
  BY <1>2 DEF phaseBar, snapshotBar, planBar
<1>4. CASE out # "fail" /\ Runnable(grant[r])
  <2>1. grant[r].status = "active"
    BY <1>4 DEF Runnable
  <2>2. /\ o \in Ops /\ phaseBar[o] = "authorized"
        /\ \A q \in Reqs : q # r /\ opOf[q] = o => grant[q].status = "none"
    BY <1>1, OutcomeOf
  <2>3. outcomeBar[o] = "none"
    BY <2>1, <2>2 DEF outcomeBar
  <2>4. snapshotBar[o] = op[o].expected /\ planBar[o] = op[o].updated
    BY <2>2 DEF snapshotBar, planBar
  <2>5. CASE Precondition(o)
    <3>1. /\ grant'[r].status = "succeeded" /\ target' = Effective(o)
          /\ \A q \in Reqs : q # r => grant'[q] = grant[q]
      BY <1>1, <1>4, <2>5 DEF IInv, TypeOK, GrantRow, ExecTx
    <3>2. outcomeBar' = [outcomeBar EXCEPT ![o] = "applied"]
      <4>1. \A k \in Ops : k # o => outcomeBar'[k] = outcomeBar[k]
        BY <1>1, <1>2, <3>1 DEF outcomeBar
      <4>2. outcomeBar'[o] = "applied"
        BY <1>1, <1>2, <2>2, <3>1 DEF outcomeBar
      <4>3. /\ outcomeBar = [k \in Ops |-> outcomeBar[k]]
            /\ outcomeBar' = [k \in Ops |-> outcomeBar'[k]]
        BY DEF outcomeBar
      <4> QED BY <4>1, <4>2, <4>3, <2>2
    <3>3. Redacted(target') = op[o].updated
      BY <3>1 DEF IInv, TypeOK, Content, Effective, Redacted
    <3>4. Contract!Apply(o)
      BY <1>3, <2>2, <2>3, <2>4, <2>5, <3>2, <3>3 DEF Contract!Apply, Precondition
    <3> QED BY <2>2, <3>4 DEF Contract!Next
  <2>6. CASE ~Precondition(o)
    <3>1. /\ grant'[r].status = "failed_definite" /\ target' = target
          /\ \A q \in Reqs : q # r => grant'[q] = grant[q]
      BY <1>1, <1>4, <2>6 DEF IInv, TypeOK, GrantRow, ExecTx
    <3>2. outcomeBar' = [outcomeBar EXCEPT ![o] = "failed"]
      <4>1. \A k \in Ops : k # o => outcomeBar'[k] = outcomeBar[k]
        BY <1>1, <1>2, <3>1 DEF outcomeBar
      <4>2. outcomeBar'[o] = "failed"
        BY <1>1, <1>2, <2>2, <3>1 DEF outcomeBar
      <4>3. /\ outcomeBar = [k \in Ops |-> outcomeBar[k]]
            /\ outcomeBar' = [k \in Ops |-> outcomeBar'[k]]
        BY DEF outcomeBar
      <4> QED BY <4>1, <4>2, <4>3, <2>2
    <3>3. Contract!Fail(o)
      BY <1>3, <2>2, <2>3, <2>4, <2>6, <3>1, <3>2 DEF Contract!Fail, Precondition
    <3> QED BY <2>2, <3>3 DEF Contract!Next
  <2> QED BY <2>5, <2>6
<1>5. CASE ~(out # "fail" /\ Runnable(grant[r]))
  BY <1>2, <1>5, Stutter DEF ExecTx
<1> QED BY <1>4, <1>5

\* Someone else's change of the target is the contract's Change.
LEMMA RefineDrift == Drift => Contract!Change
<1> SUFFICES ASSUME Drift PROVE Contract!Change
  OBVIOUS
<1>1. Redacted(target') \in Seen
  BY DEF Drift, Content, Redacted
<1>2. UNCHANGED <<phaseBar, outcomeBar, snapshotBar, planBar>>
  BY DEF Drift, phaseBar, outcomeBar, snapshotBar, planBar
<1> QED BY <1>1, <1>2 DEF Contract!Change

\* Every step is a step of the contract or a stutter.
LEMMA RefineNext == IInv /\ [Next]_vars => [Contract!Next]_Contract!cvars
<1> SUFFICES ASSUME IInv, [Next]_vars PROVE [Contract!Next]_Contract!cvars
  OBVIOUS
<1>1. ASSUME UNCHANGED <<target, op, opOf, grant, decision>> PROVE UNCHANGED Contract!cvars
  BY <1>1, Stutter
<1>2. ASSUME NEW o \in Ops, Propose(o) \/ Park(o) PROVE [Contract!Next]_Contract!cvars
  <2>1. CASE Propose(o)
    BY <2>1, RefinePropose DEF Contract!Next
  <2>2. CASE Park(o)
    <3>1. \A k \in Ops : /\ op'[k].exp = op[k].exp /\ op'[k].expected = op[k].expected
                          /\ op'[k].updated = op[k].updated
      BY <2>2 DEF IInv, TypeOK, Operation, Park
    <3> QED BY <2>2, <3>1, Stutter DEF Park
  <2> QED BY <1>2, <2>1, <2>2
<1>3. ASSUME NEW i \in Initiators, Initiate(i) PROVE UNCHANGED Contract!cvars
  BY <1>1, <1>3, RefineStart DEF Initiate, InitiateClaim, InitiateCreate, InitiateRestore
<1>4. ASSUME NEW a \in Approvers, Approve(a) PROVE [Contract!Next]_Contract!cvars
  BY <1>1, <1>4, RefineDecide DEF Approve, ApproveLoad, ApproveLock, DecideRead, ApproveUnlock
<1>5. ASSUME NEW p \in Pollers, Poll(p) PROVE UNCHANGED Contract!cvars
  BY <1>1, <1>5, RefineGrant DEF Poll, PollRead, PollLock, PollCas, PollIssue, PollConsume,
     PollUnlock
<1>6. ASSUME NEW e \in Executors, Execute(e) PROVE [Contract!Next]_Contract!cvars
  BY <1>1, <1>6, RefineExecTx DEF Execute, ExecVerify, ExecCommitted
<1>7. CASE Drift
  BY <1>7, RefineDrift DEF Contract!Next
<1>8. CASE Tick \/ CacheLoss \/ Crash \/ UNCHANGED vars
  BY <1>1, <1>8 DEF Tick, CacheLoss, Crash, vars
<1> QED BY <1>2, <1>3, <1>4, <1>5, <1>6, <1>7, <1>8 DEF Next

\* The protocol over caches, tasks and grants implements the exact-operation
\* contract, whatever the number of handlers and wherever they stop.
THEOREM Refinement == Spec => ImplementsContract
<1>1. Init => Contract!Init
  <2> SUFFICES ASSUME Init PROVE Contract!Init
    OBVIOUS
  <2>1. Redacted(target) \in Seen
    BY DEF Init, Content, Redacted
  <2> QED BY <2>1 DEF Init, NotProposed, Blank, NoGrant, phaseBar, outcomeBar, snapshotBar,
             planBar, Contract!Init
<1> QED BY <1>1, RefineNext, InductiveInvariant, PTL DEF Spec, ImplementsContract, Contract!Spec

=============================================================================
