----------------------------- MODULE FlowExecutor -----------------------------
(***************************************************************************)
(* The interpreter of a realm's authentication flow                        *)
(* (issuerd-auth-flow/src/executor.rs): stages in order, sub-flows, groups *)
(* of alternatives, conditional scopes, the challenge that ends a request  *)
(* and the login form that resumes there (login_handler of                 *)
(* issuerd-server/src/routes/login_api.rs).  What an authenticator answers *)
(* is not known; a login is run over every flow of Trees, and while it     *)
(* waits for its user admins edit the flows                                *)
(* (issuerd-admin-api/src/flows.rs).  A request reads the flows once, so   *)
(* an edit during a request is one after it.                               *)
(***************************************************************************)
EXTENDS Naturals, Sequences, FiniteSets

CONSTANTS
    Trees,     \* flow configurations: functions from aliases, "main" among them, to
               \* sequences of stages [id, req, sub]
    Aliases,   \* aliases that flows and stages name
    Generated, \* ids for stages that are added
    Lists,     \* stages an admin may give a flow as a whole
    MaxDepth,  \* 10: sub-flows deeper than this fail
    MaxTries,  \* MAX_LOGIN_ATTEMPTS
    MaxEdits   \* bound on edits of flows

None     == "none"
Requirements == {"Required", "Optional", "Conditional", "Alternative", "Disabled"}
Failures == {"denied", "operational"}   \* is_operational_failure tells them apart

VARIABLES
    flows,    \* the realm's flows, read anew by every request
    stack,    \* the calls of execute_stages, outermost first
    user,     \* context.user_id is set
    pending,  \* PendingAuthData: the stage the challenge was for, whether a
              \* user was bound, failed requests; for the properties also its
              \* flow, the stages passed until then and those excused
    result,   \* "running", "challenge" or what the login ended with
    hist      \* history, see InitHist

vars == <<flows, stack, user, pending, result, hist>>

\* missed: stages that a flow did not pass, and had to, when it succeeded;
\* disabled: a disabled stage was executed; broken: a stage without alternatives
\* failed operationally in this request; edits: how much of the bound is used.
InitHist == [missed |-> {}, disabled |-> FALSE, broken |-> FALSE, edits |-> 0]

Frame(f, i, done, excused) ==
    [flow |-> f, i |-> i, alt |-> FALSE, err |-> None, skip |-> FALSE, resumed |-> FALSE,
     ret |-> None, done |-> done, excused |-> excused]
NoPending == [flow |-> None, id |-> None, user |-> FALSE, tries |-> 0, done |-> {}, excused |-> {}]

Init ==
    /\ flows \in Trees
    /\ stack = <<Frame("main", 1, {}, {})>>
    /\ user = FALSE
    /\ pending = NoPending
    /\ result = "running"
    /\ hist = InitHist

Top    == stack[Len(stack)]
Caller == stack[Len(stack) - 1]
Stages(fr) == flows[fr.flow]
Stage(fr)  == Stages(fr)[fr.i]

SetTop(fr) == stack' = [stack EXCEPT ![Len(stack)] = fr]

\* The call is at a stage and has not returned.
Reading == result = "running" /\ Top.ret = None /\ Top.i <= Len(Stages(Top))

\* The first stage after a group of alternatives.
GroupEnd(fr) == CHOOSE j \in fr.i .. Len(Stages(fr)) + 1 :
    /\ \A k \in fr.i .. j - 1 : Stages(fr)[k].req = "Alternative"
    /\ j <= Len(Stages(fr)) => Stages(fr)[j].req # "Alternative"

-----------------------------------------------------------------------------
(* What a flow asks for, for the history *)

\* Alternatives with only alternatives between them.
Together(seq, i, j) ==
    \A k \in DOMAIN seq : (i <= k /\ k <= j) \/ (j <= k /\ k <= i) => seq[k].req = "Alternative"

\* One of these must be passed, if there are any: a required stage itself, or
\* an alternative of the group.
Duty(seq, i) ==
    {seq[j].id : j \in {j \in DOMAIN seq : IF seq[i].req = "Required" THEN j = i ELSE Together(seq, i, j)}}

Met(seq, i, done) == Duty(seq, i) = {} \/ Duty(seq, i) \cap done # {}

\* What the call should have passed and was not excused from.
Missed(fr) == {Stages(fr)[i].id : i \in {i \in DOMAIN Stages(fr) :
                                            /\ ~Met(Stages(fr), i, fr.done)
                                            /\ Stages(fr)[i].id \notin fr.excused}}

-----------------------------------------------------------------------------
(* What a stage's outcome does to the call *)

InGroup(fr) == fr.alt \/ (Stage(fr).req = "Alternative" /\ Stage(fr).sub = None)

Advance(fr) == [fr EXCEPT !.i = @ + 1, !.resumed = FALSE]

\* A failure that ends the flow outside a group: of a stage that must be
\* passed, or one that is not about the user.
Ends(req, v) == req \in {"Required", "Alternative"} \/ v = "operational"

\* After the last alternative the first is tried again.
BugNextAlternative(fr, e) ==
    [fr EXCEPT !.i = IF fr.i + 1 < GroupEnd(fr) THEN @ + 1
                     ELSE CHOOSE j \in 1 .. @ : \A k \in j .. @ : Stages(fr)[k].req = "Alternative",
               !.resumed = FALSE, !.alt = TRUE, !.err = e]

\* The next alternative, or the end of the group without a success.
NextAlternative(fr, e) ==
    IF fr.i + 1 < GroupEnd(fr) THEN [Advance(fr) EXCEPT !.alt = TRUE, !.err = e]
    ELSE [fr EXCEPT !.ret = IF e = None THEN "denied" ELSE e]

\* The stage fr is at, alone or in a group, came out as v.
Applied(fr, v) ==
    LET req == Stage(fr).req
        on == [Advance(fr) EXCEPT !.skip = req = "Conditional" /\ v # "success"]
    IN  CASE v = "success" /\ InGroup(fr) ->
               [fr EXCEPT !.i = GroupEnd(fr), !.alt = FALSE, !.err = None, !.skip = FALSE,
                          !.done = @ \cup {Stage(fr).id}]
          [] v = "success" /\ ~InGroup(fr) -> [on EXCEPT !.done = @ \cup {Stage(fr).id}]
          [] v # "success" /\ InGroup(fr) -> NextAlternative(fr, IF v = "attempted" THEN fr.err ELSE v)
          [] v = "attempted" /\ ~InGroup(fr) ->
               IF req = "Required" THEN [fr EXCEPT !.ret = "denied"] ELSE on
          [] OTHER -> IF Ends(req, v) THEN [fr EXCEPT !.ret = v] ELSE on

\* A resumed stage is never the start of a group or of a skipped scope.
BugAppliedResumed(fr, v) ==
    CASE v = "success" -> [Advance(fr) EXCEPT !.done = @ \cup {Stage(fr).id}]
      [] OTHER -> Advance(fr)

\* continue_flow: what is not optional must succeed now.
AppliedResumed(fr, v) ==
    LET req == Stage(fr).req
    IN  CASE v = "success" -> [Advance(fr) EXCEPT !.done = @ \cup {Stage(fr).id}]
          [] v # "success" /\ req # "Optional" -> [fr EXCEPT !.ret = IF v = "attempted" THEN "denied" ELSE v]
          [] OTHER -> IF v = "operational" THEN [fr EXCEPT !.ret = v] ELSE Advance(fr)

-----------------------------------------------------------------------------
(* execute_stages *)

Skips(fr) == Stage(fr).req = "Disabled" \/ (fr.skip /\ Stage(fr).req = "Conditional")

SkipStage ==
    /\ Reading /\ ~Top.alt /\ ~Top.resumed /\ Skips(Top)
    /\ SetTop(Advance(Top))
    /\ UNCHANGED <<flows, user, pending, result, hist>>

Executing == Reading /\ (Top.resumed \/ (~Skips(Top) /\ Stage(Top).sub = None))

Ran(broken) == [hist EXCEPT !.disabled = @ \/ Stage(Top).req = "Disabled",
                            !.broken = @ \/ broken]

\* execute_stage: the authenticator passes the user, whom it may have
\* identified, fails or does not apply, ...
ExecuteStage ==
    /\ Executing
    /\ \E v \in Failures \cup {"success", "attempted"} :
          /\ SetTop(IF Top.resumed THEN AppliedResumed(Top, v) ELSE Applied(Top, v))
          /\ user' \in IF v = "success" THEN {TRUE, user} ELSE {user}
          /\ hist' = Ran(v = "operational" /\ \A j \in DOMAIN stack : ~InGroup(stack[j]))
    /\ UNCHANGED <<flows, pending, result>>

\* ... or asks the user something, which ends the request.
Challenge ==
    /\ Executing
    /\ pending' = [flow |-> Top.flow, id |-> Stage(Top).id, user |-> user, tries |-> pending.tries,
                   done |-> Top.done, excused |-> Top.excused]
    /\ stack' = <<>> /\ result' = "challenge"
    /\ hist' = Ran(FALSE)
    /\ UNCHANGED <<flows, user>>

\* An unknown alias is an error of the whole execution.
EnterSubflow ==
    LET sub == Stage(Top).sub
        call == Frame(sub, 1, {}, {})
    IN  /\ Reading /\ ~Top.resumed /\ ~Skips(Top) /\ sub # None
        /\ IF sub \notin DOMAIN flows
           THEN result' = "error" /\ stack' = <<>>
           ELSE /\ UNCHANGED result
                /\ stack' = Append(stack, IF Len(stack) > MaxDepth
                                          THEN [call EXCEPT !.ret = "operational"] ELSE call)
        /\ UNCHANGED <<flows, user, pending, hist>>

\* All stages processed: a success if they identified somebody.
EndStages ==
    /\ result = "running" /\ Top.ret = None /\ Top.i > Len(Stages(Top))
    /\ SetTop([Top EXCEPT !.ret = IF user THEN "success" ELSE "denied"])
    /\ hist' = IF user THEN [hist EXCEPT !.missed = @ \cup Missed(Top)] ELSE hist
    /\ UNCHANGED <<flows, user, pending, result>>

ReturnFromSubflow ==
    /\ result = "running" /\ Len(stack) > 1 /\ Top.ret # None
    /\ stack' = [j \in 1 .. Len(stack) - 1 |->
                    IF j = Len(stack) - 1 THEN Applied(Caller, Top.ret) ELSE stack[j]]
    /\ UNCHANGED <<flows, user, pending, result, hist>>

-----------------------------------------------------------------------------
(* The end of a request *)

\* finalize_outcome: a required action that cannot be evaluated is an error.
FinishSuccess ==
    /\ result = "running" /\ Len(stack) = 1 /\ Top.ret = "success"
    /\ result' \in {"success", "error"}
    /\ stack' = <<>>
    /\ UNCHANGED <<flows, user, pending, hist>>

\* A login form that fails is stored back as it was, with one more try; the
\* first request, a JSON client and the last try end the login.
FinishFailure ==
    /\ result = "running" /\ Len(stack) = 1 /\ Top.ret \in Failures
    /\ stack' = <<>>
    /\ \/ result' = Top.ret /\ UNCHANGED pending
       \/ /\ pending.flow # None /\ pending.tries + 1 < MaxTries
          /\ pending' = [pending EXCEPT !.tries = @ + 1]
          /\ result' = "challenge"
    /\ UNCHANGED <<flows, user, hist>>

\* The stage a login waits at may have been disabled: it is not run.  One that
\* was asked for in a sub-flow and stands in the login's own flow by now is
\* resumed there, wherever that is.
ResumesAt(i) ==
    LET seq == flows["main"]
        before == {seq[k].id : k \in 1 .. i - 1}
        here == pending.flow = "main"
        on == Frame("main", i, IF here THEN pending.done ELSE {},
                    IF here THEN pending.excused ELSE before)
    IN  IF seq[i].req = "Disabled" THEN Advance(on) ELSE [on EXCEPT !.resumed = TRUE]

\* continue_flow: the user answers; the pending entry is taken from the cache
\* and binds the user anew.  The stage is looked for by its id among those the
\* login's own flow has by now; it may be one of a sub-flow, or deleted.
Continue ==
    LET at == {i \in DOMAIN flows["main"] : flows["main"][i].id = pending.id}
    IN  /\ result = "challenge"
        /\ \/ at = {} /\ result' = "error" /\ UNCHANGED stack
           \/ /\ result' = "running"
              /\ \E i \in at : (\A j \in at : i <= j) /\ stack' = <<ResumesAt(i)>>
        /\ user' = pending.user
        /\ hist' = [hist EXCEPT !.broken = FALSE]
        /\ UNCHANGED <<flows, pending>>

Execution ==
    \/ SkipStage \/ ExecuteStage \/ Challenge \/ EnterSubflow \/ EndStages
    \/ ReturnFromSubflow \/ FinishSuccess \/ FinishFailure \/ Continue

-----------------------------------------------------------------------------
(* Meanwhile admins edit the flows, none of them built in *)

\* validate_flows: sub-flows exist and contain no flow they are in, ids are not
\* used twice in a flow, and a login has an enabled stage unless it has none.
Valid(fs) ==
    LET subs(f) == {fs[f][i].sub : i \in DOMAIN fs[f]} \ {None}
    IN  /\ \A f \in DOMAIN fs : subs(f) \subseteq DOMAIN fs
        /\ \A f \in DOMAIN fs : \A i, j \in DOMAIN fs[f] : fs[f][i].id = fs[f][j].id => i = j
        /\ fs["main"] # <<>> => \E i \in DOMAIN fs["main"] : fs["main"][i].req # "Disabled"
        /\ \E rank \in [DOMAIN fs -> 1 .. Cardinality(DOMAIN fs)] :
              \A f \in DOMAIN fs : \A g \in subs(f) : rank[g] < rank[f]

\* The stages that, from old to new, have come to ask something of a login that
\* waits at stage x behind them: it is not asked again.
Imposed(old, new, x) ==
    {new[m].id : m \in {m \in DOMAIN new :
        /\ \E q \in DOMAIN new : m < q /\ new[q].id = x
        /\ ~ \E l, q \in DOMAIN old : /\ l < q /\ old[q].id = x /\ old[l].id = new[m].id
                                     /\ Duty(old, l) # {} /\ Duty(old, l) \subseteq Duty(new, m)}}

\* save_flow_update and what stands for it: nothing is written if the set would
\* not be valid.
Save(fs) ==
    /\ result = "challenge" /\ hist.edits < MaxEdits
    /\ Valid(fs)
    /\ flows' = fs
    /\ pending' = [pending EXCEPT !.excused = @ \cup Imposed(flows["main"], fs["main"], pending.id)]
    /\ hist' = [hist EXCEPT !.edits = @ + 1]
    /\ UNCHANGED <<stack, user, result>>

\* generate_id
Unused == {id \in Generated : \A f \in DOMAIN flows : \A i \in DOMAIN flows[f] : flows[f][i].id # id}

UpdateExecution ==
    \E f \in DOMAIN flows : \E i \in DOMAIN flows[f], req \in Requirements :
        Save([flows EXCEPT ![f][i].req = req])

DeleteExecution ==
    \E f \in DOMAIN flows : \E i \in DOMAIN flows[f] :
        Save([flows EXCEPT ![f] = SubSeq(@, 1, i - 1) \o SubSeq(@, i + 1, Len(@))])

AddExecution ==
    \E f \in DOMAIN flows, id \in Unused, req \in Requirements :
        Save([flows EXCEPT ![f] = Append(@, [id |-> id, req |-> req, sub |-> None])])

\* The sub-flow is made with it, and has no stages.
AddFlowExecution ==
    \E f \in DOMAIN flows, a \in Aliases \ DOMAIN flows, id \in Unused, req \in Requirements :
        Save([g \in DOMAIN flows \cup {a} |->
                IF g = a THEN <<>>
                ELSE IF g = f THEN Append(flows[f], [id |-> id, req |-> req, sub |-> a])
                ELSE flows[g]])

UpdateFlow ==
    \E f \in DOMAIN flows, stages \in Lists : Save([flows EXCEPT ![f] = stages])

Edit == UpdateExecution \/ DeleteExecution \/ AddExecution \/ AddFlowExecution \/ UpdateFlow

Next == Execution \/ Edit

\* A request is sequential code, and authenticators answer.
Fairness == WF_vars(Execution /\ result = "running")

Spec == Init /\ [][Next]_vars /\ Fairness

-----------------------------------------------------------------------------
(* Properties *)

\* A flow that succeeds, the login's or a sub-flow, passed every required stage
\* and one of every group of alternatives, in whatever requests of the login:
\* nothing a challenge, a failed try or an edit in between interrupts is lost
\* when the login is resumed (execute_stages, continue_flow).  Only what an edit
\* put before the stage the login waited at, or made required there, is not
\* asked for: continue_flow goes on from that stage.  A disabled stage is not
\* executed, not even when it was disabled in the meantime ("naming a disabled
\* stage as the resume point").  And a request in which a stage failed for a
\* reason that is not about the user, and no alternative could stand in for it
\* at any level, does not log in, however optional the stage or the sub-flow it
\* is in (is_operational_failure).
FlowHonoured ==
    /\ hist.missed = {} /\ ~hist.disabled
    /\ result = "success" => ~hist.broken

\* Every request ends, also when sub-flows contain themselves (depth > 10).
FlowEnds == []<>(result # "running")

=============================================================================
