------------------------------- MODULE MCLoops -------------------------------
(* TLC instance of the loops: the one of GlobMatch, the login of             *)
(* FlowExecutor and the refresh of SigningKeys, the last two with liveness.   *)
(* They share no state, so a behaviour is one of one component, chosen in its *)
(* initial state; variables that two components both have belong to the one   *)
(* that runs.  There is no symmetry: TLC does not combine it with liveness.   *)
EXTENDS GlobMatch

CONSTANTS
    Trees, Aliases, Ids, Generated, Lists, MaxDepth, MaxTries, MaxEdits,
    Nodes, Admins, Algs, DefaultAlg, MtiAlg, LockTTL, MaxKeys, MaxTime, MaxChanges, MaxCrashes

\* The bootstrap lock lasts for some time, and its owner is a node or "none".
ASSUME KeysAssumption == LockTTL \in Nat \ {0} /\ "none" \notin Nodes

StageType == [id : Ids \cup Generated, sub : Aliases \cup {"none"},
              req : {"Required", "Optional", "Conditional", "Alternative", "Disabled"}]

UniqueIds(t) == \A f \in DOMAIN t : \A i, j \in DOMAIN t[f] : t[f][i].id = t[f][j].id => i = j

\* A realm's flows are sequences of stages, and there is the one a login runs.
ASSUME FlowAssumption ==
    /\ MaxEdits \in Nat /\ "main" \in Aliases /\ Lists \subseteq Seq(StageType)
    /\ \A t \in Trees : /\ "main" \in DOMAIN t /\ DOMAIN t \subseteq Aliases
                        /\ t \in [DOMAIN t -> Seq(StageType)] /\ UniqueIds(t)

VARIABLES
    on,                            \* the component that runs
    hist,                          \* FlowExecutor, SigningKeys
    flows, stack, user, pending,   \* FlowExecutor
    now, table, lock, node, admin  \* SigningKeys

\* Sequences of one to n stages, with the ids that ids gives them.
Flows(ids, reqs, subs, n) ==
    UNION {{[i \in 1 .. m |-> [id |-> ids[i], req |-> r[i], sub |-> u[i]]] :
               r \in [1 .. m -> reqs], u \in [1 .. m -> subs]} : m \in 1 .. n}

\* Flows of up to three stages, and flows of two stages over a sub-flow that may
\* contain itself or name one that does not exist.
MCTrees ==
    LET main == <<"s1", "s2", "s3">>
        sub == <<"t1", "t2">>
    IN  {[a \in {"main"} |-> f] :
            f \in Flows(main, {"Required", "Conditional", "Alternative"}, {"none"}, 3)
                  \cup Flows(main, {"Required", "Optional", "Alternative", "Disabled"}, {"none"}, 2)}
        \cup {[a \in {"main", "sub"} |-> IF a = "main" THEN f ELSE g] :
            f \in {f \in Flows(main, {"Required", "Optional", "Conditional", "Alternative"}, {"none", "sub"}, 2) :
                     \E i \in DOMAIN f : f[i].sub = "sub"},
            g \in Flows(sub, {"Required", "Optional"}, {"none", "sub"}, 1)
                  \cup Flows(sub, {"Alternative"}, {"none", "missing"}, 2)}

\* Lists that move, drop, add and swap stages, one of a sub-flow among them.
MCLists ==
    Flows(<<"s2", "s1">>, {"Required", "Alternative"}, {"none"}, 2)
    \cup Flows(<<"s3", "t1">>, {"Required"}, {"none"}, 2) \cup {<<>>}

Flow == INSTANCE FlowExecutor
Keys == INSTANCE SigningKeys

globVars == <<p, k, pi, ki, star>>
flowVars == <<flows, stack, user, pending>>
keysVars == <<now, table, lock, node, admin>>
allVars  == <<on, globVars, flowVars, keysVars, result, hist>>

NotGlob == p = <<>> /\ k = <<>> /\ pi = 1 /\ ki = 1 /\ star = <<0, 0>>
NotFlow == flows = 0 /\ stack = <<>> /\ user = FALSE /\ pending = 0
NotKeys == now = 0 /\ table = {} /\ lock = 0 /\ node = <<>> /\ admin = <<>>

MCInit ==
    \/ on = "glob" /\ Init /\ NotFlow /\ NotKeys /\ hist = 0
    \/ on = "flow" /\ Flow!Init /\ NotGlob /\ NotKeys
    \/ on = "keys" /\ Keys!Init /\ NotGlob /\ NotFlow /\ result = "none"

GlobNext == on = "glob" /\ Next /\ UNCHANGED <<on, flowVars, keysVars, hist>>
FlowNext == on = "flow" /\ Flow!Next /\ UNCHANGED <<on, globVars, keysVars>>
KeysNext == on = "keys" /\ Keys!Next /\ UNCHANGED <<on, globVars, flowVars, result>>

\* The fairness of FlowExecutor and SigningKeys.
FlowRuns == result = "running" /\ on = "flow" /\ Flow!Execution
            /\ UNCHANGED <<on, globVars, keysVars>>
Refreshes(n) == on = "keys" /\ Keys!Refresh(n) /\ UNCHANGED <<on, globVars, flowVars, result>>

MCSpec ==
    /\ MCInit /\ [][GlobNext \/ FlowNext \/ KeysNext]_allVars
    /\ WF_allVars(FlowRuns)
    /\ \A n \in Nodes : WF_allVars(Refreshes(n))

-----------------------------------------------------------------------------
(* The properties of the components *)

\* GlobMatch: the loop decides what the pattern means, and an escaped name
\* matches itself only (glob_match, escape_scan_pattern).
PatternsMatch == on = "glob" => MatchesMeaning /\ EscapeIsLiteral

\* FlowExecutor: what must be passed is passed, what is disabled never runs, and
\* an operational failure is not an optional one (execute_stages, continue_flow).
FlowHonoured == on = "flow" => Flow!FlowHonoured

\* FlowExecutor: every request ends (execute_stages).
FlowEnds == on = "flow" => Flow!FlowEnds

\* SigningKeys: one boot makes the initial pair (load_or_create_signing_keys).
OneInitialPair == on = "keys" => Keys!OneInitialPair

\* SigningKeys: some key stays active (rotate_keys, disable_key).
SomeKeyActive == on = "keys" => Keys!SomeKeyActive

\* SigningKeys: nodes take over the table (spawn_jwks_refresh_task).
NodesConverge == <>[](on = "keys" => Keys!Converged)

=============================================================================
