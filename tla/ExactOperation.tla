--------------------------- MODULE ExactOperation ---------------------------
(***************************************************************************)
(* What exact-operation approval promises, without caches, tasks or        *)
(* grants: an operation captures the content of its target and says what   *)
(* it will become, one decision is taken about it, and an authorized       *)
(* operation has one outcome: the target becomes exactly what was proposed *)
(* if its content is what was captured, and stays as it is otherwise.      *)
(***************************************************************************)
CONSTANTS Ops, Seen

VARIABLES target, phase, outcome, snapshot, plan

cvars == <<target, phase, outcome, snapshot, plan>>

Init ==
    /\ target \in Seen
    /\ phase = [o \in Ops |-> "none"]
    /\ outcome = [o \in Ops |-> "none"]
    /\ snapshot = [o \in Ops |-> "blank"]
    /\ plan = [o \in Ops |-> "blank"]

Propose(o, u) ==
    /\ phase[o] = "none"
    /\ phase' = [phase EXCEPT ![o] = "proposed"]
    /\ snapshot' = [snapshot EXCEPT ![o] = target]
    /\ plan' = [plan EXCEPT ![o] = u]
    /\ UNCHANGED <<target, outcome>>

Decide(o, d) ==
    /\ phase[o] = "proposed"
    /\ phase' = [phase EXCEPT ![o] = d]
    /\ UNCHANGED <<target, outcome, snapshot, plan>>

Apply(o) ==
    /\ phase[o] = "authorized" /\ outcome[o] = "none"
    /\ target = snapshot[o]
    /\ outcome' = [outcome EXCEPT ![o] = "applied"]
    /\ target' = plan[o]
    /\ UNCHANGED <<phase, snapshot, plan>>

Fail(o) ==
    /\ phase[o] = "authorized" /\ outcome[o] = "none"
    /\ target # snapshot[o]
    /\ outcome' = [outcome EXCEPT ![o] = "failed"]
    /\ UNCHANGED <<target, phase, snapshot, plan>>

\* The target is changed by ordinary administration.
Change ==
    /\ target' \in Seen
    /\ UNCHANGED <<phase, outcome, snapshot, plan>>

Next ==
    \/ \E o \in Ops : \/ Apply(o) \/ Fail(o)
                      \/ \E u \in Seen : Propose(o, u)
                      \/ \E d \in {"authorized", "denied"} : Decide(o, d)
    \/ Change

Spec == Init /\ [][Next]_cvars

=============================================================================
