------------------------------ MODULE MCRecords ------------------------------
(* TLC instance of the components whose handlers write back whole records   *)
(* they read earlier: PolledGrants, FederationSync and Brokering.  They     *)
(* share no record, so a behaviour is one of one component, chosen in its   *)
(* initial state.  Variables several have belong to the one that runs;      *)
(* those it does not have stay as they are.                                 *)
EXTENDS PolledGrants, TLC

CONSTANTS
    Groups, Syncs, Logins, MaxRuns, MaxEvents,                  \* FederationSync
    Subjects, Locals, News, Browsers, Requests, MaxFailures,
    MaxTrips, MaxSubmits                                        \* Brokering

\* A task is a sync or a login.  An account that is created is a new one.  A wrong
\* password too many is at least the first: max_login_failures.max(1).
ASSUME RecordsAssumption ==
    /\ Syncs \cap Logins = {}
    /\ Locals \cap News = {} /\ "none" \notin Locals \cup News
    /\ MaxFailures \in Nat \ {0}

VARIABLES
    on,                               \* the component that runs
    dir, row, group, members, admin,  \* FederationSync
    idp, acc, link, pending           \* Brokering

Federation == INSTANCE FederationSync
Broker     == INSTANCE Brokering WITH Flows <- Browsers, Tasks <- Requests

polledVars     == <<flow, now, mirror, lock>>
federationVars == <<dir, row, group, members, admin>>
brokerVars     == <<idp, acc, link, pending>>

NotPolled     == flow = "none" /\ now = 0 /\ mirror = NoEntry /\ lock = 0
NotFederation == dir = 0 /\ row = 0 /\ group = 0 /\ members = {} /\ admin = 0
NotBroker     == idp = 0 /\ acc = 0 /\ link = 0 /\ pending = 0

MCInit ==
    \/ on = "polled" /\ Init /\ NotFederation /\ NotBroker
    \/ on = "federation" /\ Federation!Init /\ NotPolled /\ NotBroker /\ entry = NoEntry
    \/ on = "broker" /\ Broker!Init /\ NotPolled /\ NotFederation

MCNext ==
    /\ UNCHANGED on
    /\ \/ on = "polled" /\ Next /\ UNCHANGED <<federationVars, brokerVars>>
       \/ on = "federation" /\ Federation!Next /\ UNCHANGED <<polledVars, brokerVars, entry>>
       \/ on = "broker" /\ Broker!Next /\ UNCHANGED <<polledVars, federationVars>>

MCSpec == MCInit /\ [][MCNext]_<<on, vars, federationVars, brokerVars>>

\* Polls, approval forms and users are interchangeable.  The configuration uses
\* the same values for the requests and browser flows of Brokering, which are
\* interchangeable too.
Symmetry == Permutations(Polls) \cup Permutations(Approvers) \cup Permutations(Users)

-----------------------------------------------------------------------------
(* The properties of FederationSync and Brokering *)

\* FederationSync: a sync nothing crosses leaves the reported memberships
\* (reconcile_group_memberships_indexed).
QuietSyncIsExact == on = "federation" => Federation!QuietSyncIsExact

\* FederationSync: an account never becomes the directory's (sync_all).
LocalAccountsKept == [][on = "federation" => Federation!LinksKept]_<<on, row>>

\* Brokering: a new account is linked or deleted again, and one that was logged
\* in to stays (create_link_for_new_user).
BrokeredAccountsExact == on = "broker" => Broker!BrokeredAccountsExact

\* Brokering: one login and a bounded number of wrong passwords per flow
\* (finish_login, link_via_password_submit).
FlowSpentOnce == on = "broker" => Broker!FlowSpentOnce

\* Brokering: what no mapper granted no mapper revokes (sync_mapped_roles).
LocalRolesKept == on = "broker" => Broker!LocalRolesKept

=============================================================================
