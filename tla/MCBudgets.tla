------------------------------ MODULE MCBudgets ------------------------------
(* TLC instance of the components that keep a budget of attempts in the     *)
(* cache: LoginThrottle, EmailCode and InitialAccess.  They share no key,   *)
(* so a behaviour is one of one component, chosen in its initial state.     *)
(* Variables that two components both have belong to the one that runs;     *)
(* those it does not have stay as they are.                                 *)
EXTENDS LoginThrottle, TLC

CONSTANTS
    Sources, MaxAttempts, MaxSends, MaxSendsPerIp, CodeTTL, MaxTimeEmail, MaxCodes, MaxSubmits,
    Revoker, UseCount, Expiration, Grace, MaxRequest, MaxUses

\* A code's and a mail's lifetime is positive, so is MAX_VERIFY_ATTEMPTS; the
\* counter of an initial access token outlives the entry by more than a request
\* takes (used_counter_ttl adds a minute).
ASSUME BudgetsAssumption ==
    /\ {MaxAttempts, CodeTTL} \subseteq Nat \ {0}
    /\ {MaxSends, MaxSendsPerIp, MaxTimeEmail, MaxCodes, MaxSubmits} \subseteq Nat
    /\ {UseCount, Expiration, Grace, MaxRequest, MaxUses} \subseteq Nat
    /\ MaxRequest <= Grace
    /\ Revoker \notin Tasks

VARIABLES
    on,                                         \* the component that runs
    entry, sends, sendsIp, tries, triesIp, req, \* EmailCode
    token, reg                                  \* InitialAccess

Email   == INSTANCE EmailCode WITH Requests <- Tasks, MaxTime <- MaxTimeEmail
Initial == INSTANCE InitialAccess WITH Registrations <- Tasks

throttleVars == <<path, marker, watermark, task, accepted>>
emailVars    == <<entry, sends, sendsIp, tries, triesIp, req>>
initialVars  == <<token, reg>>

NotThrottle == /\ path = "none" /\ marker = NoEntry /\ watermark = 0
               /\ task = <<>> /\ accepted = [s \in Steps |-> 0]
NotEmail    == /\ entry = <<>> /\ sends = <<>> /\ sendsIp = <<>>
               /\ tries = <<>> /\ triesIp = <<>> /\ req = <<>>
NotInitial  == token = 0 /\ reg = <<>>

MCInit ==
    \/ on = "throttle" /\ Init /\ NotEmail /\ NotInitial
    \/ on = "email" /\ Email!Init /\ NotThrottle /\ NotInitial /\ counter = NoEntry
    \/ on = "initial" /\ Initial!Init /\ NotThrottle /\ NotEmail

MCNext ==
    /\ UNCHANGED on
    /\ \/ on = "throttle" /\ Next /\ UNCHANGED <<emailVars, initialVars>>
       \/ on = "email" /\ Email!Next /\ UNCHANGED <<throttleVars, initialVars, counter>>
       \/ on = "initial" /\ Initial!Next /\ UNCHANGED <<throttleVars, emailVars>>

MCSpec == MCInit /\ [][MCNext]_<<vars, on, emailVars, initialVars>>

Symmetry == Permutations(Tasks) \cup Permutations(Sources)

-----------------------------------------------------------------------------
(* The properties of the instances; LoginThrottle's are in scope as they are *)

\* EmailCode: at most MaxAttempts submissions are compared with a code, and it
\* is burnt by its own attempts only (verify).
EmailAttemptsExact == on = "email" => Email!EmailAttemptsExact

\* EmailCode: a code gives one login (verify, compare_and_delete).
EmailCodeAcceptedOnce == on = "email" => Email!EmailCodeAcceptedOnce

\* EmailCode: mails fit into the windows of the send limit (charge_send).
EmailSendsBounded == on = "email" => Email!EmailSendsBounded

\* InitialAccess: a limited token lets its count of registrations through, as
\* many again after a revocation, and none that begins after one (verify).
RegistrationsBounded == on = "initial" => Initial!RegistrationsBounded

=============================================================================
