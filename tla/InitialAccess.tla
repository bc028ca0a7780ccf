---------------------------- MODULE InitialAccess ----------------------------
(***************************************************************************)
(* The uses of one initial access token for client registration            *)
(* (issuerd-admin-api/src/initial_access.rs): the token's entry and its    *)
(* counter of uses are two cache keys with lifetimes of their own, and a   *)
(* registration reads the one before it increments the other.              *)
(***************************************************************************)
EXTENDS Naturals

CONSTANTS
    Registrations,  \* registrations in flight at a time
    Revoker,        \* the admin request that may revoke the token
    UseCount,          \* InitialAccessTokenData::count, 0 = unlimited
    Expiration,     \* expiration, 0 = never
    Grace,          \* what the counter outlives the entry by
    MaxRequest,     \* the longest a registration takes between two awaits
    MaxTime,        \* bound on the clock
    MaxUses         \* bound on registrations

VARIABLES
    now,      \* the clock; the token was minted at 0
    token,    \* initial-access:{realm}:{id}: when the entry expires
    counter,  \* initial-access-used:{realm}:{id}, [n, exp]
    reg,      \* what each registration and the revocation is about to do
    hist      \* history: registrations begun, let through, let through although
              \* they began after a revocation; counters deleted

vars == <<now, token, counter, reg, hist>>

Forever   == MaxTime + 1
NoCounter == [n |-> 0, exp |-> 0]
IdleReg   == [pc |-> "idle", since |-> 0, late |-> FALSE]

\* mint_initial_access_token
Init ==
    /\ now = 0
    /\ token = IF Expiration = 0 THEN Forever ELSE Expiration
    /\ counter = NoCounter
    /\ reg = [r \in Registrations \cup {Revoker} |-> IdleReg]
    /\ hist = [begun |-> 0, used |-> 0, late |-> 0, cleared |-> 0, revoked |-> FALSE]

\* The counter starts anew every so often.
BugUsedCounterExp == now + 1

\* used_counter_ttl: the counter outlives the entry.
UsedCounterExp == IF Expiration = 0 THEN Forever ELSE now + Expiration + Grace

\* verify_and_consume_initial_access_token reads the entry.
Verify(r) ==
    /\ r \in Registrations /\ reg[r].pc = "idle" /\ hist.begun < MaxUses
    /\ token > now
    /\ reg' = [reg EXCEPT ![r] = [pc |-> "use", since |-> now, late |-> hist.revoked]]
    /\ hist' = [hist EXCEPT !.begun = @ + 1]
    /\ UNCHANGED <<now, token, counter>>

\* It counts the use, unless uses are unlimited, and lets the registration
\* through while the count lasts.
Use(r) ==
    LET c == IF counter.exp > now THEN [counter EXCEPT !.n = @ + 1]
             ELSE [n |-> 1, exp |-> UsedCounterExp]
    IN  /\ reg[r].pc = "use"
        /\ counter' = IF UseCount = 0 THEN counter ELSE c
        /\ hist' = IF UseCount = 0 \/ c.n <= UseCount
                   THEN [hist EXCEPT !.used = @ + 1, !.late = IF reg[r].late THEN @ + 1 ELSE @]
                   ELSE hist
        /\ reg' = [reg EXCEPT ![r] = IdleReg]
        /\ UNCHANGED <<now, token>>

\* revoke_initial_access_token deletes the entry first ...
RevokeToken ==
    /\ reg[Revoker].pc = "idle" /\ ~hist.revoked
    /\ token' = 0
    /\ reg' = [reg EXCEPT ![Revoker] = [IdleReg EXCEPT !.pc = "revoke"]]
    /\ hist' = [hist EXCEPT !.cleared = @ + 1]
    /\ UNCHANGED <<now, counter>>

\* ... and the counter after it; or an error keeps it from that.
RevokeCounter ==
    /\ reg[Revoker].pc = "revoke"
    /\ \/ counter' = NoCounter
       \/ UNCHANGED counter
    /\ reg' = [reg EXCEPT ![Revoker] = IdleReg]
    /\ hist' = [hist EXCEPT !.revoked = TRUE]
    /\ UNCHANGED <<now, token>>

\* Time passes, for no registration longer than a request takes.
Tick ==
    /\ now < MaxTime
    /\ \A r \in Registrations : reg[r].pc # "idle" => now < reg[r].since + MaxRequest
    /\ now' = now + 1
    /\ UNCHANGED <<token, counter, reg, hist>>

Next ==
    \/ \E r \in Registrations : Verify(r) \/ Use(r)
    \/ RevokeToken \/ RevokeCounter \/ Tick

Spec == Init /\ [][Next]_vars

-----------------------------------------------------------------------------
(* Properties *)

\* A limited token lets no more registrations through than its count over its
\* whole life, whenever its counter was created ("otherwise the count window
\* would silently reset"); a revocation, which deletes the counter under
\* registrations in flight, lets through at most as many again, and none that
\* begins after it.
RegistrationsBounded ==
    /\ UseCount > 0 => hist.used <= UseCount * (1 + hist.cleared)
    /\ hist.late = 0

=============================================================================
