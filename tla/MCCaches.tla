------------------------------ MODULE MCCaches -------------------------------
(* TLC instance of two caches: ReadCaches in front of the database, and      *)
(* InMemoryCache, the map of a node without Redis, step by step.  A          *)
(* behaviour is one of one of them, chosen in its initial state; the         *)
(* variables of the other stay as they are.                                  *)
EXTENDS ReadCaches, TLC

CONSTANTS
    Threads, Keys, OpsOn, MapTTL, MaxClock, MaxWrites,  \* InMemoryCache
    k1, k2, k3

VARIABLES
    on,                                                  \* the component that runs
    clock, store, lock, thread, last, uses, reign, clash \* InMemoryCache

Map == INSTANCE InMemoryCache
    WITH Tasks <- Threads, TTL <- MapTTL, MaxTime <- MaxClock,
         now <- clock, task <- thread, used <- uses

\* 0 is the holder of a free mutex; what is written lives for some time.
ASSUME MapAssumption ==
    /\ OpsOn \in [Keys -> SUBSET Map!OpNames] /\ 0 \notin Threads
    /\ MapTTL \in Nat \ {0} /\ MaxClock \in Nat /\ MaxWrites \in Nat

\* Locks and counters: created, released, extended.  Single-use values.
\* Pending operations, which are only written, read and claimed.
Callers ==
    (k1 :> {"create_if_absent", "increment", "delete", "compare_and_delete",
            "compare_and_swap"})
    @@ (k2 :> {"set", "get", "get_and_delete", "compare_and_delete", "compare_and_swap",
               "swap_absent"})
    @@ (k3 :> {"set", "get", "claim_and_create"})

\* The callers keep to what the properties need.
ASSUME CallersAssumption == Map!CreatedUnread /\ Map!ClaimedAlone

mapVars == <<clock, store, lock, thread, last, uses, reign, clash>>

NotMap == /\ clock = 0 /\ store = 0 /\ lock = 0 /\ thread = 0 /\ last = 0
          /\ uses = [v \in Map!Written |-> 0] /\ reign = 0 /\ clash = FALSE

MCInit ==
    \/ on = "read" /\ Init /\ NotMap
    \/ on = "map" /\ Init /\ Map!Init

MCNext ==
    /\ UNCHANGED on
    /\ \/ on = "read" /\ Next /\ UNCHANGED mapVars
       \/ on = "map" /\ Map!Next /\ UNCHANGED vars

MCSpec == MCInit /\ [][MCNext]_<<on, vars, mapVars>>

\* Requests are interchangeable.  The configuration takes two of the threads for
\* them, so that the permutations are sound for both components.
Symmetry == Permutations(Requests)

-----------------------------------------------------------------------------
(* The properties of InMemoryCache; those of ReadCaches are in scope *)

\* A key that create_if_absent or increment made has no second creator before
\* it is released or expires.
OneCreator == Map!OneCreator

\* A value is taken, claimed or swapped by one caller at most.
SingleUse == Map!SingleUse

=============================================================================
