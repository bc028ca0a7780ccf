---------------------------- MODULE InMemoryCache ----------------------------
(***************************************************************************)
(* The in-process cache backend (issuerd-cluster/src/cache.rs): a          *)
(* concurrent map of entries that expire lazily.  A step of the model is   *)
(* what the code does under one shard guard of the map, so an operation    *)
(* that releases the guard and comes back takes several steps.             *)
(*                                                                         *)
(* A value is the number of the write that produced it: no two writes are  *)
(* equal, as the callers' values (tokens, request ids, owners) are not.    *)
(***************************************************************************)
EXTENDS Naturals, FiniteSets

CONSTANTS
    Tasks,      \* threads inside a cache operation at a time
    Keys,
    OpsOn,      \* which operations the callers use on which key
    TTL,        \* the time to live the callers ask for
    MaxTime,    \* bound on the clock
    MaxWrites   \* bound on values written

OpNames == {"get", "set", "delete", "get_and_delete", "compare_and_delete", "create_if_absent",
            "claim_and_create", "compare_and_swap", "swap_absent", "increment"}

VARIABLES
    now,    \* the clock
    store,  \* the map: a written value and its expiry instant
    lock,   \* multi_key_lock: the task that holds it, or None
    task,   \* the rest of an operation that has let go of its guard
    last,   \* the last value written
    used,   \* history: how often each value was taken, claimed or swapped
    reign,  \* history: until when the creator of a key may count on it
    clash   \* history: a second creator won while the first still reigned

vars == <<now, store, lock, task, last, used, reign, clash>>

None == 0
Vacant == [v |-> None, exp |-> 0]
Idle   == [pc |-> "idle", key |-> None, to |-> None]
NoExpiry == MaxTime + TTL + 1
Written  == 1 .. MaxWrites

Init ==
    /\ now = 0
    /\ store = [k \in Keys |-> Vacant]
    /\ lock = None
    /\ task = [t \in Tasks |-> Idle]
    /\ last = 0
    /\ used = [v \in Written |-> 0]
    /\ reign = [k \in Keys |-> 0]
    /\ clash = FALSE

-----------------------------------------------------------------------------

Occupied(s, k) == s[k].v # None
Expired(s, k)  == Occupied(s, k) /\ now >= s[k].exp

\* maybe_sweep_expired, which most writes run first: it drops every expired
\* entry when the sweep interval has passed and this caller claims the pass.
Sweeps == {store, [k \in Keys |-> IF Expired(store, k) THEN Vacant ELSE store[k]]}

\* The value the operation is about to write.
Fresh == last + 1
CanWrite == last < MaxWrites
Entry(exp) == [v |-> Fresh, exp |-> exp]

\* History: a creation of key k that lasts until exp, and the end of one.
Created(k, exp) ==
    /\ clash' = (clash \/ reign[k] > now)
    /\ reign' = [reign EXCEPT ![k] = exp]
Ended(k) == reign' = [reign EXCEPT ![k] = 0] /\ UNCHANGED clash
Spent(v) == used' = [used EXCEPT ![v] = @ + 1]

Offers(t, k, o) == task[t].pc = "idle" /\ o \in OpsOn[k]

\* get: an expired entry is removed after the read guard is dropped.
Get(t, k) ==
    /\ Offers(t, k, "get") /\ Expired(store, k)
    /\ task' = [task EXCEPT ![t] = [pc |-> "getRemove", key |-> k, to |-> None]]
    /\ UNCHANGED <<now, store, lock, last, used, reign, clash>>

GetRemove(t) ==
    /\ task[t].pc = "getRemove"
    /\ store' = [store EXCEPT ![task[t].key] = Vacant]
    /\ task' = [task EXCEPT ![t] = Idle]
    /\ UNCHANGED <<now, lock, last, used, reign, clash>>

Set(t, k) ==
    /\ Offers(t, k, "set") /\ CanWrite
    /\ \E s \in Sweeps : store' = [s EXCEPT ![k] = Entry(now + TTL)]
    /\ last' = Fresh
    /\ Ended(k)
    /\ UNCHANGED <<now, lock, task, used>>

Delete(t, k) ==
    /\ Offers(t, k, "delete") /\ Occupied(store, k)
    /\ store' = [store EXCEPT ![k] = Vacant]
    /\ Ended(k)
    /\ UNCHANGED <<now, lock, task, last, used>>

\* The entry is gone either way; an expired one is not handed out.
GetAndDelete(t, k) ==
    /\ Offers(t, k, "get_and_delete") /\ Occupied(store, k)
    /\ store' = [store EXCEPT ![k] = Vacant]
    /\ IF Expired(store, k) THEN UNCHANGED <<used, reign, clash>>
                            ELSE Spent(store[k].v) /\ Ended(k)
    /\ UNCHANGED <<now, lock, task, last>>

CompareAndDelete(t, k, expected) ==
    /\ Offers(t, k, "compare_and_delete")
    /\ \E s \in Sweeps :
        \/ /\ Expired(s, k)
           /\ store' = [s EXCEPT ![k] = Vacant]
           /\ UNCHANGED <<used, reign, clash>>
        \/ /\ ~Expired(s, k) /\ s[k].v = expected
           /\ store' = [s EXCEPT ![k] = Vacant]
           /\ Spent(expected) /\ Ended(k)
    /\ UNCHANGED <<now, lock, task, last>>

\* create_if_absent, first look: a live entry ends it, an expired one is
\* dropped.
CreateIfAbsent(t, k) ==
    /\ Offers(t, k, "create_if_absent") /\ CanWrite
    /\ \E s \in Sweeps :
        /\ ~Occupied(s, k) \/ Expired(s, k)
        /\ store' = [s EXCEPT ![k] = Vacant]
    /\ task' = [task EXCEPT ![t] = [pc |-> "createInsert", key |-> k, to |-> None]]
    /\ UNCHANGED <<now, lock, last, used, reign, clash>>

\* The second look taken for granted after the first.
BugInserts(k) == TRUE

\* The second entry() call of create_if_absent inserts into a vacancy only.
Inserts(k) == ~Occupied(store, k)

CreateInsert(t) ==
    LET k == task[t].key
    IN  /\ task[t].pc = "createInsert" /\ CanWrite
        /\ IF Inserts(k)
           THEN /\ store' = [store EXCEPT ![k] = Entry(now + TTL)]
                /\ last' = Fresh
                /\ Created(k, now + TTL)
           ELSE UNCHANGED <<store, last, reign, clash>>
        /\ task' = [task EXCEPT ![t] = Idle]
        /\ UNCHANGED <<now, lock, used>>

\* The claim without the mutex.
BugMayClaim == TRUE

\* multi_key_lock is free.
MayClaim == lock = None

\* claim_and_create, the comparison, under multi_key_lock.
ClaimCompare(t, k, expected, to) ==
    /\ Offers(t, k, "claim_and_create") /\ MayClaim /\ k # to
    /\ \E s \in Sweeps :
        /\ Occupied(s, k) /\ ~Expired(s, k) /\ s[k].v = expected
        /\ store' = s
    /\ lock' = t
    /\ task' = [task EXCEPT ![t] = [pc |-> "claimRemove", key |-> k, to |-> to]]
    /\ Spent(expected)
    /\ UNCHANGED <<now, last, reign, clash>>

\* claim_and_create, the removal of whatever is there by then.
ClaimRemove(t) ==
    /\ task[t].pc = "claimRemove"
    /\ store' = [store EXCEPT ![task[t].key] = Vacant]
    /\ Ended(task[t].key)
    /\ task' = [task EXCEPT ![t].pc = "claimInsert"]
    /\ UNCHANGED <<now, lock, last, used>>

\* claim_and_create, the new key.
ClaimInsert(t) ==
    LET k == task[t].to
    IN  /\ task[t].pc = "claimInsert" /\ CanWrite
        /\ store' = [store EXCEPT ![k] = Entry(now + TTL)]
        /\ last' = Fresh
        /\ Ended(k)
        /\ lock' = None
        /\ task' = [task EXCEPT ![t] = Idle]
        /\ UNCHANGED <<now, used>>

\* compare_and_swap, swap_absent being the call that expects no value.  A swap
\* keeps the expiry; an insert has none.  An expired entry is removed, which
\* releases the guard, before the insert.
CompareAndSwap(t, k, expected) ==
    /\ Offers(t, k, IF expected = None THEN "swap_absent" ELSE "compare_and_swap")
    /\ CanWrite
    /\ \E s \in Sweeps :
        \/ /\ Expired(s, k)
           /\ store' = [s EXCEPT ![k] = Vacant]
           /\ task' = IF expected = None
                      THEN [task EXCEPT ![t] = [pc |-> "swapInsert", key |-> k, to |-> None]]
                      ELSE task
           /\ UNCHANGED <<last, used, reign, clash>>
        \/ /\ Occupied(s, k) /\ ~Expired(s, k) /\ s[k].v = expected
           /\ store' = [s EXCEPT ![k] = Entry(s[k].exp)]
           /\ last' = Fresh
           /\ Spent(expected)
           /\ UNCHANGED <<task, reign, clash>>
        \/ /\ ~Occupied(s, k) /\ expected = None
           /\ store' = [s EXCEPT ![k] = Entry(NoExpiry)]
           /\ last' = Fresh
           /\ Ended(k)
           /\ UNCHANGED <<task, used>>
    /\ UNCHANGED <<now, lock>>

SwapInsert(t) ==
    LET k == task[t].key
    IN  /\ task[t].pc = "swapInsert" /\ CanWrite
        /\ store' = [store EXCEPT ![k] = Entry(NoExpiry)]
        /\ last' = Fresh
        /\ Ended(k)
        /\ task' = [task EXCEPT ![t] = Idle]
        /\ UNCHANGED <<now, lock, used>>

\* increment: under one guard.  A missing or expired counter starts at 1
\* with the TTL asked for, a live one keeps its expiry.
Increment(t, k) ==
    /\ Offers(t, k, "increment") /\ CanWrite
    /\ \E s \in Sweeps :
        IF Occupied(s, k) /\ ~Expired(s, k)
        THEN /\ store' = [s EXCEPT ![k] = Entry(s[k].exp)]
             /\ UNCHANGED <<reign, clash>>
        ELSE /\ store' = [s EXCEPT ![k] = Entry(now + TTL)]
             /\ Created(k, now + TTL)
    /\ last' = Fresh
    /\ UNCHANGED <<now, lock, task, used>>

Tick ==
    /\ now < MaxTime
    /\ now' = now + 1
    /\ UNCHANGED <<store, lock, task, last, used, reign, clash>>

Next ==
    \/ \E t \in Tasks :
          \/ GetRemove(t) \/ CreateInsert(t) \/ ClaimRemove(t) \/ ClaimInsert(t)
          \/ SwapInsert(t)
          \/ \E k \in Keys :
                \/ Get(t, k) \/ Set(t, k) \/ Delete(t, k) \/ GetAndDelete(t, k)
                \/ CreateIfAbsent(t, k) \/ Increment(t, k)
                \/ \E v \in 1 .. last :
                      \/ CompareAndDelete(t, k, v) \/ CompareAndSwap(t, k, v)
                      \/ \E to \in Keys : ClaimCompare(t, k, v, to)
                \/ CompareAndSwap(t, k, None)
    \/ Tick

Spec == Init /\ [][Next]_vars

-----------------------------------------------------------------------------
(* Properties *)

\* Locks and counters: keys that are created are not read with get.
CreatorKey(k) == OpsOn[k] \cap {"create_if_absent", "increment"} # {}
CreatedUnread == \A k \in Keys : CreatorKey(k) => "get" \notin OpsOn[k]

\* Pending operations: keys that are claimed are not taken, compared away or
\* swapped as well.
ClaimedAlone ==
    \A k \in Keys : "claim_and_create" \in OpsOn[k] =>
        OpsOn[k] \cap {"get_and_delete", "compare_and_delete", "compare_and_swap"} = {}

\* A key that create_if_absent or increment reported as created has no second
\* creator until it expires or a caller deletes, takes, claims or overwrites
\* it: what a lock or a counter relies on.  It needs CreatedUnread, as the late
\* removal of get can hit the new entry, and says nothing of keys created with
\* compare_and_swap(None), which can have two winners on an expired entry.
OneCreator == ~clash

\* A value is taken, claimed or swapped by at most one caller: what
\* authorization codes and approvals rely on.  It needs ClaimedAlone: a
\* claim is three steps.
SingleUse == \A v \in Written : used[v] <= 1

=============================================================================
