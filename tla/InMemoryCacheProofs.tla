------------------------ MODULE InMemoryCacheProofs ------------------------
(***************************************************************************)
(* What callers may rely on of the in-memory cache, for any number of      *)
(* threads, keys, writes and any time to live, when the operations they    *)
(* use on a key go together.                                               *)
(***************************************************************************)
EXTENDS MCCaches, TLAPS

EntryState == [v : 0 .. MaxWrites, exp : Nat]
ThreadPCs == {"idle", "getRemove", "createInsert", "claimRemove", "claimInsert", "swapInsert"}
ThreadState == [pc : ThreadPCs, key : Keys \cup {Map!None}, to : Keys \cup {Map!None}]

\* Every variable has its shape; a task that has let go of its guard knows its
\* key, which the operation it runs is used on, and a claim holds the mutex
\* until it is through.
MapInv ==
    /\ clock \in Nat /\ last \in 0 .. MaxWrites
    /\ store \in [Keys -> EntryState]
    /\ thread \in [Threads -> ThreadState]
    /\ uses \in [Map!Written -> Nat]
    /\ reign \in [Keys -> Nat]
    /\ clash \in BOOLEAN
    /\ \A t \in Threads :
        /\ thread[t].pc # "idle" => thread[t].key \in Keys
        /\ thread[t].pc = "getRemove" => "get" \in OpsOn[thread[t].key]
        /\ thread[t].pc = "createInsert" => "create_if_absent" \in OpsOn[thread[t].key]
        /\ thread[t].pc \in {"claimRemove", "claimInsert"} =>
               /\ thread[t].to \in Keys /\ lock = t
               /\ "claim_and_create" \in OpsOn[thread[t].key]

\* While a creator reigns its entry is in the map.
ReignInv ==
    /\ ~clash
    /\ \A k \in Keys : reign[k] > clock =>
        Map!CreatorKey(k) /\ Map!Occupied(store, k) /\ store[k].exp >= reign[k]

\* A claim of what is under key k is about to remove it.
Claiming(k) == \E t \in Threads : thread[t].pc = "claimRemove" /\ thread[t].key = k

\* A value is under one key at most, and once it was used it is gone from the
\* map, or a claim is about to remove it.
UseInv ==
    /\ \A k \in Keys : store[k].v <= last
    /\ \A j, k \in Keys : store[j].v = store[k].v /\ store[k].v # Map!None => j = k
    /\ \A v \in Map!Written : uses[v] <= 1 /\ (v > last => uses[v] = 0)
    /\ \A k \in Keys : Map!Occupied(store, k) /\ uses[store[k].v] = 1 => Claiming(k)

-----------------------------------------------------------------------------
(* What a write does to the map, sweep included. *)

\* Key k has entry x afterwards; of the others only expired entries may go.
Touched(k, x) ==
    /\ store' \in [Keys -> EntryState]
    /\ store'[k] = x
    /\ \A j \in Keys : j # k => \/ store'[j] = store[j]
                                \/ store'[j] = Map!Vacant /\ Map!Expired(store, j)

\* A sweep drops expired entries only.
LEMMA SweepEffect ==
    ASSUME MapInv, NEW s \in Map!Sweeps
    PROVE  /\ s \in [Keys -> EntryState]
           /\ \A k \in Keys : \/ s[k] = store[k]
                              \/ s[k] = Map!Vacant /\ Map!Expired(store, k)
<1>1. store \in [Keys -> EntryState] /\ Map!Vacant \in EntryState
  BY MapAssumption DEF MapInv, Map!Vacant, EntryState, Map!None, MapAssumption
<1>2. CASE s = store
  BY <1>1, <1>2
<1>3. CASE s = [k \in Keys |-> IF Map!Expired(store, k) THEN Map!Vacant ELSE store[k]]
  <2> HIDE DEF EntryState
  <2> QED BY <1>1, <1>3
<1> QED BY <1>2, <1>3 DEF Map!Sweeps

\* A write after a possible sweep.
LEMMA WriteEffect ==
    ASSUME MapInv, NEW s \in Map!Sweeps, NEW k \in Keys, NEW x \in EntryState,
           store' = [s EXCEPT ![k] = x]
    PROVE  Touched(k, x)
<1>1. /\ s \in [Keys -> EntryState]
      /\ \A j \in Keys : \/ s[j] = store[j]
                         \/ s[j] = Map!Vacant /\ Map!Expired(store, j)
  BY SweepEffect
<1> QED BY <1>1 DEF Touched

\* A write without one.
LEMMA PlainEffect ==
    ASSUME MapInv, NEW k \in Keys, NEW x \in EntryState, store' = [store EXCEPT ![k] = x]
    PROVE  Touched(k, x)
  BY WriteEffect DEF Map!Sweeps

\* The entries that are written are well formed.
LEMMA EntryTypes ==
    ASSUME MapInv
    PROVE  /\ Map!Vacant \in EntryState
           /\ Map!CanWrite => \A e \in Nat : Map!Entry(e) \in EntryState /\ Map!Entry(e).v = last + 1
                                         /\ Map!Entry(e).exp = e
           /\ Map!CanWrite => Map!Fresh \in Map!Written /\ Map!Fresh \in 0 .. MaxWrites /\ Map!Fresh > last
           /\ Map!NoExpiry \in Nat /\ clock + MapTTL \in Nat
  BY MapAssumption
  DEF MapInv, Map!Vacant, EntryState, Map!None, MapAssumption, Map!CanWrite, Map!Entry, Map!Fresh, Map!Written, Map!NoExpiry

-----------------------------------------------------------------------------
(* Every step keeps MapInv. *)

\* The promises of the tasks, one task having moved.
LEMMA TaskMoved ==
    ASSUME MapInv, NEW t \in Threads, NEW x \in ThreadState, thread' = [thread EXCEPT ![t] = x],
           x.pc # "idle" => x.key \in Keys,
           x.pc = "getRemove" => "get" \in OpsOn[x.key],
           x.pc = "createInsert" => "create_if_absent" \in OpsOn[x.key],
           x.pc \in {"claimRemove", "claimInsert"} =>
               /\ x.to \in Keys /\ lock' = t
               /\ "claim_and_create" \in OpsOn[x.key],
           \A u \in Threads : u # t /\ lock = u => lock' = u
    PROVE  /\ thread' \in [Threads -> ThreadState]
           /\ \A u \in Threads :
                /\ thread'[u].pc # "idle" => thread'[u].key \in Keys
                /\ thread'[u].pc = "getRemove" => "get" \in OpsOn[thread'[u].key]
                /\ thread'[u].pc = "createInsert" => "create_if_absent" \in OpsOn[thread'[u].key]
                /\ thread'[u].pc \in {"claimRemove", "claimInsert"} =>
                       /\ thread'[u].to \in Keys /\ lock' = u
                       /\ "claim_and_create" \in OpsOn[thread'[u].key]
<1>1. thread \in [Threads -> ThreadState]
  BY DEF MapInv
<1>2. /\ thread' \in [Threads -> ThreadState] /\ thread'[t] = x
      /\ \A u \in Threads : u # t => thread'[u] = thread[u]
  BY <1>1
<1> QED BY <1>2 DEF MapInv

\* A task that starts the rest of an operation, or ends.
LEMMA TaskTypes ==
    ASSUME NEW k \in Keys, NEW pc \in ThreadPCs, NEW to \in Keys \cup {Map!None}
    PROVE  /\ [pc |-> pc, key |-> k, to |-> to] \in ThreadState
           /\ Map!Idle \in ThreadState /\ Map!Idle.pc = "idle"
  BY DEF ThreadState, Map!Idle, ThreadPCs

\* The history variables keep their shape.
LEMMA HistoryTypes ==
    ASSUME MapInv, NEW k \in Keys
    PROVE  /\ Map!Ended(k) => reign' \in [Keys -> Nat] /\ clash' \in BOOLEAN
           /\ \A e \in Nat : Map!Created(k, e) => reign' \in [Keys -> Nat] /\ clash' \in BOOLEAN
           /\ \A v \in Map!Written : Map!Spent(v) => uses' \in [Map!Written -> Nat]
<1>1. Map!Ended(k) => reign' \in [Keys -> Nat] /\ clash' \in BOOLEAN
  BY DEF MapInv, Map!Ended
<1>2. \A e \in Nat : Map!Created(k, e) => reign' \in [Keys -> Nat] /\ clash' \in BOOLEAN
  BY DEF MapInv, Map!Created
<1>3. \A v \in Map!Written : Map!Spent(v) => uses' \in [Map!Written -> Nat]
  BY DEF MapInv, Map!Spent
<1> QED BY <1>1, <1>2, <1>3

\* Operations that are over when they let go of their guard.
LEMMA MapShort ==
    ASSUME MapInv, NEW t \in Threads, NEW k \in Keys,
           \/ Map!Set(t, k) \/ Map!Delete(t, k) \/ Map!GetAndDelete(t, k) \/ Map!Increment(t, k)
           \/ \E v \in 1 .. last : Map!CompareAndDelete(t, k, v)
    PROVE  MapInv'
<1>0. /\ last \in 0 .. MaxWrites /\ store[k] \in EntryState /\ store[k].exp \in Nat
      /\ uses \in [Map!Written -> Nat] /\ reign \in [Keys -> Nat] /\ clash \in BOOLEAN
      /\ \A v \in 1 .. last : v \in Map!Written
  BY MapAssumption DEF MapInv, EntryState, Map!Written, MapAssumption
<1>1. UNCHANGED <<clock, lock, thread>>
  BY DEF Map!Set, Map!Delete, Map!GetAndDelete, Map!Increment, Map!CompareAndDelete
<1>2. /\ store' \in [Keys -> EntryState] /\ last' \in 0 .. MaxWrites
      /\ uses' \in [Map!Written -> Nat] /\ reign' \in [Keys -> Nat] /\ clash' \in BOOLEAN
  <2>1. CASE Map!Set(t, k)
    <3>1. Map!Entry(clock + MapTTL) \in EntryState /\ Map!Fresh \in 0 .. MaxWrites
      BY <2>1, EntryTypes DEF Map!Set
    <3>2. Touched(k, Map!Entry(clock + MapTTL))
      BY <2>1, <3>1, WriteEffect DEF Map!Set
    <3> QED BY <1>0, <2>1, <3>1, <3>2, HistoryTypes DEF Map!Set, Touched
  <2>2. CASE Map!Delete(t, k)
    <3>1. Touched(k, Map!Vacant)
      BY <2>2, EntryTypes, PlainEffect DEF Map!Delete
    <3> QED BY <1>0, <2>2, <3>1, HistoryTypes DEF Map!Delete, Touched
  <2>3. CASE Map!GetAndDelete(t, k)
    <3>1. Touched(k, Map!Vacant)
      BY <2>3, EntryTypes, PlainEffect DEF Map!GetAndDelete
    <3>2. store[k].v \in Map!Written
      BY <1>0, <2>3 DEF Map!GetAndDelete, Map!Occupied, EntryState, Map!None, Map!Written
    <3> QED BY <1>0, <2>3, <3>1, <3>2, HistoryTypes DEF Map!GetAndDelete, Touched
  <2>4. CASE Map!Increment(t, k)
    <3>1. Map!CanWrite /\ Map!Fresh \in 0 .. MaxWrites /\ clock + MapTTL \in Nat
      BY <2>4, EntryTypes DEF Map!Increment
    <3>2. PICK s \in Map!Sweeps :
            IF Map!Occupied(s, k) /\ ~Map!Expired(s, k)
            THEN /\ store' = [s EXCEPT ![k] = Map!Entry(s[k].exp)]
                 /\ UNCHANGED <<reign, clash>>
            ELSE /\ store' = [s EXCEPT ![k] = Map!Entry(clock + MapTTL)]
                 /\ Map!Created(k, clock + MapTTL)
      BY <2>4 DEF Map!Increment
    <3>3. s[k].exp \in Nat
      BY SweepEffect DEF EntryState
    <3>4. Map!Entry(s[k].exp) \in EntryState /\ Map!Entry(clock + MapTTL) \in EntryState
      BY <3>1, <3>3, EntryTypes
    <3>5. store' \in [Keys -> EntryState]
      BY <3>2, <3>4, WriteEffect DEF Touched
    <3> QED BY <1>0, <2>4, <3>1, <3>2, <3>5, HistoryTypes DEF Map!Increment
  <2>5. ASSUME NEW v \in 1 .. last, Map!CompareAndDelete(t, k, v)
        PROVE  /\ store' \in [Keys -> EntryState] /\ last' \in 0 .. MaxWrites
               /\ uses' \in [Map!Written -> Nat] /\ reign' \in [Keys -> Nat] /\ clash' \in BOOLEAN
    <3>1. PICK s \in Map!Sweeps : store' = [s EXCEPT ![k] = Map!Vacant]
      BY <2>5 DEF Map!CompareAndDelete
    <3>2. Touched(k, Map!Vacant)
      BY <3>1, EntryTypes, WriteEffect
    <3> QED BY <1>0, <2>5, <3>2, HistoryTypes DEF Map!CompareAndDelete, Touched
  <2> QED BY <2>1, <2>2, <2>3, <2>4, <2>5
<1> QED BY <1>1, <1>2 DEF MapInv

\* The steps of get, create_if_absent and claim_and_create.
LEMMA MapLong ==
    ASSUME MapInv, NEW t \in Threads,
           \/ \E k \in Keys : \/ Map!Get(t, k) \/ Map!CreateIfAbsent(t, k)
                              \/ \E v \in 1 .. last, to \in Keys : Map!ClaimCompare(t, k, v, to)
           \/ Map!GetRemove(t) \/ Map!CreateInsert(t) \/ Map!ClaimRemove(t) \/ Map!ClaimInsert(t)
    PROVE  MapInv'
<1> USE MapAssumption DEF MapAssumption
<1>0. /\ thread \in [Threads -> ThreadState] /\ thread[t] \in ThreadState /\ store \in [Keys -> EntryState]
      /\ clock' = clock /\ clock \in Nat /\ Map!None \notin Threads
      /\ last \in 0 .. MaxWrites /\ uses \in [Map!Written -> Nat] /\ reign \in [Keys -> Nat]
      /\ clash \in BOOLEAN
  BY DEF MapInv, Map!Get, Map!CreateIfAbsent, Map!ClaimCompare, Map!GetRemove, Map!CreateInsert, Map!ClaimRemove,
         Map!ClaimInsert, Map!None
<1>1. ASSUME NEW k \in Keys, Map!Get(t, k) PROVE MapInv'
  <2> DEFINE x == [pc |-> "getRemove", key |-> k, to |-> Map!None]
  <2>1. x \in ThreadState /\ x.pc = "getRemove" /\ x.key = k
    BY DEF ThreadState, ThreadPCs
  <2>2. thread' = [thread EXCEPT ![t] = x] /\ UNCHANGED <<store, lock, last, uses, reign, clash>>
    BY <1>1 DEF Map!Get
  <2>3. "get" \in OpsOn[k]
    BY <1>1 DEF Map!Get, Map!Offers
  <2> HIDE DEF x
  <2> QED BY <1>0, <2>1, <2>2, <2>3, TaskMoved DEF MapInv
<1>2. ASSUME NEW k \in Keys, Map!CreateIfAbsent(t, k) PROVE MapInv'
  <2> DEFINE x == [pc |-> "createInsert", key |-> k, to |-> Map!None]
  <2>1. x \in ThreadState /\ x.pc = "createInsert" /\ x.key = k
    BY DEF ThreadState, ThreadPCs
  <2>2. thread' = [thread EXCEPT ![t] = x] /\ UNCHANGED <<lock, last, uses, reign, clash>>
    BY <1>2 DEF Map!CreateIfAbsent
  <2>3. "create_if_absent" \in OpsOn[k]
    BY <1>2 DEF Map!CreateIfAbsent, Map!Offers
  <2>4. store' \in [Keys -> EntryState]
    BY <1>2, EntryTypes, WriteEffect DEF Map!CreateIfAbsent, Touched
  <2> HIDE DEF x
  <2> QED BY <1>0, <2>1, <2>2, <2>3, <2>4, TaskMoved DEF MapInv
<1>3. ASSUME NEW k \in Keys, NEW v \in 1 .. last, NEW to \in Keys, Map!ClaimCompare(t, k, v, to)
      PROVE MapInv'
  <2> DEFINE x == [pc |-> "claimRemove", key |-> k, to |-> to]
  <2>1. x \in ThreadState /\ x.pc = "claimRemove" /\ x.key = k /\ x.to = to
    BY DEF ThreadState, ThreadPCs
  <2>2. /\ thread' = [thread EXCEPT ![t] = x] /\ lock' = t /\ lock = Map!None
        /\ UNCHANGED <<last, reign, clash>>
    BY <1>3 DEF Map!ClaimCompare, Map!MayClaim
  <2>3. "claim_and_create" \in OpsOn[k]
    BY <1>3 DEF Map!ClaimCompare, Map!Offers
  <2>4. store' \in [Keys -> EntryState]
    BY <1>3, SweepEffect DEF Map!ClaimCompare
  <2>5. uses' \in [Map!Written -> Nat]
    BY <1>0, <1>3, HistoryTypes DEF Map!ClaimCompare, Map!Written
  <2> HIDE DEF x
  <2> QED BY <1>0, <2>1, <2>2, <2>3, <2>4, <2>5, TaskMoved DEF MapInv
<1>4. CASE Map!GetRemove(t)
  <2>1. thread[t].key \in Keys
    BY <1>4 DEF MapInv, Map!GetRemove
  <2>2. Touched(thread[t].key, Map!Vacant)
    BY <1>4, <2>1, EntryTypes, PlainEffect DEF Map!GetRemove
  <2>3. thread' = [thread EXCEPT ![t] = Map!Idle] /\ UNCHANGED <<lock, last, uses, reign, clash>>
    BY <1>4 DEF Map!GetRemove
  <2>4. Map!Idle \in ThreadState /\ Map!Idle.pc = "idle"
    BY DEF Map!Idle, ThreadState, ThreadPCs
  <2> HIDE DEF ThreadState
  <2> QED BY <1>0, <2>2, <2>3, <2>4, TaskMoved DEF MapInv, Touched
<1>5. CASE Map!CreateInsert(t)
  <2>1. thread[t].key \in Keys
    BY <1>5 DEF MapInv, Map!CreateInsert
  <2>2. Map!Entry(clock + MapTTL) \in EntryState /\ Map!Fresh \in 0 .. MaxWrites /\ clock + MapTTL \in Nat
    BY <1>5, EntryTypes DEF Map!CreateInsert
  <2>3. /\ store' \in [Keys -> EntryState] /\ last' \in 0 .. MaxWrites
        /\ reign' \in [Keys -> Nat] /\ clash' \in BOOLEAN
    <3>1. CASE Map!Inserts(thread[t].key)
      <4>1. Touched(thread[t].key, Map!Entry(clock + MapTTL))
        BY <1>5, <2>1, <2>2, <3>1, PlainEffect DEF Map!CreateInsert
      <4> QED BY <1>5, <2>1, <2>2, <3>1, <4>1, HistoryTypes DEF Map!CreateInsert, Touched
    <3>2. CASE ~Map!Inserts(thread[t].key)
      BY <1>0, <1>5, <3>2 DEF Map!CreateInsert
    <3> QED BY <3>1, <3>2
  <2>4. thread' = [thread EXCEPT ![t] = Map!Idle] /\ UNCHANGED <<lock, uses>>
    BY <1>5 DEF Map!CreateInsert
  <2>5. Map!Idle \in ThreadState /\ Map!Idle.pc = "idle"
    BY DEF Map!Idle, ThreadState, ThreadPCs
  <2> HIDE DEF ThreadState
  <2> QED BY <1>0, <2>3, <2>4, <2>5, TaskMoved DEF MapInv
<1>6. CASE Map!ClaimRemove(t)
  <2>1. /\ thread[t].key \in Keys /\ thread[t].to \in Keys /\ lock = t
        /\ "claim_and_create" \in OpsOn[thread[t].key]
    BY <1>6 DEF MapInv, Map!ClaimRemove
  <2>2. Touched(thread[t].key, Map!Vacant)
    BY <1>6, <2>1, EntryTypes, PlainEffect DEF Map!ClaimRemove
  <2> DEFINE x == [thread[t] EXCEPT !.pc = "claimInsert"]
  <2>3. thread' = [thread EXCEPT ![t] = x] /\ UNCHANGED <<lock, last, uses>>
    BY <1>6 DEF Map!ClaimRemove
  <2>4. x \in ThreadState /\ x.pc = "claimInsert" /\ x.key = thread[t].key /\ x.to = thread[t].to
    BY <1>0 DEF ThreadState, ThreadPCs
  <2>5. reign' \in [Keys -> Nat] /\ clash' \in BOOLEAN
    BY <1>6, <2>1, HistoryTypes DEF Map!ClaimRemove
  <2> HIDE DEF x
  <2> QED BY <1>0, <2>1, <2>2, <2>3, <2>4, <2>5, TaskMoved DEF MapInv, Touched
<1>7. CASE Map!ClaimInsert(t)
  <2>1. thread[t].to \in Keys /\ lock = t
    BY <1>7 DEF MapInv, Map!ClaimInsert
  <2>2. Map!Entry(clock + MapTTL) \in EntryState /\ Map!Fresh \in 0 .. MaxWrites
    BY <1>7, EntryTypes DEF Map!ClaimInsert
  <2>3. Touched(thread[t].to, Map!Entry(clock + MapTTL))
    BY <1>7, <2>1, <2>2, PlainEffect DEF Map!ClaimInsert
  <2>4. thread' = [thread EXCEPT ![t] = Map!Idle] /\ lock' = Map!None /\ last' = Map!Fresh /\ UNCHANGED uses
    BY <1>7 DEF Map!ClaimInsert
  <2>5. Map!Idle \in ThreadState /\ Map!Idle.pc = "idle"
    BY DEF Map!Idle, ThreadState, ThreadPCs
  <2>6. reign' \in [Keys -> Nat] /\ clash' \in BOOLEAN
    BY <1>7, <2>1, HistoryTypes DEF Map!ClaimInsert
  <2> HIDE DEF ThreadState
  <2> QED BY <1>0, <2>1, <2>2, <2>3, <2>4, <2>5, <2>6, TaskMoved DEF MapInv, Touched
<1> QED BY <1>1, <1>2, <1>3, <1>4, <1>5, <1>6, <1>7

\* What a compare_and_swap does: it drops an expired entry, replaces a live
\* one and keeps its expiry, or fills a vacancy.
LEMMA SwapEffect ==
    ASSUME MapInv, NEW t \in Threads, NEW k \in Keys, NEW expected \in 0 .. last,
           Map!CompareAndSwap(t, k, expected)
    PROVE  /\ UNCHANGED <<clock, lock>> /\ Map!CanWrite
           /\ \/ /\ Map!Expired(store, k) /\ Touched(k, Map!Vacant)
                 /\ \/ thread' = thread
                    \/ thread' = [thread EXCEPT ![t] = [pc |-> "swapInsert", key |-> k, to |-> Map!None]]
                 /\ UNCHANGED <<last, uses, reign, clash>>
              \/ /\ Map!Occupied(store, k) /\ store[k].v = expected /\ expected # Map!None
                 /\ "compare_and_swap" \in OpsOn[k]
                 /\ Touched(k, Map!Entry(store[k].exp))
                 /\ last' = Map!Fresh /\ Map!Spent(expected)
                 /\ UNCHANGED <<thread, reign, clash>>
              \/ /\ Touched(k, Map!Entry(Map!NoExpiry))
                 /\ last' = Map!Fresh /\ Map!Ended(k)
                 /\ UNCHANGED <<thread, uses>>
<1>1. UNCHANGED <<clock, lock>> /\ Map!CanWrite
  BY DEF Map!CompareAndSwap
<1>2. /\ Map!Vacant \in EntryState /\ Map!NoExpiry \in Nat /\ Map!Vacant.v = Map!None
      /\ \A e \in Nat : Map!Entry(e) \in EntryState
  BY <1>1, EntryTypes DEF Map!Vacant
<1>3. PICK s \in Map!Sweeps :
        \/ /\ Map!Expired(s, k)
           /\ store' = [s EXCEPT ![k] = Map!Vacant]
           /\ thread' = IF expected = Map!None
                      THEN [thread EXCEPT ![t] = [pc |-> "swapInsert", key |-> k, to |-> Map!None]]
                      ELSE thread
           /\ UNCHANGED <<last, uses, reign, clash>>
        \/ /\ Map!Occupied(s, k) /\ ~Map!Expired(s, k) /\ s[k].v = expected
           /\ store' = [s EXCEPT ![k] = Map!Entry(s[k].exp)]
           /\ last' = Map!Fresh
           /\ Map!Spent(expected)
           /\ UNCHANGED <<thread, reign, clash>>
        \/ /\ ~Map!Occupied(s, k) /\ expected = Map!None
           /\ store' = [s EXCEPT ![k] = Map!Entry(Map!NoExpiry)]
           /\ last' = Map!Fresh
           /\ Map!Ended(k)
           /\ UNCHANGED <<thread, uses>>
  BY DEF Map!CompareAndSwap
<1>4. /\ s[k].exp \in Nat
      /\ Map!Occupied(s, k) => s[k] = store[k] /\ Map!Occupied(store, k)
      /\ Map!Expired(s, k) => Map!Expired(store, k)
  <2>1. /\ s \in [Keys -> EntryState]
        /\ \/ s[k] = store[k]
           \/ s[k] = Map!Vacant
    BY SweepEffect
  <2>2. Map!Occupied(s, k) => s[k] = store[k] /\ Map!Occupied(store, k)
    BY <1>2, <2>1 DEF Map!Occupied
  <2> QED BY <2>1, <2>2 DEF Map!Expired, EntryState
<1>5. CASE /\ Map!Expired(s, k)
           /\ store' = [s EXCEPT ![k] = Map!Vacant]
           /\ thread' = IF expected = Map!None
                      THEN [thread EXCEPT ![t] = [pc |-> "swapInsert", key |-> k, to |-> Map!None]]
                      ELSE thread
           /\ UNCHANGED <<last, uses, reign, clash>>
  <2>1. Touched(k, Map!Vacant)
    BY <1>2, <1>5, WriteEffect
  <2> QED BY <1>1, <1>4, <1>5, <2>1
<1>6. CASE /\ Map!Occupied(s, k) /\ ~Map!Expired(s, k) /\ s[k].v = expected
           /\ store' = [s EXCEPT ![k] = Map!Entry(s[k].exp)]
           /\ last' = Map!Fresh
           /\ Map!Spent(expected)
           /\ UNCHANGED <<thread, reign, clash>>
  <2>1. Touched(k, Map!Entry(store[k].exp))
    BY <1>2, <1>4, <1>6, WriteEffect
  <2>2. expected # Map!None
    BY <1>6 DEF Map!Occupied
  <2>3. "compare_and_swap" \in OpsOn[k]
    BY <2>2 DEF Map!CompareAndSwap, Map!Offers
  <2> QED BY <1>1, <1>4, <1>6, <2>1, <2>2, <2>3
<1>7. CASE /\ ~Map!Occupied(s, k) /\ expected = Map!None
           /\ store' = [s EXCEPT ![k] = Map!Entry(Map!NoExpiry)]
           /\ last' = Map!Fresh
           /\ Map!Ended(k)
           /\ UNCHANGED <<thread, uses>>
  <2>1. Touched(k, Map!Entry(Map!NoExpiry))
    BY <1>2, <1>7, WriteEffect
  <2> QED BY <1>1, <1>7, <2>1
<1> QED BY <1>3, <1>5, <1>6, <1>7

\* What an increment does: it counts on, or starts a new counter where there
\* is no live one.
LEMMA IncrementEffect ==
    ASSUME MapInv, NEW t \in Threads, NEW k \in Keys, Map!Increment(t, k)
    PROVE  /\ UNCHANGED <<clock, lock, thread, uses>> /\ Map!CanWrite /\ last' = Map!Fresh
           /\ "increment" \in OpsOn[k]
           /\ \/ /\ Map!Occupied(store, k) /\ Touched(k, Map!Entry(store[k].exp))
                 /\ UNCHANGED <<reign, clash>>
              \/ /\ ~Map!Occupied(store, k) \/ Map!Expired(store, k)
                 /\ Touched(k, Map!Entry(clock + MapTTL)) /\ Map!Created(k, clock + MapTTL)
<1>1. UNCHANGED <<clock, lock, thread, uses>> /\ Map!CanWrite /\ last' = Map!Fresh /\ "increment" \in OpsOn[k]
  BY DEF Map!Increment, Map!Offers
<1>2. /\ clock + MapTTL \in Nat /\ Map!Vacant.v = Map!None
      /\ \A e \in Nat : Map!Entry(e) \in EntryState
  BY <1>1, EntryTypes DEF Map!Vacant
<1>3. PICK s \in Map!Sweeps :
        IF Map!Occupied(s, k) /\ ~Map!Expired(s, k)
        THEN /\ store' = [s EXCEPT ![k] = Map!Entry(s[k].exp)]
             /\ UNCHANGED <<reign, clash>>
        ELSE /\ store' = [s EXCEPT ![k] = Map!Entry(clock + MapTTL)]
             /\ Map!Created(k, clock + MapTTL)
  BY DEF Map!Increment
<1>4. /\ s \in [Keys -> EntryState]
      /\ \/ s[k] = store[k]
         \/ s[k] = Map!Vacant /\ Map!Expired(store, k)
  BY SweepEffect
<1>5. CASE Map!Occupied(s, k) /\ ~Map!Expired(s, k)
  <2>1. s[k] = store[k] /\ Map!Occupied(store, k) /\ s[k].exp \in Nat
    BY <1>2, <1>4, <1>5 DEF Map!Occupied, EntryState
  <2>2. Touched(k, Map!Entry(store[k].exp))
    BY <1>2, <1>3, <1>5, <2>1, WriteEffect
  <2> QED BY <1>1, <1>3, <1>5, <2>1, <2>2
<1>6. CASE ~(Map!Occupied(s, k) /\ ~Map!Expired(s, k))
  <2>1. ~Map!Occupied(store, k) \/ Map!Expired(store, k)
    BY <1>4, <1>6 DEF Map!Occupied, Map!Expired
  <2>2. Touched(k, Map!Entry(clock + MapTTL))
    BY <1>2, <1>3, <1>6, WriteEffect
  <2> QED BY <1>1, <1>3, <1>6, <2>1, <2>2
<1> QED BY <1>5, <1>6

\* The steps of compare_and_swap.
LEMMA MapSwap ==
    ASSUME MapInv, NEW t \in Threads,
           \/ \E k \in Keys, expected \in 0 .. last : Map!CompareAndSwap(t, k, expected)
           \/ Map!SwapInsert(t)
    PROVE  MapInv'
<1>0. /\ thread \in [Threads -> ThreadState] /\ thread[t] \in ThreadState
      /\ clock \in Nat /\ last \in 0 .. MaxWrites /\ uses \in [Map!Written -> Nat]
      /\ reign \in [Keys -> Nat] /\ clash \in BOOLEAN
  BY DEF MapInv
<1>1. ASSUME NEW k \in Keys, NEW expected \in 0 .. last, Map!CompareAndSwap(t, k, expected)
      PROVE  MapInv'
  <2>1. Map!CanWrite /\ UNCHANGED <<clock, lock>> /\ Map!Fresh \in 0 .. MaxWrites
    BY <1>1, SwapEffect, EntryTypes
  <2>2. CASE /\ Map!Expired(store, k) /\ Touched(k, Map!Vacant)
             /\ \/ thread' = thread
                \/ thread' = [thread EXCEPT ![t] = [pc |-> "swapInsert", key |-> k, to |-> Map!None]]
             /\ UNCHANGED <<last, uses, reign, clash>>
    <3> DEFINE x == [pc |-> "swapInsert", key |-> k, to |-> Map!None]
    <3>1. x \in ThreadState /\ x.pc = "swapInsert" /\ x.key = k
      BY DEF ThreadState, ThreadPCs
    <3>2. CASE thread' = thread
      BY <1>0, <2>1, <2>2, <3>2 DEF MapInv, Touched
    <3>3. CASE thread' = [thread EXCEPT ![t] = x]
      <4> HIDE DEF x
      <4> QED BY <1>0, <2>1, <2>2, <3>1, <3>3, TaskMoved DEF MapInv, Touched
    <3> QED BY <2>2, <3>2, <3>3
  <2>3. CASE /\ Map!Occupied(store, k) /\ store[k].v = expected /\ expected # Map!None
             /\ "compare_and_swap" \in OpsOn[k]
             /\ Touched(k, Map!Entry(store[k].exp))
             /\ last' = Map!Fresh /\ Map!Spent(expected)
             /\ UNCHANGED <<thread, reign, clash>>
    <3>1. expected \in Map!Written
      BY <1>0, <2>3, MapAssumption DEF Map!Written, Map!None, MapAssumption
    <3>2. uses' \in [Map!Written -> Nat]
      BY <2>3, <3>1, HistoryTypes
    <3> QED BY <1>0, <2>1, <2>3, <3>2 DEF MapInv, Touched
  <2>4. CASE /\ Touched(k, Map!Entry(Map!NoExpiry))
             /\ last' = Map!Fresh /\ Map!Ended(k)
             /\ UNCHANGED <<thread, uses>>
    <3>1. reign' \in [Keys -> Nat] /\ clash' \in BOOLEAN
      BY <2>4, HistoryTypes
    <3> QED BY <1>0, <2>1, <2>4, <3>1 DEF MapInv, Touched
  <2> QED BY <1>1, <2>2, <2>3, <2>4, SwapEffect
<1>2. CASE Map!SwapInsert(t)
  <2>1. thread[t].key \in Keys
    BY <1>2 DEF MapInv, Map!SwapInsert
  <2>2. Map!Entry(Map!NoExpiry) \in EntryState /\ Map!Fresh \in 0 .. MaxWrites
    BY <1>2, EntryTypes DEF Map!SwapInsert
  <2>3. Touched(thread[t].key, Map!Entry(Map!NoExpiry))
    BY <1>2, <2>1, <2>2, PlainEffect DEF Map!SwapInsert
  <2>4. thread' = [thread EXCEPT ![t] = Map!Idle] /\ last' = Map!Fresh /\ UNCHANGED <<clock, lock, uses>>
    BY <1>2 DEF Map!SwapInsert
  <2>5. Map!Idle \in ThreadState /\ Map!Idle.pc = "idle"
    BY DEF Map!Idle, ThreadState, ThreadPCs
  <2>6. reign' \in [Keys -> Nat] /\ clash' \in BOOLEAN
    BY <1>2, <2>1, HistoryTypes DEF Map!SwapInsert
  <2> HIDE DEF ThreadState
  <2> QED BY <1>0, <2>2, <2>3, <2>4, <2>5, <2>6, TaskMoved DEF MapInv, Touched
<1> QED BY <1>1, <1>2

\* An empty map satisfies MapInv.
LEMMA MapInit ==
    ASSUME Map!Init
    PROVE  MapInv
<1>1. Map!Vacant \in EntryState /\ Map!Idle \in ThreadState /\ Map!Idle.pc = "idle"
  BY MapAssumption DEF MapAssumption, Map!Vacant, Map!Idle, EntryState, ThreadState, ThreadPCs, Map!None
<1>2. store \in [Keys -> EntryState] /\ thread \in [Threads -> ThreadState]
  BY <1>1 DEF Map!Init
<1>3. \A t \in Threads : thread[t].pc = "idle"
  BY <1>1 DEF Map!Init
<1>4. clock \in Nat /\ last \in 0 .. MaxWrites /\ uses \in [Map!Written -> Nat] /\ reign \in [Keys -> Nat]
  BY MapAssumption DEF Map!Init, MapAssumption
<1> QED BY <1>2, <1>3, <1>4 DEF MapInv, Map!Init

\* Every step keeps MapInv.
LEMMA MapStep ==
    ASSUME MapInv, [Map!Next]_Map!vars
    PROVE  MapInv'
<1>1. CASE UNCHANGED Map!vars
  BY <1>1 DEF Map!vars, MapInv
<1>2. CASE Map!Tick
  BY <1>2 DEF Map!Tick, MapInv
<1>3. \A v \in 1 .. last : v \in 0 .. last
  BY DEF MapInv
<1>4. Map!None \in 0 .. last
  BY DEF MapInv, Map!None
<1> QED BY <1>1, <1>2, <1>3, <1>4, MapShort, MapLong, MapSwap DEF Map!Next

-----------------------------------------------------------------------------
(* One creator at a time. *)

\* A reign that has not ended keeps its entry: what a step does to the map is
\* to keep the entry's expiry, to drop it once expired, or to end the reign;
\* the late removal of get only meets keys that nobody creates.
LEMMA ReignMove ==
    ASSUME MapInv, MapInv', Map!CreatedUnread, ReignInv, clock' = clock, ~clash',
           \A k \in Keys :
              \/ reign'[k] = 0
              \/ /\ reign'[k] = reign[k]
                 /\ \/ store'[k] = store[k]
                    \/ Map!Occupied(store', k) /\ store'[k].exp = store[k].exp
                    \/ Map!Expired(store, k)
                    \/ "get" \in OpsOn[k]
              \/ Map!CreatorKey(k) /\ Map!Occupied(store', k) /\ store'[k].exp >= reign'[k]
    PROVE  ReignInv'
<1>1. ASSUME NEW k \in Keys, reign'[k] > clock
      PROVE  Map!CreatorKey(k) /\ Map!Occupied(store', k) /\ store'[k].exp >= reign'[k]
  <2>1. /\ clock \in Nat /\ reign[k] \in Nat /\ reign'[k] \in Nat
        /\ store[k].exp \in Nat /\ store'[k].exp \in Nat
    BY DEF MapInv, EntryState
  <2>2. reign[k] > clock => /\ Map!CreatorKey(k) /\ Map!Occupied(store, k) /\ store[k].exp >= reign[k]
                          /\ ~Map!Expired(store, k) /\ "get" \notin OpsOn[k]
    BY <2>1 DEF ReignInv, Map!Expired, Map!CreatedUnread
  <2> QED BY <1>1, <2>1, <2>2 DEF Map!Occupied
<1> QED BY <1>1 DEF ReignInv, Map!Occupied, Map!CreatorKey

\* Ending the reign of one key leaves the others.
LEMMA EndedEffect ==
    ASSUME MapInv, NEW k \in Keys, Map!Ended(k)
    PROVE  /\ reign'[k] = 0 /\ clash' = clash
           /\ \A j \in Keys : j # k => reign'[j] = reign[j]
  BY DEF MapInv, Map!Ended

\* A creation finds no reign to break.
LEMMA CreatedEffect ==
    ASSUME MapInv, ReignInv, NEW k \in Keys, ~Map!Occupied(store, k) \/ Map!Expired(store, k),
           Map!CreatorKey(k), NEW e \in Nat, Map!Created(k, e), Map!CanWrite, Touched(k, Map!Entry(e))
    PROVE  /\ ~clash'
           /\ \A j \in Keys : j # k => reign'[j] = reign[j]
           /\ Map!CreatorKey(k) /\ Map!Occupied(store', k) /\ store'[k].exp >= reign'[k]
<1>1. /\ clock \in Nat /\ reign[k] \in Nat /\ store[k].exp \in Nat
      /\ reign \in [Keys -> Nat]
  BY DEF MapInv, EntryState
<1>2. ~(reign[k] > clock)
  BY <1>1 DEF ReignInv, Map!Expired, Map!Occupied
<1>3. store'[k] = Map!Entry(e) /\ Map!Entry(e).v = last + 1 /\ Map!Entry(e).exp = e /\ last \in Nat
  BY EntryTypes DEF Touched, MapInv
<1>4. ~clash'
  BY <1>2, Zenon DEF Map!Created, ReignInv
<1>5. reign' = [reign EXCEPT ![k] = e]
  BY DEF Map!Created
<1> QED BY <1>1, <1>3, <1>4, <1>5 DEF Map!Occupied, Map!None

\* Every step keeps the reigns.
LEMMA ReignStep ==
    ASSUME MapInv, MapInv', Map!CreatedUnread, ReignInv, [Map!Next]_Map!vars
    PROVE  ReignInv'
<1> USE MapAssumption DEF MapAssumption
<1>0. ~clash /\ Map!Vacant \in EntryState
  BY EntryTypes DEF ReignInv
<1>a. ASSUME NEW k \in Keys, NEW x, Touched(k, x), Map!Ended(k), clock' = clock PROVE ReignInv'
  BY <1>0, <1>a, EndedEffect, ReignMove DEF Touched
<1>b. ASSUME NEW k \in Keys, Touched(k, Map!Vacant), Map!Expired(store, k) \/ "get" \in OpsOn[k],
             UNCHANGED <<clock, reign, clash>>
      PROVE  ReignInv'
  BY <1>0, <1>b, ReignMove DEF Touched
<1>c. ASSUME NEW k \in Keys, Map!Occupied(store, k), Map!CanWrite, Touched(k, Map!Entry(store[k].exp)),
             UNCHANGED <<clock, reign, clash>>
      PROVE  ReignInv'
  <2>1. store[k].exp \in Nat /\ last \in Nat
    BY DEF MapInv, EntryState
  <2>2. Map!Occupied(store', k) /\ store'[k].exp = store[k].exp
    BY <1>c, <2>1, EntryTypes DEF Touched, Map!Occupied, Map!None
  <2> QED BY <1>0, <1>c, <2>2, ReignMove DEF Touched
<1>d. ASSUME UNCHANGED <<store, clock, reign, clash>> PROVE ReignInv'
  BY <1>0, <1>d, ReignMove
<1>e. ASSUME NEW k \in Keys, ~Map!Occupied(store, k) \/ Map!Expired(store, k), Map!CreatorKey(k), Map!CanWrite,
             Touched(k, Map!Entry(clock + MapTTL)), Map!Created(k, clock + MapTTL), clock' = clock
      PROVE  ReignInv'
  <2>1. clock + MapTTL \in Nat
    BY EntryTypes
  <2>2. /\ ~clash'
        /\ \A j \in Keys : j # k => reign'[j] = reign[j]
        /\ Map!CreatorKey(k) /\ Map!Occupied(store', k) /\ store'[k].exp >= reign'[k]
    BY <1>e, <2>1, CreatedEffect
  <2> QED BY <1>e, <2>2, ReignMove DEF Touched
<1>f. ASSUME NEW s \in Map!Sweeps, store' = s, UNCHANGED <<clock, reign, clash>> PROVE ReignInv'
  BY <1>0, <1>f, SweepEffect, ReignMove
<1>1. ASSUME NEW t \in Threads, NEW k \in Keys, Map!Get(t, k) PROVE ReignInv'
  BY <1>1, <1>d DEF Map!Get
<1>2. ASSUME NEW t \in Threads, Map!GetRemove(t) PROVE ReignInv'
  <2>1. thread[t].key \in Keys /\ "get" \in OpsOn[thread[t].key]
    BY <1>2 DEF Map!GetRemove, MapInv
  <2>2. Touched(thread[t].key, Map!Vacant)
    BY <1>0, <1>2, <2>1, PlainEffect DEF Map!GetRemove
  <2> QED BY <1>2, <1>b, <2>1, <2>2 DEF Map!GetRemove
<1>3. ASSUME NEW t \in Threads, NEW k \in Keys, Map!Set(t, k) PROVE ReignInv'
  <2>1. Map!Entry(clock + MapTTL) \in EntryState
    BY <1>3, EntryTypes DEF Map!Set
  <2>2. Touched(k, Map!Entry(clock + MapTTL))
    BY <1>3, <2>1, WriteEffect DEF Map!Set
  <2> QED BY <1>3, <1>a, <2>2 DEF Map!Set
<1>4. ASSUME NEW t \in Threads, NEW k \in Keys, Map!Delete(t, k) PROVE ReignInv'
  <2>1. Touched(k, Map!Vacant)
    BY <1>0, <1>4, PlainEffect DEF Map!Delete
  <2> QED BY <1>4, <1>a, <2>1 DEF Map!Delete
<1>5. ASSUME NEW t \in Threads, NEW k \in Keys, Map!GetAndDelete(t, k) PROVE ReignInv'
  <2>1. Touched(k, Map!Vacant)
    BY <1>0, <1>5, PlainEffect DEF Map!GetAndDelete
  <2> QED BY <1>5, <1>a, <1>b, <2>1 DEF Map!GetAndDelete
<1>6. ASSUME NEW t \in Threads, NEW k \in Keys, NEW v \in 1 .. last, Map!CompareAndDelete(t, k, v)
      PROVE ReignInv'
  <2>1. PICK s \in Map!Sweeps : /\ store' = [s EXCEPT ![k] = Map!Vacant]
                            /\ \/ Map!Expired(s, k) /\ UNCHANGED <<reign, clash>>
                               \/ Map!Ended(k)
    BY <1>6 DEF Map!CompareAndDelete
  <2>2. Touched(k, Map!Vacant) /\ clock' = clock
    BY <1>0, <1>6, <2>1, WriteEffect DEF Map!CompareAndDelete
  <2>3. Map!Expired(s, k) => Map!Expired(store, k)
    BY SweepEffect DEF Map!Expired, Map!Occupied, Map!Vacant
  <2> QED BY <1>a, <1>b, <2>1, <2>2, <2>3
<1>7. ASSUME NEW t \in Threads, NEW k \in Keys, Map!CreateIfAbsent(t, k) PROVE ReignInv'
  <2>1. PICK s \in Map!Sweeps : /\ ~Map!Occupied(s, k) \/ Map!Expired(s, k)
                            /\ store' = [s EXCEPT ![k] = Map!Vacant]
    BY <1>7 DEF Map!CreateIfAbsent
  <2>2. Touched(k, Map!Vacant) /\ UNCHANGED <<clock, reign, clash>>
    BY <1>0, <1>7, <2>1, WriteEffect DEF Map!CreateIfAbsent
  <2>3. Map!Expired(store, k) \/ ~Map!Occupied(store, k)
    BY <2>1, SweepEffect DEF Map!Expired, Map!Occupied
  <2>4. CASE Map!Expired(store, k)
    BY <1>b, <2>2, <2>4
  <2>5. CASE ~Map!Occupied(store, k)
    <3>1. ~(reign[k] > clock)
      BY <2>5 DEF ReignInv
    <3>2. ASSUME NEW j \in Keys, reign'[j] > clock'
          PROVE  Map!CreatorKey(j) /\ Map!Occupied(store', j) /\ store'[j].exp >= reign'[j]
      <4>1. j # k /\ reign[j] > clock
        BY <2>2, <3>1, <3>2
      <4>2. store[j].exp \in Nat /\ reign[j] \in Nat /\ clock \in Nat
        BY DEF MapInv, EntryState
      <4>3. ~Map!Expired(store, j) /\ Map!CreatorKey(j) /\ Map!Occupied(store, j) /\ store[j].exp >= reign[j]
        BY <4>1, <4>2 DEF ReignInv, Map!Expired
      <4>4. store'[j] = store[j]
        BY <2>2, <4>1, <4>3 DEF Touched
      <4> QED BY <2>2, <4>3, <4>4 DEF Map!Occupied
    <3> QED BY <1>0, <2>2, <3>2 DEF ReignInv, Map!Occupied, Map!CreatorKey
  <2> QED BY <2>3, <2>4, <2>5
<1>8. ASSUME NEW t \in Threads, Map!CreateInsert(t) PROVE ReignInv'
  <2>1. thread[t].key \in Keys /\ Map!CreatorKey(thread[t].key)
    BY <1>8 DEF Map!CreateInsert, MapInv, Map!CreatorKey
  <2>2. CASE Map!Inserts(thread[t].key)
    <3>1. Map!Entry(clock + MapTTL) \in EntryState
      BY <1>8, EntryTypes DEF Map!CreateInsert
    <3>2. Touched(thread[t].key, Map!Entry(clock + MapTTL))
      BY <1>8, <2>1, <2>2, <3>1, PlainEffect DEF Map!CreateInsert
    <3> QED BY <1>8, <1>e, <2>1, <2>2, <3>2 DEF Map!CreateInsert, Map!Inserts
  <2>3. CASE ~Map!Inserts(thread[t].key)
    BY <1>8, <1>d, <2>3 DEF Map!CreateInsert
  <2> QED BY <2>2, <2>3
<1>9. ASSUME NEW t \in Threads, NEW k \in Keys, NEW v \in 1 .. last, NEW to \in Keys,
             Map!ClaimCompare(t, k, v, to)
      PROVE ReignInv'
  BY <1>9, <1>f DEF Map!ClaimCompare
<1>10. ASSUME NEW t \in Threads, Map!ClaimRemove(t) PROVE ReignInv'
  <2>1. thread[t].key \in Keys
    BY <1>10 DEF Map!ClaimRemove, MapInv
  <2>2. Touched(thread[t].key, Map!Vacant)
    BY <1>0, <1>10, <2>1, PlainEffect DEF Map!ClaimRemove
  <2> QED BY <1>10, <1>a, <2>1, <2>2 DEF Map!ClaimRemove
<1>11. ASSUME NEW t \in Threads, Map!ClaimInsert(t) PROVE ReignInv'
  <2>1. thread[t].to \in Keys
    BY <1>11 DEF Map!ClaimInsert, MapInv
  <2>2. Map!Entry(clock + MapTTL) \in EntryState
    BY <1>11, EntryTypes DEF Map!ClaimInsert
  <2>3. Touched(thread[t].to, Map!Entry(clock + MapTTL))
    BY <1>11, <2>1, <2>2, PlainEffect DEF Map!ClaimInsert
  <2> QED BY <1>11, <1>a, <2>1, <2>3 DEF Map!ClaimInsert
<1>12. ASSUME NEW t \in Threads, NEW k \in Keys, NEW v \in 0 .. last, Map!CompareAndSwap(t, k, v)
       PROVE ReignInv'
  BY <1>12, <1>a, <1>b, <1>c, SwapEffect
<1>13. ASSUME NEW t \in Threads, Map!SwapInsert(t) PROVE ReignInv'
  <2>1. thread[t].key \in Keys
    BY <1>13 DEF Map!SwapInsert, MapInv
  <2>2. Map!Entry(Map!NoExpiry) \in EntryState
    BY <1>13, EntryTypes DEF Map!SwapInsert
  <2>3. Touched(thread[t].key, Map!Entry(Map!NoExpiry))
    BY <1>13, <2>1, <2>2, PlainEffect DEF Map!SwapInsert
  <2> QED BY <1>13, <1>a, <2>1, <2>3 DEF Map!SwapInsert
<1>14. ASSUME NEW t \in Threads, NEW k \in Keys, Map!Increment(t, k) PROVE ReignInv'
  <2>1. Map!CreatorKey(k)
    BY <1>14, IncrementEffect DEF Map!CreatorKey
  <2> QED BY <1>14, <1>c, <1>e, <2>1, IncrementEffect
<1>15. CASE Map!Tick
  <2>1. clock \in Nat /\ reign \in [Keys -> Nat]
    BY DEF MapInv
  <2> QED BY <1>15, <2>1 DEF Map!Tick, ReignInv, Map!Occupied, Map!CreatorKey
<1>16. CASE UNCHANGED Map!vars
  BY <1>16, <1>d DEF Map!vars
<1>17. (\A v \in 1 .. last : v \in 0 .. last) /\ Map!None \in 0 .. last
  BY DEF MapInv, Map!None
<1> QED BY <1>1, <1>2, <1>3, <1>4, <1>5, <1>6, <1>7, <1>8, <1>9, <1>10, <1>11, <1>12, <1>13,
           <1>14, <1>15, <1>16, <1>17 DEF Map!Next

\* A key that is created by create_if_absent or increment has no second
\* creator before the first one's entry expires or is given up, if the key is
\* not read with get.
THEOREM CreatorsAlone == Map!CreatedUnread => (Map!Spec => []OneCreator)
<1> SUFFICES ASSUME Map!CreatedUnread PROVE Map!Spec => []OneCreator
  OBVIOUS
<1>1. Map!Init => MapInv /\ ReignInv
  <2>1. ASSUME Map!Init PROVE ReignInv
    <3>1. ~clash
      BY <2>1 DEF Map!Init
    <3>2. \A k \in Keys : ~(reign[k] > clock)
      BY <2>1 DEF Map!Init
    <3> QED BY <3>1, <3>2 DEF ReignInv
  <2> QED BY <2>1, MapInit
<1>2. MapInv /\ ReignInv /\ [Map!Next]_Map!vars => MapInv' /\ ReignInv'
  BY MapStep, ReignStep
<1>3. ReignInv => OneCreator
  BY DEF ReignInv, OneCreator, Map!OneCreator
<1> QED BY <1>1, <1>2, <1>3, PTL DEF Map!Spec

-----------------------------------------------------------------------------
(* Values are used once. *)

\* A value that is spent was not spent before and is not in the map
\* afterwards, or its claim is pending; a claim that is over has removed it.
LEMMA UseMove ==
    ASSUME MapInv, MapInv', UseInv, NEW k \in Keys,
           last' \in {last, last + 1},
           \/ store'[k].v \in {Map!None, store[k].v}
           \/ store'[k].v = last + 1 /\ last' = last + 1,
           \A j \in Keys : j # k => store'[j].v \in {Map!None, store[j].v},
           \/ uses' = uses
           \/ \E v \in Map!Written : /\ v <= last /\ uses[v] = 0
                                 /\ uses' = [uses EXCEPT ![v] = @ + 1]
                                 /\ \A j \in Keys : store'[j].v = v => Claiming(j)',
           \A j \in Keys : Claiming(j) => Claiming(j)' \/ store'[j].v = Map!None
    PROVE  UseInv'
<1>0. /\ last \in Nat /\ \A j \in Keys : store[j].v \in Nat /\ store'[j].v \in Nat
      /\ uses \in [Map!Written -> Nat] /\ uses' \in [Map!Written -> Nat]
      /\ \A j \in Keys : Map!Occupied(store', j) => store'[j].v \in Map!Written
      /\ \A v \in Map!Written : v \in Nat
  BY MapAssumption, SMTT(30) DEF MapInv, EntryState, Map!Written, Map!Occupied, Map!None, MapAssumption
<1>1. \A j \in Keys : store'[j].v <= last'
  BY <1>0 DEF UseInv, Map!None
<1>2. \A i, j \in Keys : store'[i].v = store'[j].v /\ store'[j].v # Map!None => i = j
  <2>1. \A j \in Keys : store[j].v <= last /\ store[j].v # last + 1
    BY <1>0 DEF UseInv
  <2> QED BY <1>0, <2>1 DEF UseInv
<1>3. \A v \in Map!Written : uses'[v] <= 1 /\ (v > last' => uses'[v] = 0)
  BY <1>0 DEF UseInv
<1>4. ASSUME NEW j \in Keys, Map!Occupied(store', j), uses'[store'[j].v] = 1
      PROVE  Claiming(j)'
  <2>1. store'[j].v # Map!None /\ store'[j].v \in Map!Written
    BY <1>0, <1>4 DEF Map!Occupied
  <2>2. CASE uses[store'[j].v] = 1
    <3>1. store'[j].v = store[j].v
      <4>1. store'[j].v <= last
        BY <1>0, <2>1, <2>2 DEF UseInv
      <4> QED BY <1>0, <2>1, <4>1
    <3>2. Map!Occupied(store, j) /\ uses[store[j].v] = 1
      BY <2>1, <2>2, <3>1 DEF Map!Occupied
    <3>3. Claiming(j)
      BY <3>2 DEF UseInv
    <3> QED BY <2>1, <3>3
  <2>3. CASE uses[store'[j].v] # 1
    BY <1>0, <1>4, <2>1, <2>3
  <2> QED BY <2>2, <2>3
<1> QED BY <1>1, <1>2, <1>3, <1>4 DEF UseInv, Map!Occupied

\* A task that was not about to remove a claimed entry takes no claim away.
LEMMA ClaimKept ==
    ASSUME MapInv, NEW t \in Threads, NEW x, thread' = thread \/ thread' = [thread EXCEPT ![t] = x],
           thread[t].pc # "claimRemove", NEW j \in Keys, Claiming(j)
    PROVE  Claiming(j)'
<1>1. PICK u \in Threads : thread[u].pc = "claimRemove" /\ thread[u].key = j
  BY DEF Claiming
<1>2. thread'[u] = thread[u]
  BY <1>1 DEF MapInv
<1> QED BY <1>1, <1>2 DEF Claiming

\* Every step keeps values single-use.
LEMMA UseStep ==
    ASSUME MapInv, MapInv', Map!ClaimedAlone, UseInv, [Map!Next]_Map!vars
    PROVE  UseInv'
<1> USE MapAssumption DEF MapAssumption
<1>0. /\ Map!Vacant \in EntryState /\ Map!Vacant.v = Map!None /\ last \in Nat /\ Map!None \notin Threads
      /\ \A v \in 1 .. last : v \in Map!Written /\ v <= last
      /\ \A k \in Keys : store[k].v \in Nat /\ store[k].exp \in Nat
      /\ \A k \in Keys : Map!Occupied(store, k) => store[k].v \in Map!Written /\ store[k].v <= last
  BY EntryTypes, SMTT(30) DEF MapInv, Map!Vacant, Map!None, Map!Written, EntryState, Map!Occupied, UseInv
<1>k. ASSUME NEW k \in Keys, NEW x, Touched(k, x)
      PROVE  \A j \in Keys : j # k => store'[j].v \in {Map!None, store[j].v}
  BY <1>0, <1>k DEF Touched
\* Of a key that is not claimed, a value in the map was not used yet.
<1>u. ASSUME NEW k \in Keys, ~Claiming(k), Map!Occupied(store, k) PROVE uses[store[k].v] = 0
  <2>1. uses[store[k].v] \in Nat /\ uses[store[k].v] <= 1 /\ uses[store[k].v] # 1
    BY <1>0, <1>u DEF MapInv, UseInv
  <2> QED BY <2>1
<1>n. ASSUME NEW k \in Keys, \/ "get_and_delete" \in OpsOn[k] \/ "compare_and_delete" \in OpsOn[k]
                             \/ "compare_and_swap" \in OpsOn[k]
      PROVE  ~Claiming(k)
  BY <1>n DEF Claiming, MapInv, Map!ClaimedAlone
\* A write or removal that spends nothing, by a task that claims nothing.
<1>a. ASSUME NEW t \in Threads, NEW y, thread' = thread \/ thread' = [thread EXCEPT ![t] = y],
             thread[t].pc # "claimRemove", NEW k \in Keys, NEW x, Touched(k, x), uses' = uses,
             \/ x.v = Map!None /\ last' = last
             \/ x.v = last + 1 /\ last' = Map!Fresh
      PROVE  UseInv'
  <2>1. \A j \in Keys : Claiming(j) => Claiming(j)'
    BY <1>a, ClaimKept
  <2>2. /\ last' \in {last, last + 1}
        /\ \/ store'[k].v \in {Map!None, store[k].v}
           \/ store'[k].v = last + 1 /\ last' = last + 1
    BY <1>a DEF Touched, Map!Fresh
  <2>3. \A j \in Keys : j # k => store'[j].v \in {Map!None, store[j].v}
    BY <1>a, <1>k
  <2> QED BY <1>a, <2>1, <2>2, <2>3, UseMove
\* A removal or replacement that spends the value under an unclaimed key.
<1>b. ASSUME NEW t \in Threads, thread' = thread, thread[t].pc # "claimRemove", NEW k \in Keys, ~Claiming(k),
             Map!Occupied(store, k), NEW x, Touched(k, x), Map!Spent(store[k].v),
             \/ x.v = Map!None /\ last' = last
             \/ x.v = last + 1 /\ last' = Map!Fresh
      PROVE  UseInv'
  <2>1. \A j \in Keys : Claiming(j) => Claiming(j)'
    BY <1>b, ClaimKept
  <2>2. /\ last' \in {last, last + 1}
        /\ \/ store'[k].v \in {Map!None, store[k].v}
           \/ store'[k].v = last + 1 /\ last' = last + 1
    BY <1>b DEF Touched, Map!Fresh
  <2>3. \A j \in Keys : j # k => store'[j].v \in {Map!None, store[j].v}
    BY <1>b, <1>k
  <2>4. PICK v \in Map!Written : v = store[k].v /\ v <= last /\ uses[v] = 0 /\ v # Map!None
    BY <1>0, <1>b, <1>u DEF Map!Occupied
  <2>5. uses' = [uses EXCEPT ![v] = @ + 1]
    BY <1>b, <2>4 DEF Map!Spent
  <2>6. \A j \in Keys : store'[j].v # v
    <3>1. store'[k].v # v
      BY <1>0, <1>b, <2>4 DEF Touched
    <3>2. \A j \in Keys : j # k => store[j].v # v
      BY <2>4 DEF UseInv
    <3> QED BY <2>3, <2>4, <3>1, <3>2
  <2> QED BY <2>1, <2>2, <2>3, <2>4, <2>5, <2>6, UseMove
<1>c. ASSUME Map!CanWrite, NEW e \in Nat PROVE Map!Entry(e) \in EntryState /\ Map!Entry(e).v = last + 1
  BY <1>c, EntryTypes
<1>d. clock + MapTTL \in Nat /\ Map!NoExpiry \in Nat
  BY EntryTypes
<1>1. ASSUME NEW t \in Threads, NEW k \in Keys, Map!Get(t, k) PROVE UseInv'
  <2>1. \A j \in Keys : Claiming(j) => Claiming(j)'
    BY <1>1, ClaimKept DEF Map!Get, Map!Offers
  <2> QED BY <1>1, <2>1, UseMove DEF Map!Get
<1>2. ASSUME NEW t \in Threads, Map!GetRemove(t) PROVE UseInv'
  <2>1. thread[t].key \in Keys
    BY <1>2 DEF Map!GetRemove, MapInv
  <2>2. Touched(thread[t].key, Map!Vacant)
    BY <1>0, <1>2, <2>1, PlainEffect DEF Map!GetRemove
  <2> QED BY <1>0, <1>2, <1>a, <2>1, <2>2 DEF Map!GetRemove
<1>3. ASSUME NEW t \in Threads, NEW k \in Keys, Map!Set(t, k) PROVE UseInv'
  <2>1. Touched(k, Map!Entry(clock + MapTTL))
    BY <1>3, <1>c, <1>d, WriteEffect DEF Map!Set
  <2> QED BY <1>3, <1>a, <1>c, <1>d, <2>1 DEF Map!Set, Map!Offers
<1>4. ASSUME NEW t \in Threads, NEW k \in Keys, Map!Delete(t, k) PROVE UseInv'
  <2>1. Touched(k, Map!Vacant)
    BY <1>0, <1>4, PlainEffect DEF Map!Delete
  <2> QED BY <1>0, <1>4, <1>a, <2>1 DEF Map!Delete, Map!Offers
<1>5. ASSUME NEW t \in Threads, NEW k \in Keys, Map!GetAndDelete(t, k) PROVE UseInv'
  <2>1. Touched(k, Map!Vacant)
    BY <1>0, <1>5, PlainEffect DEF Map!GetAndDelete
  <2>2. ~Claiming(k)
    BY <1>5, <1>n DEF Map!GetAndDelete, Map!Offers
  <2>3. CASE Map!Expired(store, k)
    BY <1>0, <1>5, <1>a, <2>1, <2>3 DEF Map!GetAndDelete, Map!Offers
  <2>4. CASE ~Map!Expired(store, k)
    BY <1>0, <1>5, <1>b, <2>1, <2>2, <2>4 DEF Map!GetAndDelete, Map!Offers
  <2> QED BY <2>3, <2>4
<1>6. ASSUME NEW t \in Threads, NEW k \in Keys, NEW v \in 1 .. last, Map!CompareAndDelete(t, k, v)
      PROVE UseInv'
  <2>1. PICK s \in Map!Sweeps : /\ store' = [s EXCEPT ![k] = Map!Vacant]
                            /\ \/ uses' = uses
                               \/ s[k].v = v /\ Map!Spent(v)
    BY <1>6 DEF Map!CompareAndDelete
  <2>2. /\ Touched(k, Map!Vacant) /\ thread' = thread /\ last' = last /\ thread[t].pc = "idle"
        /\ "compare_and_delete" \in OpsOn[k]
    BY <1>0, <1>6, <2>1, WriteEffect DEF Map!CompareAndDelete, Map!Offers
  <2>3. CASE uses' = uses
    BY <1>0, <1>a, <2>2, <2>3
  <2>4. CASE s[k].v = v /\ Map!Spent(v)
    <3>1. v # Map!None
      BY DEF Map!None
    <3>2. store[k].v = v /\ Map!Occupied(store, k)
      BY <1>0, <2>4, <3>1, SweepEffect DEF Map!Occupied
    <3> QED BY <1>0, <1>b, <1>n, <2>2, <2>4, <3>2
  <2> QED BY <2>1, <2>3, <2>4
<1>7. ASSUME NEW t \in Threads, NEW k \in Keys, Map!CreateIfAbsent(t, k) PROVE UseInv'
  <2>1. Touched(k, Map!Vacant)
    BY <1>0, <1>7, WriteEffect DEF Map!CreateIfAbsent
  <2> QED BY <1>0, <1>7, <1>a, <2>1 DEF Map!CreateIfAbsent, Map!Offers
<1>8. ASSUME NEW t \in Threads, Map!CreateInsert(t) PROVE UseInv'
  <2>1. thread[t].key \in Keys
    BY <1>8 DEF Map!CreateInsert, MapInv
  <2>2. CASE Map!Inserts(thread[t].key)
    <3>1. Touched(thread[t].key, Map!Entry(clock + MapTTL))
      BY <1>8, <1>c, <1>d, <2>1, <2>2, PlainEffect DEF Map!CreateInsert
    <3> QED BY <1>8, <1>a, <1>c, <1>d, <2>1, <2>2, <3>1 DEF Map!CreateInsert
  <2>3. CASE ~Map!Inserts(thread[t].key)
    <3>1. \A j \in Keys : Claiming(j) => Claiming(j)'
      BY <1>8, ClaimKept DEF Map!CreateInsert
    <3> QED BY <1>8, <2>1, <2>3, <3>1, UseMove DEF Map!CreateInsert
  <2> QED BY <2>2, <2>3
<1>9. ASSUME NEW t \in Threads, NEW k \in Keys, NEW v \in 1 .. last, NEW to \in Keys,
             Map!ClaimCompare(t, k, v, to)
      PROVE UseInv'
  <2>1. \A j \in Keys : ~Claiming(j)
    BY <1>0, <1>9 DEF Map!ClaimCompare, Map!MayClaim, MapInv, Claiming
  <2>2. \A j \in Keys : store'[j].v \in {Map!None, store[j].v}
    BY <1>0, <1>9, SweepEffect DEF Map!ClaimCompare
  <2>3. v # Map!None /\ store[k].v = v /\ Map!Occupied(store, k)
    BY <1>0, <1>9, SweepEffect DEF Map!ClaimCompare, Map!Occupied, Map!None
  <2>4. uses[v] = 0 /\ v \in Map!Written /\ v <= last
    BY <1>0, <1>u, <2>1, <2>3
  <2>5. uses' = [uses EXCEPT ![v] = @ + 1] /\ last' = last
    BY <1>9 DEF Map!ClaimCompare, Map!Spent
  <2>6. \A j \in Keys : store'[j].v = v => j = k
    BY <2>2, <2>3 DEF UseInv
  <2>7. Claiming(k)'
    <3>1. thread' = [thread EXCEPT ![t] = [pc |-> "claimRemove", key |-> k, to |-> to]]
      BY <1>9 DEF Map!ClaimCompare
    <3> QED BY <3>1 DEF Claiming, MapInv
  <2> QED BY <2>1, <2>2, <2>4, <2>5, <2>6, <2>7, UseMove
<1>10. ASSUME NEW t \in Threads, Map!ClaimRemove(t) PROVE UseInv'
  <2>1. PICK k \in Keys : k = thread[t].key
    BY <1>10 DEF Map!ClaimRemove, MapInv
  <2>2. Touched(k, Map!Vacant) /\ UNCHANGED <<last, uses>>
    BY <1>0, <1>10, <2>1, PlainEffect DEF Map!ClaimRemove
  <2>3. ASSUME NEW j \in Keys, Claiming(j) PROVE Claiming(j)' \/ store'[j].v = Map!None
    <3>1. PICK u \in Threads : thread[u].pc = "claimRemove" /\ thread[u].key = j
      BY <2>3 DEF Claiming
    <3>2. CASE u = t
      BY <1>0, <2>1, <2>2, <3>1, <3>2 DEF Touched
    <3>3. CASE u # t
      BY <1>10, <3>1, <3>3 DEF Map!ClaimRemove, Claiming, MapInv
    <3> QED BY <3>2, <3>3
  <2>4. \A j \in Keys : j # k => store'[j].v \in {Map!None, store[j].v}
    BY <1>k, <2>2
  <2>5. store'[k].v = Map!None
    BY <1>0, <2>2 DEF Touched
  <2> QED BY <2>2, <2>3, <2>4, <2>5, UseMove
<1>11. ASSUME NEW t \in Threads, Map!ClaimInsert(t) PROVE UseInv'
  <2>1. thread[t].to \in Keys
    BY <1>11 DEF Map!ClaimInsert, MapInv
  <2>2. Touched(thread[t].to, Map!Entry(clock + MapTTL))
    BY <1>11, <1>c, <1>d, <2>1, PlainEffect DEF Map!ClaimInsert
  <2> QED BY <1>11, <1>a, <1>c, <1>d, <2>1, <2>2 DEF Map!ClaimInsert
<1>12. ASSUME NEW t \in Threads, NEW k \in Keys, NEW v \in 0 .. last, Map!CompareAndSwap(t, k, v)
       PROVE UseInv'
  <2>0. thread[t].pc # "claimRemove"
    BY <1>12 DEF Map!CompareAndSwap, Map!Offers
  <2>1. CASE /\ Map!Expired(store, k) /\ Touched(k, Map!Vacant)
             /\ \/ thread' = thread
                \/ thread' = [thread EXCEPT ![t] = [pc |-> "swapInsert", key |-> k, to |-> Map!None]]
             /\ UNCHANGED <<last, uses, reign, clash>>
    BY <1>0, <1>a, <2>0, <2>1
  <2>2. CASE /\ Map!Occupied(store, k) /\ store[k].v = v /\ v # Map!None
             /\ "compare_and_swap" \in OpsOn[k]
             /\ Touched(k, Map!Entry(store[k].exp))
             /\ last' = Map!Fresh /\ Map!Spent(v)
             /\ UNCHANGED <<thread, reign, clash>>
    <3>1. Map!CanWrite
      BY <1>12, SwapEffect
    <3> QED BY <1>0, <1>b, <1>c, <1>n, <2>0, <2>2, <3>1
  <2>3. CASE /\ Touched(k, Map!Entry(Map!NoExpiry))
             /\ last' = Map!Fresh /\ Map!Ended(k)
             /\ UNCHANGED <<thread, uses>>
    <3>1. Map!CanWrite
      BY <1>12, SwapEffect
    <3> QED BY <1>a, <1>c, <1>d, <2>0, <2>3, <3>1
  <2> QED BY <1>12, <2>1, <2>2, <2>3, SwapEffect
<1>13. ASSUME NEW t \in Threads, Map!SwapInsert(t) PROVE UseInv'
  <2>1. thread[t].key \in Keys
    BY <1>13 DEF Map!SwapInsert, MapInv
  <2>2. Touched(thread[t].key, Map!Entry(Map!NoExpiry))
    BY <1>13, <1>c, <1>d, <2>1, PlainEffect DEF Map!SwapInsert
  <2> QED BY <1>13, <1>a, <1>c, <1>d, <2>1, <2>2 DEF Map!SwapInsert
<1>14. ASSUME NEW t \in Threads, NEW k \in Keys, Map!Increment(t, k) PROVE UseInv'
  <2>1. thread[t].pc # "claimRemove"
    BY <1>14 DEF Map!Increment, Map!Offers
  <2> QED BY <1>0, <1>14, <1>a, <1>c, <1>d, <2>1, IncrementEffect
<1>15. CASE UNCHANGED Map!vars \/ Map!Tick
  BY <1>15 DEF Map!vars, Map!Tick, UseInv, Map!Occupied, Claiming
<1>16. (\A v \in 1 .. last : v \in 0 .. last) /\ Map!None \in 0 .. last
  BY <1>0 DEF Map!None
<1> QED BY <1>1, <1>2, <1>3, <1>4, <1>5, <1>6, <1>7, <1>8, <1>9, <1>10, <1>11, <1>12, <1>13,
           <1>14, <1>15, <1>16 DEF Map!Next

\* A value is taken, claimed or swapped by one caller at most, if the keys
\* that are claimed are not taken or swapped as well.
THEOREM ValuesUsedOnce == Map!ClaimedAlone => (Map!Spec => []SingleUse)
<1> SUFFICES ASSUME Map!ClaimedAlone PROVE Map!Spec => []SingleUse
  OBVIOUS
<1>1. Map!Init => MapInv /\ UseInv
  <2>1. Map!Init => MapInv
    BY MapInit
  <2>2. Map!Init => UseInv
    BY MapAssumption DEF Map!Init, UseInv, MapAssumption, Map!Vacant, Map!None, Map!Written, Map!Occupied
  <2> QED BY <2>1, <2>2
<1>2. MapInv /\ UseInv /\ [Map!Next]_Map!vars => MapInv' /\ UseInv'
  BY MapStep, UseStep
<1>3. UseInv => SingleUse
  BY DEF UseInv, SingleUse, Map!SingleUse
<1> QED BY <1>1, <1>2, <1>3, PTL DEF Map!Spec

=============================================================================
