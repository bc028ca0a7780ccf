----------------------------- MODULE SigningKeys -----------------------------
(***************************************************************************)
(* The signing keys of a cluster: first boot under a lock in the shared    *)
(* cache, every node's copy of the key table and the task that refreshes   *)
(* it (issuerd-server/src/state.rs), rotation and disabling by an admin    *)
(* (issuerd-admin-api/src/keys.rs).                                        *)
(*                                                                         *)
(* Keys are numbered in the order they are created.  Rows of the table are *)
(* never deleted.                                                          *)
(***************************************************************************)
EXTENDS Naturals, FiniteSets

CONSTANTS
    Nodes,       \* servers of the cluster
    Admins,      \* admin requests in flight at a time
    Algs,        \* signature algorithms
    DefaultAlg,  \* the server default; the other algorithm of the initial pair is MtiAlg
    MtiAlg,      \* RS256, mandatory to implement
    LockTTL,     \* SIGNING_KEY_BOOTSTRAP_LOCK_TTL
    MaxKeys,     \* bound on keys created
    MaxTime,     \* bound on the clock
    MaxChanges,  \* bound on admin requests
    MaxCrashes   \* bound on crashes and failed calls

VARIABLES
    now,       \* the clock
    table,     \* signing_keys: a set of rows [kid, alg, active]
    lock,      \* signing-key bootstrap lock, [owner, exp]
    node,      \* every node: where its boot is, the key store in force, the
               \* fingerprint it was last compared with, and the rows the
               \* refresh task has just read
    admin,     \* what each admin request is about to do
    hist       \* history: see InitHist

vars == <<now, table, lock, node, admin, hist>>

Down   == [pc |-> "down", keys |-> {}, mark |-> {}, read |-> {}, reading |-> FALSE]
NoLock == [owner |-> "none", exp |-> 0]
IdleAdmin == [pc |-> "idle", alg |-> "none", kid |-> 0, rows |-> {}]

\* made: keys created; generators: boots that found no key and made the initial pair; overrun: a boot outlived
\* its lock; broken: a boot died or failed half way; crossed: two admin requests
\* overlapped; changes, crashes: how much of each bound is used up.
InitHist == [made |-> 0, generators |-> 0, overrun |-> FALSE, broken |-> FALSE,
             crossed |-> FALSE, changes |-> 0, crashes |-> 0]

Init ==
    /\ now = 0
    /\ table = {}
    /\ lock = NoLock
    /\ node = [n \in Nodes |-> Down]
    /\ admin = [a \in Admins |-> IdleAdmin]
    /\ hist = InitHist

Active(rows) == {k \in rows : k.active}

\* create_signing_key: a new row, active.
Created(alg) == table \cup {[kid |-> hist.made + 1, alg |-> alg, active |-> TRUE]}

\* update_signing_key with active = FALSE, for the rows with these numbers.
Demoted(rows, kids) == {[k EXCEPT !.active = @ /\ k.kid \notin kids] : k \in rows}

AtNode(n, pc) == node' = [node EXCEPT ![n] = [@ EXCEPT !.pc = pc]]

-----------------------------------------------------------------------------
(* Boot *)

Start(n) ==
    /\ node[n].pc = "down"
    /\ AtNode(n, "lock")
    /\ UNCHANGED <<now, table, lock, admin, hist>>

\* Every node goes ahead.
BugAcquires(n) == TRUE

\* create_if_absent on the lock, tried again until it succeeds.
Acquires(n) == lock.exp <= now

\* acquire_signing_key_bootstrap_lock; giving up is a crash of the boot.
Acquire(n) ==
    /\ node[n].pc = "lock" /\ Acquires(n)
    /\ lock' = [owner |-> n, exp |-> now + LockTTL]
    /\ AtNode(n, "list")
    /\ UNCHANGED <<now, table, admin, hist>>

\* load_or_create_signing_keys reads the table.
ListKeys(n) ==
    /\ node[n].pc = "list"
    /\ IF table = {}
       THEN /\ AtNode(n, "create")
            /\ hist' = [hist EXCEPT !.generators = @ + 1]
       ELSE /\ node' = [node EXCEPT ![n] = [@ EXCEPT !.pc = "release", !.read = table]]
            /\ UNCHANGED hist
    /\ UNCHANGED <<now, table, lock, admin>>

\* The initial pair is stored one key at a time, the default's last ...
CreateKey(n) ==
    /\ node[n].pc \in {"create", "createDefault"} /\ hist.made < MaxKeys
    /\ IF node[n].pc = "create"
       THEN table' = Created(MtiAlg) /\ AtNode(n, "createDefault")
       ELSE table' = Created(DefaultAlg) /\ AtNode(n, "relist")
    /\ hist' = [hist EXCEPT !.made = @ + 1]
    /\ UNCHANGED <<now, lock, admin>>

\* ... and the table is read again.
Relist(n) ==
    /\ node[n].pc = "relist"
    /\ node' = [node EXCEPT ![n] = [@ EXCEPT !.pc = "release", !.read = table]]
    /\ UNCHANGED <<now, table, lock, admin, hist>>

\* The lock is released by comparison, and the node serves with what it read.
Release(n) ==
    /\ node[n].pc = "release"
    /\ lock' = IF lock.owner = n THEN NoLock ELSE lock
    /\ node' = [node EXCEPT ![n] = [Down EXCEPT !.pc = "up", !.keys = node[n].read,
                                                !.mark = node[n].read]]
    /\ UNCHANGED <<now, table, admin, hist>>

\* A storage error ends a boot; the lock is released.
BootFails(n) ==
    /\ node[n].pc \in {"list", "create", "createDefault", "relist"} /\ hist.crashes < MaxCrashes
    /\ node' = [node EXCEPT ![n] = Down]
    /\ lock' = IF lock.owner = n THEN NoLock ELSE lock
    /\ hist' = [hist EXCEPT !.crashes = @ + 1, !.broken = TRUE]
    /\ UNCHANGED <<now, table, admin>>

\* A node dies, booting or serving; its lock stays until it expires.
Crash(n) ==
    /\ node[n].pc # "down" /\ hist.crashes < MaxCrashes
    /\ node' = [node EXCEPT ![n] = Down]
    /\ hist' = [hist EXCEPT !.crashes = @ + 1, !.broken = @ \/ node[n].pc # "up"]
    /\ UNCHANGED <<now, table, lock, admin>>

-----------------------------------------------------------------------------
(* Refresh *)

\* spawn_jwks_refresh_task and signing_key_reload read the table with the
\* fingerprint's mutex held, so a node runs one of them at a time.
RefreshRead(n) ==
    /\ node[n].pc = "up" /\ ~node[n].reading
    /\ node[n].mark # table
    /\ node' = [node EXCEPT ![n] = [@ EXCEPT !.read = table, !.reading = TRUE]]
    /\ UNCHANGED <<now, table, lock, admin, hist>>

\* New keys are noticed, changes of a key are not.
BugChanged(n) == Cardinality(node[n].read) # Cardinality(node[n].mark)

\* The fingerprint covers every field of every row.
Changed(n) == node[n].read # node[n].mark

\* reload_keys: an empty table leaves the key store as it is.
KeyStore(n) == IF node[n].read = {} THEN node[n].keys ELSE node[n].read

\* The key store and the published set are replaced, then the fingerprint.
RefreshApply(n) ==
    /\ node[n].reading
    /\ node' = [node EXCEPT ![n] =
          IF Changed(n) THEN [@ EXCEPT !.keys = KeyStore(n), !.mark = node[n].read,
                                       !.reading = FALSE]
                        ELSE [@ EXCEPT !.reading = FALSE]]
    /\ UNCHANGED <<now, table, lock, admin, hist>>

-----------------------------------------------------------------------------
(* Rotating and disabling *)

Serving  == \E n \in Nodes : node[n].pc = "up"
Overlaps == \E a \in Admins : admin[a].pc # "idle"

\* rotate_keys reads the table ...
RotateRead(a) ==
    /\ admin[a].pc = "idle" /\ Serving /\ hist.changes < MaxChanges
    /\ \E alg \in Algs :
          admin' = [admin EXCEPT ![a] = [IdleAdmin EXCEPT !.pc = "create", !.alg = alg, !.rows = table]]
    /\ hist' = [hist EXCEPT !.changes = @ + 1, !.crossed = @ \/ Overlaps]
    /\ UNCHANGED <<now, table, lock, node>>

\* ... stores a new active key (a node serves, so the table is not empty) ...
RotateCreate(a) ==
    /\ admin[a].pc = "create" /\ hist.made < MaxKeys
    /\ table' = Created(admin[a].alg)
    /\ admin' = [admin EXCEPT ![a].pc = "demote"]
    /\ hist' = [hist EXCEPT !.made = @ + 1]
    /\ UNCHANGED <<now, lock, node>>

\* ... and demotes the active keys of its algorithm that it had read.
RotateDemote(a) ==
    LET old == {k.kid : k \in {r \in Active(admin[a].rows) : r.alg = admin[a].alg}}
    IN  /\ admin[a].pc = "demote"
        /\ table' = Demoted(table, old)
        /\ admin' = [admin EXCEPT ![a] = IdleAdmin]
        /\ UNCHANGED <<now, lock, node, hist>>

\* The last active key of an algorithm may go, the last of all may go too.
BugMayDisable(k) == k \in table

\* disable_key refuses the only active key.
MayDisable(k) == k \in table /\ (k.active => Cardinality(Active(table)) > 1)

\* disable_key reads the table and checks ...
DisableRead(a) ==
    /\ admin[a].pc = "idle" /\ Serving /\ hist.changes < MaxChanges
    /\ \E k \in table :
          /\ MayDisable(k)
          /\ admin' = [admin EXCEPT ![a] = [IdleAdmin EXCEPT !.pc = "disable", !.kid = k.kid]]
    /\ hist' = [hist EXCEPT !.changes = @ + 1, !.crossed = @ \/ Overlaps]
    /\ UNCHANGED <<now, table, lock, node>>

\* ... and updates the row.
DisableUpdate(a) ==
    /\ admin[a].pc = "disable"
    /\ table' = Demoted(table, {admin[a].kid})
    /\ admin' = [admin EXCEPT ![a] = IdleAdmin]
    /\ UNCHANGED <<now, lock, node, hist>>

\* The node an admin request runs on dies, or a storage error ends it.
AdminLost(a) ==
    /\ admin[a].pc # "idle" /\ hist.crashes < MaxCrashes
    /\ admin' = [admin EXCEPT ![a] = IdleAdmin]
    /\ hist' = [hist EXCEPT !.crashes = @ + 1]
    /\ UNCHANGED <<now, table, lock, node>>

Holding(n) == node[n].pc \in {"list", "create", "createDefault", "relist", "release"}

Tick ==
    /\ now < MaxTime
    /\ now' = now + 1
    /\ hist' = [hist EXCEPT !.overrun = @ \/ (lock.exp = now + 1 /\ \E n \in Nodes :
                                                 lock.owner = n /\ Holding(n))]
    /\ UNCHANGED <<table, lock, node, admin>>

Refresh(n) == RefreshRead(n) \/ RefreshApply(n)

Next ==
    \/ \E n \in Nodes :
          \/ Start(n) \/ Acquire(n) \/ ListKeys(n) \/ CreateKey(n) \/ Relist(n) \/ Release(n)
          \/ BootFails(n) \/ Crash(n) \/ Refresh(n)
    \/ \E a \in Admins :
          \/ RotateRead(a) \/ RotateCreate(a) \/ RotateDemote(a)
          \/ DisableRead(a) \/ DisableUpdate(a) \/ AdminLost(a)
    \/ Tick

\* The refresh task runs for as long as its node does.
Fairness == \A n \in Nodes : WF_vars(Refresh(n))

Spec == Init /\ [][Next]_vars /\ Fairness

-----------------------------------------------------------------------------
(* Properties *)

\* Only one boot makes the initial pair and every node serves the same keys
\* until an admin changes them, unless a boot outlived its lock or died on the
\* way ("no node can initialize its provider from a different first-boot key
\* set").
OneInitialPair == ~hist.overrun /\ ~hist.broken =>
    /\ hist.generators <= 1
    /\ hist.changes = 0 => \A n \in Nodes : node[n].pc = "up" => node[n].keys = table

\* As long as admin requests do not overlap, some key stays active, whatever is
\* rotated or disabled in which order ("cannot disable the only active signing
\* key").
SomeKeyActive == ~hist.crossed /\ table # {} => Active(table) # {}

\* Every node that serves has the rows of the table.
Converged == \A n \in Nodes : node[n].pc = "up" => node[n].keys = table

\* Once the table stops changing every node that serves has its rows,
\* whether they are active included (spawn_jwks_refresh_task).
NodesConverge == <>[]Converged

=============================================================================
