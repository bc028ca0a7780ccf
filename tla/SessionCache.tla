---------------------------- MODULE SessionCache ----------------------------
(***************************************************************************)
(* The session-validity cache: userinfo, introspection and token checks    *)
(* ask "does this session still exist" of snapshots in the distributed     *)
(* cache instead of the database.  Snapshots are dropped by logout (with a *)
(* tombstone), by the admin API and, for all sessions of a user, by a      *)
(* version counter.                                                        *)
(*                                                                         *)
(* Readers and deleters are tasks whose steps are the awaits at which they *)
(* touch the cache or the database.  Every cache call is best effort.      *)
(* The sessions belong to one user.  Tombstones and the counter are        *)
(* naturals; 0 is a missing one.                                           *)
(***************************************************************************)
EXTENDS Naturals

CONSTANTS
    Sessions,     \* session ids of the user
    Readers,      \* tasks running session_snapshot_result
    Deleters,     \* tasks ending sessions
    PosTTL,       \* read_cache_ttl_secs
    NegTTL,       \* NEGATIVE_TTL
    TombTTL,      \* lifetime of a tombstone
    MaxRequest,   \* a request takes no longer than this
    MaxTime,      \* bound: the clock stops here
    MaxCreates,   \* bound: how often rows are created
    MaxDeletes    \* bound: how often sessions are ended

None == "none"

ASSUME CacheAssumption ==
    /\ None \notin Sessions
    /\ PosTTL \in Nat \ {0} /\ NegTTL \in Nat \ {0} /\ TombTTL \in Nat /\ MaxRequest \in Nat
    /\ TombTTL >= PosTTL + 2 * MaxRequest
    /\ MaxTime \in Nat /\ MaxCreates \in Nat /\ MaxDeletes \in Nat

VARIABLES
    now,
    row,       \* table user_sessions: the sessions that exist
    user,      \* the user exists
    snap,      \* cache: session:{sid}
    tomb,      \* cache: session-tombstone:{sid}
    version,   \* cache: sessv:{user}
    reader, deleter,  \* local state of the tasks
    creates, deletes, \* counters of the bounds
    since,     \* history: when the row appeared or disappeared last
    ended      \* history: a tombstone was written since the session went missing

vars == <<now, row, user, snap, tomb, version, reader, deleter, creates, deletes, since, ended>>
cacheVars == <<snap, tomb, version>>
dbVars == <<row, user, since, creates>>

-----------------------------------------------------------------------------
(* Data. *)

\* A best-effort cache call is done or not; the code only logs the difference.
Reads == {"ok", "fail"}

\* A cached answer: which user version and tombstone it was derived from.
NoSnapshot == [kind |-> "none", v |-> 0, g |-> 0, exp |-> 0]
NoTomb == [id |-> 0, exp |-> 0]

\* A reader: its progress and, as history, when it started, what was true of
\* the row then, whether that had been so for longer than any snapshot may
\* deny it, and whether the session had been logged out by then.
IdleReader == [pc |-> "idle", sid |-> None, v |-> 0, g |-> 0, sure |-> FALSE,
               at |-> 0, was |-> "either", long |-> FALSE, late |-> FALSE]
IdleDeleter == [pc |-> "idle", sid |-> None, id |-> 0]

\* A reader goes on at pc, where it needs what it read so far, or starts over
\* at the database, or has its answer.
ReaderTo(r, pc) ==
    reader' = [reader EXCEPT ![r] =
        IF pc \in {"before", "yes", "no"}
        THEN [@ EXCEPT !.pc = pc, !.v = 0, !.g = 0, !.sure = FALSE]
        ELSE [@ EXCEPT !.pc = pc]]

-----------------------------------------------------------------------------
(* The decisions of the code the properties rest on.  An operator named     *)
(* Bug... is the form a plausible defect would give the operator after it;  *)
(* no action uses it.                                                       *)

\* The identity of a new tombstone (generate_id): unique per invalidation.
BugFreshTombstone(d) == 1
FreshTombstone(d) == deleter[d].id

\* The lifetimes of the two kinds of snapshots.
BugSnapshotTTL(kind) == IF kind = "pos" THEN TombTTL ELSE NegTTL
SnapshotTTL(kind) == IF kind = "pos" THEN PosTTL ELSE NegTTL

-----------------------------------------------------------------------------
Init ==
    /\ now = 1 /\ user = TRUE /\ row = {} /\ version = 0
    /\ snap = [s \in Sessions |-> NoSnapshot]
    /\ tomb = [s \in Sessions |-> NoTomb]
    /\ reader = [r \in Readers |-> IdleReader]
    /\ deleter = [d \in Deleters |-> IdleDeleter]
    /\ creates = 0 /\ deletes = 0
    /\ since = [s \in Sessions |-> 1]
    /\ ended = [s \in Sessions |-> FALSE]

-----------------------------------------------------------------------------
(* session_snapshot_result *)

\* get(session): a negative entry answers, a positive one is verified, and
\* anything else (a cache error too) leads to the database.
Lookup(r, s, out) ==
    LET e == IF out = "ok" THEN snap[s] ELSE NoSnapshot
    IN  /\ reader[r].pc = "idle"
        /\ reader' = [reader EXCEPT ![r] =
              [pc |-> CASE e.kind = "neg" -> "no" [] e.kind = "pos" -> "version"
                        [] OTHER -> "before",
               sid |-> s, v |-> e.v, g |-> e.g, sure |-> FALSE, at |-> now,
               was |-> IF s \in row THEN "present" ELSE "absent",
               long |-> now - since[s] >= MaxRequest + (IF s \in row THEN NegTTL ELSE PosTTL),
               late |-> ended[s]]]
        /\ UNCHANGED <<now, dbVars, cacheVars, deleter, deletes, ended>>

CheckVersion(r, out) ==
    /\ reader[r].pc = "version"
    /\ ReaderTo(r, IF out = "ok" /\ version = reader[r].v THEN "tombstone" ELSE "before")
    /\ UNCHANGED <<now, dbVars, cacheVars, deleter, deletes, ended>>

CheckTombstone(r, out) ==
    /\ reader[r].pc = "tombstone"
    /\ ReaderTo(r, IF out = "ok" /\ tomb[reader[r].sid].id = reader[r].g THEN "yes"
                                                                          ELSE "before")
    /\ UNCHANGED <<now, dbVars, cacheVars, deleter, deletes, ended>>

-----------------------------------------------------------------------------
(* load_and_cache *)

LoadBefore(r, out) ==
    /\ reader[r].pc = "before"
    /\ reader' = [reader EXCEPT ![r].pc = "row", ![r].sure = (out = "ok"),
                                ![r].g = IF out = "ok" THEN tomb[reader[r].sid].id ELSE 0]
    /\ UNCHANGED <<now, dbVars, cacheVars, deleter, deletes, ended>>

\* get_user_session; a storage error ends the request without an answer.
LoadRow(r, out) ==
    /\ reader[r].pc = "row"
    /\ reader' = [reader EXCEPT ![r] =
          IF out = "fail" THEN IdleReader
          ELSE [@ EXCEPT !.pc = IF reader[r].sid \in row THEN "load" ELSE "negative"]]
    /\ UNCHANGED <<now, dbVars, cacheVars, deleter, deletes, ended>>

\* current_version; an unreadable counter counts as 0.
LoadVersion(r, out) ==
    /\ reader[r].pc = "load"
    /\ reader' = [reader EXCEPT ![r].pc = "after", ![r].v = IF out = "ok" THEN version ELSE 0]
    /\ UNCHANGED <<now, dbVars, cacheVars, deleter, deletes, ended>>

\* The positive snapshot is written only if the tombstone did not change.
LoadAfter(r, out) ==
    /\ reader[r].pc = "after"
    /\ ReaderTo(r, IF out = "ok" /\ reader[r].sure /\ tomb[reader[r].sid].id = reader[r].g
                   THEN "positive" ELSE "yes")
    /\ UNCHANGED <<now, dbVars, cacheVars, deleter, deletes, ended>>

\* The write is best effort: the answer of the database stands.
Populate(r, out) ==
    LET kind == IF reader[r].pc = "positive" THEN "pos" ELSE "neg"
        e == [kind |-> kind, v |-> IF kind = "pos" THEN reader[r].v ELSE 0,
              g |-> IF kind = "pos" THEN reader[r].g ELSE 0, exp |-> now + SnapshotTTL(kind)]
    IN  /\ reader[r].pc \in {"positive", "negative"}
        /\ snap' = IF out # "fail" THEN [snap EXCEPT ![reader[r].sid] = e] ELSE snap
        /\ ReaderTo(r, IF kind = "pos" THEN "yes" ELSE "no")
        /\ UNCHANGED <<now, dbVars, tomb, version, deleter, deletes, ended>>

\* The caller takes the answer; a dropped request ends without one.
Answer(r) ==
    /\ reader[r].pc # "idle"
    /\ reader' = [reader EXCEPT ![r] = IdleReader]
    /\ UNCHANGED <<now, dbVars, cacheVars, deleter, deletes, ended>>

-----------------------------------------------------------------------------
(* Rows appear and disappear. *)

\* While a request runs the row changed: either answer is right.
Disturb(S) == reader' = [r \in Readers |->
    IF reader[r].sid \in S THEN [reader[r] EXCEPT !.was = "either", !.late = FALSE] ELSE reader[r]]

\* create_user_session, by a login or by the redemption of a code
Create(s) ==
    /\ user /\ s \notin row /\ creates < MaxCreates
    /\ row' = row \cup {s}
    /\ creates' = creates + 1
    /\ since' = [since EXCEPT ![s] = now]
    /\ ended' = [ended EXCEPT ![s] = FALSE]
    /\ Disturb({s})
    /\ UNCHANGED <<now, user, cacheVars, deleter, deletes>>

\* Sessions are deleted from the database; the deleter goes on at pc unless
\* the answer is lost, which its caller reports as an error.
Remove(d, S, s, pc, out) ==
    /\ deleter[d].pc = "idle" /\ deletes < MaxDeletes
    /\ deletes' = deletes + 1
    /\ row' = row \ S
    /\ since' = [t \in Sessions |-> IF t \in S \cap row THEN now ELSE since[t]]
    /\ reader' = [r \in Readers |-> IF reader[r].sid \in S \cap row
                                    THEN [reader[r] EXCEPT !.was = "either"] ELSE reader[r]]
    /\ deleter' = [deleter EXCEPT ![d] = IF out = "ok" THEN [pc |-> pc, sid |-> s, id |-> deletes']
                                                       ELSE IdleDeleter]
    /\ UNCHANGED <<now, creates, cacheVars, ended>>

\* logout_inner, idle cleanup, account page: then invalidate_session
Logout(d, s, out) == Remove(d, {s}, s, "mark", out) /\ UNCHANGED user

\* delete_session of the admin API: then only the snapshot is dropped
AdminRevoke(d, s, out) == Remove(d, {s}, s, "drop", out) /\ UNCHANGED user

\* delete_user: the sessions go by cascade, then the version is bumped
DeleteUser(d, out) ==
    /\ user /\ user' = FALSE
    /\ Remove(d, Sessions, None, "bump", out)

\* invalidate_session_entry: a fresh tombstone first...
Mark(d, out) ==
    LET s == deleter[d].sid
    IN  /\ deleter[d].pc = "mark"
        /\ tomb' = IF out # "fail"
                   THEN [tomb EXCEPT ![s] = [id |-> FreshTombstone(d), exp |-> now + TombTTL]]
                   ELSE tomb
        /\ ended' = [ended EXCEPT ![s] = @ \/ (out # "fail" /\ s \notin row)]
        /\ deleter' = [deleter EXCEPT ![d].pc = "unmark"]
        /\ UNCHANGED <<now, dbVars, snap, version, reader, deletes>>

\* ... then the snapshot is dropped; the admin API does only this.
Drop(d, out) ==
    LET s == deleter[d].sid
    IN  /\ deleter[d].pc \in {"unmark", "drop"}
        /\ snap' = IF out # "fail" THEN [snap EXCEPT ![s] = NoSnapshot] ELSE snap
        /\ deleter' = [deleter EXCEPT ![d] = IdleDeleter]
        /\ UNCHANGED <<now, dbVars, tomb, version, reader, deletes, ended>>

\* increment(sessv), without a TTL
Bump(d, out) ==
    /\ deleter[d].pc = "bump"
    /\ version' = IF out # "fail" THEN version + 1 ELSE version
    /\ deleter' = [deleter EXCEPT ![d] = IdleDeleter]
    /\ UNCHANGED <<now, dbVars, snap, tomb, reader, deletes, ended>>

-----------------------------------------------------------------------------
(* The environment. *)

\* Time passes and cache entries expire; no request outlives MaxRequest.
Tick ==
    /\ now < MaxTime
    /\ \A r \in Readers : reader[r].pc # "idle" => now < reader[r].at + MaxRequest
    /\ now' = now + 1
    /\ snap' = [s \in Sessions |-> IF snap[s].exp <= now' THEN NoSnapshot ELSE snap[s]]
    /\ tomb' = [s \in Sessions |-> IF tomb[s].exp <= now' THEN NoTomb ELSE tomb[s]]
    /\ UNCHANGED <<dbVars, version, reader, deleter, deletes, ended>>

\* A deleter is dropped between two of its steps.
Crash(d) ==
    /\ deleter[d].pc # "idle"
    /\ deleter' = [deleter EXCEPT ![d] = IdleDeleter]
    /\ UNCHANGED <<now, dbVars, cacheVars, reader, deletes, ended>>

Read(r) ==
    \/ \E s \in Sessions, out \in Reads : Lookup(r, s, out)
    \/ \E out \in Reads : \/ CheckVersion(r, out) \/ CheckTombstone(r, out) \/ LoadBefore(r, out)
                          \/ LoadRow(r, out) \/ LoadVersion(r, out) \/ LoadAfter(r, out)
                          \/ Populate(r, out)
    \/ Answer(r)

Delete(d) ==
    \/ \E s \in Sessions, out \in {"ok", "lost"} : Logout(d, s, out) \/ AdminRevoke(d, s, out)
    \/ \E out \in {"ok", "lost"} : DeleteUser(d, out)
    \/ \E out \in Reads : Mark(d, out) \/ Drop(d, out) \/ Bump(d, out)
    \/ Crash(d)

Next ==
    \/ \E r \in Readers : Read(r)
    \/ \E d \in Deleters : Delete(d)
    \/ \E s \in Sessions : Create(s)
    \/ Tick

Spec == Init /\ [][Next]_vars

-----------------------------------------------------------------------------
(* Properties *)

\* A request that started after the tombstone of a logout was written never
\* reports the session valid, whatever an older request writes to the cache
\* in the meantime and however often the session comes back and ends again.
LogoutIsImmediate ==
    \A r \in Readers : reader[r].pc = "yes" => ~reader[r].late

\* Cached answers are stale for a bounded time, whichever invalidations were
\* lost: a session that had been gone (or had existed) longer than the life
\* of a snapshot and of the request that wrote it is reported as it is.
StalenessIsBounded ==
    \A r \in Readers :
        /\ reader[r].pc = "yes" /\ reader[r].was = "absent" => ~reader[r].long
        /\ reader[r].pc = "no" /\ reader[r].was = "present" => ~reader[r].long

=============================================================================
