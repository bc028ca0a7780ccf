------------------------------ MODULE ReadCaches ------------------------------
(***************************************************************************)
(* The two caches a userinfo request goes through: the claims read model   *)
(* (issuerd-server/src/claims_cache.rs), whose entries carry the realm's   *)
(* claims epoch, and the rendered response (userinfo_cache.rs), which      *)
(* carries the epoch and the generations of its user and its client; and   *)
(* the invalidation that follows a change (issuerd-cluster/src/            *)
(* invalidate.rs).  One realm, one user, one client that does not sign     *)
(* its userinfo, one token.                                                *)
(***************************************************************************)
EXTENDS Naturals, Sequences

CONSTANTS
    Requests,    \* userinfo requests in flight at a time
    Pieces,      \* what a body is built from: some of "client", "user", "catalog"
    TTL,         \* read_cache_ttl_secs
    MaxRequest,  \* bound on how long a request takes
    MaxTime,     \* bound on the clock
    MaxChanges,  \* bound on changes
    MaxFaults    \* bound on cache and storage calls that fail

ASSUME ReadAssumption ==
    /\ Pieces \subseteq {"client", "user", "catalog"} /\ "user" \in Pieces
    /\ TTL \in Nat \ {0} /\ {MaxRequest, MaxTime, MaxChanges, MaxFaults} \subseteq Nat

VARIABLES
    now,      \* the clock
    db,       \* the version storage holds of each piece
    counter,  \* claimsepoch, usergen, clientgen
    entry,    \* read model: for every piece [ver, epoch, exp]
    body,     \* rendered response: [ver, tag, exp]
    req,      \* userinfo requests
    answer,   \* what the last step answered, if it did
    change,   \* the change under way
    hist      \* history: see InitHist

vars == <<now, db, counter, entry, body, req, answer, change, hist>>

Entities == Pieces \ {"catalog"}
Counters == {"epoch"} \cup Entities

Blank   == 0                                    \* what a failed storage read leaves
None    == [c \in {} |-> 0]                     \* counters not read, or not readable
NoEntry == [ver |-> Blank, epoch |-> 0, exp |-> 0]
NoBody  == [ver |-> [p \in Pieces |-> Blank], tag |-> None, exp |-> 0]
NoChange == [pc |-> "idle", piece |-> "none"]

\* pc and piece: what it does next, for which piece; ver: the body so far; cur:
\* counters read so far; tag: the generation it will write the body with;
\* epoch: the epoch its present ClaimsReader has memoized; usable: it could
\* read it; at: when it began; exact: what it must return at least, by the
\* definition changes whose bump had succeeded then.
Idle == [pc |-> "idle", piece |-> "none", ver |-> [p \in Pieces |-> Blank], cur |-> None,
         tag |-> None, epoch |-> 0, usable |-> FALSE, at |-> 0,
         exact |-> [p \in Pieces |-> Blank]]

\* since: when each version became the current one; exact: the version of each
\* piece at its last successful epoch bump; blank: when storage last failed;
\* blind: a request could not read its generation; changes, faults: how much
\* of each bound is used up.
InitHist == [since |-> [p \in Pieces |-> <<0>>], exact |-> [p \in Pieces |-> Blank],
             blank |-> 0, blind |-> FALSE, changes |-> 0, faults |-> 0]

Init ==
    /\ now = 0
    /\ db = [p \in Pieces |-> 1]
    /\ counter = [c \in Counters |-> 0]
    /\ entry = [p \in Pieces |-> NoEntry]
    /\ body = NoBody
    /\ req = [r \in Requests |-> Idle]
    /\ answer = Idle
    /\ change = NoChange
    /\ hist = InitHist

\* A request goes on as x, or is answered.
Update(r, x) ==
    /\ req' = [req EXCEPT ![r] = IF x.pc = "answered" THEN Idle ELSE x]
    /\ answer' = IF x.pc = "answered" THEN x ELSE Idle

\* A call on the cache or on storage fails.
Fault == hist.faults < MaxFaults /\ hist' = [hist EXCEPT !.faults = @ + 1]
Works == UNCHANGED hist

-----------------------------------------------------------------------------
(* The claims read model *)

\* The client is read before the generation, the user and the catalog after.
After(p) == CASE p = "client" -> "counters"
              [] p = "user" /\ "catalog" \in Pieces -> "catalog"
              [] OTHER -> "write"

\* A request x turns to piece p with a new ClaimsReader.
Reading(x, p) == [x EXCEPT !.pc = "epoch", !.piece = p, !.epoch = 0, !.usable = FALSE]

\* Having version v of its piece, it goes on to what comes after that.
Took(x, v) ==
    LET y == [x EXCEPT !.ver[x.piece] = v, !.epoch = 0, !.usable = FALSE, !.piece = "none"]
    IN  CASE After(x.piece) = "counters" -> [y EXCEPT !.pc = "tag"]
          [] After(x.piece) = "write"    -> [y EXCEPT !.pc = IF y.tag = None THEN "retag" ELSE "write"]
          [] OTHER                       -> Reading(y, After(x.piece))

Begin(r) ==
    LET x == [Idle EXCEPT !.at = now, !.exact = hist.exact]
    IN  /\ req[r].pc = "idle"
        /\ Update(r, IF "client" \in Pieces THEN Reading(x, "client") ELSE [x EXCEPT !.pc = "tag"])
        /\ UNCHANGED <<now, db, counter, entry, body, change, hist>>

\* ClaimsReader::epoch; when it cannot be read the reader goes to storage and
\* writes nothing.
Epoch(r) ==
    /\ req[r].pc = "epoch"
    /\ \/ Works /\ Update(r, [req[r] EXCEPT !.pc = "get", !.epoch = counter["epoch"], !.usable = TRUE])
       \/ Fault /\ Update(r, [req[r] EXCEPT !.pc = "load"])
    /\ UNCHANGED <<now, db, counter, entry, body, change>>

\* read_entry: an entry of another epoch is a miss.
Hit(e, epoch) == e.exp > now /\ e.epoch = epoch

Get(r) ==
    LET e == entry[req[r].piece]
    IN  /\ req[r].pc = "get"
        /\ \/ Works /\ Update(r, IF Hit(e, req[r].epoch) THEN Took(req[r], e.ver)
                                                         ELSE [req[r] EXCEPT !.pc = "load"])
           \/ Fault /\ Update(r, [req[r] EXCEPT !.pc = "load"])
        /\ UNCHANGED <<now, db, counter, entry, body, change>>

\* load_*: a piece of which a part could not be read is served and not cached;
\* without a user the body has nothing in it and is not cached either.
Load(r) ==
    LET x == req[r]
    IN  /\ x.pc = "load"
        /\ \/ /\ Works
              /\ Update(r, IF x.usable THEN [x EXCEPT !.pc = "put", !.ver[x.piece] = db[x.piece]]
                                       ELSE Took(x, db[x.piece]))
           \/ /\ hist.faults < MaxFaults
              /\ hist' = [hist EXCEPT !.faults = @ + 1, !.blank = now]
              /\ \/ Update(r, Took(x, Blank))
                 \/ x.piece = "user" /\ Update(r, [x EXCEPT !.pc = "answered", !.tag = None])
        /\ UNCHANGED <<now, db, counter, entry, body, change>>

\* The entry is tagged when it is written.
BugTagOf(r) == counter["epoch"]

\* "tagged with that pre-load epoch".
TagOf(r) == req[r].epoch

\* An entry without a time to live.
BugExpiry == MaxTime + 1

Expiry == now + TTL

\* write_entry.
Put(r) ==
    LET x == req[r]
    IN  /\ x.pc = "put"
        /\ \/ /\ Works
              /\ entry' = [entry EXCEPT ![x.piece] =
                              [ver |-> x.ver[x.piece], epoch |-> TagOf(r), exp |-> Expiry]]
           \/ Fault /\ UNCHANGED entry
        /\ Update(r, Took(x, x.ver[x.piece]))
        /\ UNCHANGED <<now, db, counter, body, change>>

-----------------------------------------------------------------------------
(* The rendered response *)

\* counters reads the three counters at the same time: first for the
\* generation the handler keeps, then in read, and in write when the handler
\* has no generation.
Read(x, c) == [d \in DOMAIN x.cur \cup {c} |-> IF d = c THEN counter[c] ELSE x.cur[d]]

Counted(x, read) ==
    LET y == [x EXCEPT !.cur = None]
    IN  IF DOMAIN read # Counters THEN [x EXCEPT !.cur = read] ELSE
        CASE x.pc = "tag"   -> [y EXCEPT !.pc = "check", !.tag = read]
          [] x.pc = "check" -> [x EXCEPT !.pc = "body", !.cur = read]
          [] x.pc = "retag" -> [y EXCEPT !.pc = "write", !.tag = read]

ReadCounter(r) ==
    /\ req[r].pc \in {"tag", "check", "retag"}
    /\ \E c \in Counters \ DOMAIN req[r].cur : Update(r, Counted(req[r], Read(req[r], c)))
    /\ UNCHANGED <<now, db, counter, entry, body, change, hist>>

\* A counter that cannot be read: no generation, a miss, no write.
NoCounters(r) ==
    LET x == [req[r] EXCEPT !.cur = None]
    IN  /\ x.pc \in {"tag", "check", "retag"} /\ hist.faults < MaxFaults
        /\ Update(r, CASE x.pc = "tag"   -> [x EXCEPT !.pc = "check"]
                       [] x.pc = "check" -> Reading(x, "user")
                       [] OTHER          -> [x EXCEPT !.pc = "answered"])
        /\ hist' = [hist EXCEPT !.faults = @ + 1, !.blind = @ \/ x.pc = "tag"]
        /\ UNCHANGED <<now, db, counter, entry, body, change>>

\* read: a body is used when its three counters are the present ones.
ReadBody(r) ==
    LET x == [req[r] EXCEPT !.cur = None]
    IN  /\ x.pc = "body"
        /\ \/ /\ Works
              /\ Update(r, IF body.exp > now /\ body.tag = req[r].cur
                           THEN [x EXCEPT !.pc = "answered", !.ver = body.ver, !.tag = None]
                           ELSE Reading(x, "user"))
           \/ Fault /\ Update(r, Reading(x, "user"))
        /\ UNCHANGED <<now, db, counter, entry, body, change>>

\* write, and the answer.
WriteBody(r) ==
    LET x == req[r]
    IN  /\ x.pc = "write"
        /\ \/ Works /\ body' = [ver |-> x.ver, tag |-> x.tag, exp |-> Expiry]
           \/ Fault /\ UNCHANGED body
        /\ Update(r, [x EXCEPT !.pc = "answered", !.tag = None])
        /\ UNCHANGED <<now, db, counter, entry, change>>

-----------------------------------------------------------------------------
(* Changes *)

\* A writer's storage mutation commits: of one user or client, or a definition
\* (which reaches the groups in users' bundles too).
Commit ==
    /\ change.pc = "idle" /\ hist.changes < MaxChanges
    /\ \E p \in Pieces, kind \in {"bump", "epoch"} :
          /\ kind = "bump" => p \in Entities
          /\ kind = "epoch" => p # "client"
          /\ db' = [db EXCEPT ![p] = @ + 1]
          /\ change' = [pc |-> kind, piece |-> p]
          /\ hist' = [hist EXCEPT !.changes = @ + 1, !.since[p] = Append(@, now)]
    /\ answer' = Idle
    /\ UNCHANGED <<now, counter, entry, body, req>>

\* invalidate_user_claims, invalidate_client_claims: the generation ...
Bump ==
    /\ change.pc = "bump"
    /\ \/ Works /\ counter' = [counter EXCEPT ![change.piece] = @ + 1]
       \/ Fault /\ UNCHANGED counter
    /\ change' = [change EXCEPT !.pc = "delete"]
    /\ answer' = Idle
    /\ UNCHANGED <<now, db, entry, body, req>>

\* ... and the read model's entry.
Delete ==
    /\ change.pc = "delete"
    /\ \/ Works /\ entry' = [entry EXCEPT ![change.piece] = NoEntry]
       \/ Fault /\ UNCHANGED entry
    /\ change' = NoChange
    /\ answer' = Idle
    /\ UNCHANGED <<now, db, counter, body, req>>

\* bump_claims_epoch.
BumpEpoch ==
    LET p == change.piece
    IN  /\ change.pc = "epoch"
        /\ \/ /\ counter' = [counter EXCEPT !["epoch"] = @ + 1]
              /\ hist' = [hist EXCEPT !.exact[p] = db[p]]
           \/ Fault /\ UNCHANGED counter
        /\ change' = NoChange
        /\ answer' = Idle
        /\ UNCHANGED <<now, db, entry, body, req>>

\* Requests last at most MaxRequest.
Tick ==
    /\ now < MaxTime
    /\ \A r \in Requests : req[r].pc # "idle" => now < req[r].at + MaxRequest
    /\ now' = now + 1
    /\ answer' = Idle
    /\ UNCHANGED <<db, counter, entry, body, req, change, hist>>

Request(r) ==
    \/ Begin(r) \/ Epoch(r) \/ Get(r) \/ Load(r) \/ Put(r)
    \/ ReadCounter(r) \/ NoCounters(r) \/ ReadBody(r) \/ WriteBody(r)

Next == (\E r \in Requests : Request(r)) \/ Commit \/ Bump \/ Delete \/ BumpEpoch \/ Tick

Spec == Init /\ [][Next]_vars

-----------------------------------------------------------------------------
(* Properties *)

\* A definition change whose epoch bump succeeded is in the answer of every
\* request that begins after it, whatever loads and writes were under way, as
\* long as no request lost the generation it started from ("a concurrent bump
\* can only make the entry look older than it is, never newer").
DefinitionsExact == ~hist.blind =>
    \A p \in Pieces : answer.ver[p] = Blank \/ answer.ver[p] >= answer.exact[p]

\* A version is not served for longer than one request takes to cache it, an
\* entry lives, one request takes to render it and a body lives, after it was
\* replaced, even when invalidation failed; a piece storage failed to return
\* not for longer than a request and a body last.
StaleBounded == answer.pc = "answered" => \A p \in Pieces :
    IF answer.ver[p] = Blank THEN answer.at < hist.blank + MaxRequest + TTL
    ELSE answer.ver[p] < Len(hist.since[p]) =>
            answer.at + 2 <= hist.since[p][answer.ver[p] + 1] + 2 * (MaxRequest + TTL)

=============================================================================
