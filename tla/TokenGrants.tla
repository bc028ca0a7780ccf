---------------------------- MODULE TokenGrants ----------------------------
(***************************************************************************)
(* The token endpoint: redemption of authorization codes with detection of *)
(* code reuse, rotation of refresh tokens with detection of token reuse,   *)
(* revocation and logout.                                                  *)
(*                                                                         *)
(* Tokens are self-contained JWTs: what the server remembers of them are   *)
(* markers in the distributed cache and the session row they point at.  A  *)
(* handler is a task; its steps are the awaits at which it touches the     *)
(* cache or the database, and it may be dropped between two of them.       *)
(*                                                                         *)
(* Cache entries are represented by their expiry time: 0 is "deleted", and *)
(* an entry is visible while its expiry lies in the future.                *)
(***************************************************************************)
EXTENDS Naturals, FiniteSets

CONSTANTS
    Sessions,    \* browser (SSO) session ids
    Codes,       \* authorization codes; code c's offline session has the id c
    Tokens,      \* pairs of an access and a refresh token that can be minted
    Tasks,       \* concurrent handlers
    Offline,     \* whether grants may and must ask for offline_access: a set of BOOLEANs
    Backend,     \* the cache: "redis" or "memory"
    CodeTTL,     \* auth_code_ttl_secs
    AccessTTL,   \* access_token_lifespan
    RefreshTTL,  \* refresh_token_lifespan, or the offline idle window
    IdleTTL,     \* sso_session_idle_timeout and its variants
    Leeway,      \* clock_skew of the token manager
    MaxTime      \* bound: the clock stops here

None == "none"

ASSUME TokenAssumption ==
    /\ Sessions \cap Codes = {} /\ Tokens \cap (Sessions \cup Codes) = {}
    /\ None \notin Sessions \cup Codes \cup Tokens
    /\ Backend \in {"redis", "memory"} /\ Offline \subseteq BOOLEAN
    /\ CodeTTL \in Nat \ {0} /\ AccessTTL \in Nat \ {0} /\ RefreshTTL \in Nat \ {0}
    /\ IdleTTL \in Nat /\ Leeway \in Nat /\ MaxTime \in Nat

VARIABLES
    now,      \* wall clock (starts at 1; 0 stands for "never")
    session,  \* table user_sessions: last_session_refresh, 0 when there is no row
    code,     \* cache: auth_code:{code} -> expiry
    used,     \* cache: used_auth_code:{code} -> the minted pair and the expiry
    marker,   \* cache: revoked_refresh:{token} -> expiry and counter
    barred,   \* cache: revoked:{access token} -> expiry
    grantOf,  \* grantOf[c]: the session code c was issued for, and its scope
    tok,      \* a minted pair: grant, session id, time of issue; and (history) the
              \* refresh token it was exchanged for
    task,     \* local state of the handlers
    held,     \* history: pairs that reached a client
    stale,    \* history: grants in which a token was exchanged after its expiry
    torn,     \* history: sessions that were deleted, and the tokens that pointed at them
    reused    \* history: codes whose reuse was detected and answered

vars == <<now, session, code, used, marker, barred, grantOf, tok, task,
          held, stale, torn, reused>>
cacheVars == <<code, used, marker, barred>>
histVars == <<held, stale, torn, reused>>

-----------------------------------------------------------------------------
(* Data. *)

Sids == Sessions \cup Codes

\* How a remote call ends: done and answered; done, but the answer was lost;
\* not done and reported as an error.
Outcomes == {"ok", "lost", "fail"}
Reads == {"ok", "fail"}

NoGrant  == [sid |-> None, offline |-> FALSE]
NoToken  == [root |-> None, prev |-> None, sid |-> None, at |-> 0]
NoUsed   == [tok |-> None, exp |-> 0]
NoMarker == [exp |-> 0, n |-> 0]
Idle     == [pc |-> "idle", code |-> None, tok |-> None, sid |-> None, again |-> FALSE]

Live(e) == e > now

AccessExp(t)  == tok[t].at + AccessTTL
RefreshExp(t) == tok[t].at + RefreshTTL

Max2(a, b) == IF a > b THEN a ELSE b

\* A session and the tokens that point at it.
Family(s) == {s} \cup {t \in Tokens : tok[t].sid = s}

\* A token that was never minted; which one it is does not matter.
Unminted == {t \in Tokens : tok[t] = NoToken}
Fresh == CHOOSE t \in Tokens : tok[t] = NoToken

\* decode_token: the expiry is checked with the manager's leeway.
Valid(t) == now <= RefreshExp(t) + Leeway

-----------------------------------------------------------------------------
(* The decisions of the code the properties rest on.  An operator named     *)
(* Bug... is the form a plausible defect would give the operator after it;  *)
(* no action uses it.                                                       *)

\* get_and_delete(auth_code): what is left of the entry.
BugConsume(c) == code[c]
Consume(c) == 0

\* The TTL of used_auth_code: the longer of the two tokens' lifetimes.
BugUsedTTL(t) == AccessTTL
UsedTTL(t) == Max2(AccessTTL, RefreshTTL)

\* update_user_session: an update of a missing row is NotFound.
BugUpdated(s) == TRUE
Updated(s) == session[s] # 0

\* increment(revoked_refresh): a new key starts at 1.  A marker that was set
\* as the byte 1 (counter 0 here) is no decimal number: Redis refuses to
\* increment it (answer 0 here, an error), the in-memory cache reads it as 0
\* and answers 1.  Counters above 2 are not told apart.
BugIncremented(t) == IF Live(marker[t].exp) THEN marker[t].n + 1 ELSE 1
Incremented(t) ==
    IF ~Live(marker[t].exp) THEN 1
    ELSE IF marker[t].n = 0 THEN (IF Backend = "redis" THEN 0 ELSE 1)
    ELSE 2

-----------------------------------------------------------------------------
Init ==
    /\ now = 1
    /\ session = [s \in Sids |-> 0]
    /\ code = [c \in Codes |-> 0]
    /\ used = [c \in Codes |-> NoUsed]
    /\ marker = [t \in Tokens |-> NoMarker]
    /\ barred = [t \in Tokens |-> 0]
    /\ grantOf = [c \in Codes |-> NoGrant]
    /\ tok = [t \in Tokens |-> NoToken]
    /\ task = [k \in Tasks |-> Idle]
    /\ held = {} /\ stale = {} /\ torn = {} /\ reused = {}

\* A handler goes on at pc, or ends.
Goto(k, pc) == task' = [task EXCEPT ![k] = IF pc = "idle" THEN Idle ELSE [@ EXCEPT !.pc = pc]]

-----------------------------------------------------------------------------
(* The login ceremony persists the session (or resumes a live one) and then *)
(* stores the code.                                                         *)
Authorize(c, s, offline) ==
    /\ grantOf[c] = NoGrant
    /\ session[s] # 0 \/ s \notin torn
    /\ session' = [session EXCEPT ![s] = IF @ = 0 THEN now ELSE @]
    /\ code' = [code EXCEPT ![c] = now + CodeTTL]
    /\ grantOf' = [grantOf EXCEPT ![c] = [sid |-> s, offline |-> offline]]
    /\ UNCHANGED <<now, used, marker, barred, tok, task, histVars>>

-----------------------------------------------------------------------------
(* grant_type=authorization_code *)

\* get_and_delete: any attempt burns the code.  A presentation that passes
\* the checks on client, redirect URI and PKCE goes on; one that finds no
\* code is treated as reuse, as is one whose cache call failed.
RedeemTake(k, c, out, pass) ==
    LET found == out = "ok" /\ Live(code[c])
    IN  /\ task[k].pc = "idle" /\ grantOf[c] # NoGrant
        /\ code' = IF out # "fail" /\ Live(code[c]) THEN [code EXCEPT ![c] = Consume(c)] ELSE code
        /\ task' = [task EXCEPT ![k] =
              IF found /\ ~pass THEN Idle
              ELSE [pc |-> IF found THEN "load" ELSE "replay", code |-> c, tok |-> None,
                    sid |-> grantOf[c].sid, again |-> \E t \in held : tok[t].root = c]]
        /\ UNCHANGED <<now, session, used, marker, barred, grantOf, tok, histVars>>

\* get_user_session: a missing session, or a failing call, leads to a create.
RedeemLoad(k, out) ==
    /\ task[k].pc = "load"
    /\ Goto(k, IF out = "ok" /\ session[task[k].sid] # 0 THEN "attach" ELSE "create")
    /\ UNCHANGED <<now, session, grantOf, tok, cacheVars, histVars>>

\* persist_session: update or create; an error answers 500.
RedeemPersist(k, out) ==
    LET s == task[k].sid
        possible == IF task[k].pc = "attach" THEN Updated(s) ELSE session[s] = 0
    IN  /\ task[k].pc \in {"attach", "create"}
        /\ session' = IF possible /\ out # "fail" THEN [session EXCEPT ![s] = now] ELSE session
        /\ Goto(k, IF possible /\ out = "ok"
                   THEN IF grantOf[task[k].code].offline THEN "offline" ELSE "issue"
                   ELSE "idle")
        /\ UNCHANGED <<now, grantOf, tok, cacheVars, histVars>>

\* An offline_access grant gets a session of its own.
RedeemOffline(k, out) ==
    LET s == task[k].code
    IN  /\ task[k].pc = "offline"
        /\ session' = IF out # "fail" THEN [session EXCEPT ![s] = now] ELSE session
        /\ task' = [task EXCEPT ![k] = IF out = "ok" THEN [@ EXCEPT !.pc = "issue", !.sid = s]
                                                     ELSE Idle]
        /\ UNCHANGED <<now, grantOf, tok, cacheVars, histVars>>

\* The tokens are minted, the reuse marker is written, and only then does the
\* response leave the server.
RedeemIssue(k, out) ==
    LET c == task[k].code
        t == Fresh
    IN  /\ task[k].pc = "issue" /\ Unminted # {}
        /\ tok' = [tok EXCEPT ![t] = [root |-> c, prev |-> None, sid |-> task[k].sid, at |-> now]]
        /\ used' = IF out # "fail" THEN [used EXCEPT ![c] = [tok |-> t, exp |-> now + UsedTTL(t)]]
                                   ELSE used
        /\ held' = IF out = "ok" THEN held \cup {t} ELSE held
        /\ Goto(k, "idle")
        /\ UNCHANGED <<now, session, code, marker, barred, grantOf, stale, torn, reused>>

\* Reuse: look up what was minted.  A failing lookup counts as "nothing".
ReplayRead(k, out) ==
    LET c == task[k].code
        known == out = "ok" /\ Live(used[c].exp)
    IN  /\ task[k].pc = "replay"
        /\ task' = [task EXCEPT ![k] = IF known THEN [@ EXCEPT !.pc = "bar", !.tok = used[c].tok]
                                                ELSE Idle]
        /\ reused' = IF out = "ok" /\ ~known /\ task[k].again THEN reused \cup {c} ELSE reused
        /\ UNCHANGED <<now, session, grantOf, tok, cacheVars, held, stale, torn>>

\* Revoke the access token until it expires; an error answers 503.
ReplayAccess(k, out) ==
    LET t == task[k].tok
    IN  /\ task[k].pc = "bar"
        /\ barred' = IF out # "fail" /\ Live(AccessExp(t)) THEN [barred EXCEPT ![t] = AccessExp(t)]
                                                           ELSE barred
        /\ Goto(k, IF out = "ok" THEN "mark" ELSE "idle")
        /\ UNCHANGED <<now, session, code, used, marker, grantOf, tok, histVars>>

\* Revoke the refresh token until it expires.
ReplayRefresh(k, out) ==
    LET t == task[k].tok
    IN  /\ task[k].pc = "mark"
        /\ marker' = IF out # "fail" /\ Live(RefreshExp(t))
                     THEN [marker EXCEPT ![t] = [exp |-> RefreshExp(t), n |-> 0]]
                     ELSE marker
        /\ reused' = IF out = "ok" /\ task[k].again THEN reused \cup {task[k].code} ELSE reused
        /\ Goto(k, "idle")
        /\ UNCHANGED <<now, session, code, used, barred, grantOf, tok, held, stale, torn>>

-----------------------------------------------------------------------------
(* grant_type=refresh_token *)

\* The marker is read first; a marked token leads to family revocation.
RefreshRead(k, t) ==
    /\ task[k].pc = "idle" /\ t \in held /\ Valid(t)
    /\ task' = [task EXCEPT ![k] = [pc |-> IF Live(marker[t].exp) THEN "kill" ELSE "check",
                                    code |-> None, tok |-> t, sid |-> tok[t].sid,
                                    again |-> FALSE]]
    /\ UNCHANGED <<now, session, grantOf, tok, cacheVars, histVars>>

\* The session must exist; one that was idle for too long is deleted.
RefreshCheck(k) ==
    LET s == task[k].sid
    IN  /\ task[k].pc = "check"
        /\ Goto(k, IF session[s] = 0 THEN "idle"
                   ELSE IF now - session[s] > IdleTTL THEN "kill" ELSE "touch")
        /\ UNCHANGED <<now, session, grantOf, tok, cacheVars, histVars>>

\* update_user_session, its result ignored; then scope, details and resource
\* are checked.
RefreshTouch(k, out, pass) ==
    LET s == task[k].sid
    IN  /\ task[k].pc = "touch"
        /\ session' = IF out # "fail" /\ Updated(s) THEN [session EXCEPT ![s] = now] ELSE session
        /\ Goto(k, IF pass THEN "claim" ELSE "idle")
        /\ UNCHANGED <<now, grantOf, tok, cacheVars, histVars>>

\* increment(revoked_refresh): the first one claims the token, the others
\* have met a reuse.  The TTL applies to a new marker only.
RefreshClaim(k, out) ==
    LET t == task[k].tok
        v == Incremented(t)
        exp == IF Live(marker[t].exp) THEN marker[t].exp ELSE Max2(RefreshExp(t), now + 1)
    IN  /\ task[k].pc = "claim"
        /\ marker' = IF out # "fail" /\ v # 0 THEN [marker EXCEPT ![t] = [exp |-> exp, n |-> v]]
                                              ELSE marker
        /\ Goto(k, IF out # "ok" \/ v = 0 THEN "idle" ELSE IF v = 1 THEN "mint" ELSE "kill")
        /\ stale' = IF out = "ok" /\ v = 1 /\ now >= RefreshExp(t) THEN stale \cup {tok[t].root}
                                                                    ELSE stale
        /\ UNCHANGED <<now, session, code, used, barred, grantOf, tok, held, torn, reused>>

\* The successor carries the grant and the session of its predecessor.
RefreshMint(k, out) ==
    LET old == task[k].tok
        t == Fresh
    IN  /\ task[k].pc = "mint" /\ Unminted # {}
        /\ tok' = [tok EXCEPT ![t] = [tok[old] EXCEPT !.prev = old, !.at = now]]
        /\ held' = IF out = "ok" THEN held \cup {t} ELSE held
        /\ Goto(k, "idle")
        /\ UNCHANGED <<now, session, cacheVars, grantOf, stale, torn, reused>>

-----------------------------------------------------------------------------
(* Ends of sessions and tokens. *)

\* delete_user_session: by refresh_replay_response, by the idle timeout of a
\* refresh and by a logout with a refresh token.
Kill(k, out) ==
    LET s == task[k].sid
    IN  /\ task[k].pc = "kill"
        /\ session' = IF out # "fail" THEN [session EXCEPT ![s] = 0] ELSE session
        /\ torn' = IF out # "fail" THEN torn \cup Family(s) ELSE torn
        /\ Goto(k, "idle")
        /\ UNCHANGED <<now, cacheVars, grantOf, tok, held, stale, reused>>

\* Logout with a refresh token marks it (while it has lifetime left) and goes
\* on to delete its session.
LogoutToken(k, t) ==
    /\ task[k].pc = "idle" /\ t \in held /\ Valid(t)
    /\ marker' = IF Live(RefreshExp(t)) THEN [marker EXCEPT ![t] = [exp |-> RefreshExp(t), n |-> 0]]
                                        ELSE marker
    /\ task' = [task EXCEPT ![k] = [pc |-> "kill", code |-> None, tok |-> t, sid |-> tok[t].sid,
                                    again |-> FALSE]]
    /\ UNCHANGED <<now, session, code, used, barred, grantOf, tok, histVars>>

\* The browser's session cookie, an administrator or the account page ends an
\* online session.
EndSession(s) ==
    /\ session[s] # 0
    /\ session' = [session EXCEPT ![s] = 0]
    /\ torn' = torn \cup Family(s)
    /\ UNCHANGED <<now, cacheVars, grantOf, tok, task, held, stale, reused>>

\* revoke_handler for a refresh token
RevokeRefresh(t) ==
    /\ t \in held /\ Valid(t)
    /\ marker' = [marker EXCEPT ![t] = [exp |-> Max2(RefreshExp(t), now + 1), n |-> 0]]
    /\ UNCHANGED <<now, session, code, used, barred, grantOf, tok, task, histVars>>

Tick ==
    /\ now < MaxTime
    /\ now' = now + 1
    /\ UNCHANGED <<session, cacheVars, grantOf, tok, task, histVars>>

\* A handler is dropped between two of its steps.
Crash(k) ==
    /\ task[k].pc # "idle"
    /\ Goto(k, "idle")
    /\ UNCHANGED <<now, session, cacheVars, grantOf, tok, histVars>>

-----------------------------------------------------------------------------
Redeem(k) ==
    \/ \E c \in Codes, out \in Outcomes, pass \in BOOLEAN : RedeemTake(k, c, out, pass)
    \/ \E out \in Reads : RedeemLoad(k, out) \/ ReplayRead(k, out)
    \/ \E out \in Outcomes : \/ RedeemPersist(k, out) \/ RedeemOffline(k, out)
                             \/ RedeemIssue(k, out)
                             \/ ReplayAccess(k, out) \/ ReplayRefresh(k, out)

Refresh(k) ==
    \/ \E t \in Tokens : RefreshRead(k, t)
    \/ RefreshCheck(k)
    \/ \E out \in Outcomes : \/ \E pass \in BOOLEAN : RefreshTouch(k, out, pass)
                             \/ RefreshClaim(k, out) \/ RefreshMint(k, out)

Next ==
    \/ \E c \in Codes, s \in Sessions, offline \in Offline : Authorize(c, s, offline)
    \/ \E k \in Tasks : \/ Redeem(k) \/ Refresh(k) \/ Crash(k)
                        \/ \E out \in Outcomes : Kill(k, out)
                        \/ \E t \in Tokens : LogoutToken(k, t)
    \/ \E s \in Sessions : EndSession(s)
    \/ \E t \in Tokens : RevokeRefresh(t)
    \/ Tick

Spec == Init /\ [][Next]_vars

-----------------------------------------------------------------------------
(* Properties *)

PCs == {"idle", "load", "attach", "create", "offline", "issue", "replay", "bar", "mark",
        "check", "touch", "claim", "mint", "kill"}
TaskState == [pc : PCs, code : Codes \cup {None}, tok : Tokens \cup {None},
              sid : Sids \cup {None}, again : BOOLEAN]
TokenState == [root : Codes \cup {None}, prev : Tokens \cup {None}, sid : Sids \cup {None},
               at : Nat]

\* Every variable has the shape the code's types give it.
TypeOK ==
    /\ now \in Nat
    /\ session \in [Sids -> Nat]
    /\ code \in [Codes -> Nat]
    /\ used \in [Codes -> [tok : Tokens \cup {None}, exp : Nat]]
    /\ marker \in [Tokens -> [exp : Nat, n : 0 .. 2]]
    /\ barred \in [Tokens -> Nat]
    /\ grantOf \in [Codes -> [sid : Sessions \cup {None}, offline : BOOLEAN]]
    /\ tok \in [Tokens -> TokenState]
    /\ task \in [Tasks -> TaskState]
    /\ held \subseteq Tokens
    /\ stale \subseteq Codes /\ torn \subseteq Sids \cup Tokens /\ reused \subseteq Codes

\* A refresh request with t would be granted now.
Usable(t) ==
    /\ tok[t].at # 0 /\ now < RefreshExp(t)
    /\ ~Live(marker[t].exp)
    /\ session[tok[t].sid] # 0

\* Rotation: of all the refresh tokens that descend from one code, at most
\* one can still be exchanged, however redemptions, refreshes, replays,
\* revocations and crashes interleave.  Excepted are grants in which a token
\* was exchanged in the leeway after its expiry, when its marker is gone.
OneLiveTokenPerGrant ==
    \A t, u \in Tokens : /\ Usable(t) /\ Usable(u)
                         /\ tok[t].root = tok[u].root /\ tok[t].root \notin stale
                         => t = u

\* What the refresh handler says of its claim: "every concurrent or later
\* attempt observes an already-claimed token", so that no token has two
\* successors.
RefreshClaimedOnce ==
    \A t, u \in Tokens : tok[t].prev # None /\ tok[t].prev = tok[u].prev => t = u

\* A code is exchanged for at most one pair of tokens, whoever presents it:
\* every other pair of the grant comes from a rotation.
CodeExchangedOnce ==
    \A t, u \in Tokens : /\ tok[t].root # None /\ tok[t].root = tok[u].root
                         /\ tok[t].prev = None /\ tok[u].prev = None
                         => t = u

\* Once a code was presented again after its tokens had reached a client, and
\* the presentation was answered without a cache error, the tokens minted
\* from the code stay revoked for the rest of their lifetimes.
ReuseRevokes ==
    \A c \in reused :
        /\ Live(RefreshExp(used[c].tok)) => Live(marker[used[c].tok].exp)
        /\ Live(AccessExp(used[c].tok)) => Live(barred[used[c].tok])

\* A deleted session comes back only by a redemption that found none: no
\* refresh that raced with the deletion writes the row back.
RefreshNeverRecreates ==
    [][\A s \in Sids : s \in torn /\ session[s] = 0 /\ session'[s] # 0 =>
          \E k \in Tasks : task[k].pc = "create" /\ task[k].sid = s]_vars

\* What docs/security.md says of sessions: teardown immediately kills the
\* ability to refresh.
TeardownKillsRefresh == \A t \in Tokens : t \in torn => ~Usable(t)

=============================================================================
