------------------------- MODULE TokenGrantsProofs -------------------------
(***************************************************************************)
(* The token endpoint's promises for any number of codes, tokens, sessions *)
(* and concurrent handlers, any lifetimes and any clock: a code is         *)
(* exchanged once, a reused code revokes what it was exchanged for, a      *)
(* refresh never brings a deleted session back and, on the Redis cache, a  *)
(* grant has at most one refresh token that still works.                   *)
(***************************************************************************)
EXTENDS TokenGrants, TLAPS

Minted(t) == tok[t].root # None

\* Handler k holds code c, which it took out of the cache, and has not yet
\* minted tokens for it.
Redeeming(k, c) ==
    task[k].code = c /\ task[k].pc \in {"load", "attach", "create", "offline", "issue"}

\* A token that is not minted has left no trace; a minted one belongs to an
\* issued code, and its session is a browser session or its grant's own; a
\* refresh marker outlives the token it marks.
TokenInv ==
    /\ now > 0
    /\ \A t \in Tokens :
        /\ ~Minted(t) => tok[t] = NoToken /\ marker[t].exp = 0 /\ t \notin held
        /\ Minted(t) => tok[t].sid \in Sids /\ tok[t].sid \in Sessions \cup {tok[t].root}
        /\ marker[t].exp = 0 \/ marker[t].exp >= RefreshExp(t)

\* What a handler carries from step to step stays true of it.
TaskInv ==
    \A k \in Tasks :
        /\ task[k].pc \in {"load", "attach", "create", "offline", "issue"} =>
               task[k].code \in Codes /\ task[k].sid \in Sessions \cup {task[k].code}
        /\ task[k].pc \in {"load", "attach", "create", "offline"} => task[k].sid \in Sessions
        /\ task[k].pc \in {"replay", "bar", "mark"} =>
               task[k].code \in Codes /\ (task[k].again => used[task[k].code].exp # 0)
        /\ task[k].pc \in {"bar", "mark"} =>
               used[task[k].code].exp # 0 /\ task[k].tok = used[task[k].code].tok
        /\ task[k].pc \in {"check", "touch", "claim", "mint", "kill"} =>
               task[k].tok \in held /\ task[k].sid = tok[task[k].tok].sid

\* A code is in one place at a time: not issued yet, in the cache, with one
\* handler, or exchanged.
CodeInv ==
    /\ \A c \in Codes :
        /\ grantOf[c] # NoGrant => grantOf[c].sid \in Sessions
        /\ grantOf[c] = NoGrant \/ code[c] # 0 =>
               /\ \A k \in Tasks : ~Redeeming(k, c)
               /\ \A t \in Tokens : tok[t].root # c
        /\ grantOf[c] = NoGrant => code[c] = 0
    /\ \A c \in Codes, k \in Tasks : Redeeming(k, c) =>
        /\ \A j \in Tasks : Redeeming(j, c) => j = k
        /\ \A t \in Tokens : tok[t].root # c
    /\ CodeExchangedOnce

\* The record of what a code was exchanged for outlives the pair; a pair that
\* reached a client comes from a code that has one.
UsedInv ==
    /\ \A c \in Codes : used[c].exp # 0 =>
        /\ used[c].tok \in Tokens /\ tok[used[c].tok].root = c
        /\ used[c].exp >= RefreshExp(used[c].tok) /\ used[c].exp >= AccessExp(used[c].tok)
    /\ \A t \in held : used[tok[t].root].exp # 0

\* An answered reuse has put both markers in place, or came after the pair
\* had expired.
ReuseInv ==
    /\ \A k \in Tasks : task[k].pc = "mark" =>
        barred[task[k].tok] >= AccessExp(task[k].tok) \/ AccessExp(task[k].tok) <= now
    /\ \A c \in reused :
        /\ used[c].exp # 0
        /\ marker[used[c].tok].exp # 0 \/ RefreshExp(used[c].tok) <= now
        /\ barred[used[c].tok] >= AccessExp(used[c].tok) \/ AccessExp(used[c].tok) <= now

\* Only a grant's own session or a browser session is ever deleted.
TornInv ==
    \A c \in Codes : c \in torn => \E t \in Tokens : tok[t].root = c

GrantInv ==
    TypeOK /\ TokenInv /\ TaskInv /\ CodeInv /\ UsedInv /\ ReuseInv /\ TornInv

\* Rotation: the one unmarked token of a grant, or the one handler that has
\* claimed it and not yet minted its successor.
Unspent(t, c) == tok[t].root = c /\ marker[t].exp = 0
Rotating(k, c) == task[k].pc = "mint" /\ tok[task[k].tok].root = c
RotationInv ==
    \A c \in Codes \ stale :
        /\ \A t, u \in Tokens : Unspent(t, c) /\ Unspent(u, c) => t = u
        /\ \A k \in Tasks : Rotating(k, c) =>
            /\ \A t \in Tokens : ~Unspent(t, c)
            /\ \A j \in Tasks : Rotating(j, c) => j = k

-----------------------------------------------------------------------------
(* What the steps do to a handler's state. *)

\* Taking one field's new value keeps the shape of a handler's state.
LEMMA TaskFields ==
    ASSUME NEW x \in TaskState, NEW pc \in PCs
    PROVE  /\ [x EXCEPT !.pc = pc] \in TaskState
           /\ \A t \in Tokens : [x EXCEPT !.pc = pc, !.tok = t] \in TaskState
           /\ \A s \in Sids : [x EXCEPT !.pc = pc, !.sid = s] \in TaskState
           /\ Idle \in TaskState
  BY DEF TaskState, Idle, PCs

\* A handler that goes on keeps what it carries; no other handler moves.
LEMMA GotoEffect ==
    ASSUME TypeOK, NEW k \in Tasks, NEW pc \in PCs, Goto(k, pc)
    PROVE  /\ task' \in [Tasks -> TaskState]
           /\ \A j \in Tasks : j # k => task'[j] = task[j]
           /\ task'[k].pc = pc
           /\ pc # "idle" => /\ task'[k].code = task[k].code /\ task'[k].tok = task[k].tok
                             /\ task'[k].sid = task[k].sid /\ task'[k].again = task[k].again
           /\ pc = "idle" => task'[k] = Idle
<1>1. task[k] \in TaskState /\ task \in [Tasks -> TaskState]
  BY DEF TypeOK
<1>2. task' = [task EXCEPT ![k] = IF pc = "idle" THEN Idle ELSE [task[k] EXCEPT !.pc = pc]]
  BY DEF Goto
<1>3. [task[k] EXCEPT !.pc = pc] \in TaskState /\ Idle \in TaskState
  BY <1>1, TaskFields
<1>4. task' \in [Tasks -> TaskState] /\ \A j \in Tasks : j # k => task'[j] = task[j]
  BY <1>1, <1>2, <1>3
<1>5. CASE pc = "idle"
  <2>1. task'[k] = Idle
    BY <1>1, <1>2, <1>5
  <2> QED BY <2>1, <1>4, <1>5 DEF Idle
<1>6. CASE pc # "idle"
  <2>1. task'[k] = [task[k] EXCEPT !.pc = pc]
    BY <1>1, <1>2, <1>6
  <2> QED BY <2>1, <1>1, <1>4, <1>6 DEF TaskState
<1> QED BY <1>5, <1>6

\* A handler that starts, ends or takes up a value: the other ones stay.
LEMMA SetEffect ==
    ASSUME TypeOK, NEW k \in Tasks, NEW x \in TaskState, task' = [task EXCEPT ![k] = x]
    PROVE  /\ task' \in [Tasks -> TaskState]
           /\ \A j \in Tasks : j # k => task'[j] = task[j]
           /\ task'[k] = x
  BY DEF TypeOK

\* While a token is left, Fresh is one that was never minted.
LEMMA FreshUnminted ==
    ASSUME Unminted # {}
    PROVE  Fresh \in Tokens /\ tok[Fresh] = NoToken
  BY DEF Unminted, Fresh

-----------------------------------------------------------------------------
(* Every step keeps the types. *)

\* An authorization code is presented.
LEMMA RedeemTakeType ==
    ASSUME TypeOK, NEW k \in Tasks, NEW c \in Codes, NEW out \in Outcomes, NEW pass \in BOOLEAN,
           RedeemTake(k, c, out, pass)
    PROVE  TypeOK'
<1> DEFINE found == out = "ok" /\ Live(code[c])
           go == [pc |-> IF found THEN "load" ELSE "replay", code |-> c, tok |-> None,
                  sid |-> grantOf[c].sid, again |-> \E t \in held : tok[t].root = c]
           x == IF found /\ ~pass THEN Idle ELSE go
<1>1. grantOf[c].sid \in Sids \cup {None} /\ (\E t \in held : tok[t].root = c) \in BOOLEAN
  BY DEF TypeOK, Sids
<1>2. go \in TaskState
  BY <1>1 DEF TaskState, PCs
<1>3. x \in TaskState
  BY <1>2, TaskFields DEF PCs
<1>4. task' = [task EXCEPT ![k] = x]
  BY DEF RedeemTake
<1>5. task' \in [Tasks -> TaskState]
  BY <1>3, <1>4, SetEffect
<1>6. code' \in [Codes -> Nat]
  BY DEF TypeOK, RedeemTake, Consume
<1> QED BY <1>5, <1>6 DEF TypeOK, RedeemTake, histVars

\* The other steps of a redemption and of the answer to a reuse.
LEMMA RedeemType ==
    ASSUME TypeOK, NEW k \in Tasks, NEW out \in Outcomes,
           \/ RedeemLoad(k, out) \/ RedeemPersist(k, out) \/ RedeemOffline(k, out)
           \/ RedeemIssue(k, out) \/ ReplayRead(k, out) \/ ReplayAccess(k, out)
           \/ ReplayRefresh(k, out),
           task[k].pc \in {"offline", "issue", "replay", "mark"} => task[k].code \in Codes,
           task[k].pc \in {"bar", "mark"} => task[k].tok \in Tokens,
           task[k].pc = "replay" /\ used[task[k].code].exp # 0 =>
               used[task[k].code].tok \in Tokens
    PROVE  TypeOK'
<1> USE TokenAssumption DEF TokenAssumption
<1>0. task[k] \in TaskState /\ task \in [Tasks -> TaskState] /\ now \in Nat
  BY DEF TypeOK
<1>1. CASE RedeemLoad(k, out)
  <2>1. task' \in [Tasks -> TaskState]
    BY <1>1, GotoEffect DEF RedeemLoad, PCs
  <2> QED BY <2>1, <1>1 DEF TypeOK, RedeemLoad, cacheVars, histVars
<1>2. CASE RedeemPersist(k, out)
  <2>1. task' \in [Tasks -> TaskState]
    BY <1>2, GotoEffect DEF RedeemPersist, PCs
  <2>2. session' \in [Sids -> Nat]
    BY <1>2, <1>0 DEF RedeemPersist, TypeOK
  <2> QED BY <2>1, <2>2, <1>2 DEF TypeOK, RedeemPersist, cacheVars, histVars
<1>3. CASE RedeemOffline(k, out)
  <2>1. task[k].code \in Sids
    BY <1>3 DEF RedeemOffline, Sids
  <2> DEFINE x == IF out = "ok" THEN [task[k] EXCEPT !.pc = "issue", !.sid = task[k].code]
                  ELSE Idle
  <2>2. x \in TaskState
    <3> HIDE DEF TaskState
    <3> QED BY <1>0, <2>1, TaskFields DEF PCs
  <2>3. task' = [task EXCEPT ![k] = x]
    BY <1>3 DEF RedeemOffline
  <2>4. task' \in [Tasks -> TaskState]
    BY <2>2, <2>3, SetEffect
  <2>5. session' \in [Sids -> Nat]
    BY <1>3, <1>0 DEF RedeemOffline, TypeOK
  <2> QED BY <2>4, <2>5, <1>3 DEF TypeOK, RedeemOffline, cacheVars, histVars
<1>4. CASE RedeemIssue(k, out)
  <2>1. task' \in [Tasks -> TaskState]
    BY <1>4, GotoEffect DEF RedeemIssue, PCs
  <2>2. Fresh \in Tokens /\ task[k].code \in Codes /\ task[k].sid \in Sids \cup {None}
    BY <1>0, <1>4, FreshUnminted DEF RedeemIssue, TaskState
  <2>3. [root |-> task[k].code, prev |-> None, sid |-> task[k].sid, at |-> now] \in TokenState
    BY <1>0, <2>2 DEF TokenState
  <2>4. tok' \in [Tokens -> TokenState]
    BY <1>4, <2>2, <2>3 DEF TypeOK, RedeemIssue
  <2>5. used' \in [Codes -> [tok : Tokens \cup {None}, exp : Nat]]
    BY <1>0, <1>4, <2>2 DEF TypeOK, RedeemIssue, UsedTTL, Max2
  <2>6. held' \subseteq Tokens
    BY <1>4, <2>2 DEF TypeOK, RedeemIssue
  <2> QED BY <2>1, <2>4, <2>5, <2>6, <1>4 DEF TypeOK, RedeemIssue
<1>5. CASE ReplayRead(k, out)
  <2>1. task[k].code \in Codes /\ used[task[k].code].exp \in Nat
    BY <1>5 DEF ReplayRead, TypeOK
  <2> DEFINE known == out = "ok" /\ Live(used[task[k].code].exp)
             x == IF known THEN [task[k] EXCEPT !.pc = "bar", !.tok = used[task[k].code].tok]
                  ELSE Idle
  <2>2. known => used[task[k].code].tok \in Tokens
    BY <1>0, <1>5, <2>1 DEF Live, ReplayRead
  <2>3. x \in TaskState
    <3> HIDE DEF TaskState, known
    <3> QED BY <1>0, <2>2, TaskFields DEF PCs
  <2>4. task' = [task EXCEPT ![k] = x]
    BY <1>5 DEF ReplayRead
  <2>5. task' \in [Tasks -> TaskState]
    BY <2>3, <2>4, SetEffect
  <2>6. reused' \subseteq Codes
    BY <1>5, <2>1 DEF ReplayRead, TypeOK
  <2> QED BY <2>5, <2>6, <1>5 DEF TypeOK, ReplayRead, cacheVars, histVars
<1>6. CASE ReplayAccess(k, out)
  <2>1. task' \in [Tasks -> TaskState]
    BY <1>6, GotoEffect DEF ReplayAccess, PCs
  <2>2. task[k].tok \in Tokens
    BY <1>6 DEF ReplayAccess
  <2>3. AccessExp(task[k].tok) \in Nat
    BY <2>2 DEF AccessExp, TypeOK, TokenState
  <2>4. barred' \in [Tokens -> Nat]
    BY <1>6, <2>2, <2>3 DEF ReplayAccess, TypeOK
  <2> QED BY <2>1, <2>4, <1>6 DEF TypeOK, ReplayAccess, histVars
<1>7. CASE ReplayRefresh(k, out)
  <2>1. task' \in [Tasks -> TaskState]
    BY <1>7, GotoEffect DEF ReplayRefresh, PCs
  <2>2. task[k].tok \in Tokens /\ task[k].code \in Codes
    BY <1>7 DEF ReplayRefresh
  <2>3. RefreshExp(task[k].tok) \in Nat
    BY <2>2 DEF RefreshExp, TypeOK, TokenState
  <2>4. marker' \in [Tokens -> [exp : Nat, n : 0 .. 2]]
    BY <1>7, <2>2, <2>3 DEF ReplayRefresh, TypeOK
  <2>5. reused' \subseteq Codes
    BY <1>7, <2>2 DEF ReplayRefresh, TypeOK
  <2> QED BY <2>1, <2>4, <2>5, <1>7 DEF TypeOK, ReplayRefresh
<1> QED BY <1>1, <1>2, <1>3, <1>4, <1>5, <1>6, <1>7

\* A counter the cache answers lies in its range.
LEMMA IncrementedType ==
    ASSUME NEW t
    PROVE  Incremented(t) \in 0 .. 2
  BY DEF Incremented

\* The steps of a refresh.
LEMMA RefreshType ==
    ASSUME TypeOK, NEW k \in Tasks, NEW out \in Outcomes,
           \/ \E t \in Tokens : RefreshRead(k, t)
           \/ RefreshCheck(k)
           \/ \E pass \in BOOLEAN : RefreshTouch(k, out, pass)
           \/ RefreshClaim(k, out) \/ RefreshMint(k, out),
           task[k].pc \in {"claim", "mint"} =>
               task[k].tok \in Tokens /\ tok[task[k].tok].root \in Codes
    PROVE  TypeOK'
<1> USE TokenAssumption DEF TokenAssumption
<1>0. task[k] \in TaskState /\ task \in [Tasks -> TaskState] /\ now \in Nat
  BY DEF TypeOK
<1>1. ASSUME NEW t \in Tokens, RefreshRead(k, t) PROVE TypeOK'
  <2> DEFINE x == [pc |-> IF Live(marker[t].exp) THEN "kill" ELSE "check",
                   code |-> None, tok |-> t, sid |-> tok[t].sid, again |-> FALSE]
  <2>1. x \in TaskState
    BY DEF TypeOK, TokenState, TaskState, PCs
  <2>2. task' = [task EXCEPT ![k] = x]
    BY <1>1 DEF RefreshRead
  <2>3. task' \in [Tasks -> TaskState]
    BY <2>1, <2>2, SetEffect
  <2> QED BY <2>3, <1>1 DEF TypeOK, RefreshRead, cacheVars, histVars
<1>2. CASE RefreshCheck(k)
  <2>1. task' \in [Tasks -> TaskState]
    BY <1>2, GotoEffect DEF RefreshCheck, PCs
  <2> QED BY <2>1, <1>2 DEF TypeOK, RefreshCheck, cacheVars, histVars
<1>3. ASSUME NEW pass \in BOOLEAN, RefreshTouch(k, out, pass) PROVE TypeOK'
  <2>1. task' \in [Tasks -> TaskState]
    BY <1>3, GotoEffect DEF RefreshTouch, PCs
  <2>2. session' \in [Sids -> Nat]
    BY <1>3, <1>0 DEF RefreshTouch, TypeOK
  <2> QED BY <2>1, <2>2, <1>3 DEF TypeOK, RefreshTouch, cacheVars, histVars
<1>4. CASE RefreshClaim(k, out)
  <2>1. task' \in [Tasks -> TaskState]
    BY <1>4, GotoEffect DEF RefreshClaim, PCs
  <2>2. task[k].tok \in Tokens /\ tok[task[k].tok].root \in Codes
    BY <1>4 DEF RefreshClaim
  <2> DEFINE t == task[k].tok
             e == IF Live(marker[t].exp) THEN marker[t].exp ELSE Max2(RefreshExp(t), now + 1)
  <2>3. RefreshExp(t) \in Nat /\ marker[t].exp \in Nat /\ Incremented(t) \in 0 .. 2
    BY <2>2, IncrementedType DEF RefreshExp, TypeOK, TokenState
  <2>4. e \in Nat
    BY <1>0, <2>3 DEF Max2
  <2>5. [exp |-> e, n |-> Incremented(t)] \in [exp : Nat, n : 0 .. 2]
    BY <2>3, <2>4
  <2>6. marker' = marker \/ marker' = [marker EXCEPT ![t] = [exp |-> e, n |-> Incremented(t)]]
    BY <1>4 DEF RefreshClaim
  <2>7. marker' \in [Tokens -> [exp : Nat, n : 0 .. 2]]
    <3> HIDE DEF e, t
    <3> QED BY <2>2, <2>5, <2>6 DEF TypeOK, t
  <2>8. stale' \subseteq Codes
    BY <1>4, <2>2 DEF RefreshClaim, TypeOK
  <2> QED BY <2>1, <2>7, <2>8, <1>4 DEF TypeOK, RefreshClaim
<1>5. CASE RefreshMint(k, out)
  <2>1. task' \in [Tasks -> TaskState]
    BY <1>5, GotoEffect DEF RefreshMint, PCs
  <2>2. Fresh \in Tokens /\ task[k].tok \in Tokens
    BY <1>5, FreshUnminted DEF RefreshMint
  <2>3. tok[task[k].tok] \in TokenState
    BY <2>2 DEF TypeOK
  <2>4. [tok[task[k].tok] EXCEPT !.prev = task[k].tok, !.at = now] \in TokenState
    BY <1>0, <2>2, <2>3 DEF TokenState
  <2>5. tok' \in [Tokens -> TokenState]
    <3> HIDE DEF TokenState
    <3> QED BY <1>5, <2>2, <2>4 DEF TypeOK, RefreshMint
  <2>6. held' \subseteq Tokens
    BY <1>5, <2>2 DEF TypeOK, RefreshMint
  <2> QED BY <2>1, <2>5, <2>6, <1>5 DEF TypeOK, RefreshMint, cacheVars
<1> QED BY <1>1, <1>2, <1>3, <1>4, <1>5

\* A new code, the ends of sessions and tokens, crashes and the clock.
LEMMA EndType ==
    ASSUME TypeOK,
           \/ \E c \in Codes, s \in Sessions, offline \in Offline : Authorize(c, s, offline)
           \/ \E k \in Tasks, out \in Outcomes : Kill(k, out) /\ task[k].sid \in Sids
           \/ \E k \in Tasks : Crash(k) \/ \E t \in Tokens : LogoutToken(k, t)
           \/ \E s \in Sessions : EndSession(s)
           \/ \E t \in Tokens : RevokeRefresh(t)
           \/ Tick
    PROVE  TypeOK'
<1> USE TokenAssumption DEF TokenAssumption
<1>0. task \in [Tasks -> TaskState] /\ now \in Nat
  BY DEF TypeOK
<1>a. ASSUME NEW t \in Tokens PROVE RefreshExp(t) \in Nat /\ tok[t].sid \in Sids \cup {None}
  BY DEF RefreshExp, TypeOK, TokenState
<1>1. ASSUME NEW c \in Codes, NEW s \in Sessions, NEW offline \in Offline, Authorize(c, s, offline)
      PROVE TypeOK'
  <2>0. s \in Sids /\ session[s] \in Nat /\ now + CodeTTL \in Nat
    BY <1>0 DEF TypeOK, Sids
  <2>1. session' \in [Sids -> Nat] /\ code' \in [Codes -> Nat]
    BY <1>1, <1>0, <2>0 DEF TypeOK, Authorize
  <2>2. grantOf' \in [Codes -> [sid : Sessions \cup {None}, offline : BOOLEAN]]
    BY <1>1 DEF TypeOK, Authorize
  <2> QED BY <2>1, <2>2, <1>1 DEF TypeOK, Authorize, histVars
<1>2. ASSUME NEW k \in Tasks, NEW out \in Outcomes, Kill(k, out), task[k].sid \in Sids
      PROVE TypeOK'
  <2>1. task' \in [Tasks -> TaskState]
    BY <1>2, GotoEffect DEF Kill, PCs
  <2>2. session' \in [Sids -> Nat] /\ torn' \subseteq Sids \cup Tokens
    BY <1>2 DEF TypeOK, Kill, Family
  <2> QED BY <2>1, <2>2, <1>2 DEF TypeOK, Kill, cacheVars
<1>3. ASSUME NEW k \in Tasks, Crash(k) PROVE TypeOK'
  <2>1. task' \in [Tasks -> TaskState]
    BY <1>3, GotoEffect DEF Crash, PCs
  <2> QED BY <2>1, <1>3 DEF TypeOK, Crash, cacheVars, histVars
<1>4. ASSUME NEW k \in Tasks, NEW t \in Tokens, LogoutToken(k, t) PROVE TypeOK'
  <2> DEFINE x == [pc |-> "kill", code |-> None, tok |-> t, sid |-> tok[t].sid, again |-> FALSE]
  <2>1. x \in TaskState
    BY <1>a DEF TaskState, PCs
  <2>2. task' = [task EXCEPT ![k] = x]
    BY <1>4 DEF LogoutToken
  <2>3. task' \in [Tasks -> TaskState]
    BY <2>1, <2>2, SetEffect
  <2>4. marker' \in [Tokens -> [exp : Nat, n : 0 .. 2]]
    BY <1>4, <1>a DEF TypeOK, LogoutToken
  <2> QED BY <2>3, <2>4, <1>4 DEF TypeOK, LogoutToken, histVars
<1>5. ASSUME NEW s \in Sessions, EndSession(s) PROVE TypeOK'
  <2>1. session' \in [Sids -> Nat] /\ torn' \subseteq Sids \cup Tokens
    BY <1>5 DEF TypeOK, EndSession, Family, Sids
  <2> QED BY <2>1, <1>5 DEF TypeOK, EndSession, cacheVars
<1>6. ASSUME NEW t \in Tokens, RevokeRefresh(t) PROVE TypeOK'
  <2>1. Max2(RefreshExp(t), now + 1) \in Nat
    BY <1>a, <1>0 DEF Max2
  <2>2. marker' \in [Tokens -> [exp : Nat, n : 0 .. 2]]
    BY <1>6, <2>1 DEF TypeOK, RevokeRefresh
  <2> QED BY <2>2, <1>6 DEF TypeOK, RevokeRefresh, histVars
<1>7. CASE Tick
  BY <1>7, <1>0 DEF TypeOK, Tick, cacheVars, histVars
<1> QED BY <1>1, <1>2, <1>3, <1>4, <1>5, <1>6, <1>7

-----------------------------------------------------------------------------
(* Steps that only move a handler on. *)

\* A handler that goes on or ends, while no token is minted, keeps its promises.
LEMMA TaskMove ==
    ASSUME GrantInv, NEW k \in Tasks,
           task' \in [Tasks -> TaskState], \A j \in Tasks : j # k => task'[j] = task[j],
           UNCHANGED <<code, used, grantOf, tok, held>>,
           \/ task'[k].pc = "idle"
           \/ /\ task'[k].code = task[k].code /\ task'[k].tok = task[k].tok
              /\ task'[k].sid = task[k].sid /\ task'[k].again = task[k].again
              /\ \/ task[k].pc = "load" /\ task'[k].pc \in {"attach", "create"}
                 \/ task[k].pc \in {"attach", "create"} /\ task'[k].pc \in {"offline", "issue"}
                 \/ task[k].pc = "bar" /\ task'[k].pc = "mark"
                 \/ /\ task[k].pc \in {"check", "touch", "claim"}
                    /\ task'[k].pc \in {"touch", "claim", "mint", "kill"}
    PROVE  TaskInv' /\ CodeInv'
<1> USE DEF GrantInv
<1>1. TaskInv'
  BY DEF TaskInv
<1>2. ASSUME NEW j \in Tasks, NEW c, Redeeming(j, c)' PROVE Redeeming(j, c)
  BY <1>2 DEF Redeeming
<1>3. CodeInv'
  BY <1>2 DEF CodeInv, CodeExchangedOnce
<1> QED BY <1>1, <1>3

\* Markers that are only added keep an answered reuse answered.
LEMMA ReuseMove ==
    ASSUME GrantInv, UNCHANGED <<used, tok, reused>>, now' \in Nat, now' >= now,
           barred' \in [Tokens -> Nat],
           \A t \in Tokens : /\ marker[t].exp # 0 => marker'[t].exp # 0
                             /\ barred'[t] = barred[t] \/ barred'[t] >= AccessExp(t),
           \A j \in Tasks : task'[j].pc = "mark" =>
               \/ task[j].pc = "mark" /\ task'[j].tok = task[j].tok
               \/ /\ task'[j].tok \in Tokens
                  /\ \/ barred'[task'[j].tok] >= AccessExp(task'[j].tok)
                     \/ AccessExp(task'[j].tok) <= now'
    PROVE  ReuseInv'
<1> USE DEF GrantInv
<1>0. \A t \in Tokens : AccessExp(t) \in Nat /\ RefreshExp(t) \in Nat
  BY TokenAssumption DEF TypeOK, TokenState, AccessExp, RefreshExp, TokenAssumption
<1>1. \A t : AccessExp(t)' = AccessExp(t) /\ RefreshExp(t)' = RefreshExp(t)
  BY DEF AccessExp, RefreshExp
<1>2. now \in Nat /\ barred \in [Tokens -> Nat] /\ reused \subseteq Codes
  BY DEF TypeOK
<1>3. \A c \in Codes : used[c].exp # 0 => used[c].tok \in Tokens
  BY DEF UsedInv
<1>4. \A j \in Tasks : task[j].pc = "mark" => task[j].tok \in Tokens
  BY <1>3 DEF TaskInv
<1>5. ASSUME NEW j \in Tasks, task'[j].pc = "mark"
      PROVE  \/ barred'[task'[j].tok] >= AccessExp(task'[j].tok)
             \/ AccessExp(task'[j].tok) <= now'
  BY <1>0, <1>2, <1>4, <1>5 DEF ReuseInv
<1>6. ASSUME NEW c \in reused'
      PROVE  /\ used'[c].exp # 0
             /\ marker'[used'[c].tok].exp # 0 \/ RefreshExp(used'[c].tok) <= now'
             /\ \/ barred'[used'[c].tok] >= AccessExp(used'[c].tok)
                \/ AccessExp(used'[c].tok) <= now'
  <2>1. c \in reused /\ used[c].exp # 0 /\ used[c].tok \in Tokens
    BY <1>2, <1>3, <1>6 DEF ReuseInv
  <2> QED BY <1>0, <1>2, <2>1 DEF ReuseInv
<1> QED BY <1>1, <1>5, <1>6 DEF ReuseInv

\* Where a step leaves tokens, markers and codes alone, so do their invariants.
LEMMA SameTokens ==
    ASSUME GrantInv, UNCHANGED <<now, tok, marker, held>>
    PROVE  TokenInv'
  BY DEF GrantInv, TokenInv, Minted, RefreshExp, NoToken

\* The same for the records of exchanged codes.
LEMMA SameUsed ==
    ASSUME GrantInv, UNCHANGED <<used, tok, held>>
    PROVE  UsedInv'
  BY DEF GrantInv, UsedInv, RefreshExp, AccessExp

\* The same for handlers and codes.
LEMMA SameTasks ==
    ASSUME GrantInv, UNCHANGED <<code, used, grantOf, tok, task, held>>
    PROVE  TaskInv' /\ CodeInv'
<1>1. TaskInv'
  BY DEF GrantInv, TaskInv
<1>2. \A j \in Tasks : \A d : Redeeming(j, d)' <=> Redeeming(j, d)
  BY DEF Redeeming
<1>3. CodeExchangedOnce'
  BY DEF GrantInv, CodeInv, CodeExchangedOnce
<1>4. CodeInv'
  BY <1>2, <1>3 DEF GrantInv, CodeInv, NoGrant
<1> QED BY <1>1, <1>4

-----------------------------------------------------------------------------
(* Every step keeps GrantInv. *)

\* The facts about a handler's values that the type lemmas rest on.
LEMMA Carried ==
    ASSUME GrantInv, NEW k \in Tasks
    PROVE  /\ task[k].pc \in {"load", "attach", "create", "offline", "issue", "replay", "bar",
                              "mark"} => task[k].code \in Codes
           /\ task[k].pc \in {"bar", "mark"} => task[k].tok \in Tokens
           /\ task[k].pc = "replay" /\ used[task[k].code].exp # 0 =>
               used[task[k].code].tok \in Tokens
           /\ task[k].pc \in {"check", "touch", "claim", "mint", "kill"} =>
               /\ task[k].tok \in Tokens /\ tok[task[k].tok].root \in Codes
               /\ task[k].sid \in Sids
<1> USE TokenAssumption DEF TokenAssumption, GrantInv
<1>1. task[k].pc \in {"load", "attach", "create", "offline", "issue", "replay", "bar", "mark"} =>
          task[k].code \in Codes
  BY DEF TaskInv, UsedInv
<1>2. \A c \in Codes : used[c].exp # 0 => used[c].tok \in Tokens
  BY DEF UsedInv
<1>3. \A t \in held : t \in Tokens /\ tok[t].root \in Codes /\ tok[t].sid \in Sids
  BY DEF TypeOK, TokenInv, Minted, TokenState
<1>4. task[k].pc \in {"check", "touch", "claim", "mint", "kill"} =>
          task[k].tok \in held /\ task[k].sid = tok[task[k].tok].sid
  BY DEF TaskInv
<1>5. task[k].pc \in {"bar", "mark"} => task[k].tok \in Tokens
  BY <1>1, <1>2 DEF TaskInv
<1> QED BY <1>1, <1>2, <1>3, <1>4, <1>5

\* Reading or writing the session row, a crash: only a handler moves.
LEMMA QuietStep ==
    ASSUME GrantInv, NEW k \in Tasks, NEW out \in Outcomes,
           \/ RedeemLoad(k, out) \/ RedeemPersist(k, out) \/ RefreshCheck(k)
           \/ \E pass \in BOOLEAN : RefreshTouch(k, out, pass)
           \/ Crash(k)
    PROVE  GrantInv'
<1>0. TypeOK /\ task[k].pc \in PCs
  BY DEF GrantInv, TypeOK, TaskState
<1>1. TypeOK'
  BY <1>0, RedeemType, RefreshType, EndType, Carried
<1>2. UNCHANGED <<now, code, used, marker, barred, grantOf, tok, held, torn, reused>>
  BY DEF RedeemLoad, RedeemPersist, RefreshCheck, RefreshTouch, Crash, cacheVars, histVars
<1>3. \E pc \in PCs : /\ Goto(k, pc)
                      /\ \/ pc = "idle"
                         \/ task[k].pc = "load" /\ pc \in {"attach", "create"}
                         \/ task[k].pc \in {"attach", "create"} /\ pc \in {"offline", "issue"}
                         \/ task[k].pc \in {"check", "touch"} /\ pc \in {"touch", "claim", "kill"}
  <2>1. CASE RedeemLoad(k, out)
    BY <2>1 DEF RedeemLoad, PCs
  <2>2. CASE RedeemPersist(k, out)
    BY <2>2 DEF RedeemPersist, PCs
  <2>3. CASE RefreshCheck(k)
    BY <2>3 DEF RefreshCheck, PCs
  <2>4. CASE \E pass \in BOOLEAN : RefreshTouch(k, out, pass)
    BY <2>4 DEF RefreshTouch, PCs
  <2>5. CASE Crash(k)
    BY <2>5 DEF Crash, PCs
  <2> QED BY <2>1, <2>2, <2>3, <2>4, <2>5
<1>4. PICK pc \in PCs : /\ Goto(k, pc)
                        /\ \/ pc = "idle"
                           \/ task[k].pc = "load" /\ pc \in {"attach", "create"}
                           \/ task[k].pc \in {"attach", "create"} /\ pc \in {"offline", "issue"}
                           \/ task[k].pc \in {"check", "touch"} /\ pc \in {"touch", "claim", "kill"}
  BY <1>3
<1>5. /\ task' \in [Tasks -> TaskState]
      /\ \A j \in Tasks : j # k => task'[j] = task[j]
      /\ task'[k].pc = pc
      /\ pc # "idle" => /\ task'[k].code = task[k].code /\ task'[k].tok = task[k].tok
                        /\ task'[k].sid = task[k].sid /\ task'[k].again = task[k].again
  BY <1>0, <1>4, GotoEffect
<1>6. TaskInv' /\ CodeInv'
  BY <1>2, <1>4, <1>5, TaskMove
<1>7. \A j \in Tasks : task'[j].pc = "mark" => task[j].pc = "mark" /\ task'[j].tok = task[j].tok
  BY <1>4, <1>5
<1>8. ReuseInv'
  BY <1>0, <1>2, <1>7, ReuseMove DEF TypeOK
<1>9. TornInv'
  BY <1>2 DEF GrantInv, TornInv
<1> QED BY <1>1, <1>2, <1>6, <1>8, <1>9, SameTokens, SameUsed DEF GrantInv

\* A presented code leaves the cache with at most one handler; later
\* presentations know whether its tokens had reached a client.
LEMMA RedeemTakeStep ==
    ASSUME GrantInv, NEW k \in Tasks, NEW c \in Codes, NEW out \in Outcomes, NEW pass \in BOOLEAN,
           RedeemTake(k, c, out, pass)
    PROVE  GrantInv'
<1> DEFINE found == out = "ok" /\ Live(code[c])
           go == [pc |-> IF found THEN "load" ELSE "replay", code |-> c, tok |-> None,
                  sid |-> grantOf[c].sid, again |-> \E t \in held : tok[t].root = c]
           x == IF found /\ ~pass THEN Idle ELSE go
<1>0. TypeOK /\ grantOf[c] # NoGrant /\ grantOf[c].sid \in Sessions /\ code[c] \in Nat /\ now \in Nat
  BY DEF GrantInv, CodeInv, RedeemTake, TypeOK
<1>1. TypeOK'
  BY <1>0, RedeemTakeType
<1>2. UNCHANGED <<now, used, marker, barred, grantOf, tok, held, torn, reused>>
  BY DEF RedeemTake, histVars
<1>3. task' \in [Tasks -> TaskState] /\ task' = [task EXCEPT ![k] = x]
  BY <1>1 DEF RedeemTake, TypeOK
<1>4. /\ \A j \in Tasks : j # k => task'[j] = task[j]
      /\ task'[k] = x
  BY <1>0, <1>3 DEF TypeOK
<1>5. /\ task'[k].pc \in {"idle", "load", "replay"}
      /\ task'[k].pc = "load" => found
      /\ task'[k].pc # "idle" => /\ task'[k].code = c /\ task'[k].sid = grantOf[c].sid
                                 /\ task'[k].again <=> \E t \in held : tok[t].root = c
  <2>1. CASE found /\ ~pass
    BY <1>4, <2>1 DEF Idle
  <2>2. CASE ~(found /\ ~pass)
    BY <1>4, <2>2
  <2> QED BY <2>1, <2>2
<1>6. /\ \A d \in Codes : code'[d] = code[d] \/ code'[d] = 0
      /\ found => code'[c] = 0 /\ code[c] # 0
  BY <1>0 DEF RedeemTake, Consume, Live, TypeOK
<1> HIDE DEF found, go, x
<1>7. task'[k].again /\ task'[k].pc # "idle" => used[c].exp # 0
  BY <1>5 DEF GrantInv, UsedInv
<1>8. TaskInv'
  BY <1>0, <1>2, <1>4, <1>5, <1>7 DEF GrantInv, TaskInv
<1>9. CodeInv'
  <2>1. ASSUME NEW j \in Tasks, NEW d, Redeeming(j, d)'
        PROVE  \/ Redeeming(j, d) /\ j # k
               \/ j = k /\ d = c /\ found
    BY <1>4, <1>5, <2>1 DEF Redeeming
  <2>2. found => /\ \A j \in Tasks : ~Redeeming(j, c)
                 /\ \A t \in Tokens : tok[t].root # c
    BY <1>6 DEF GrantInv, CodeInv
  <2>3. CodeExchangedOnce'
    BY <1>2 DEF GrantInv, CodeInv, CodeExchangedOnce
  <2>4. ASSUME NEW d \in Codes, NEW j \in Tasks, Redeeming(j, d)'
        PROVE  /\ \A i \in Tasks : Redeeming(i, d)' => i = j
               /\ \A t \in Tokens : tok'[t].root # d
    BY <1>2, <2>1, <2>2, <2>4 DEF GrantInv, CodeInv
  <2>5. ASSUME NEW d \in Codes
        PROVE  /\ grantOf'[d] # NoGrant => grantOf'[d].sid \in Sessions
               /\ grantOf'[d] = NoGrant \/ code'[d] # 0 =>
                    /\ \A j \in Tasks : ~Redeeming(j, d)'
                    /\ \A t \in Tokens : tok'[t].root # d
               /\ grantOf'[d] = NoGrant => code'[d] = 0
    BY <1>0, <1>2, <1>6, <2>1 DEF GrantInv, CodeInv
  <2> QED BY <2>3, <2>4, <2>5 DEF CodeInv, NoGrant
<1>10. \A j \in Tasks : task'[j].pc = "mark" => task[j].pc = "mark" /\ task'[j].tok = task[j].tok
  BY <1>4, <1>5
<1>11. ReuseInv'
  BY <1>0, <1>2, <1>10, ReuseMove DEF TypeOK
<1>12. TornInv'
  BY <1>2 DEF GrantInv, TornInv
<1> QED BY <1>1, <1>2, <1>8, <1>9, <1>11, <1>12, SameTokens, SameUsed DEF GrantInv

\* The offline session has the code's own id.
LEMMA RedeemOfflineStep ==
    ASSUME GrantInv, NEW k \in Tasks, NEW out \in Outcomes, RedeemOffline(k, out)
    PROVE  GrantInv'
<1>0. TypeOK /\ task[k] \in TaskState /\ task[k].pc = "offline" /\ task[k].code \in Codes
  BY Carried DEF GrantInv, TypeOK, RedeemOffline
<1>1. TypeOK'
  BY <1>0, RedeemType, Carried
<1>2. UNCHANGED <<now, code, used, marker, barred, grantOf, tok, held, torn, reused>>
  BY DEF RedeemOffline, cacheVars, histVars
<1>3. task' \in [Tasks -> TaskState] /\ task \in [Tasks -> TaskState]
  BY <1>0, <1>1 DEF TypeOK
<1>4. /\ \A j \in Tasks : j # k => task'[j] = task[j]
      /\ task'[k] = Idle \/ task'[k] = [task[k] EXCEPT !.pc = "issue", !.sid = task[k].code]
  BY <1>3 DEF RedeemOffline
<1>5. \/ task'[k].pc = "idle"
      \/ task'[k].pc = "issue" /\ task'[k].code = task[k].code /\ task'[k].sid = task[k].code
  <2>1. CASE task'[k] = Idle
    BY <2>1 DEF Idle
  <2>2. CASE task'[k] = [task[k] EXCEPT !.pc = "issue", !.sid = task[k].code]
    BY <1>0, <2>2 DEF TaskState
  <2> QED BY <1>4, <2>1, <2>2
<1>6. TaskInv'
  BY <1>0, <1>2, <1>4, <1>5 DEF GrantInv, TaskInv
<1>7. ASSUME NEW j \in Tasks, NEW c, Redeeming(j, c)' PROVE Redeeming(j, c)
  BY <1>0, <1>4, <1>5, <1>7 DEF Redeeming
<1>8. CodeInv'
  BY <1>2, <1>7 DEF GrantInv, CodeInv, CodeExchangedOnce
<1>9. \A j \in Tasks : task'[j].pc = "mark" => task[j].pc = "mark" /\ task'[j].tok = task[j].tok
  BY <1>4, <1>5
<1>10. ReuseInv'
  BY <1>0, <1>2, <1>9, ReuseMove DEF TypeOK
<1>11. TornInv'
  BY <1>2 DEF GrantInv, TornInv
<1> QED BY <1>1, <1>2, <1>6, <1>8, <1>10, <1>11, SameTokens, SameUsed DEF GrantInv

\* What a newly minted pair leaves of the invariants on tokens: it takes an
\* unminted token, carries a code and a session that fit, and is unmarked.
LEMMA MintTokens ==
    ASSUME GrantInv, NEW t \in Tokens, NEW x \in TokenState,
           tok[t] = NoToken, tok' = [tok EXCEPT ![t] = x],
           x.root \in Codes, x.sid \in Sids, x.sid \in Sessions \cup {x.root}, x.at = now,
           UNCHANGED <<now, marker>>, held' = held \/ held' = held \cup {t}
    PROVE  /\ TokenInv'
           /\ \A u \in Tokens : u # t => tok'[u] = tok[u]
           /\ t \notin held
           /\ \A c \in Codes : used[c].exp # 0 => used[c].tok # t
           /\ \A k \in Tasks : task[k].pc \in {"bar", "mark", "check", "touch", "claim", "mint",
                                               "kill"} => task[k].tok # t /\ task[k].tok \in Tokens
           /\ tok'[t] = x
<1> USE TokenAssumption DEF TokenAssumption, GrantInv
<1>1. \A u \in Tokens : u # t => tok'[u] = tok[u]
  BY DEF TypeOK
<1>2. tok'[t] = x
  BY DEF TypeOK
<1>3. tok[t].root = None /\ marker[t].exp = 0 /\ t \notin held
  BY DEF TokenInv, Minted, NoToken
<1>4. \A c \in Codes : used[c].exp # 0 => used[c].tok # t
  BY <1>3 DEF UsedInv
<1>5. \A k \in Tasks : task[k].pc \in {"bar", "mark", "check", "touch", "claim", "mint", "kill"} =>
          task[k].tok # t /\ task[k].tok \in Tokens
  <2>1. \A k \in Tasks : task[k].pc \in {"check", "touch", "claim", "mint", "kill"} =>
            task[k].tok # t /\ task[k].tok \in Tokens
    BY <1>3 DEF TaskInv, TypeOK
  <2>2. \A k \in Tasks : task[k].pc \in {"bar", "mark"} =>
            task[k].tok # t /\ task[k].tok \in Tokens
    BY <1>4 DEF TaskInv, UsedInv
  <2> QED BY <2>1, <2>2
<1>6. ASSUME NEW u \in Tokens
      PROVE  /\ ~Minted(u)' => tok'[u] = NoToken /\ marker'[u].exp = 0 /\ u \notin held'
             /\ Minted(u)' => tok'[u].sid \in Sids /\ tok'[u].sid \in Sessions \cup {tok'[u].root}
             /\ marker'[u].exp = 0 \/ marker'[u].exp >= RefreshExp(u)'
  <2>1. CASE u = t
    BY <1>2, <1>3, <2>1 DEF Minted
  <2>2. CASE u # t
    BY <1>1, <2>2 DEF TokenInv, Minted, RefreshExp
  <2> QED BY <2>1, <2>2
<1>7. TokenInv'
  BY <1>6 DEF TokenInv, NoToken
<1> QED BY <1>1, <1>2, <1>3, <1>4, <1>5, <1>7

\* The exchange: the pair is minted and what it was minted for is recorded,
\* before the response leaves.
LEMMA RedeemIssueStep ==
    ASSUME GrantInv, NEW k \in Tasks, NEW out \in Outcomes, RedeemIssue(k, out)
    PROVE  GrantInv'
<1> USE TokenAssumption DEF TokenAssumption
<1>0. TypeOK /\ task[k] \in TaskState /\ task[k].pc = "issue" /\ now \in Nat
  BY DEF GrantInv, TypeOK, RedeemIssue
<1>1. TypeOK'
  BY <1>0, RedeemType, Carried
<1>2. PICK c \in Codes : /\ c = task[k].code
                         /\ task[k].sid \in Sessions \cup {c} /\ task[k].sid \in Sids
  BY <1>0 DEF GrantInv, TaskInv, Sids
<1>3. PICK t \in Tokens : t = Fresh /\ tok[t] = NoToken
  BY FreshUnminted DEF RedeemIssue
<1>4. PICK x \in TokenState : x = [root |-> c, prev |-> None, sid |-> task[k].sid, at |-> now]
  BY <1>0, <1>2 DEF TokenState
<1>5. /\ tok' = [tok EXCEPT ![t] = x]
      /\ held' = held \/ held' = held \cup {t}
      /\ UNCHANGED <<now, code, marker, barred, grantOf, torn, reused>>
  BY <1>2, <1>3, <1>4 DEF RedeemIssue
<1>6. \/ used' = used /\ held' = held
      \/ used' = [used EXCEPT ![c] = [tok |-> t, exp |-> now + UsedTTL(t)]]
  BY <1>2, <1>3 DEF RedeemIssue, Outcomes
<1>7. UsedTTL(t) \in Nat /\ UsedTTL(t) >= RefreshTTL /\ UsedTTL(t) >= AccessTTL
  BY DEF UsedTTL, Max2
<1>8. /\ \A j \in Tasks : j # k => task'[j] = task[j]
      /\ task'[k].pc = "idle"
  BY <1>0, GotoEffect DEF RedeemIssue, PCs
<1>9. Redeeming(k, c)
  BY <1>0, <1>2 DEF Redeeming
<1>10. x.root = c /\ x.sid = task[k].sid /\ x.at = now /\ x.prev = None
  BY <1>4
<1>11. /\ TokenInv'
       /\ \A u \in Tokens : u # t => tok'[u] = tok[u]
       /\ t \notin held
       /\ \A d \in Codes : used[d].exp # 0 => used[d].tok # t
       /\ \A j \in Tasks : task[j].pc \in {"bar", "mark", "check", "touch", "claim", "mint",
                                           "kill"} => task[j].tok # t /\ task[j].tok \in Tokens
       /\ tok'[t] = x
  <2>1. /\ x.root \in Codes /\ x.sid \in Sids /\ x.sid \in Sessions \cup {x.root} /\ x.at = now
        /\ UNCHANGED <<now, marker>>
    BY <1>2, <1>5, <1>10
  <2>2. /\ tok[t] = NoToken /\ tok' = [tok EXCEPT ![t] = x]
        /\ held' = held \/ held' = held \cup {t}
    BY <1>3, <1>5
  <2> QED BY ONLY GrantInv, t \in Tokens, x \in TokenState, <2>1, <2>2, MintTokens, Zenon
<1>12. /\ \A u \in Tokens : tok[u].root # c
       /\ \A j \in Tasks : Redeeming(j, c) => j = k
       /\ grantOf[c] # NoGrant /\ code[c] = 0
  BY <1>2, <1>9 DEF GrantInv, CodeInv
<1>13. used[c].exp = 0
  BY <1>2, <1>12 DEF GrantInv, UsedInv
<1>14. /\ \A d \in Codes : d # c => used'[d] = used[d]
       /\ \/ used'[c] = used[c] /\ held' = held
          \/ used'[c].tok = t /\ used'[c].exp = now + UsedTTL(t)
  BY <1>0, <1>2, <1>6 DEF TypeOK
<1>15. TaskInv'
  <2>1. ASSUME NEW j \in Tasks, j # k
        PROVE  /\ task'[j].pc \in {"load", "attach", "create", "offline", "issue"} =>
                      task'[j].code \in Codes /\ task'[j].sid \in Sessions \cup {task'[j].code}
               /\ task'[j].pc \in {"load", "attach", "create", "offline"} => task'[j].sid \in Sessions
               /\ task'[j].pc \in {"replay", "bar", "mark"} =>
                      task'[j].code \in Codes /\ (task'[j].again => used'[task'[j].code].exp # 0)
               /\ task'[j].pc \in {"bar", "mark"} =>
                      used'[task'[j].code].exp # 0 /\ task'[j].tok = used'[task'[j].code].tok
               /\ task'[j].pc \in {"check", "touch", "claim", "mint", "kill"} =>
                      task'[j].tok \in held' /\ task'[j].sid = tok'[task'[j].tok].sid
    BY <1>5, <1>8, <1>11, <1>13, <1>14, <2>1 DEF GrantInv, TaskInv
  <2> QED BY <1>8, <2>1 DEF TaskInv
<1>16. CodeInv'
  <2>1. ASSUME NEW j \in Tasks, NEW d, Redeeming(j, d)' PROVE Redeeming(j, d) /\ d # c
    BY <1>8, <1>12, <2>1 DEF Redeeming
  <2>2. CodeExchangedOnce'
    BY <1>10, <1>11, <1>12 DEF GrantInv, CodeInv, CodeExchangedOnce
  <2>3. \A u \in Tokens, d \in Codes : tok[u].root # d /\ d # c => tok'[u].root # d
    BY <1>10, <1>11
  <2>4. ASSUME NEW d \in Codes, NEW j \in Tasks, Redeeming(j, d)'
        PROVE  /\ \A i \in Tasks : Redeeming(i, d)' => i = j
               /\ \A u \in Tokens : tok'[u].root # d
    BY <2>1, <2>3, <2>4 DEF GrantInv, CodeInv
  <2>5. ASSUME NEW d \in Codes
        PROVE  /\ grantOf'[d] # NoGrant => grantOf'[d].sid \in Sessions
               /\ grantOf'[d] = NoGrant \/ code'[d] # 0 =>
                    /\ \A j \in Tasks : ~Redeeming(j, d)'
                    /\ \A u \in Tokens : tok'[u].root # d
               /\ grantOf'[d] = NoGrant => code'[d] = 0
    BY <1>5, <1>12, <2>1, <2>3 DEF GrantInv, CodeInv
  <2> QED BY <2>2, <2>4, <2>5 DEF CodeInv, NoGrant
<1>18. UsedInv'
  <2>1. ASSUME NEW d \in Codes, used'[d].exp # 0
        PROVE  (/\ used[d].tok \in Tokens /\ tok[used[d].tok].root = d
                /\ used[d].exp >= RefreshExp(used[d].tok) /\ used[d].exp >= AccessExp(used[d].tok))'
    <3>1. CASE d = c
      <4>1. used'[c].tok = t /\ used'[c].exp = now + UsedTTL(t)
        BY <1>13, <1>14, <2>1, <3>1
      <4> QED BY <1>0, <1>7, <1>10, <1>11, <3>1, <4>1 DEF RefreshExp, AccessExp
    <3>2. CASE d # c
      <4>1. used'[d] = used[d] /\ used[d].tok # t /\ used[d].tok \in Tokens
        BY <1>11, <1>14, <2>1, <3>2 DEF GrantInv, UsedInv
      <4>2. tok'[used'[d].tok] = tok[used[d].tok]
        BY <1>11, <4>1
      <4> QED BY <2>1, <4>1, <4>2 DEF GrantInv, UsedInv, RefreshExp, AccessExp
    <3> QED BY <3>1, <3>2
  <2>2. ASSUME NEW u \in held' PROVE used'[tok'[u].root].exp # 0
    <3>1. CASE u \in held
      <4>1. u # t /\ u \in Tokens /\ tok'[u] = tok[u] /\ used[tok[u].root].exp # 0
        BY <1>0, <1>11, <3>1 DEF GrantInv, UsedInv, TypeOK
      <4>2. tok[u].root \in Codes
        BY <4>1, <3>1 DEF GrantInv, TypeOK, TokenInv, Minted, TokenState
      <4> QED BY <1>13, <1>14, <4>1, <4>2
    <3>2. CASE u \notin held
      <4>1. u = t /\ used'[c].exp = now + UsedTTL(t)
        BY <1>5, <1>14, <2>2, <3>2
      <4>2. now > 0 /\ tok'[u].root = c
        BY <1>10, <1>11, <4>1 DEF GrantInv, TokenInv
      <4> QED BY <1>0, <1>7, <4>1, <4>2
    <3> QED BY <3>1, <3>2
  <2> QED BY <2>1, <2>2 DEF UsedInv
<1>19. ReuseInv'
  <2>1. ASSUME NEW j \in Tasks, task'[j].pc = "mark"
        PROVE  (\/ barred[task[j].tok] >= AccessExp(task[j].tok)
                \/ AccessExp(task[j].tok) <= now)'
    <3>1. j # k /\ task'[j] = task[j] /\ task[j].tok # t /\ task[j].tok \in Tokens
      BY <1>8, <1>11, <2>1
    <3>2. tok'[task'[j].tok] = tok[task[j].tok]
      BY <1>11, <3>1
    <3> QED BY <1>5, <2>1, <3>1, <3>2 DEF GrantInv, ReuseInv, AccessExp
  <2>2. ASSUME NEW d \in reused'
        PROVE  (/\ used[d].exp # 0
                /\ marker[used[d].tok].exp # 0 \/ RefreshExp(used[d].tok) <= now
                /\ \/ barred[used[d].tok] >= AccessExp(used[d].tok)
                   \/ AccessExp(used[d].tok) <= now)'
    <3>1. d \in reused /\ d \in Codes /\ d # c /\ used'[d] = used[d] /\ used[d].exp # 0
      BY <1>0, <1>5, <1>13, <1>14, <2>2 DEF GrantInv, ReuseInv, TypeOK
    <3>2. used[d].tok \in Tokens /\ used[d].tok # t
      BY <1>11, <3>1 DEF GrantInv, UsedInv
    <3>3. tok'[used'[d].tok] = tok[used[d].tok]
      BY <1>11, <3>1, <3>2
    <3> QED BY <1>5, <3>1, <3>2, <3>3 DEF GrantInv, ReuseInv, AccessExp, RefreshExp
  <2> QED BY <2>1, <2>2 DEF ReuseInv
<1>20. TornInv'
  <2>1. ASSUME NEW d \in Codes, d \in torn' PROVE \E u \in Tokens : tok'[u].root = d
    <3>1. PICK u \in Tokens : tok[u].root = d
      BY <1>5, <2>1 DEF GrantInv, TornInv
    <3>2. u # t
      BY <1>3, <3>1, TokenAssumption DEF NoToken, TokenAssumption
    <3> QED BY <1>11, <3>1, <3>2
  <2> QED BY <2>1 DEF TornInv
<1> QED BY <1>1, <1>11, <1>15, <1>16, <1>18, <1>19, <1>20 DEF GrantInv

\* A rotation: the successor carries its predecessor's grant and session.
LEMMA RefreshMintStep ==
    ASSUME GrantInv, NEW k \in Tasks, NEW out \in Outcomes, RefreshMint(k, out)
    PROVE  GrantInv'
<1> USE TokenAssumption DEF TokenAssumption
<1>0. TypeOK /\ task[k] \in TaskState /\ task[k].pc = "mint" /\ now \in Nat
  BY DEF GrantInv, TypeOK, RefreshMint
<1>1. TypeOK'
  BY <1>0, RefreshType, Carried
<1>2. PICK old \in Tokens : old = task[k].tok /\ old \in held /\ tok[old].root \in Codes
  BY <1>0, Carried DEF GrantInv, TaskInv
<1>3. PICK t \in Tokens : t = Fresh /\ tok[t] = NoToken
  BY FreshUnminted DEF RefreshMint
<1>4. tok[old] \in TokenState /\ tok[old].sid \in Sids /\ tok[old].sid \in Sessions \cup {tok[old].root}
  BY <1>0, <1>2 DEF GrantInv, TypeOK, TokenInv, Minted
<1>5. PICK x \in TokenState : x = [tok[old] EXCEPT !.prev = old, !.at = now]
  BY <1>0, <1>4 DEF TokenState
<1>6. x.root = tok[old].root /\ x.sid = tok[old].sid /\ x.at = now /\ x.prev = old
  BY <1>4, <1>5 DEF TokenState
<1>7. /\ tok' = [tok EXCEPT ![t] = x]
      /\ held' = held \/ held' = held \cup {t}
      /\ UNCHANGED <<now, code, used, marker, barred, grantOf, torn, reused>>
  BY <1>2, <1>3, <1>5 DEF RefreshMint, cacheVars
<1>8. /\ \A j \in Tasks : j # k => task'[j] = task[j]
      /\ task'[k].pc = "idle"
  BY <1>0, GotoEffect DEF RefreshMint, PCs
<1>9. /\ TokenInv'
      /\ \A u \in Tokens : u # t => tok'[u] = tok[u]
      /\ t \notin held
      /\ \A d \in Codes : used[d].exp # 0 => used[d].tok # t
      /\ \A j \in Tasks : task[j].pc \in {"bar", "mark", "check", "touch", "claim", "mint",
                                          "kill"} => task[j].tok # t /\ task[j].tok \in Tokens
      /\ tok'[t] = x
  <2>1. /\ x.root \in Codes /\ x.sid \in Sids /\ x.sid \in Sessions \cup {x.root} /\ x.at = now
        /\ UNCHANGED <<now, marker>>
    BY <1>2, <1>4, <1>6, <1>7
  <2>2. /\ tok[t] = NoToken /\ tok' = [tok EXCEPT ![t] = x]
        /\ held' = held \/ held' = held \cup {t}
    BY <1>3, <1>7
  <2> QED BY ONLY GrantInv, t \in Tokens, x \in TokenState, <2>1, <2>2, MintTokens, Zenon
<1>10. TaskInv'
  BY <1>7, <1>8, <1>9 DEF GrantInv, TaskInv
<1>11. CodeInv'
  <2>1. ASSUME NEW j \in Tasks, NEW d, Redeeming(j, d)' PROVE Redeeming(j, d)
    BY <1>8, <2>1 DEF Redeeming
  <2>2. CodeExchangedOnce'
    BY <1>2, <1>6, <1>9 DEF GrantInv, CodeInv, CodeExchangedOnce
  <2>3. ASSUME NEW d \in Codes, \A u \in Tokens : tok[u].root # d
        PROVE  \A u \in Tokens : tok'[u].root # d
    BY <1>2, <1>6, <1>9, <2>3
  <2>4. ASSUME NEW d \in Codes, NEW j \in Tasks, Redeeming(j, d)'
        PROVE  /\ \A i \in Tasks : Redeeming(i, d)' => i = j
               /\ \A u \in Tokens : tok'[u].root # d
    BY <2>1, <2>3, <2>4 DEF GrantInv, CodeInv
  <2>5. ASSUME NEW d \in Codes
        PROVE  /\ grantOf'[d] # NoGrant => grantOf'[d].sid \in Sessions
               /\ grantOf'[d] = NoGrant \/ code'[d] # 0 =>
                    /\ \A j \in Tasks : ~Redeeming(j, d)'
                    /\ \A u \in Tokens : tok'[u].root # d
               /\ grantOf'[d] = NoGrant => code'[d] = 0
    BY <1>7, <2>1, <2>3 DEF GrantInv, CodeInv
  <2> QED BY <2>2, <2>4, <2>5 DEF CodeInv, NoGrant
<1>12. UsedInv'
  <2>1. ASSUME NEW d \in Codes, used'[d].exp # 0
        PROVE  (/\ used[d].tok \in Tokens /\ tok[used[d].tok].root = d
                /\ used[d].exp >= RefreshExp(used[d].tok) /\ used[d].exp >= AccessExp(used[d].tok))'
    <3>1. used'[d] = used[d] /\ used[d].tok # t /\ used[d].tok \in Tokens
      BY <1>7, <1>9, <2>1 DEF GrantInv, UsedInv
    <3>2. tok'[used'[d].tok] = tok[used[d].tok]
      BY <1>9, <3>1
    <3> QED BY <2>1, <3>1, <3>2 DEF GrantInv, UsedInv, RefreshExp, AccessExp
  <2>2. ASSUME NEW u \in held' PROVE used'[tok'[u].root].exp # 0
    <3>1. CASE u \in held
      BY <1>0, <1>7, <1>9, <3>1 DEF GrantInv, UsedInv, TypeOK
    <3>2. CASE u \notin held
      BY <1>2, <1>6, <1>7, <1>9, <2>2, <3>2 DEF GrantInv, UsedInv
    <3> QED BY <3>1, <3>2
  <2> QED BY <2>1, <2>2 DEF UsedInv
<1>13. ReuseInv'
  <2>1. ASSUME NEW j \in Tasks, task'[j].pc = "mark"
        PROVE  (\/ barred[task[j].tok] >= AccessExp(task[j].tok)
                \/ AccessExp(task[j].tok) <= now)'
    <3>1. j # k /\ task'[j] = task[j] /\ task[j].tok # t /\ task[j].tok \in Tokens
      BY <1>8, <1>9, <2>1
    <3>2. tok'[task'[j].tok] = tok[task[j].tok]
      BY <1>9, <3>1
    <3> QED BY <1>7, <2>1, <3>1, <3>2 DEF GrantInv, ReuseInv, AccessExp
  <2>2. ASSUME NEW d \in reused'
        PROVE  (/\ used[d].exp # 0
                /\ marker[used[d].tok].exp # 0 \/ RefreshExp(used[d].tok) <= now
                /\ \/ barred[used[d].tok] >= AccessExp(used[d].tok)
                   \/ AccessExp(used[d].tok) <= now)'
    <3>1. d \in reused /\ d \in Codes /\ used'[d] = used[d] /\ used[d].exp # 0
      BY <1>0, <1>7, <2>2 DEF GrantInv, ReuseInv, TypeOK
    <3>2. used[d].tok \in Tokens /\ used[d].tok # t
      BY <1>9, <3>1 DEF GrantInv, UsedInv
    <3>3. tok'[used'[d].tok] = tok[used[d].tok]
      BY <1>9, <3>1, <3>2
    <3> QED BY <1>7, <3>1, <3>2, <3>3 DEF GrantInv, ReuseInv, AccessExp, RefreshExp
  <2> QED BY <2>1, <2>2 DEF ReuseInv
<1>14. TornInv'
  <2>1. ASSUME NEW d \in Codes, d \in torn' PROVE \E u \in Tokens : tok'[u].root = d
    <3>1. PICK u \in Tokens : tok[u].root = d
      BY <1>7, <2>1 DEF GrantInv, TornInv
    <3>2. u # t
      BY <1>3, <3>1 DEF NoToken
    <3> QED BY <1>9, <3>1, <3>2
  <2> QED BY <2>1 DEF TornInv
<1> QED BY <1>1, <1>9, <1>10, <1>11, <1>12, <1>13, <1>14 DEF GrantInv

\* The lookup of what a reused code was exchanged for: a record that has
\* expired means that both tokens have.
LEMMA ReplayReadStep ==
    ASSUME GrantInv, NEW k \in Tasks, NEW out \in Outcomes, ReplayRead(k, out)
    PROVE  GrantInv'
<1> USE TokenAssumption DEF TokenAssumption
<1>0. TypeOK /\ task[k] \in TaskState /\ task[k].pc = "replay" /\ now \in Nat /\ reused \subseteq Codes
  BY DEF GrantInv, TypeOK, ReplayRead
<1>1. TypeOK'
  BY <1>0, RedeemType, Carried
<1>2. PICK c \in Codes : c = task[k].code /\ (task[k].again => used[c].exp # 0)
  BY <1>0 DEF GrantInv, TaskInv
<1>3. UNCHANGED <<now, code, used, marker, barred, grantOf, tok, held, torn>>
  BY DEF ReplayRead, cacheVars
<1>4. used[c].exp \in Nat
  BY <1>0 DEF TypeOK
<1>5. /\ \A j \in Tasks : j # k => task'[j] = task[j]
      /\ \/ task'[k] = Idle
         \/ used[c].exp # 0 /\ task'[k] = [task[k] EXCEPT !.pc = "bar", !.tok = used[c].tok]
  <2>1. task \in [Tasks -> TaskState]
    BY <1>0 DEF TypeOK
  <2> QED BY <1>0, <1>2, <1>4, <2>1 DEF ReplayRead, Live
<1>6. \/ task'[k].pc = "idle"
      \/ /\ task'[k].pc = "bar" /\ task'[k].code = c /\ task'[k].tok = used[c].tok
         /\ used[c].exp # 0 /\ task'[k].again = task[k].again
  <2>1. CASE task'[k] = Idle
    BY <2>1 DEF Idle
  <2>2. CASE used[c].exp # 0 /\ task'[k] = [task[k] EXCEPT !.pc = "bar", !.tok = used[c].tok]
    BY <1>0, <1>2, <2>2 DEF TaskState
  <2> QED BY <1>5, <2>1, <2>2
<1>7. TaskInv'
  BY <1>2, <1>3, <1>5, <1>6 DEF GrantInv, TaskInv
<1>8. ASSUME NEW j \in Tasks, NEW d, Redeeming(j, d)' PROVE Redeeming(j, d)
  BY <1>5, <1>6, <1>8 DEF Redeeming
<1>9. CodeInv'
  BY <1>3, <1>8 DEF GrantInv, CodeInv, CodeExchangedOnce
<1>10. ReuseInv'
  <2>1. \A j \in Tasks : task'[j].pc = "mark" => task'[j] = task[j]
    BY <1>5, <1>6
  <2>2. ASSUME NEW d \in reused'
        PROVE  (/\ used[d].exp # 0
                /\ marker[used[d].tok].exp # 0 \/ RefreshExp(used[d].tok) <= now
                /\ \/ barred[used[d].tok] >= AccessExp(used[d].tok)
                   \/ AccessExp(used[d].tok) <= now)'
    <3>1. CASE d \in reused
      BY <1>3, <3>1 DEF GrantInv, ReuseInv, AccessExp, RefreshExp
    <3>2. CASE d \notin reused
      <4>1. d = c /\ used[c].exp # 0 /\ used[c].exp <= now
        BY <1>0, <1>2, <1>4, <2>2, <3>2 DEF ReplayRead, Live
      <4>2. /\ used[c].tok \in Tokens /\ used[c].exp >= RefreshExp(used[c].tok)
            /\ used[c].exp >= AccessExp(used[c].tok)
        BY <4>1 DEF GrantInv, UsedInv
      <4>3. RefreshExp(used[c].tok) \in Nat /\ AccessExp(used[c].tok) \in Nat
        BY <1>0, <4>2 DEF TypeOK, TokenState, RefreshExp, AccessExp
      <4>4. RefreshExp(used[c].tok) <= now /\ AccessExp(used[c].tok) <= now
        BY <1>0, <1>4, <4>1, <4>2, <4>3
      <4> QED BY <1>3, <4>1, <4>4 DEF RefreshExp, AccessExp
    <3> QED BY <3>1, <3>2
  <2> QED BY <1>3, <2>1, <2>2 DEF GrantInv, ReuseInv, AccessExp
<1>11. TornInv'
  BY <1>3 DEF GrantInv, TornInv
<1> QED BY <1>1, <1>3, <1>7, <1>9, <1>10, <1>11, SameTokens, SameUsed DEF GrantInv

\* The access token of a reused code is barred, unless it has expired.
LEMMA ReplayAccessStep ==
    ASSUME GrantInv, NEW k \in Tasks, NEW out \in Outcomes, ReplayAccess(k, out)
    PROVE  GrantInv'
<1> USE TokenAssumption DEF TokenAssumption
<1>0. TypeOK /\ task[k].pc = "bar" /\ now \in Nat /\ barred \in [Tokens -> Nat]
  BY DEF GrantInv, TypeOK, ReplayAccess
<1>1. TypeOK'
  BY <1>0, RedeemType, Carried
<1>2. PICK t \in Tokens : t = task[k].tok
  BY <1>0, Carried
<1>3. UNCHANGED <<now, code, used, marker, grantOf, tok, held, torn, reused>>
  BY DEF ReplayAccess, histVars
<1>4. AccessExp(t) \in Nat
  BY <1>0 DEF TypeOK, TokenState, AccessExp
<1>5. /\ task' \in [Tasks -> TaskState]
      /\ \A j \in Tasks : j # k => task'[j] = task[j]
      /\ \/ task'[k].pc = "idle"
         \/ /\ task'[k].pc = "mark" /\ task'[k].code = task[k].code /\ task'[k].tok = t
            /\ task'[k].sid = task[k].sid /\ task'[k].again = task[k].again
            /\ out = "ok"
  <2>1. CASE out = "ok"
    <3>1. Goto(k, "mark")
      BY <2>1 DEF ReplayAccess
    <3> QED BY <1>0, <1>2, <2>1, <3>1, GotoEffect DEF PCs
  <2>2. CASE out # "ok"
    <3>1. Goto(k, "idle")
      BY <2>2 DEF ReplayAccess
    <3> QED BY <1>0, <3>1, GotoEffect DEF PCs
  <2> QED BY <2>1, <2>2
<1>6. TaskInv' /\ CodeInv'
  BY <1>0, <1>2, <1>3, <1>5, TaskMove
<1>7. /\ \A u \in Tokens : barred'[u] = barred[u] \/ barred'[u] >= AccessExp(u)
      /\ out = "ok" => barred'[t] >= AccessExp(t) \/ AccessExp(t) <= now
      /\ barred' \in [Tokens -> Nat]
  BY <1>0, <1>1, <1>2, <1>4 DEF ReplayAccess, Live, TypeOK
<1>8. \A j \in Tasks : task'[j].pc = "mark" =>
          \/ task[j].pc = "mark" /\ task'[j].tok = task[j].tok
          \/ /\ task'[j].tok \in Tokens
             /\ \/ barred'[task'[j].tok] >= AccessExp(task'[j].tok)
                \/ AccessExp(task'[j].tok) <= now'
  BY <1>3, <1>5, <1>7
<1>9. ReuseInv'
  BY <1>0, <1>3, <1>7, <1>8, ReuseMove
<1>10. TornInv'
  BY <1>3 DEF GrantInv, TornInv
<1> QED BY <1>1, <1>3, <1>6, <1>9, <1>10, SameTokens, SameUsed DEF GrantInv

\* A marker is only ever set at or past the token's expiry.
LEMMA MarkTokens ==
    ASSUME GrantInv, NEW t \in Tokens, Minted(t), NEW e \in Nat, NEW n \in 0 .. 2, e # 0,
           e >= RefreshExp(t),
           UNCHANGED <<now, tok, held>>,
           \/ marker' = marker
           \/ marker' = [marker EXCEPT ![t] = [exp |-> e, n |-> n]]
    PROVE  TokenInv' /\ \A u \in Tokens : /\ marker[u].exp # 0 => marker'[u].exp # 0
                                          /\ u # t => marker'[u] = marker[u]
<1>1. t \in Tokens /\ tok[t].root # None /\ marker \in [Tokens -> [exp : Nat, n : 0 .. 2]]
  BY DEF GrantInv, TypeOK, TokenInv, Minted
<1>2. ASSUME NEW u \in Tokens
      PROVE  \/ marker'[u] = marker[u]
             \/ u = t /\ marker'[u].exp = e
  BY <1>1
<1> QED BY <1>1, <1>2 DEF GrantInv, TokenInv, Minted, RefreshExp, NoToken

\* The refresh token of a reused code is marked, unless it has expired; with
\* that the reuse is answered.
LEMMA ReplayRefreshStep ==
    ASSUME GrantInv, NEW k \in Tasks, NEW out \in Outcomes, ReplayRefresh(k, out)
    PROVE  GrantInv'
<1> USE TokenAssumption DEF TokenAssumption
<1>0. TypeOK /\ task[k].pc = "mark" /\ now \in Nat /\ reused \subseteq Codes
  BY DEF GrantInv, TypeOK, ReplayRefresh
<1>1. TypeOK'
  BY <1>0, RedeemType, Carried
<1>2. PICK c \in Codes : /\ c = task[k].code
                         /\ used[c].exp # 0 /\ task[k].tok = used[c].tok
                         /\ used[c].tok \in Tokens /\ tok[used[c].tok].root = c
  BY <1>0 DEF GrantInv, TaskInv, UsedInv
<1>3. PICK t \in Tokens : t = task[k].tok /\ t = used[c].tok /\ Minted(t)
  BY <1>2 DEF Minted
<1>4. UNCHANGED <<now, code, used, barred, grantOf, tok, held, torn>>
  BY DEF ReplayRefresh
<1>5. RefreshExp(t) \in Nat /\ RefreshExp(t) # 0
  BY <1>0 DEF TypeOK, TokenState, RefreshExp
<1>6. /\ task' \in [Tasks -> TaskState]
      /\ \A j \in Tasks : j # k => task'[j] = task[j]
      /\ task'[k].pc = "idle"
  BY <1>0, GotoEffect DEF ReplayRefresh, PCs
<1>7. TaskInv' /\ CodeInv'
  BY <1>4, <1>6, TaskMove
<1>8. /\ TokenInv'
      /\ \A u \in Tokens : marker[u].exp # 0 => marker'[u].exp # 0
  <2>1. \/ marker' = marker
        \/ marker' = [marker EXCEPT ![t] = [exp |-> RefreshExp(t), n |-> 0]]
    BY <1>3 DEF ReplayRefresh
  <2>2. PICK e \in Nat : e = RefreshExp(t)
    BY <1>5
  <2>3. e # 0 /\ e >= RefreshExp(t) /\ 0 \in 0 .. 2
    BY <1>5, <2>2
  <2>4. \/ marker' = marker
        \/ marker' = [marker EXCEPT ![t] = [exp |-> e, n |-> 0]]
    BY <2>1, <2>2
  <2> QED BY <1>3, <1>4, <2>3, <2>4, MarkTokens, Zenon
<1>9. out = "ok" => marker'[t].exp # 0 \/ RefreshExp(t) <= now
  BY <1>0, <1>3, <1>5 DEF ReplayRefresh, Live, TypeOK
<1>10. ReuseInv'
  <2>1. \A j \in Tasks : task'[j].pc = "mark" => task'[j] = task[j]
    BY <1>6
  <2>2. ASSUME NEW d \in reused'
        PROVE  (/\ used[d].exp # 0
                /\ marker[used[d].tok].exp # 0 \/ RefreshExp(used[d].tok) <= now
                /\ \/ barred[used[d].tok] >= AccessExp(used[d].tok)
                   \/ AccessExp(used[d].tok) <= now)'
    <3>1. CASE d \in reused
      <4>1. used[d].tok \in Tokens
        BY <1>0, <3>1 DEF GrantInv, ReuseInv, UsedInv
      <4> QED BY <1>4, <1>8, <3>1, <4>1 DEF GrantInv, ReuseInv, AccessExp, RefreshExp
    <3>2. CASE d \notin reused
      <4>1. d = c /\ out = "ok"
        BY <1>2, <2>2, <3>2 DEF ReplayRefresh
      <4>2. barred[t] >= AccessExp(t) \/ AccessExp(t) <= now
        BY <1>0, <1>3 DEF GrantInv, ReuseInv
      <4> QED BY <1>2, <1>3, <1>4, <1>9, <4>1, <4>2 DEF RefreshExp, AccessExp
    <3> QED BY <3>1, <3>2
  <2> QED BY <1>4, <2>1, <2>2 DEF GrantInv, ReuseInv, AccessExp
<1>11. TornInv'
  BY <1>4 DEF GrantInv, TornInv
<1> QED BY <1>1, <1>4, <1>7, <1>8, <1>10, <1>11, SameUsed DEF GrantInv

\* A refresh begins with a token a client holds, and a logout marks it first.
LEMMA RefreshReadStep ==
    ASSUME GrantInv, NEW k \in Tasks, NEW t \in Tokens, RefreshRead(k, t) \/ LogoutToken(k, t)
    PROVE  GrantInv'
<1> USE TokenAssumption DEF TokenAssumption
<1>0. TypeOK /\ t \in held /\ task \in [Tasks -> TaskState] /\ now \in Nat /\ Minted(t)
  BY DEF GrantInv, TypeOK, RefreshRead, LogoutToken, TokenInv
<1>1. TypeOK'
  BY <1>0, RefreshType, EndType, Carried DEF RefreshRead, Outcomes
<1>2. UNCHANGED <<now, code, used, barred, grantOf, tok, held, torn, reused>>
  BY DEF RefreshRead, LogoutToken, cacheVars, histVars
<1>3. /\ task' \in [Tasks -> TaskState]
      /\ \A j \in Tasks : j # k => task'[j] = task[j]
      /\ task'[k].pc \in {"kill", "check"} /\ task'[k].tok = t /\ task'[k].sid = tok[t].sid
  BY <1>0, <1>1 DEF RefreshRead, LogoutToken, TypeOK
<1>4. RefreshExp(t) \in Nat /\ RefreshExp(t) # 0
  BY <1>0 DEF TypeOK, TokenState, RefreshExp
<1>5. /\ TokenInv'
      /\ \A u \in Tokens : marker[u].exp # 0 => marker'[u].exp # 0
  <2>1. PICK e \in Nat : e = RefreshExp(t)
    BY <1>4
  <2>2. \/ marker' = marker
        \/ marker' = [marker EXCEPT ![t] = [exp |-> e, n |-> 0]]
    BY <2>1 DEF RefreshRead, LogoutToken, cacheVars
  <2>3. e # 0 /\ e >= RefreshExp(t) /\ 0 \in 0 .. 2
    BY <1>4, <2>1
  <2> QED BY <1>0, <1>2, <2>2, <2>3, MarkTokens, Zenon
<1>6. TaskInv'
  BY <1>0, <1>2, <1>3 DEF GrantInv, TaskInv
<1>7. ASSUME NEW j \in Tasks, NEW d, Redeeming(j, d)' PROVE Redeeming(j, d)
  BY <1>3, <1>7 DEF Redeeming
<1>8. CodeInv'
  BY <1>2, <1>7 DEF GrantInv, CodeInv, CodeExchangedOnce
<1>9. \A j \in Tasks : task'[j].pc = "mark" => task[j].pc = "mark" /\ task'[j].tok = task[j].tok
  BY <1>3
<1>10. ReuseInv'
  BY <1>0, <1>2, <1>5, <1>9, ReuseMove DEF TypeOK
<1>11. TornInv'
  BY <1>2 DEF GrantInv, TornInv
<1> QED BY <1>1, <1>2, <1>5, <1>6, <1>8, <1>10, <1>11, SameUsed DEF GrantInv

\* The claim of a refresh token: its marker is counted up or set.
LEMMA RefreshClaimStep ==
    ASSUME GrantInv, NEW k \in Tasks, NEW out \in Outcomes, RefreshClaim(k, out)
    PROVE  GrantInv'
<1> USE TokenAssumption DEF TokenAssumption
<1>0. TypeOK /\ task[k].pc = "claim" /\ now \in Nat
  BY DEF GrantInv, TypeOK, RefreshClaim
<1>1. TypeOK'
  BY <1>0, RefreshType, Carried
<1>2. PICK t \in Tokens : t = task[k].tok /\ t \in held /\ Minted(t)
  BY <1>0, Carried DEF GrantInv, TaskInv, TokenInv
<1>3. UNCHANGED <<now, code, used, barred, grantOf, tok, held, torn, reused>>
  BY DEF RefreshClaim
<1>4. /\ RefreshExp(t) \in Nat /\ RefreshExp(t) # 0 /\ marker[t].exp \in Nat
      /\ marker[t].exp = 0 \/ marker[t].exp >= RefreshExp(t)
  BY <1>0 DEF TypeOK, TokenState, RefreshExp, GrantInv, TokenInv
<1>5. /\ task' \in [Tasks -> TaskState]
      /\ \A j \in Tasks : j # k => task'[j] = task[j]
      /\ \/ task'[k].pc = "idle"
         \/ /\ task'[k].pc \in {"mint", "kill"} /\ task'[k].code = task[k].code
            /\ task'[k].tok = task[k].tok
            /\ task'[k].sid = task[k].sid /\ task'[k].again = task[k].again
  <2>1. PICK pc \in {"idle", "mint", "kill"} : Goto(k, pc)
    BY DEF RefreshClaim
  <2> QED BY <1>0, <2>1, GotoEffect DEF PCs
<1>6. TaskInv' /\ CodeInv'
  BY <1>0, <1>3, <1>5, TaskMove
<1>7. /\ TokenInv'
      /\ \A u \in Tokens : marker[u].exp # 0 => marker'[u].exp # 0
  <2>1. PICK e \in Nat :
          e = IF Live(marker[t].exp) THEN marker[t].exp ELSE Max2(RefreshExp(t), now + 1)
    BY <1>0, <1>4 DEF Max2
  <2>2. PICK n \in 0 .. 2 : n = Incremented(t)
    BY IncrementedType
  <2>3. \/ marker' = marker
        \/ marker' = [marker EXCEPT ![t] = [exp |-> e, n |-> n]]
    BY <1>2, <2>1, <2>2 DEF RefreshClaim
  <2>4. e # 0 /\ e >= RefreshExp(t)
    BY <1>0, <1>4, <2>1 DEF Live, Max2
  <2> QED BY <1>2, <1>3, <2>3, <2>4, MarkTokens, Zenon
<1>8. \A j \in Tasks : task'[j].pc = "mark" => task[j].pc = "mark" /\ task'[j].tok = task[j].tok
  BY <1>5
<1>9. ReuseInv'
  BY <1>0, <1>3, <1>7, <1>8, ReuseMove DEF TypeOK
<1>10. TornInv'
  BY <1>3 DEF GrantInv, TornInv
<1> QED BY <1>1, <1>3, <1>6, <1>7, <1>9, <1>10, SameUsed DEF GrantInv

\* A session ends: a grant's own session only once the grant has tokens.
LEMMA KillStep ==
    ASSUME GrantInv,
           \/ \E k \in Tasks, out \in Outcomes : Kill(k, out)
           \/ \E s \in Sessions : EndSession(s)
    PROVE  GrantInv'
<1> USE TokenAssumption DEF TokenAssumption
<1>0. TypeOK /\ now \in Nat
  BY DEF GrantInv, TypeOK
<1>1. TypeOK'
  <2>1. ASSUME NEW k \in Tasks, NEW out \in Outcomes, Kill(k, out) PROVE TypeOK'
    <3>1. task[k].sid \in Sids
      BY <2>1, Carried DEF Kill
    <3> QED BY <1>0, <2>1, <3>1, EndType
  <2>2. ASSUME NEW s \in Sessions, EndSession(s) PROVE TypeOK'
    BY <1>0, <2>2, EndType
  <2> QED BY <2>1, <2>2
<1>2. UNCHANGED <<now, code, used, marker, barred, grantOf, tok, held, reused>>
  BY DEF Kill, EndSession, cacheVars
<1>3. TaskInv' /\ CodeInv' /\ ReuseInv'
  <2>1. ASSUME NEW k \in Tasks, NEW out \in Outcomes, Kill(k, out)
        PROVE  TaskInv' /\ CodeInv' /\ ReuseInv'
    <3>1. /\ task' \in [Tasks -> TaskState]
          /\ \A j \in Tasks : j # k => task'[j] = task[j]
          /\ task'[k].pc = "idle"
      BY <1>0, <2>1, GotoEffect DEF Kill, PCs
    <3>2. \A j \in Tasks : task'[j].pc = "mark" => task[j].pc = "mark" /\ task'[j].tok = task[j].tok
      BY <3>1
    <3>3. TaskInv' /\ CodeInv'
      BY <1>2, <3>1, TaskMove
    <3>4. ReuseInv'
      BY <1>0, <1>2, <3>2, ReuseMove DEF TypeOK
    <3> QED BY <3>3, <3>4
  <2>2. ASSUME NEW s \in Sessions, EndSession(s) PROVE TaskInv' /\ CodeInv' /\ ReuseInv'
    <3>1. task' = task
      BY <2>2 DEF EndSession
    <3>2. TaskInv' /\ CodeInv'
      BY <1>2, <3>1, SameTasks
    <3>3. ReuseInv'
      BY <1>0, <1>2, <3>1, ReuseMove DEF TypeOK
    <3> QED BY <3>2, <3>3
  <2> QED BY <2>1, <2>2
<1>4. TornInv'
  <2>1. ASSUME NEW k \in Tasks, NEW out \in Outcomes, Kill(k, out), NEW c \in Codes, c \in torn'
        PROVE  \E t \in Tokens : tok'[t].root = c
    <3>1. CASE c \in torn
      BY <1>2, <3>1 DEF GrantInv, TornInv
    <3>2. CASE c \notin torn
      <4>1. c = task[k].sid
        BY <2>1, <3>2 DEF Kill, Family
      <4>2. task[k].tok \in Tokens /\ c = tok[task[k].tok].sid /\ Minted(task[k].tok)
        BY <2>1, <4>1, Carried DEF Kill, GrantInv, TaskInv, TokenInv
      <4>3. tok[task[k].tok].root = c
        BY <4>2 DEF GrantInv, TokenInv
      <4> QED BY <1>2, <4>2, <4>3
    <3> QED BY <3>1, <3>2
  <2>2. ASSUME NEW s \in Sessions, EndSession(s), NEW c \in Codes, c \in torn'
        PROVE  \E t \in Tokens : tok'[t].root = c
    <3>1. c \in torn
      BY <2>2 DEF EndSession, Family
    <3> QED BY <1>2, <3>1 DEF GrantInv, TornInv
  <2> QED BY <2>1, <2>2 DEF TornInv
<1> QED BY <1>1, <1>2, <1>3, <1>4, SameTokens, SameUsed DEF GrantInv

\* A revocation marks the token; the clock only moves forward.
LEMMA RevokeStep ==
    ASSUME GrantInv, Tick \/ \E t \in Tokens : RevokeRefresh(t)
    PROVE  GrantInv'
<1> USE TokenAssumption DEF TokenAssumption
<1>0. TypeOK /\ now \in Nat
  BY DEF GrantInv, TypeOK
<1>1. TypeOK'
  BY <1>0, EndType
<1>2. UNCHANGED <<code, used, barred, grantOf, tok, task, held, torn, reused>>
  BY DEF Tick, RevokeRefresh, cacheVars, histVars
<1>3. TaskInv' /\ CodeInv' /\ TornInv'
  BY <1>2, SameTasks DEF GrantInv, TornInv
<1>4. /\ TokenInv'
      /\ \A u \in Tokens : marker[u].exp # 0 => marker'[u].exp # 0
      /\ now' \in Nat /\ now' >= now
  <2>1. CASE Tick
    BY <1>0, <2>1 DEF Tick, GrantInv, TokenInv, Minted, RefreshExp, cacheVars, histVars, NoToken
  <2>2. ASSUME NEW t \in Tokens, RevokeRefresh(t)
        PROVE  /\ TokenInv'
               /\ \A u \in Tokens : marker[u].exp # 0 => marker'[u].exp # 0
               /\ now' \in Nat /\ now' >= now
    <3>1. RefreshExp(t) \in Nat
      BY <1>0 DEF TypeOK, TokenState, RefreshExp
    <3>2. PICK e \in Nat : e = Max2(RefreshExp(t), now + 1)
      BY <1>0, <3>1 DEF Max2
    <3>3. e # 0 /\ e >= RefreshExp(t) /\ 0 \in 0 .. 2
      BY <1>0, <3>1, <3>2 DEF Max2
    <3>4. Minted(t)
      BY <2>2 DEF RevokeRefresh, GrantInv, TokenInv
    <3>5. /\ \/ marker' = marker
             \/ marker' = [marker EXCEPT ![t] = [exp |-> e, n |-> 0]]
          /\ UNCHANGED <<now, tok, held>>
      BY <2>2, <3>2 DEF RevokeRefresh, histVars
    <3>6. TokenInv' /\ \A u \in Tokens : marker[u].exp # 0 => marker'[u].exp # 0
      BY <3>3, <3>4, <3>5, MarkTokens, Zenon
    <3> QED BY <1>0, <3>5, <3>6
  <2> QED BY <2>1, <2>2
<1>5. ReuseInv'
  BY <1>0, <1>2, <1>4, ReuseMove DEF TypeOK
<1> QED BY <1>1, <1>2, <1>3, <1>4, <1>5, SameUsed DEF GrantInv

\* A new code is in the cache and nowhere else.
LEMMA AuthorizeStep ==
    ASSUME GrantInv, NEW c \in Codes, NEW s \in Sessions, NEW offline \in Offline,
           Authorize(c, s, offline)
    PROVE  GrantInv'
<1> USE TokenAssumption DEF TokenAssumption
<1>0. TypeOK /\ now \in Nat
  BY DEF GrantInv, TypeOK
<1>1. TypeOK'
  BY <1>0, EndType
<1>2. UNCHANGED <<now, used, marker, barred, tok, task, held, torn, reused>>
  BY DEF Authorize, histVars
<1>3. TaskInv' /\ TornInv'
  BY <1>2 DEF GrantInv, TaskInv, TornInv
<1>4. CodeInv'
  <2>1. /\ \A d \in Codes : d # c => grantOf'[d] = grantOf[d] /\ code'[d] = code[d]
        /\ grantOf'[c].sid = s /\ grantOf'[c] # NoGrant /\ grantOf[c] = NoGrant
    BY <1>0 DEF Authorize, TypeOK, NoGrant
  <2>2. \A j \in Tasks : \A d : Redeeming(j, d)' <=> Redeeming(j, d)
    BY <1>2 DEF Redeeming
  <2> QED BY <1>2, <2>1, <2>2 DEF GrantInv, CodeInv, CodeExchangedOnce, NoGrant
<1>5. ReuseInv'
  BY <1>0, <1>2, ReuseMove DEF TypeOK
<1> QED BY <1>1, <1>2, <1>3, <1>4, <1>5, SameTokens, SameUsed DEF GrantInv

\* The invariant holds when the server starts.
LEMMA GrantInit ==
    ASSUME Init
    PROVE  GrantInv
<1> USE TokenAssumption DEF TokenAssumption
<1>1. TypeOK
  BY DEF Init, TypeOK, NoUsed, NoMarker, NoGrant, NoToken, Idle, TokenState, TaskState, PCs, Sids
<1>2. TokenInv /\ TaskInv /\ UsedInv /\ ReuseInv /\ TornInv
  BY DEF Init, TokenInv, TaskInv, UsedInv, ReuseInv, TornInv, Minted, NoUsed, NoMarker, NoToken,
         Idle, RefreshExp
<1>3. \A k \in Tasks : \A c : ~Redeeming(k, c)
  BY DEF Init, Redeeming, Idle
<1>4. CodeInv
  BY <1>3 DEF Init, CodeInv, CodeExchangedOnce, NoGrant, NoToken
<1> QED BY <1>1, <1>2, <1>4 DEF GrantInv

\* Every step of the token endpoint keeps GrantInv.
LEMMA GrantStep ==
    ASSUME GrantInv, [Next]_vars
    PROVE  GrantInv'
<1>1. CASE UNCHANGED vars
  <2>1. UNCHANGED <<now, session, code, used, marker, barred, grantOf, tok, task, held, stale,
                    torn, reused>>
    BY <1>1 DEF vars
  <2>2. TypeOK'
    BY <2>1 DEF GrantInv, TypeOK
  <2>3. TaskInv' /\ CodeInv' /\ TornInv'
    BY <2>1, SameTasks DEF GrantInv, TornInv
  <2>4. ReuseInv'
    BY <2>1, ReuseMove DEF TypeOK, GrantInv
  <2> QED BY <2>1, <2>2, <2>3, <2>4, SameTokens, SameUsed DEF GrantInv
<1>2. ASSUME NEW k \in Tasks, Redeem(k) PROVE GrantInv'
  <2>1. Reads \subseteq Outcomes
    BY DEF Reads, Outcomes
  <2> QED BY <1>2, <2>1, RedeemTakeStep, QuietStep, RedeemOfflineStep, RedeemIssueStep,
             ReplayReadStep, ReplayAccessStep, ReplayRefreshStep DEF Redeem
<1>3. ASSUME NEW k \in Tasks, Refresh(k) \/ Crash(k) \/ \E t \in Tokens : LogoutToken(k, t)
      PROVE  GrantInv'
  <2>1. "ok" \in Outcomes
    BY DEF Outcomes
  <2> QED BY <1>3, <2>1, RefreshReadStep, QuietStep, RefreshClaimStep, RefreshMintStep DEF Refresh
<1>4. ASSUME NEW k \in Tasks, \E out \in Outcomes : Kill(k, out) PROVE GrantInv'
  BY <1>4, KillStep
<1> QED BY <1>1, <1>2, <1>3, <1>4, KillStep, RevokeStep, AuthorizeStep DEF Next

\* The state of the token endpoint always satisfies GrantInv.
THEOREM GrantsSafe == Spec => []GrantInv
<1>1. Init => GrantInv
  BY GrantInit
<1>2. GrantInv /\ [Next]_vars => GrantInv'
  BY GrantStep
<1> QED BY <1>1, <1>2, PTL DEF Spec

\* A code is exchanged for one pair of tokens, whoever presents it, however
\* often and in whatever order the handlers run or crash.
THEOREM CodesExchangedOnce == Spec => []CodeExchangedOnce
<1>1. GrantInv => CodeExchangedOnce
  BY DEF GrantInv, CodeInv
<1> QED BY <1>1, GrantsSafe, PTL

\* A reuse that was answered has revoked both tokens for the rest of their
\* lifetimes: the record of the exchange outlives the longer of the two.
THEOREM ReuseIsAnswered == Spec => []ReuseRevokes
<1>1. GrantInv => ReuseRevokes
  <2>1. ASSUME GrantInv, NEW c \in reused
        PROVE  /\ Live(RefreshExp(used[c].tok)) => Live(marker[used[c].tok].exp)
               /\ Live(AccessExp(used[c].tok)) => Live(barred[used[c].tok])
    <3>1. c \in Codes /\ used[c].exp # 0
      BY <2>1 DEF GrantInv, TypeOK, ReuseInv
    <3>2. PICK t \in Tokens : t = used[c].tok
      BY <2>1, <3>1 DEF GrantInv, UsedInv
    <3>3. /\ marker[t].exp \in Nat /\ barred[t] \in Nat /\ now \in Nat
          /\ RefreshExp(t) \in Nat /\ AccessExp(t) \in Nat
      BY <2>1, TokenAssumption
      DEF GrantInv, TypeOK, TokenState, RefreshExp, AccessExp, TokenAssumption
    <3>4. /\ marker[t].exp = 0 \/ marker[t].exp >= RefreshExp(t)
          /\ marker[t].exp # 0 \/ RefreshExp(t) <= now
          /\ barred[t] >= AccessExp(t) \/ AccessExp(t) <= now
      BY <2>1, <3>2 DEF GrantInv, TokenInv, ReuseInv
    <3>5. Live(RefreshExp(t)) => Live(marker[t].exp)
      BY <3>3, <3>4 DEF Live
    <3>6. Live(AccessExp(t)) => Live(barred[t])
      BY <3>3, <3>4 DEF Live
    <3> QED BY <3>2, <3>5, <3>6
  <2> QED BY <2>1 DEF ReuseRevokes
<1> QED BY <1>1, GrantsSafe, PTL

\* A step writes a deleted session's row only as the create of a redemption:
\* an update of a missing row does nothing, a login resumes only what exists,
\* and an offline session is created before its grant has tokens.
LEMMA RecreateStep ==
    ASSUME GrantInv, [Next]_vars, NEW s \in Sids, s \in torn, session[s] = 0, session'[s] # 0
    PROVE  \E k \in Tasks : task[k].pc = "create" /\ task[k].sid = s
<1>0. session \in [Sids -> Nat]
  BY DEF GrantInv, TypeOK
<1>1. ASSUME NEW c \in Codes, NEW r \in Sessions, NEW offline \in Offline, Authorize(c, r, offline)
      PROVE FALSE
  BY <1>0, <1>1 DEF Authorize
<1>2. ASSUME NEW k \in Tasks, NEW out \in Outcomes, RedeemPersist(k, out)
      PROVE task[k].pc = "create" /\ task[k].sid = s
  BY <1>0, <1>2 DEF RedeemPersist, Updated
<1>3. ASSUME NEW k \in Tasks, NEW out \in Outcomes, RedeemOffline(k, out) PROVE FALSE
  <2>1. task[k].code \in Codes /\ Redeeming(k, task[k].code)
    BY <1>3, Carried DEF RedeemOffline, Redeeming
  <2>2. s = task[k].code
    BY <1>0, <1>3 DEF RedeemOffline
  <2>3. \E t \in Tokens : tok[t].root = s
    BY <2>1, <2>2 DEF GrantInv, TornInv
  <2> QED BY <2>1, <2>2, <2>3 DEF GrantInv, CodeInv
<1>4. ASSUME NEW k \in Tasks, NEW out \in Outcomes, NEW pass \in BOOLEAN, RefreshTouch(k, out, pass)
      PROVE FALSE
  BY <1>0, <1>4 DEF RefreshTouch, Updated
<1>5. ASSUME NEW k \in Tasks, NEW out \in Outcomes, Kill(k, out) PROVE FALSE
  BY <1>0, <1>5 DEF Kill
<1>6. ASSUME NEW r \in Sessions, EndSession(r) PROVE FALSE
  BY <1>0, <1>6 DEF EndSession
<1>7. ASSUME session' = session PROVE FALSE
  BY <1>7
<1>8. ASSUME NEW k \in Tasks, Redeem(k) PROVE \E j \in Tasks : task[j].pc = "create" /\ task[j].sid = s
  <2>1. Reads \subseteq Outcomes
    BY DEF Reads, Outcomes
  <2> QED BY <1>2, <1>3, <1>7, <1>8, <2>1
          DEF Redeem, RedeemTake, RedeemLoad, RedeemIssue, ReplayRead, ReplayAccess, ReplayRefresh
<1>9. ASSUME NEW k \in Tasks, Refresh(k) PROVE FALSE
  BY <1>4, <1>7, <1>9 DEF Refresh, RefreshRead, RefreshCheck, RefreshClaim, RefreshMint
<1> QED BY <1>1, <1>5, <1>6, <1>7, <1>8, <1>9
        DEF Next, vars, Crash, LogoutToken, RevokeRefresh, Tick

\* No refresh that races with a logout, an expiry or a replay brings a
\* deleted session back.
THEOREM RefreshesNeverRecreate == Spec => RefreshNeverRecreates
<1>1. GrantInv /\ [Next]_vars =>
        [\A s \in Sids : s \in torn /\ session[s] = 0 /\ session'[s] # 0 =>
            \E k \in Tasks : task[k].pc = "create" /\ task[k].sid = s]_vars
  BY RecreateStep
<1> QED BY <1>1, GrantsSafe, PTL DEF Spec, RefreshNeverRecreates

-----------------------------------------------------------------------------
(* Rotation on the Redis cache.  The in-memory cache counts a marker that was *)
(* set by a revocation from 1 again, so there the claim it answers can be a   *)
(* second one.                                                                *)

\* Where no token is minted or claimed, a grant keeps its one live token.
LEMMA RotationQuiet ==
    ASSUME GrantInv, RotationInv, UNCHANGED tok, stale \subseteq stale',
           \A t \in Tokens : marker[t].exp # 0 => marker'[t].exp # 0,
           \A j \in Tasks : task'[j].pc = "mint" =>
               task[j].pc = "mint" /\ task'[j].tok = task[j].tok
    PROVE  RotationInv'
<1>1. ASSUME NEW j \in Tasks, NEW c, Rotating(j, c)' PROVE Rotating(j, c)
  BY <1>1 DEF Rotating
<1>2. ASSUME NEW t \in Tokens, NEW c, Unspent(t, c)' PROVE Unspent(t, c)
  BY <1>2 DEF Unspent
<1>3. ASSUME NEW c \in Codes \ stale'
      PROVE  /\ \A t, u \in Tokens : Unspent(t, c)' /\ Unspent(u, c)' => t = u
             /\ \A k \in Tasks : Rotating(k, c)' =>
                 /\ \A t \in Tokens : ~Unspent(t, c)'
                 /\ \A j \in Tasks : Rotating(j, c)' => j = k
  <2>1. c \in Codes \ stale
    BY <1>3
  <2> QED BY <1>1, <1>2, <2>1 DEF RotationInv
<1> QED BY <1>3 DEF RotationInv

\* The first pair of a grant is its only unmarked token.
LEMMA RotationIssue ==
    ASSUME GrantInv, RotationInv, NEW k \in Tasks, NEW out \in Outcomes, RedeemIssue(k, out)
    PROVE  RotationInv'
<1>0. TypeOK /\ task[k].pc = "issue"
  BY DEF GrantInv, RedeemIssue
<1>1. PICK c \in Codes : c = task[k].code /\ Redeeming(k, c)
  BY <1>0, Carried DEF Redeeming
<1>2. PICK t \in Tokens : t = Fresh /\ tok[t] = NoToken
  BY FreshUnminted DEF RedeemIssue
<1>3. /\ \A u \in Tokens : u # t => tok'[u] = tok[u]
      /\ tok'[t].root = c
      /\ UNCHANGED <<marker, stale>>
  BY <1>0, <1>1, <1>2 DEF RedeemIssue, TypeOK
<1>4. /\ \A j \in Tasks : j # k => task'[j] = task[j]
      /\ task'[k].pc = "idle"
  BY <1>0, GotoEffect DEF RedeemIssue, PCs
<1>5. /\ \A u \in Tokens : tok[u].root # c
      /\ tok[t].root = None
  BY <1>1, <1>2 DEF GrantInv, CodeInv, NoToken
<1>6. \A j \in Tasks : task[j].pc = "mint" => task[j].tok \in Tokens /\ tok[task[j].tok].root \in Codes
  BY Carried
<1>7. ASSUME NEW j \in Tasks, NEW d \in Codes, Rotating(j, d)' PROVE Rotating(j, d) /\ d # c
  <2>1. j # k /\ task'[j] = task[j] /\ task[j].pc = "mint" /\ tok'[task[j].tok].root = d
    BY <1>4, <1>7 DEF Rotating
  <2>2. task[j].tok \in Tokens /\ task[j].tok # t
    BY <1>5, <1>6, <2>1, TokenAssumption DEF TokenAssumption
  <2> QED BY <1>3, <1>5, <2>1, <2>2 DEF Rotating
<1>8. ASSUME NEW u \in Tokens, NEW d \in Codes, Unspent(u, d)'
      PROVE  \/ u # t /\ d # c /\ Unspent(u, d)
             \/ u = t /\ d = c
  BY <1>3, <1>5, <1>8 DEF Unspent
<1>9. ASSUME NEW d \in Codes \ stale'
      PROVE  /\ \A u, v \in Tokens : Unspent(u, d)' /\ Unspent(v, d)' => u = v
             /\ \A i \in Tasks : Rotating(i, d)' =>
                 /\ \A u \in Tokens : ~Unspent(u, d)'
                 /\ \A j \in Tasks : Rotating(j, d)' => j = i
  <2>1. d \in Codes \ stale
    BY <1>3
  <2> QED BY <1>7, <1>8, <2>1 DEF RotationInv
<1> QED BY <1>9 DEF RotationInv

\* The successor replaces the claimed token.
LEMMA RotationMint ==
    ASSUME GrantInv, RotationInv, NEW k \in Tasks, NEW out \in Outcomes, RefreshMint(k, out)
    PROVE  RotationInv'
<1>0. TypeOK /\ task[k].pc = "mint"
  BY DEF GrantInv, RefreshMint
<1>1. PICK c \in Codes : task[k].tok \in Tokens /\ c = tok[task[k].tok].root
  BY <1>0, Carried
<1>2. PICK t \in Tokens : t = Fresh /\ tok[t] = NoToken
  BY FreshUnminted DEF RefreshMint
<1>3. /\ \A u \in Tokens : u # t => tok'[u] = tok[u]
      /\ tok'[t].root = c
      /\ UNCHANGED <<marker, stale>>
  <2>1. tok' = [tok EXCEPT ![t] = [tok[task[k].tok] EXCEPT !.prev = task[k].tok, !.at = now]]
    BY <1>2 DEF RefreshMint
  <2>2. tok[task[k].tok] \in TokenState /\ tok \in [Tokens -> TokenState]
    BY <1>0, <1>1 DEF TypeOK
  <2>3. [tok[task[k].tok] EXCEPT !.prev = task[k].tok, !.at = now].root = c
    BY <1>1, <2>2 DEF TokenState
  <2> QED BY <2>1, <2>2, <2>3 DEF RefreshMint, cacheVars
<1>4. /\ \A j \in Tasks : j # k => task'[j] = task[j]
      /\ task'[k].pc = "idle"
  BY <1>0, GotoEffect DEF RefreshMint, PCs
<1>5. tok[t].root = None
  BY <1>2 DEF NoToken
<1>6. \A j \in Tasks : task[j].pc = "mint" => task[j].tok \in Tokens /\ tok[task[j].tok].root \in Codes
  BY Carried
<1>7. ASSUME NEW j \in Tasks, NEW d \in Codes, Rotating(j, d)' PROVE Rotating(j, d) /\ j # k
  <2>1. j # k /\ task'[j] = task[j] /\ task[j].pc = "mint" /\ tok'[task[j].tok].root = d
    BY <1>4, <1>7 DEF Rotating
  <2>2. task[j].tok \in Tokens /\ task[j].tok # t
    BY <1>5, <1>6, <2>1, TokenAssumption DEF TokenAssumption
  <2> QED BY <1>3, <2>1, <2>2 DEF Rotating
<1>8. ASSUME NEW u \in Tokens, NEW d \in Codes, Unspent(u, d)'
      PROVE  \/ Unspent(u, d)
             \/ u = t /\ d = c
  BY <1>3, <1>8 DEF Unspent
<1>9. Rotating(k, c)
  BY <1>0, <1>1 DEF Rotating
<1>10. ASSUME NEW d \in Codes \ stale'
       PROVE  /\ \A u, v \in Tokens : Unspent(u, d)' /\ Unspent(v, d)' => u = v
              /\ \A i \in Tasks : Rotating(i, d)' =>
                  /\ \A u \in Tokens : ~Unspent(u, d)'
                  /\ \A j \in Tasks : Rotating(j, d)' => j = i
  <2>1. d \in Codes \ stale
    BY <1>3
  <2> QED BY <1>7, <1>8, <1>9, <2>1 DEF RotationInv
<1> QED BY <1>10 DEF RotationInv

\* A claim that is answered with 1 before the token expires is the first one:
\* an earlier marker would still be there.
LEMMA RotationClaim ==
    ASSUME Backend = "redis", GrantInv, RotationInv, NEW k \in Tasks, NEW out \in Outcomes,
           RefreshClaim(k, out)
    PROVE  RotationInv'
<1> USE TokenAssumption DEF TokenAssumption
<1>0. TypeOK /\ task[k].pc = "claim" /\ now \in Nat
  BY DEF GrantInv, TypeOK, RefreshClaim
<1>1. PICK t \in Tokens : t = task[k].tok /\ tok[t].root \in Codes
  BY <1>0, Carried
<1>2. PICK c \in Codes : c = tok[t].root
  BY <1>1
<1>3. /\ RefreshExp(t) \in Nat /\ RefreshExp(t) # 0 /\ marker[t].exp \in Nat
      /\ marker[t].exp = 0 \/ marker[t].exp >= RefreshExp(t)
  BY <1>0 DEF TypeOK, TokenState, RefreshExp, GrantInv, TokenInv
<1>4. /\ UNCHANGED tok /\ stale \subseteq stale'
      /\ \A u \in Tokens : u # t => marker'[u] = marker[u]
  BY <1>0, <1>1 DEF RefreshClaim, TypeOK
<1>5. marker[t].exp # 0 => marker'[t].exp # 0
  BY <1>0, <1>1, <1>3 DEF RefreshClaim, TypeOK, Live, Max2
<1>6. /\ \A j \in Tasks : j # k => task'[j] = task[j]
      /\ task'[k].pc = "mint" =>
           /\ task'[k].tok = t /\ out = "ok" /\ Incremented(t) = 1
  <2>1. PICK pc \in {"idle", "mint", "kill"} :
          Goto(k, pc) /\ (pc = "mint" => out = "ok" /\ Incremented(t) = 1)
    BY <1>1 DEF RefreshClaim
  <2> QED BY <1>0, <1>1, <2>1, GotoEffect DEF PCs
<1>7. CASE task'[k].pc # "mint"
  <2>1. \A j \in Tasks : task'[j].pc = "mint" => task[j].pc = "mint" /\ task'[j].tok = task[j].tok
    BY <1>6, <1>7
  <2>2. \A u \in Tokens : marker[u].exp # 0 => marker'[u].exp # 0
    BY <1>4, <1>5
  <2> QED BY <1>4, <2>1, <2>2, RotationQuiet
<1>8. CASE task'[k].pc = "mint"
  <2>1. out = "ok" /\ Incremented(t) = 1 /\ ~Live(marker[t].exp)
    BY <1>6, <1>8 DEF Incremented
  <2>2. marker'[t].exp # 0
    BY <1>0, <1>1, <1>3, <2>1 DEF RefreshClaim, TypeOK, Live, Max2
  <2>3. CASE now >= RefreshExp(t)
    <3>1. c \in stale'
      BY <1>1, <1>2, <2>1, <2>3 DEF RefreshClaim
    <3>2. ASSUME NEW j \in Tasks, NEW d, d # c, Rotating(j, d)' PROVE Rotating(j, d)
      BY <1>2, <1>4, <1>6, <1>8, <3>2 DEF Rotating
    <3>3. ASSUME NEW u \in Tokens, NEW d, Unspent(u, d)' PROVE Unspent(u, d)
      BY <1>4, <2>2, <3>3 DEF Unspent
    <3>4. ASSUME NEW d \in Codes \ stale'
          PROVE  /\ \A u, v \in Tokens : Unspent(u, d)' /\ Unspent(v, d)' => u = v
                 /\ \A i \in Tasks : Rotating(i, d)' =>
                     /\ \A u \in Tokens : ~Unspent(u, d)'
                     /\ \A j \in Tasks : Rotating(j, d)' => j = i
      <4>1. d \in Codes \ stale /\ d # c
        BY <1>4, <3>1, <3>4
      <4> QED BY <3>2, <3>3, <4>1 DEF RotationInv
    <3> QED BY <3>4 DEF RotationInv
  <2>4. CASE now < RefreshExp(t)
    <3>1. Unspent(t, c)
      BY <1>0, <1>2, <1>3, <2>1, <2>4 DEF Unspent, Live
    <3>2. ASSUME NEW j \in Tasks, NEW d, Rotating(j, d)'
          PROVE  \/ Rotating(j, d)
                 \/ j = k /\ d = c
      BY <1>2, <1>4, <1>6, <3>2 DEF Rotating
    <3>3. ASSUME NEW u \in Tokens, NEW d, Unspent(u, d)' PROVE Unspent(u, d) /\ u # t
      BY <1>4, <2>2, <3>3 DEF Unspent
    <3>4. ASSUME NEW d \in Codes \ stale'
          PROVE  /\ \A u, v \in Tokens : Unspent(u, d)' /\ Unspent(v, d)' => u = v
                 /\ \A i \in Tasks : Rotating(i, d)' =>
                     /\ \A u \in Tokens : ~Unspent(u, d)'
                     /\ \A j \in Tasks : Rotating(j, d)' => j = i
      <4>1. d \in Codes \ stale
        BY <1>4, <3>4
      <4> QED BY <3>1, <3>2, <3>3, <4>1 DEF RotationInv
    <3> QED BY <3>4 DEF RotationInv
  <2> QED BY <1>0, <1>3, <2>3, <2>4
<1> QED BY <1>7, <1>8

\* The other steps neither mint nor claim, and add markers at most.
LEMMA RotationRest ==
    ASSUME GrantInv, RotationInv, NEW k \in Tasks,
           \/ \E out \in Outcomes : \/ RedeemLoad(k, out) \/ RedeemPersist(k, out)
                                    \/ RedeemOffline(k, out) \/ ReplayRead(k, out)
                                    \/ ReplayAccess(k, out) \/ ReplayRefresh(k, out)
                                    \/ Kill(k, out)
                                    \/ \E pass \in BOOLEAN : RefreshTouch(k, out, pass)
           \/ \E c \in Codes, out \in Outcomes, pass \in BOOLEAN : RedeemTake(k, c, out, pass)
           \/ RefreshCheck(k) \/ Crash(k)
           \/ \E t \in Tokens : RefreshRead(k, t) \/ LogoutToken(k, t)
    PROVE  RotationInv'
<1> USE TokenAssumption DEF TokenAssumption
<1>0. TypeOK /\ task \in [Tasks -> TaskState] /\ task[k] \in TaskState /\ now \in Nat
  BY DEF GrantInv, TypeOK
<1>1. \A t \in Tokens : RefreshExp(t) \in Nat /\ RefreshExp(t) # 0
  BY <1>0 DEF TypeOK, TokenState, RefreshExp
<1>2. UNCHANGED <<tok, stale>>
  BY DEF RedeemLoad, RedeemPersist, RedeemOffline, ReplayRead, ReplayAccess, ReplayRefresh, Kill,
         RefreshTouch, RedeemTake, RefreshCheck, Crash, RefreshRead, LogoutToken, histVars
<1>3. \A t \in Tokens : marker[t].exp # 0 => marker'[t].exp # 0
  <2>1. ASSUME NEW out \in Outcomes, ReplayRefresh(k, out)
        PROVE  \A t \in Tokens : marker[t].exp # 0 => marker'[t].exp # 0
    <3>1. task[k].tok \in Tokens
      BY <2>1, Carried DEF ReplayRefresh
    <3> QED BY <1>0, <1>1, <2>1, <3>1 DEF ReplayRefresh, TypeOK
  <2>2. ASSUME NEW u \in Tokens, LogoutToken(k, u)
        PROVE  \A t \in Tokens : marker[t].exp # 0 => marker'[t].exp # 0
    BY <1>0, <1>1, <2>2 DEF LogoutToken, TypeOK
  <2>3. ASSUME marker' = marker PROVE \A t \in Tokens : marker[t].exp # 0 => marker'[t].exp # 0
    BY <2>3
  <2> QED BY <2>1, <2>2, <2>3
          DEF RedeemLoad, RedeemPersist, RedeemOffline, ReplayRead, ReplayAccess, Kill,
              RefreshTouch, RedeemTake, RefreshCheck, Crash, RefreshRead, cacheVars
<1>4. /\ \A j \in Tasks : j # k => task'[j] = task[j]
      /\ task'[k].pc # "mint"
  <2>1. ASSUME NEW pc \in PCs, pc # "mint", Goto(k, pc)
        PROVE  /\ \A j \in Tasks : j # k => task'[j] = task[j]
               /\ task'[k].pc # "mint"
    BY <1>0, <2>1, GotoEffect
  <2>2. ASSUME NEW out \in Outcomes,
               \/ RedeemLoad(k, out) \/ RedeemPersist(k, out)
               \/ ReplayAccess(k, out) \/ ReplayRefresh(k, out) \/ Kill(k, out)
               \/ (\E pass \in BOOLEAN : RefreshTouch(k, out, pass))
               \/ RefreshCheck(k) \/ Crash(k)
        PROVE  \E pc \in PCs : pc # "mint" /\ Goto(k, pc)
    BY <2>2 DEF RedeemLoad, RedeemPersist, ReplayAccess, ReplayRefresh, Kill, RefreshTouch,
                RefreshCheck, Crash, PCs
  <2>3. ASSUME NEW x, task' = [task EXCEPT ![k] = x], x.pc # "mint"
        PROVE  /\ \A j \in Tasks : j # k => task'[j] = task[j]
               /\ task'[k].pc # "mint"
    BY <1>0, <2>3
  <2>4. ASSUME NEW out \in Outcomes, RedeemOffline(k, out)
        PROVE  /\ \A j \in Tasks : j # k => task'[j] = task[j]
               /\ task'[k].pc # "mint"
    <3>1. [task[k] EXCEPT !.pc = "issue", !.sid = task[k].code].pc # "mint" /\ Idle.pc # "mint"
      BY <1>0 DEF TaskState, Idle
    <3> QED BY <2>3, <2>4, <3>1 DEF RedeemOffline
  <2>5. ASSUME NEW out \in Outcomes, ReplayRead(k, out)
        PROVE  /\ \A j \in Tasks : j # k => task'[j] = task[j]
               /\ task'[k].pc # "mint"
    <3>1. [task[k] EXCEPT !.pc = "bar", !.tok = used[task[k].code].tok].pc # "mint"
          /\ Idle.pc # "mint"
      BY <1>0 DEF TaskState, Idle
    <3> QED BY <2>3, <2>5, <3>1 DEF ReplayRead
  <2>6. ASSUME NEW c \in Codes, NEW out \in Outcomes, NEW pass \in BOOLEAN, RedeemTake(k, c, out, pass)
        PROVE  /\ \A j \in Tasks : j # k => task'[j] = task[j]
               /\ task'[k].pc # "mint"
    <3> DEFINE found == out = "ok" /\ Live(code[c])
               go == [pc |-> IF found THEN "load" ELSE "replay", code |-> c, tok |-> None,
                      sid |-> grantOf[c].sid, again |-> \E t \in held : tok[t].root = c]
    <3>1. go.pc # "mint" /\ Idle.pc # "mint"
      BY DEF Idle
    <3>2. task' = [task EXCEPT ![k] = IF found /\ ~pass THEN Idle ELSE go]
      BY <2>6 DEF RedeemTake
    <3> HIDE DEF go, found
    <3> QED BY <2>3, <3>1, <3>2
  <2>7. ASSUME NEW t \in Tokens, RefreshRead(k, t) \/ LogoutToken(k, t)
        PROVE  /\ \A j \in Tasks : j # k => task'[j] = task[j]
               /\ task'[k].pc # "mint"
    BY <1>0, <2>7 DEF RefreshRead, LogoutToken
  <2>8. "ok" \in Outcomes
    BY DEF Outcomes
  <2> QED BY <2>1, <2>2, <2>4, <2>5, <2>6, <2>7, <2>8
<1>5. \A j \in Tasks : task'[j].pc = "mint" => task[j].pc = "mint" /\ task'[j].tok = task[j].tok
  BY <1>4
<1> QED BY <1>2, <1>3, <1>5, RotationQuiet

\* Every step keeps a grant's one live token.
LEMMA RotationStep ==
    ASSUME Backend = "redis", GrantInv, RotationInv, [Next]_vars
    PROVE  RotationInv'
<1> USE TokenAssumption DEF TokenAssumption
<1>1. ASSUME NEW t \in Tokens, RevokeRefresh(t) PROVE RotationInv'
  <2>1. now \in Nat /\ RefreshExp(t) \in Nat /\ marker \in [Tokens -> [exp : Nat, n : 0 .. 2]]
    BY DEF GrantInv, TypeOK, TokenState, RefreshExp
  <2>2. \A u \in Tokens : marker[u].exp # 0 => marker'[u].exp # 0
    BY <1>1, <2>1 DEF RevokeRefresh, Max2
  <2> QED BY <1>1, <2>2, RotationQuiet DEF RevokeRefresh, histVars
<1>2. ASSUME UNCHANGED <<tok, marker, task, stale>> PROVE RotationInv'
  BY <1>2, RotationQuiet
<1>3. ASSUME NEW k \in Tasks, Redeem(k) PROVE RotationInv'
  <2>1. Reads \subseteq Outcomes
    BY DEF Reads, Outcomes
  <2> QED BY <1>3, <2>1, RotationIssue, RotationRest DEF Redeem
<1>4. ASSUME NEW k \in Tasks, Refresh(k) PROVE RotationInv'
  BY <1>4, RotationMint, RotationClaim, RotationRest DEF Refresh
<1>5. ASSUME NEW k \in Tasks,
             Crash(k) \/ (\E out \in Outcomes : Kill(k, out)) \/ \E t \in Tokens : LogoutToken(k, t)
      PROVE  RotationInv'
  BY <1>5, RotationRest
<1> QED BY <1>1, <1>2, <1>3, <1>4, <1>5
        DEF Next, vars, Authorize, EndSession, Tick, cacheVars, histVars

\* On the Redis cache, of all the refresh tokens that descend from one code
\* at most one can still be exchanged.
THEOREM OneLiveToken == Backend = "redis" => (Spec => []OneLiveTokenPerGrant)
<1> SUFFICES ASSUME Backend = "redis" PROVE Spec => []OneLiveTokenPerGrant
  OBVIOUS
<1>1. Init => RotationInv
  <2>1. ASSUME Init, NEW t \in Tokens, NEW c \in Codes PROVE ~Unspent(t, c)
    BY <2>1, TokenAssumption DEF Init, Unspent, NoToken, TokenAssumption
  <2>2. ASSUME Init, NEW k \in Tasks, NEW c \in Codes PROVE ~Rotating(k, c)
    BY <2>2 DEF Init, Rotating, Idle
  <2> QED BY <2>1, <2>2 DEF RotationInv
<1>2. GrantInv /\ RotationInv /\ [Next]_vars => RotationInv'
  BY RotationStep
<1>3. GrantInv /\ RotationInv => OneLiveTokenPerGrant
  <2>1. ASSUME GrantInv, NEW t \in Tokens, Usable(t)
        PROVE  tok[t].root \in Codes /\ Unspent(t, tok[t].root)
    <3>1. /\ RefreshExp(t) \in Nat /\ marker[t].exp \in Nat /\ now \in Nat
          /\ marker[t].exp = 0 \/ marker[t].exp >= RefreshExp(t)
      BY <2>1, TokenAssumption
      DEF GrantInv, TypeOK, TokenState, RefreshExp, TokenInv, TokenAssumption
    <3>2. marker[t].exp = 0
      BY <2>1, <3>1 DEF Usable, Live
    <3>3. tok[t].root # None
      BY <2>1 DEF Usable, GrantInv, TokenInv, Minted, NoToken
    <3> QED BY <2>1, <3>2, <3>3 DEF Unspent, GrantInv, TypeOK, TokenState
  <2> QED BY <2>1 DEF RotationInv, OneLiveTokenPerGrant
<1> QED BY <1>1, <1>2, <1>3, GrantsSafe, PTL DEF Spec

=============================================================================
