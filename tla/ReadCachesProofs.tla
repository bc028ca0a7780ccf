-------------------------- MODULE ReadCachesProofs --------------------------
(***************************************************************************)
(* How old an answer to a userinfo request may be, for any number of       *)
(* requests and changes and every lifetime.                                *)
(***************************************************************************)
EXTENDS ReadCaches, TLAPS

PCs   == {"idle", "epoch", "get", "load", "put", "tag", "check", "body", "retag", "write",
          "answered"}
\* The places where a request is busy with a piece, and where it has them all.
Reads == {"epoch", "get", "load", "put"}
Full  == {"retag", "write"}

Partial   == UNION {[D -> Nat] : D \in SUBSET Counters}
Versions  == [Pieces -> Nat]
Entries   == [ver : Nat, epoch : Nat, exp : Nat]
Bodies    == [ver : Versions, tag : Partial, exp : Nat]
ReqState  == [pc : PCs, piece : Pieces \cup {"none"}, ver : Versions, cur : Partial, tag : Partial,
              epoch : Nat, usable : BOOLEAN, at : Nat, exact : Versions]
HistState == [since : [Pieces -> Seq(Nat)], exact : Versions, blank : Nat, blind : BOOLEAN,
              changes : Nat, faults : Nat]
Changes   == [pc : {"idle", "bump", "delete", "epoch"}, piece : Pieces \cup {"none"}]

TypeOK ==
    /\ now \in Nat /\ db \in Versions /\ counter \in [Counters -> Nat]
    /\ entry \in [Pieces -> Entries] /\ body \in Bodies
    /\ req \in [Requests -> ReqState] /\ answer \in ReqState
    /\ change \in Changes /\ hist \in HistState

\* A change is of what it then invalidates.
ChangeOK ==
    /\ change.pc \in {"bump", "delete"} => change.piece \in Entities
    /\ change.pc = "epoch" => change.piece \in Pieces \ {"client"}

\* Where a request is says which pieces it has, and what its reader knows.
Shape(x) ==
    /\ x.pc \in Reads => x.piece \in Pieces
    /\ x.pc \notin Reads \cup {"answered"} => x.piece = "none" /\ ~x.usable
    /\ x.pc \in {"get", "put"} => x.usable
    /\ x.pc = "tag" \/ (x.pc \in Reads /\ x.piece = "client") =>
          x.tag = None /\ \A p \in Pieces : p # "client" => x.ver[p] = Blank

\* What the request has of piece p is final.
Has(x, p) ==
    \/ x.pc \in Full
    \/ p = "user" /\ x.pc \in Reads /\ x.piece = "catalog"
    \/ p = "client" /\ x.pc # "idle" /\ x.piece # "client"

Base == TypeOK /\ ChangeOK /\ \A r \in Requests : Shape(req[r])

-----------------------------------------------------------------------------
(* Definitions *)

\* X[e] is what the definitions were when the epoch became e.
Epochs(X) ==
    /\ X \in [Nat -> Versions] /\ X[counter["epoch"]] = hist.exact
    /\ \A e, f \in Nat : e <= f /\ f <= counter["epoch"] =>
          \A p \in Pieces : X[e][p] <= X[f][p]
    /\ \A p \in Pieces : hist.exact[p] <= db[p]
    /\ "client" \in Pieces => hist.exact["client"] = 0

\* Version v of p is not older than at epoch e, an epoch there was.
AsOf(X, v, e, p) == e <= counter["epoch"] /\ X[e][p] <= v

\* What a request has read is not older than what it must return, and what it
\* will write is not older than the epoch it will write it under.
ReqExact(X, x) ==
    /\ \A p \in Pieces : /\ x.exact[p] <= hist.exact[p]
                         /\ x.ver[p] = Blank \/ x.exact[p] <= x.ver[p]
    /\ x.usable => /\ x.epoch <= counter["epoch"]
                   /\ \A p \in Pieces : x.exact[p] <= X[x.epoch][p]
    /\ x.pc = "put" => AsOf(X, x.ver[x.piece], x.epoch, x.piece)
    /\ "epoch" \in DOMAIN x.cur => /\ x.cur["epoch"] <= counter["epoch"]
                                   /\ \A p \in Pieces : x.exact[p] <= X[x.cur["epoch"]][p]
    /\ "epoch" \in DOMAIN x.tag =>
          /\ x.tag["epoch"] <= counter["epoch"]
          /\ \A p \in Pieces : x.ver[p] = Blank \/ AsOf(X, x.ver[p], x.tag["epoch"], p)
          /\ x.usable => x.tag["epoch"] <= x.epoch
    /\ x.pc \in {"check", "body", "write"} \/ (x.pc \in Reads /\ x.piece # "client") =>
          "epoch" \in DOMAIN x.tag
    /\ x.pc # "retag"

EntryExact(X) == \A p \in Pieces : entry[p] = NoEntry \/ AsOf(X, entry[p].ver, entry[p].epoch, p)

BodyExact(X) ==
    \/ body = NoBody
    \/ /\ "epoch" \in DOMAIN body.tag
       /\ \A p \in Pieces : body.ver[p] = Blank \/ AsOf(X, body.ver[p], body.tag["epoch"], p)

ExactInv(X) ==
    /\ Epochs(X) /\ EntryExact(X) /\ BodyExact(X)
    /\ \A r \in Requests : ReqExact(X, req[r])
    /\ \A p \in Pieces : answer.ver[p] = Blank \/ answer.exact[p] <= answer.ver[p]

-----------------------------------------------------------------------------
(* Ages *)

\* If version v of p was replaced, time t is at most s later.
Current(p, v, t, s) == v < Len(hist.since[p]) => t <= hist.since[p][v + 1] + s

\* How long an entry and the request that writes it last.
Span == MaxRequest + TTL

ReqAge(x) ==
    /\ x.at <= now /\ (x.pc # "idle" => now <= x.at + MaxRequest)
    /\ \A p \in Pieces : x.ver[p] # Blank => Current(p, x.ver[p], x.at + 1, Span)
    /\ x.pc = "put" => x.ver[x.piece] # Blank /\ Current(x.piece, x.ver[x.piece], x.at, 0)
    /\ \A p \in Pieces : Has(x, p) /\ x.ver[p] = Blank => x.at <= hist.blank

AnswerAge(x) ==
    \A p \in Pieces : /\ x.ver[p] = Blank => x.at < hist.blank + Span
                      /\ x.ver[p] # Blank => Current(p, x.ver[p], x.at + 2, 2 * Span)

EntryAge ==
    \A p \in Pieces :
        /\ entry[p].exp <= now + TTL
        /\ entry[p] = NoEntry \/ (entry[p].ver # Blank /\ Current(p, entry[p].ver, entry[p].exp, Span))

BodyAge ==
    /\ body.exp <= now + TTL
    /\ body = NoBody \/ \A p \in Pieces :
          /\ body.ver[p] = Blank => body.exp <= hist.blank + Span
          /\ body.ver[p] # Blank => Current(p, body.ver[p], body.exp + 1, 2 * Span)

AgeInv ==
    /\ \A p \in Pieces : Len(hist.since[p]) = db[p] /\ db[p] > 0
    /\ hist.blank <= now
    /\ EntryAge /\ BodyAge
    /\ \A r \in Requests : ReqAge(req[r])
    /\ answer.pc = "answered" => AnswerAge(answer)

ReadInv == Base /\ AgeInv /\ (~hist.blind => \E X \in [Nat -> Versions] : ExactInv(X))

-----------------------------------------------------------------------------
(* Operators *)

\* The constants.
LEMMA Constants ==
    /\ TTL \in Nat /\ TTL > 0 /\ MaxRequest \in Nat /\ Span \in Nat /\ Span >= TTL
    /\ "user" \in Pieces /\ "none" \notin Pieces /\ "epoch" \notin Pieces
    /\ "epoch" \in Counters /\ Entities \subseteq Pieces /\ Pieces \subseteq {"client", "user", "catalog"}
  BY ReadAssumption DEF ReadAssumption, Span, Counters, Entities

\* What the fields of a request are.
LEMMA ReqFields ==
    ASSUME NEW x \in ReqState
    PROVE  /\ x.pc \in PCs /\ x.piece \in Pieces \cup {"none"} /\ x.ver \in Versions
           /\ x.cur \in Partial /\ x.tag \in Partial /\ x.epoch \in Nat /\ x.usable \in BOOLEAN
           /\ x.at \in Nat /\ x.exact \in Versions
           /\ \A p \in Pieces : x.ver[p] \in Nat /\ x.exact[p] \in Nat
  BY DEF ReqState, Versions

\* What the fields of a history are.
LEMMA HistFields ==
    ASSUME NEW h \in HistState
    PROVE  /\ h.since \in [Pieces -> Seq(Nat)] /\ h.exact \in Versions /\ h.blank \in Nat
           /\ h.blind \in BOOLEAN /\ h.changes \in Nat /\ h.faults \in Nat
           /\ \A p \in Pieces : h.since[p] \in Seq(Nat) /\ Len(h.since[p]) \in Nat /\ h.exact[p] \in Nat
           /\ \A p \in Pieces, v \in Nat : v < Len(h.since[p]) => h.since[p][v + 1] \in Nat
<1>1. /\ h.since \in [Pieces -> Seq(Nat)] /\ h.exact \in Versions /\ h.blank \in Nat
      /\ h.blind \in BOOLEAN /\ h.changes \in Nat /\ h.faults \in Nat
  BY DEF HistState
<1>2. \A p \in Pieces : h.since[p] \in Seq(Nat) /\ Len(h.since[p]) \in Nat /\ h.exact[p] \in Nat
  BY <1>1 DEF Versions
<1>3. \A p \in Pieces, v \in Nat : v < Len(h.since[p]) => h.since[p][v + 1] \in Nat
  BY <1>2
<1> QED BY <1>1, <1>2, <1>3

\* None is a partial function without a value.
LEMMA NoneFacts == None \in Partial /\ DOMAIN None = {}
<1>1. None \in [{} -> Nat] /\ {} \in SUBSET Counters
  BY DEF None
<1> QED BY <1>1 DEF Partial, None

\* A request that is idle.
LEMMA IdleFacts ==
    /\ Idle \in ReqState /\ Idle.pc = "idle" /\ Idle.piece = "none" /\ Idle.usable = FALSE
    /\ Idle.at = 0 /\ Idle.cur = None /\ Idle.tag = None /\ Idle.epoch = 0
    /\ \A p \in Pieces : Idle.ver[p] = Blank /\ Idle.exact[p] = Blank
<1>1. [p \in Pieces |-> Blank] \in Versions
  BY DEF Versions, Blank
<1>2. Idle \in ReqState
  BY <1>1, NoneFacts DEF Idle, ReqState, PCs, Blank
<1> QED BY <1>2 DEF Idle

\* A request turned to a piece.
LEMMA ReadingFacts ==
    ASSUME NEW x \in ReqState, NEW p \in Pieces
    PROVE  \E y \in ReqState :
             /\ y = Reading(x, p) /\ y.pc = "epoch" /\ y.piece = p /\ y.usable = FALSE
             /\ y.ver = x.ver /\ y.cur = x.cur /\ y.tag = x.tag /\ y.at = x.at /\ y.exact = x.exact
<1>1. PICK y : y = Reading(x, p)
  OBVIOUS
<1>2. y \in ReqState
  BY <1>1 DEF Reading, ReqState, PCs
<1>3. /\ y.pc = "epoch" /\ y.piece = p /\ y.usable = FALSE
      /\ y.ver = x.ver /\ y.cur = x.cur /\ y.tag = x.tag /\ y.at = x.at /\ y.exact = x.exact
  BY <1>1 DEF Reading, ReqState
<1> QED BY <1>1, <1>2, <1>3

\* A request that has its piece goes on.
LEMMA TookFacts ==
    ASSUME NEW x \in ReqState, x.piece \in Pieces, NEW v \in Nat
    PROVE  \E y \in ReqState :
             /\ y = Took(x, v) /\ y.usable = FALSE
             /\ y.cur = x.cur /\ y.tag = x.tag /\ y.at = x.at /\ y.exact = x.exact
             /\ y.ver[x.piece] = v /\ \A p \in Pieces : p # x.piece => y.ver[p] = x.ver[p]
             /\ \/ x.piece = "client" /\ y.pc = "tag" /\ y.piece = "none"
                \/ x.piece = "user" /\ "catalog" \in Pieces /\ y.pc = "epoch" /\ y.piece = "catalog"
                \/ /\ x.piece # "client" /\ (x.piece = "user" => "catalog" \notin Pieces)
                   /\ y.piece = "none"
                   /\ y.pc = IF x.tag = None THEN "retag" ELSE "write"
<1>1. PICK w : w = [x EXCEPT !.ver[x.piece] = v, !.epoch = 0, !.usable = FALSE, !.piece = "none"]
  OBVIOUS
<1>2. /\ w \in ReqState /\ w.usable = FALSE /\ w.cur = x.cur /\ w.tag = x.tag /\ w.at = x.at
      /\ w.exact = x.exact /\ w.piece = "none" /\ w.ver = [x.ver EXCEPT ![x.piece] = v]
  <2>1. [x.ver EXCEPT ![x.piece] = v] \in Versions
    BY ReqFields DEF Versions
  <2>2. w = [x EXCEPT !.ver = [x.ver EXCEPT ![x.piece] = v], !.epoch = 0, !.usable = FALSE,
                      !.piece = "none"]
    BY <1>1
  <2>3. w \in ReqState
    BY <2>1, <2>2 DEF ReqState
  <2> QED BY <2>2, <2>3 DEF ReqState
<1>3. w.ver[x.piece] = v /\ \A p \in Pieces : p # x.piece => w.ver[p] = x.ver[p]
  BY <1>2, ReqFields DEF Versions
<1>4. ASSUME NEW pc \in PCs
      PROVE  \E y \in ReqState : /\ y = [w EXCEPT !.pc = pc] /\ y.pc = pc /\ y.piece = "none"
                                 /\ y.usable = FALSE /\ y.cur = x.cur /\ y.tag = x.tag
                                 /\ y.at = x.at /\ y.exact = x.exact /\ y.ver = w.ver
  <2>1. PICK y : y = [w EXCEPT !.pc = pc]
    OBVIOUS
  <2>2. y \in ReqState
    BY <1>2, <2>1 DEF ReqState
  <2>3. /\ y.pc = pc /\ y.piece = "none" /\ y.usable = FALSE /\ y.cur = x.cur /\ y.tag = x.tag
        /\ y.at = x.at /\ y.exact = x.exact /\ y.ver = w.ver
    BY <1>2, <2>1 DEF ReqState
  <2> QED BY <2>1, <2>2, <2>3
<1>5. Took(x, v) = CASE After(x.piece) = "counters" -> [w EXCEPT !.pc = "tag"]
                     [] After(x.piece) = "write"    -> [w EXCEPT !.pc = IF w.tag = None THEN "retag" ELSE "write"]
                     [] OTHER                       -> Reading(w, After(x.piece))
  BY <1>1 DEF Took
<1>6. CASE x.piece = "client"
  <2>1. Took(x, v) = [w EXCEPT !.pc = "tag"]
    BY <1>5, <1>6 DEF After
  <2>2. "tag" \in PCs
    BY DEF PCs
  <2>3. PICK y \in ReqState :
          /\ y = [w EXCEPT !.pc = "tag"] /\ y.pc = "tag" /\ y.piece = "none"
          /\ y.usable = FALSE /\ y.cur = x.cur /\ y.tag = x.tag
          /\ y.at = x.at /\ y.exact = x.exact /\ y.ver = w.ver
    BY <1>4, <2>2
  <2> QED BY <1>3, <1>6, <2>1, <2>3
<1>7. CASE x.piece = "user" /\ "catalog" \in Pieces
  <2>1. Took(x, v) = Reading(w, "catalog")
    BY <1>5, <1>7 DEF After
  <2>2. PICK y \in ReqState :
          /\ y = Reading(w, "catalog") /\ y.pc = "epoch" /\ y.piece = "catalog" /\ y.usable = FALSE
          /\ y.ver = w.ver /\ y.cur = w.cur /\ y.tag = w.tag /\ y.at = w.at /\ y.exact = w.exact
    BY <1>2, <1>7, ReadingFacts
  <2> QED BY <1>2, <1>3, <1>7, <2>1, <2>2, ZenonT(30)
<1>8. CASE x.piece # "client" /\ (x.piece = "user" => "catalog" \notin Pieces)
  <2>1. Took(x, v) = [w EXCEPT !.pc = IF x.tag = None THEN "retag" ELSE "write"]
    BY <1>2, <1>5, <1>8 DEF After
  <2>2. (IF x.tag = None THEN "retag" ELSE "write") \in PCs
    BY DEF PCs
  <2>3. PICK y \in ReqState :
          /\ y = [w EXCEPT !.pc = IF x.tag = None THEN "retag" ELSE "write"]
          /\ y.pc = (IF x.tag = None THEN "retag" ELSE "write") /\ y.piece = "none"
          /\ y.usable = FALSE /\ y.cur = x.cur /\ y.tag = x.tag
          /\ y.at = x.at /\ y.exact = x.exact /\ y.ver = w.ver
    BY <1>4, <2>2
  <2> QED BY <1>3, <1>8, <2>1, <2>3
<1> QED BY <1>6, <1>7, <1>8

-----------------------------------------------------------------------------
(* Steps of a request *)

\* An idle request satisfies every invariant of requests.
LEMMA IdleOK ==
    ASSUME TypeOK
    PROVE  Shape(Idle) /\ ReqAge(Idle) /\ \A X : ReqExact(X, Idle)
<1>1. Shape(Idle)
  BY IdleFacts DEF Shape, Reads
<1>2. ReqAge(Idle)
  BY IdleFacts DEF ReqAge, Has, Reads, Full, TypeOK
<1>3. ASSUME NEW X PROVE ReqExact(X, Idle)
  <2>1. \A p \in Pieces : Idle.exact[p] <= hist.exact[p] /\ Idle.ver[p] = Blank
    BY IdleFacts, HistFields DEF TypeOK, Blank
  <2>2. "epoch" \notin DOMAIN Idle.cur /\ "epoch" \notin DOMAIN Idle.tag
    BY IdleFacts, NoneFacts
  <2> QED BY <2>1, <2>2, IdleFacts DEF ReqExact, Reads
<1> QED BY <1>1, <1>2, <1>3

\* What a request leaves in its place and in the answer.
LEMMA Updated ==
    ASSUME TypeOK, NEW r \in Requests, NEW x \in ReqState, Update(r, x)
    PROVE  /\ req' \in [Requests -> ReqState] /\ answer' \in ReqState
           /\ \A q \in Requests : q # r => req'[q] = req[q]
           /\ x.pc # "answered" => req'[r] = x /\ answer' = Idle
           /\ x.pc = "answered" => req'[r] = Idle /\ answer' = x
<1>1. PICK z \in ReqState : z = IF x.pc = "answered" THEN Idle ELSE x
  BY IdleFacts
<1>2. req' = [req EXCEPT ![r] = z]
  BY <1>1 DEF Update
<1>3. answer' = IF x.pc = "answered" THEN x ELSE Idle
  BY DEF Update
<1> QED BY <1>1, <1>2, <1>3, IdleFacts DEF TypeOK

\* Time and the versions of storage stand still, and one request goes on as x:
\* if that, and what it wrote, keeps the invariants, all keep them.
LEMMA Moves ==
    ASSUME ReadInv, NEW r \in Requests, NEW x \in ReqState, Update(r, x),
           UNCHANGED <<now, db, counter, change>>,
           entry' \in [Pieces -> Entries], body' \in Bodies, hist' \in HistState,
           hist'.since = hist.since, hist'.exact = hist.exact,
           hist'.blank \in {hist.blank, now}, hist.blind => hist'.blind,
           Shape(x), EntryAge', BodyAge',
           x.pc # "answered" => ReqAge(x)', x.pc = "answered" => AnswerAge(x)',
           \A X \in [Nat -> Versions] :
              ~hist'.blind /\ ExactInv(X) => ReqExact(X, x) /\ EntryExact(X)' /\ BodyExact(X)'
    PROVE  ReadInv'
<1>0. Base /\ TypeOK /\ AgeInv
  BY DEF ReadInv, Base
<1>1. /\ req' \in [Requests -> ReqState] /\ answer' \in ReqState
      /\ \A q \in Requests : q # r => req'[q] = req[q]
      /\ x.pc # "answered" => req'[r] = x /\ answer' = Idle
      /\ x.pc = "answered" => req'[r] = Idle /\ answer' = x
  BY <1>0, Updated
<1>2. TypeOK'
  BY <1>0, <1>1 DEF TypeOK
<1>3. Shape(Idle) /\ ReqAge(Idle) /\ \A X : ReqExact(X, Idle)
  BY <1>0, IdleOK
<1>4. Base'
  <2>1. \A q \in Requests : Shape(req'[q])
    BY <1>0, <1>1, <1>3 DEF Base
  <2> QED BY <1>0, <1>2, <2>1 DEF Base, ChangeOK, Shape
<1>5. hist.blank \in Nat /\ now \in Nat /\ hist.blank <= now /\ hist'.blank \in Nat
      /\ hist.blank <= hist'.blank /\ hist'.blank <= now
  BY <1>0, HistFields DEF TypeOK, AgeInv
<1>6. ASSUME NEW y \in ReqState, ReqAge(y) PROVE ReqAge(y)'
  <2>1. y.at \in Nat
    BY ReqFields
  <2>2. \A p \in Pieces : Has(y, p)' /\ y.ver[p] = Blank => y.at <= hist'.blank
    BY <1>5, <1>6, <2>1 DEF ReqAge, Has
  <2> QED BY <1>6, <2>2 DEF ReqAge, Current
<1>7. AgeInv'
  <2>1. \A q \in Requests : ReqAge(req[q])'
    <3> SUFFICES ASSUME NEW q \in Requests PROVE ReqAge(req[q])'
      OBVIOUS
    <3>1. CASE q # r
      <4>1. PICK y \in ReqState : y = req[q] /\ ReqAge(y)
        BY <1>0 DEF TypeOK, AgeInv
      <4>2. ReqAge(y)'
        BY <1>6, <4>1
      <4> QED BY <1>1, <3>1, <4>1, <4>2 DEF ReqAge, Has, Current
    <3>2. CASE q = r /\ x.pc = "answered"
      <4>1. ReqAge(Idle)'
        BY <1>3, <1>6, IdleFacts
      <4> QED BY <1>1, <3>2, <4>1 DEF ReqAge, Has, Current, Idle, None, Blank
    <3>3. CASE q = r /\ x.pc # "answered"
      BY <1>1, <3>3 DEF ReqAge, Has, Current
    <3> QED BY <3>1, <3>2, <3>3
  <2>2. answer'.pc = "answered" => AnswerAge(answer)'
    <3>1. CASE x.pc = "answered"
      BY <1>1, <3>1 DEF AnswerAge, Current
    <3>2. CASE x.pc # "answered"
      BY <1>1, <3>2, IdleFacts
    <3> QED BY <3>1, <3>2
  <2>3. \A p \in Pieces : Len(hist'.since[p]) = db'[p] /\ db'[p] > 0
    BY <1>0 DEF AgeInv
  <2> QED BY <1>5, <2>1, <2>2, <2>3 DEF AgeInv
<1>8. ASSUME ~hist'.blind PROVE \E X \in [Nat -> Versions] : ExactInv(X)'
  <2>1. PICK X \in [Nat -> Versions] : ExactInv(X)
    BY <1>8 DEF ReadInv
  <2>2. ReqExact(X, x) /\ EntryExact(X)' /\ BodyExact(X)'
    BY <1>8, <2>1
  <2>3. \A q \in Requests : ReqExact(X, req'[q])
    BY <1>1, <1>3, <2>1, <2>2 DEF ExactInv
  <2>4. \A q \in Requests : ReqExact(X, req[q])'
    BY <2>3 DEF ReqExact, AsOf
  <2>5. Epochs(X)'
    BY <2>1 DEF ExactInv, Epochs
  <2>6. \A p \in Pieces : answer'.ver[p] = Blank \/ answer'.exact[p] <= answer'.ver[p]
    BY <1>1, <2>2, IdleFacts DEF ReqExact
  <2>7. ExactInv(X)'
    BY <2>2, <2>4, <2>5, <2>6 DEF ExactInv, Blank
  <2> QED BY <2>7
<1> QED BY <1>4, <1>7, <1>8 DEF ReadInv

\* The same for steps that write to neither cache.
LEMMA MovesOnly ==
    ASSUME ReadInv, NEW r \in Requests, NEW x \in ReqState, Update(r, x),
           UNCHANGED <<now, db, counter, change, entry, body>>, hist' \in HistState,
           hist'.since = hist.since, hist'.exact = hist.exact,
           hist'.blank \in {hist.blank, now}, hist.blind => hist'.blind, Shape(x),
           x.pc # "answered" => ReqAge(x)', x.pc = "answered" => AnswerAge(x)',
           \A X \in [Nat -> Versions] : ~hist'.blind /\ ExactInv(X) => ReqExact(X, x)
    PROVE  ReadInv'
<1>0. TypeOK /\ AgeInv
  BY DEF ReadInv, Base
<1>1. hist.blank \in Nat /\ now \in Nat /\ hist'.blank \in Nat /\ hist.blank <= hist'.blank
  BY <1>0, HistFields DEF TypeOK, AgeInv
<1>2. EntryAge'
  BY <1>0 DEF AgeInv, EntryAge, Current, NoEntry, Blank
<1>3. BodyAge'
  <2>1. body.exp \in Nat /\ Span \in Nat
    BY <1>0, Constants DEF TypeOK, Bodies
  <2>2. \A p \in Pieces : body.ver[p] = Blank /\ body.exp <= hist.blank + Span =>
           body.exp <= hist'.blank + Span
    BY <1>1, <2>1
  <2> QED BY <1>0, <2>2 DEF AgeInv, BodyAge, Current, NoBody, None, Blank, Span
<1>4. \A X \in [Nat -> Versions] : ExactInv(X) => EntryExact(X)' /\ BodyExact(X)'
  BY DEF ExactInv, EntryExact, BodyExact, AsOf, NoEntry, NoBody, Blank, None
<1>5. entry' \in [Pieces -> Entries] /\ body' \in Bodies
  BY <1>0 DEF TypeOK
<1> QED BY <1>2, <1>3, <1>4, <1>5, Moves

\* The three ways a step of a request changes the history.
LEMMA HistSteps ==
    ASSUME hist \in HistState, now \in Nat
    PROVE  /\ Works => /\ hist' \in HistState /\ hist'.since = hist.since /\ hist'.exact = hist.exact
                       /\ hist'.blank = hist.blank /\ hist'.blind = hist.blind
           /\ Fault => /\ hist' \in HistState /\ hist'.since = hist.since /\ hist'.exact = hist.exact
                       /\ hist'.blank = hist.blank /\ hist'.blind = hist.blind
<1>1. ASSUME Works
      PROVE  /\ hist' \in HistState /\ hist'.since = hist.since /\ hist'.exact = hist.exact
             /\ hist'.blank = hist.blank /\ hist'.blind = hist.blind
  BY <1>1 DEF Works
<1>2. ASSUME Fault
      PROVE  /\ hist' \in HistState /\ hist'.since = hist.since /\ hist'.exact = hist.exact
             /\ hist'.blank = hist.blank /\ hist'.blind = hist.blind
  <2>1. hist' = [hist EXCEPT !.faults = hist.faults + 1] /\ hist.faults + 1 \in Nat
    BY <1>2, HistFields DEF Fault
  <2>2. hist' \in HistState
    BY <2>1 DEF HistState
  <2> QED BY <2>1, <2>2 DEF HistState
<1> QED BY <1>1, <1>2

\* What is known of a request.
LEMMA ReqKnown ==
    ASSUME ReadInv, NEW r \in Requests
    PROVE  /\ req[r] \in ReqState /\ Shape(req[r]) /\ ReqAge(req[r]) /\ hist \in HistState
           /\ now \in Nat /\ hist.blank \in Nat /\ hist.blank <= now
           /\ counter["epoch"] \in Nat /\ TypeOK /\ AgeInv
           /\ \A X \in [Nat -> Versions] : ExactInv(X) => Epochs(X) /\ ReqExact(X, req[r])
  BY HistFields, Constants DEF ReadInv, Base, TypeOK, AgeInv, ExactInv

\* A request begins.
LEMMA BeginStep ==
    ASSUME ReadInv, NEW r \in Requests, Begin(r)
    PROVE  ReadInv'
<1>0. hist \in HistState /\ now \in Nat /\ TypeOK /\ hist.exact \in Versions
  BY ReqKnown, HistFields
<1>1. PICK w : w = [Idle EXCEPT !.at = now, !.exact = hist.exact]
  OBVIOUS
<1>2. /\ w \in ReqState /\ w.at = now /\ w.exact = hist.exact /\ w.piece = "none"
      /\ w.usable = FALSE /\ w.cur = None /\ w.tag = None /\ w.ver = Idle.ver
  <2>1. w \in ReqState
    BY <1>0, <1>1, IdleFacts DEF ReqState
  <2> QED BY <1>1, <2>1, IdleFacts DEF ReqState
<1>3. PICK x \in ReqState :
        /\ Update(r, x) /\ x.at = now /\ x.exact = hist.exact /\ x.usable = FALSE
        /\ x.cur = None /\ x.tag = None /\ x.ver = Idle.ver
        /\ \/ x.pc = "epoch" /\ x.piece = "client" /\ "client" \in Pieces
           \/ x.pc = "tag" /\ x.piece = "none" /\ "client" \notin Pieces
  <2>1. CASE "client" \in Pieces
    <3>1. Update(r, Reading(w, "client"))
      BY <1>1, <2>1 DEF Begin
    <3>2. PICK x \in ReqState :
            /\ x = Reading(w, "client") /\ x.pc = "epoch" /\ x.piece = "client" /\ x.usable = FALSE
            /\ x.ver = w.ver /\ x.cur = w.cur /\ x.tag = w.tag /\ x.at = w.at /\ x.exact = w.exact
      BY <1>2, <2>1, ReadingFacts
    <3> QED BY <1>2, <2>1, <3>1, <3>2
  <2>2. CASE "client" \notin Pieces
    <3>1. PICK x : x = [w EXCEPT !.pc = "tag"]
      OBVIOUS
    <3>2. Update(r, x)
      BY <1>1, <2>2, <3>1 DEF Begin
    <3>3. x \in ReqState
      BY <1>2, <3>1 DEF ReqState, PCs
    <3>4. /\ x.pc = "tag" /\ x.ver = w.ver /\ x.cur = w.cur /\ x.tag = w.tag /\ x.at = w.at
          /\ x.exact = w.exact /\ x.piece = w.piece /\ x.usable = w.usable
      BY <1>2, <3>1 DEF ReqState
    <3> QED BY <1>2, <2>2, <3>2, <3>3, <3>4
  <2> QED BY <2>1, <2>2
<1>4. \A p \in Pieces : x.ver[p] = Blank
  BY <1>3, IdleFacts
<1>5. Shape(x) /\ x.pc # "answered"
  BY <1>3, <1>4 DEF Shape, Reads
<1>6. UNCHANGED <<now, db, counter, change, entry, body, hist>>
  BY DEF Begin
<1>7. ReqAge(x)'
  <2>1. \A p \in Pieces : ~Has(x, p)
    BY <1>3 DEF Has, Full, Reads
  <2>2. now <= now + MaxRequest /\ now <= now
    BY <1>0, Constants
  <2> QED BY <1>3, <1>4, <1>6, <2>1, <2>2 DEF ReqAge, Has, Current, Blank
<1>8. \A X : ReqExact(X, x)
  <2>1. \A p \in Pieces : x.exact[p] <= hist.exact[p]
    BY <1>0, <1>3, HistFields
  <2>2. "epoch" \notin DOMAIN x.cur /\ "epoch" \notin DOMAIN x.tag
    BY <1>3, NoneFacts
  <2> QED BY <1>3, <1>4, <2>1, <2>2 DEF ReqExact, Reads
<1>9. hist' \in HistState /\ hist'.since = hist.since /\ hist'.exact = hist.exact
      /\ hist'.blank = hist.blank /\ hist'.blind = hist.blind
  BY <1>0, <1>6
<1> QED BY <1>3, <1>5, <1>6, <1>7, <1>8, <1>9, MovesOnly

\* The reader's epoch.
LEMMA EpochStep ==
    ASSUME ReadInv, NEW r \in Requests, Epoch(r)
    PROVE  ReadInv'
<1>0. /\ req[r] \in ReqState /\ Shape(req[r]) /\ ReqAge(req[r]) /\ hist \in HistState
      /\ now \in Nat /\ counter["epoch"] \in Nat /\ TypeOK
      /\ \A X \in [Nat -> Versions] : ExactInv(X) => Epochs(X) /\ ReqExact(X, req[r])
  BY ReqKnown
<1>1. UNCHANGED <<now, db, counter, change, entry, body>> /\ req[r].pc = "epoch"
  BY DEF Epoch
<1>2. /\ hist' \in HistState /\ hist'.since = hist.since /\ hist'.exact = hist.exact
      /\ hist'.blank = hist.blank /\ hist'.blind = hist.blind
  BY <1>0, HistSteps DEF Epoch
<1>3. PICK x \in ReqState :
        /\ Update(r, x) /\ x.piece = req[r].piece /\ x.ver = req[r].ver /\ x.cur = req[r].cur
        /\ x.tag = req[r].tag /\ x.at = req[r].at /\ x.exact = req[r].exact
        /\ \/ x.pc = "get" /\ x.epoch = counter["epoch"] /\ x.usable = TRUE
           \/ x.pc = "load" /\ x.epoch = req[r].epoch /\ x.usable = req[r].usable
  <2>1. CASE Update(r, [req[r] EXCEPT !.pc = "get", !.epoch = counter["epoch"], !.usable = TRUE])
    <3>1. PICK x : x = [req[r] EXCEPT !.pc = "get", !.epoch = counter["epoch"], !.usable = TRUE]
      OBVIOUS
    <3>2. x \in ReqState
      BY <1>0, <3>1 DEF ReqState, PCs
    <3>3. /\ x.pc = "get" /\ x.epoch = counter["epoch"] /\ x.usable = TRUE
          /\ x.piece = req[r].piece /\ x.ver = req[r].ver /\ x.cur = req[r].cur
          /\ x.tag = req[r].tag /\ x.at = req[r].at /\ x.exact = req[r].exact
      BY <1>0, <3>1 DEF ReqState
    <3> QED BY <2>1, <3>1, <3>2, <3>3
  <2>2. CASE Update(r, [req[r] EXCEPT !.pc = "load"])
    <3>1. PICK x : x = [req[r] EXCEPT !.pc = "load"]
      OBVIOUS
    <3>2. x \in ReqState
      BY <1>0, <3>1 DEF ReqState, PCs
    <3>3. /\ x.pc = "load" /\ x.epoch = req[r].epoch /\ x.usable = req[r].usable
          /\ x.piece = req[r].piece /\ x.ver = req[r].ver /\ x.cur = req[r].cur
          /\ x.tag = req[r].tag /\ x.at = req[r].at /\ x.exact = req[r].exact
      BY <1>0, <3>1 DEF ReqState
    <3> QED BY <2>2, <3>1, <3>2, <3>3
  <2> QED BY <2>1, <2>2 DEF Epoch
<1>4. Shape(x) /\ x.pc # "answered"
  BY <1>0, <1>1, <1>3 DEF Shape, Reads
<1>5. ReqAge(x)'
  <2>1. \A p \in Pieces : Has(x, p) => Has(req[r], p)
    BY <1>1, <1>3 DEF Has, Reads, Full
  <2> QED BY <1>0, <1>1, <1>2, <1>3, <2>1 DEF ReqAge, Has, Current
<1>6. ASSUME NEW X \in [Nat -> Versions], ExactInv(X) PROVE ReqExact(X, x)
  <2>1. Epochs(X) /\ ReqExact(X, req[r])
    BY <1>0, <1>6
  <2>2. X[counter["epoch"]] = hist.exact
    BY <2>1 DEF Epochs
  <2>3. x.usable => /\ x.epoch <= counter["epoch"]
                    /\ \A p \in Pieces : x.exact[p] <= X[x.epoch][p]
    <3>1. CASE x.pc = "get"
      BY <1>0, <1>3, <2>1, <2>2, <3>1 DEF ReqExact
    <3>2. CASE x.pc # "get"
      <4>1. (x.usable <=> req[r].usable) /\ x.epoch = req[r].epoch /\ x.exact = req[r].exact
        BY <1>3, <3>2
      <4> QED BY <2>1, <4>1 DEF ReqExact
    <3> QED BY <3>1, <3>2
  <2>4. "epoch" \in DOMAIN x.tag => (x.usable => x.tag["epoch"] <= x.epoch)
    BY <1>0, <1>3, <2>1, <2>2 DEF ReqExact
  <2> QED BY <1>1, <1>3, <2>1, <2>3, <2>4 DEF ReqExact, Reads
<1> QED BY <1>1, <1>2, <1>3, <1>4, <1>5, <1>6, MovesOnly

\* An age is bounded by what bounds a greater one.
LEMMA Sooner ==
    ASSUME hist \in HistState, NEW p \in Pieces, NEW v \in Nat, NEW t \in Nat, NEW s \in Nat,
           NEW t2 \in Nat, NEW s2 \in Nat, Current(p, v, t, s), t2 + s <= t + s2
    PROVE  Current(p, v, t2, s2)
<1> SUFFICES ASSUME v < Len(hist.since[p]) PROVE t2 <= hist.since[p][v + 1] + s2
  BY DEF Current
<1>1. PICK a \in Nat : a = hist.since[p][v + 1]
  BY HistFields
<1>2. t <= a + s
  BY <1>1 DEF Current
<1>3. t2 <= a + s2
  BY <1>2
<1> QED BY <1>1, <1>3

\* A request that has version v of its piece, with what v must satisfy.
LEMMA Taken ==
    ASSUME ReadInv, NEW r \in Requests, req[r].pc \in Reads, NEW v \in Nat,
           UNCHANGED now, hist' \in HistState, hist'.since = hist.since,
           \/ hist'.blank = now
           \/ hist'.blank = hist.blank /\ v # Blank,
           v # Blank => Current(req[r].piece, v, req[r].at + 1, Span)
    PROVE  \E y \in ReqState :
             /\ y = Took(req[r], v) /\ Shape(y) /\ ReqAge(y)' /\ y.pc # "answered"
             /\ \A X \in [Nat -> Versions] :
                  /\ ExactInv(X)
                  /\ v # Blank =>
                        /\ req[r].exact[req[r].piece] <= v
                        /\ "epoch" \in DOMAIN req[r].tag =>
                              AsOf(X, v, req[r].tag["epoch"], req[r].piece)
                  => ReqExact(X, y)
<1>0. /\ req[r] \in ReqState /\ Shape(req[r]) /\ ReqAge(req[r]) /\ hist \in HistState
      /\ now \in Nat /\ hist.blank \in Nat /\ hist.blank <= now
      /\ \A X \in [Nat -> Versions] : ExactInv(X) => Epochs(X) /\ ReqExact(X, req[r])
  BY ReqKnown
<1>1. PICK x \in ReqState : x = req[r]
  BY <1>0
<1>2. x.piece \in Pieces /\ x.at \in Nat /\ x.pc \in Reads /\ Shape(x) /\ ReqAge(x)
  BY <1>0, <1>1, ReqFields DEF Shape
<1>3. PICK y \in ReqState :
        /\ y = Took(x, v) /\ y.usable = FALSE
        /\ y.cur = x.cur /\ y.tag = x.tag /\ y.at = x.at /\ y.exact = x.exact
        /\ y.ver[x.piece] = v /\ \A p \in Pieces : p # x.piece => y.ver[p] = x.ver[p]
        /\ \/ x.piece = "client" /\ y.pc = "tag" /\ y.piece = "none"
           \/ x.piece = "user" /\ "catalog" \in Pieces /\ y.pc = "epoch" /\ y.piece = "catalog"
           \/ /\ x.piece # "client" /\ (x.piece = "user" => "catalog" \notin Pieces)
              /\ y.piece = "none"
              /\ y.pc = IF x.tag = None THEN "retag" ELSE "write"
  BY <1>2, TookFacts, ZenonT(30)
<1>4. y.pc \in {"tag", "epoch", "retag", "write"}
  BY <1>3
<1>5. Shape(y)
  <2>1. y.pc \in Reads => y.piece \in Pieces
    BY <1>3 DEF Reads
  <2>2. y.pc \notin Reads => y.piece = "none" /\ ~y.usable
    BY <1>3 DEF Reads
  <2>3. y.pc = "tag" \/ (y.pc \in Reads /\ y.piece = "client") =>
          y.tag = None /\ \A p \in Pieces : p # "client" => y.ver[p] = Blank
    BY <1>2, <1>3 DEF Shape, Reads
  <2> QED BY <1>4, <2>1, <2>2, <2>3 DEF Shape
<1>6. ReqAge(y)'
  <2>1. y.at <= now /\ now <= y.at + MaxRequest
    BY <1>2, <1>3 DEF ReqAge, Reads
  <2>2. \A p \in Pieces : y.ver[p] # Blank => Current(p, y.ver[p], y.at + 1, Span)
    BY <1>1, <1>2, <1>3 DEF ReqAge
  <2>3. ASSUME NEW p \in Pieces, Has(y, p), y.ver[p] = Blank PROVE y.at <= hist'.blank
    <3>1. hist'.blank \in Nat /\ hist.blank <= hist'.blank
      BY <1>0, HistFields
    <3>2. CASE p = x.piece
      BY <1>2, <1>3, <2>1, <2>3, <3>2
    <3>3. CASE p # x.piece
      <4>1. p \in {"client", "user", "catalog"} /\ x.piece \in {"client", "user", "catalog"}
        BY <1>2, Constants
      <4>2. Has(x, p)
        BY <1>2, <1>3, <2>3, <3>3, <4>1 DEF Has, Full, Reads
      <4>3. x.at <= hist.blank
        BY <1>2, <1>3, <2>3, <3>3, <4>2 DEF ReqAge
      <4> QED BY <1>0, <1>2, <1>3, <3>1, <4>3
    <3> QED BY <3>2, <3>3
  <2> QED BY <1>4, <2>1, <2>2, <2>3 DEF ReqAge, Has, Current
<1>7. ASSUME NEW X \in [Nat -> Versions], ExactInv(X),
             v # Blank => /\ x.exact[x.piece] <= v
                          /\ "epoch" \in DOMAIN x.tag => AsOf(X, v, x.tag["epoch"], x.piece)
      PROVE  ReqExact(X, y)
  <2>1. ReqExact(X, x)
    BY <1>0, <1>1, <1>7
  <2>2. \A p \in Pieces : /\ y.exact[p] <= hist.exact[p]
                          /\ y.ver[p] = Blank \/ y.exact[p] <= y.ver[p]
    BY <1>3, <1>7, <2>1 DEF ReqExact
  <2>3. "epoch" \in DOMAIN y.cur => /\ y.cur["epoch"] <= counter["epoch"]
                                    /\ \A p \in Pieces : y.exact[p] <= X[y.cur["epoch"]][p]
    BY <1>3, <2>1 DEF ReqExact
  <2>4. "epoch" \in DOMAIN y.tag =>
          /\ y.tag["epoch"] <= counter["epoch"]
          /\ \A p \in Pieces : y.ver[p] = Blank \/ AsOf(X, y.ver[p], y.tag["epoch"], p)
    BY <1>3, <1>7, <2>1 DEF ReqExact
  <2>5. x.piece # "client" => "epoch" \in DOMAIN y.tag /\ x.tag # None
    <3>1. x.piece # "client" => "epoch" \in DOMAIN x.tag
      BY <1>2, <2>1 DEF ReqExact
    <3> QED BY <1>3, <3>1, NoneFacts
  <2>6. /\ y.pc \in {"check", "body", "write"} \/ (y.pc \in Reads /\ y.piece # "client") =>
             "epoch" \in DOMAIN y.tag
        /\ y.pc # "retag"
    <3>1. y.pc = "retag" => FALSE
      BY <1>3, <2>5
    <3>2. x.piece = "client" => y.pc = "tag"
      BY <1>3
    <3> QED BY <1>4, <2>5, <3>1, <3>2 DEF Reads
  <2>7. ~y.usable /\ y.pc # "put"
    BY <1>3, <1>4
  <2> QED BY <2>2, <2>3, <2>4, <2>6, <2>7 DEF ReqExact
<1>8. y.pc # "answered"
  BY <1>4
<1> QED BY <1>1, <1>3, <1>5, <1>6, <1>7, <1>8

\* A request goes to storage, knowing no more than before.
LEMMA GoesToLoad ==
    ASSUME ReadInv, NEW r \in Requests, req[r].pc = "get", UNCHANGED now, hist' \in HistState,
           hist'.since = hist.since, hist'.blank = hist.blank
    PROVE  \E x \in ReqState :
             /\ x = [req[r] EXCEPT !.pc = "load"] /\ Shape(x) /\ ReqAge(x)' /\ x.pc # "answered"
             /\ \A X \in [Nat -> Versions] : ExactInv(X) => ReqExact(X, x)
<1>0. /\ req[r] \in ReqState /\ Shape(req[r]) /\ ReqAge(req[r]) /\ hist \in HistState
      /\ \A X \in [Nat -> Versions] : ExactInv(X) => Epochs(X) /\ ReqExact(X, req[r])
  BY ReqKnown
<1>1. PICK x : x = [req[r] EXCEPT !.pc = "load"]
  OBVIOUS
<1>2. x \in ReqState
  BY <1>0, <1>1 DEF ReqState, PCs
<1>3. /\ x.pc = "load" /\ x.epoch = req[r].epoch /\ x.usable = req[r].usable
      /\ x.piece = req[r].piece /\ x.ver = req[r].ver /\ x.cur = req[r].cur
      /\ x.tag = req[r].tag /\ x.at = req[r].at /\ x.exact = req[r].exact
  BY <1>0, <1>1 DEF ReqState
<1>4. Shape(x)
  BY <1>0, <1>3 DEF Shape, Reads
<1>5. ReqAge(x)'
  <2>1. \A p \in Pieces : Has(x, p) => Has(req[r], p)
    BY <1>3 DEF Has, Reads, Full
  <2> QED BY <1>0, <1>3, <2>1 DEF ReqAge, Has, Current
<1>6. ASSUME NEW X \in [Nat -> Versions], ExactInv(X) PROVE ReqExact(X, x)
  <2>1. ReqExact(X, req[r])
    BY <1>0, <1>6
  <2>2. x.usable => /\ x.epoch <= counter["epoch"]
                    /\ \A p \in Pieces : x.exact[p] <= X[x.epoch][p]
    BY <1>3, <2>1 DEF ReqExact
  <2>3. "epoch" \in DOMAIN x.tag => (x.usable => x.tag["epoch"] <= x.epoch)
    BY <1>3, <2>1 DEF ReqExact
  <2> QED BY <1>3, <2>1, <2>2, <2>3 DEF ReqExact, Reads
<1> QED BY <1>1, <1>2, <1>3, <1>4, <1>5, <1>6

\* An entry of the reader's epoch is not older than that epoch.
LEMMA GetStep ==
    ASSUME ReadInv, NEW r \in Requests, Get(r)
    PROVE  ReadInv'
<1>0. /\ req[r] \in ReqState /\ Shape(req[r]) /\ ReqAge(req[r]) /\ hist \in HistState
      /\ now \in Nat /\ TypeOK /\ AgeInv /\ req[r].piece \in Pieces /\ counter["epoch"] \in Nat
      /\ req[r].usable /\ req[r].pc = "get" /\ req[r].at \in Nat /\ req[r].epoch \in Nat
      /\ \A X \in [Nat -> Versions] : ExactInv(X) => Epochs(X) /\ ReqExact(X, req[r])
  BY ReqKnown, ReqFields DEF Get, Shape, Reads
<1>1. UNCHANGED <<now, db, counter, change, entry, body>>
  BY DEF Get
<1>2. /\ hist' \in HistState /\ hist'.since = hist.since /\ hist'.exact = hist.exact
      /\ hist'.blank = hist.blank /\ hist'.blind = hist.blind
  BY <1>0, HistSteps DEF Get
<1>3. CASE Update(r, [req[r] EXCEPT !.pc = "load"])
  <2>1. PICK x \in ReqState :
             /\ x = [req[r] EXCEPT !.pc = "load"] /\ Shape(x) /\ ReqAge(x)' /\ x.pc # "answered"
             /\ \A X \in [Nat -> Versions] : ExactInv(X) => ReqExact(X, x)
    BY <1>0, <1>1, <1>2, GoesToLoad
  <2> QED BY <1>1, <1>2, <1>3, <2>1, MovesOnly
<1>4. CASE /\ Hit(entry[req[r].piece], req[r].epoch)
           /\ Update(r, Took(req[r], entry[req[r].piece].ver))
  <2>1. PICK p \in Pieces, e \in Entries : p = req[r].piece /\ e = entry[p]
    BY <1>0 DEF TypeOK
  <2>2. e.exp > now /\ e.epoch = req[r].epoch /\ e.exp \in Nat /\ e.ver \in Nat /\ e # NoEntry
    <3>1. e.exp > now /\ e.epoch = req[r].epoch
      BY <1>4, <2>1 DEF Hit
    <3>2. e.exp \in Nat /\ e.ver \in Nat
      BY DEF Entries
    <3>3. e # NoEntry
      BY <1>0, <3>1, <3>2 DEF NoEntry
    <3> QED BY <3>1, <3>2, <3>3
  <2>3. e.ver # Blank /\ Current(p, e.ver, e.exp, Span)
    BY <1>0, <2>1, <2>2 DEF AgeInv, EntryAge
  <2>4. Current(p, e.ver, req[r].at + 1, Span)
    <3>1. req[r].at <= now
      BY <1>0 DEF ReqAge
    <3>2. PICK t \in Nat : t = req[r].at + 1 /\ t + Span <= e.exp + Span
      BY <1>0, <2>2, <3>1, Constants
    <3>3. Current(p, e.ver, t, Span)
      <4>1. PICK v \in Nat, u \in Nat, s \in Nat : v = e.ver /\ u = e.exp /\ s = Span
        BY <2>2, Constants
      <4>2. hist \in HistState /\ Current(p, v, u, s) /\ t + s <= u + s
        BY <1>0, <2>3, <3>2, <4>1
      <4>3. Current(p, v, t, s)
        BY <4>2, Sooner
      <4> QED BY <4>1, <4>3
    <3> QED BY <3>2, <3>3
  <2>5. PICK y \in ReqState :
             /\ y = Took(req[r], e.ver) /\ Shape(y) /\ ReqAge(y)' /\ y.pc # "answered"
             /\ \A X \in [Nat -> Versions] :
                  /\ ExactInv(X)
                  /\ e.ver # Blank =>
                        /\ req[r].exact[req[r].piece] <= e.ver
                        /\ "epoch" \in DOMAIN req[r].tag =>
                              AsOf(X, e.ver, req[r].tag["epoch"], req[r].piece)
                  => ReqExact(X, y)
    <3>1. req[r].pc \in Reads
      BY <1>0 DEF Reads
    <3> QED BY <1>1, <1>2, <2>1, <2>2, <2>3, <2>4, <3>1, Taken
  <2>6. ASSUME NEW X \in [Nat -> Versions], ExactInv(X) PROVE ReqExact(X, y)
    <3>1. Epochs(X) /\ ReqExact(X, req[r]) /\ AsOf(X, e.ver, e.epoch, p)
      BY <1>0, <2>1, <2>2, <2>6 DEF ExactInv, EntryExact
    <3>2. /\ X[req[r].epoch][p] <= e.ver /\ X[req[r].epoch][p] \in Nat
          /\ req[r].exact[p] <= X[req[r].epoch][p] /\ req[r].exact[p] \in Nat
          /\ req[r].epoch <= counter["epoch"]
      BY <1>0, <2>2, <3>1, ReqFields DEF AsOf, ReqExact, Versions
    <3>3. req[r].exact[p] <= e.ver
      BY <2>2, <3>2
    <3>4. ASSUME "epoch" \in DOMAIN req[r].tag PROVE AsOf(X, e.ver, req[r].tag["epoch"], p)
      <4>1. req[r].tag["epoch"] \in Nat
        BY <1>0, <3>4, ReqFields DEF Partial
      <4>2. req[r].tag["epoch"] <= req[r].epoch
        BY <1>0, <3>1, <3>4 DEF ReqExact
      <4>3. X[req[r].tag["epoch"]][p] <= X[req[r].epoch][p] /\ X[req[r].tag["epoch"]][p] \in Nat
        BY <1>0, <3>1, <3>2, <4>1, <4>2 DEF Epochs, Versions
      <4> QED BY <1>0, <2>2, <3>2, <4>1, <4>2, <4>3 DEF AsOf
    <3> QED BY <2>1, <2>5, <2>6, <3>3, <3>4
  <2> QED BY <1>1, <1>2, <1>4, <2>1, <2>5, <2>6, MovesOnly
<1> QED BY <1>3, <1>4 DEF Get

\* A request that answers with what it read itself.
LEMMA AnswersItself ==
    ASSUME hist \in HistState, hist' \in HistState, hist'.since = hist.since, NEW x \in ReqState,
           \A p \in Pieces : x.ver[p] # Blank => Current(p, x.ver[p], x.at + 1, Span),
           \A p \in Pieces : x.ver[p] = Blank => x.at <= hist'.blank
    PROVE  AnswerAge(x)'
<1> SUFFICES ASSUME NEW p \in Pieces
             PROVE  /\ x.ver[p] = Blank => x.at < hist'.blank + Span
                    /\ x.ver[p] # Blank => Current(p, x.ver[p], x.at + 2, 2 * Span)
  BY DEF AnswerAge, Current, Blank, Span
<1>0. x.ver[p] \in Nat /\ x.at \in Nat /\ Span \in Nat /\ Span > 0
  BY Constants, ReqFields
<1>b. hist'.blank \in Nat
  BY HistFields
<1>1. PICK v \in Nat, u \in Nat, s \in Nat, a \in Nat, b \in Nat :
        v = x.ver[p] /\ u = x.at + 1 /\ s = Span /\ a = x.at + 2 /\ b = 2 * Span
  <2>1. x.at + 1 \in Nat /\ x.at + 2 \in Nat /\ 2 * Span \in Nat
    BY <1>0
  <2> QED BY <1>0, <2>1, Zenon
<1>2. x.ver[p] = Blank => x.at < hist'.blank + Span
  BY <1>0, <1>b
<1>3. ASSUME v # Blank PROVE Current(p, v, a, b)
  <2>1. Current(p, v, u, s)
    BY <1>1, <1>3
  <2>2. a + s <= u + b
    BY <1>0, <1>1
  <2> QED BY <2>1, <2>2, Sooner
<1> QED BY <1>1, <1>2, <1>3

\* What storage holds is as of the present epoch.
LEMMA StorageExact ==
    ASSUME ReadInv, NEW r \in Requests, NEW p \in Pieces
    PROVE  /\ db[p] \in Nat /\ db[p] # Blank
           /\ \A t, s : Current(p, db[p], t, s)
           /\ \A X \in [Nat -> Versions] : ExactInv(X) =>
                /\ req[r].exact[p] <= db[p]
                /\ \A e \in Nat : e <= counter["epoch"] => AsOf(X, db[p], e, p)
<1>0. /\ TypeOK /\ AgeInv /\ counter["epoch"] \in Nat /\ req[r] \in ReqState /\ hist \in HistState
      /\ \A X \in [Nat -> Versions] : ExactInv(X) => Epochs(X) /\ ReqExact(X, req[r])
  BY ReqKnown
<1>1. db[p] \in Nat /\ db[p] > 0 /\ Len(hist.since[p]) = db[p]
  BY <1>0 DEF TypeOK, AgeInv, Versions
<1>2. db[p] # Blank /\ \A t, s : Current(p, db[p], t, s)
  BY <1>1 DEF Blank, Current
<1>3. ASSUME NEW X \in [Nat -> Versions], ExactInv(X)
      PROVE  /\ req[r].exact[p] <= db[p]
             /\ \A e \in Nat : e <= counter["epoch"] => AsOf(X, db[p], e, p)
  <2>1. /\ hist.exact[p] <= db[p] /\ hist.exact[p] \in Nat /\ req[r].exact[p] \in Nat
        /\ req[r].exact[p] <= hist.exact[p] /\ X[counter["epoch"]][p] = hist.exact[p]
    BY <1>0, <1>3, ReqFields, HistFields DEF Epochs, ReqExact
  <2>2. ASSUME NEW e \in Nat, e <= counter["epoch"] PROVE AsOf(X, db[p], e, p)
    <3>1. PICK f \in Nat : f = counter["epoch"]
      BY <1>0
    <3>2. X[e] \in Versions
      OBVIOUS
    <3>3. X[e][p] \in Nat
      BY <3>2 DEF Versions
    <3>4. \A d, g \in Nat : d <= g /\ g <= counter["epoch"] =>
             \A q \in Pieces : X[d][q] <= X[g][q]
      BY <1>0, <1>3 DEF Epochs
    <3>5. X[e][p] <= X[f][p]
      BY <2>2, <3>1, <3>4
    <3> QED BY <1>1, <2>1, <2>2, <3>1, <3>3, <3>5 DEF AsOf
  <2> QED BY <1>1, <2>1, <2>2
<1> QED BY <1>1, <1>2, <1>3

\* A load from storage, which may fail.
LEMMA LoadStep ==
    ASSUME ReadInv, NEW r \in Requests, Load(r)
    PROVE  ReadInv'
<1>0. /\ req[r] \in ReqState /\ Shape(req[r]) /\ ReqAge(req[r]) /\ hist \in HistState
      /\ now \in Nat /\ TypeOK /\ AgeInv /\ req[r].piece \in Pieces /\ counter["epoch"] \in Nat
      /\ req[r].pc = "load" /\ req[r].at \in Nat /\ req[r].epoch \in Nat /\ req[r].pc \in Reads
      /\ hist.blank \in Nat /\ hist.blank <= now
      /\ \A X \in [Nat -> Versions] : ExactInv(X) => Epochs(X) /\ ReqExact(X, req[r])
  BY ReqKnown, ReqFields DEF Load, Shape, Reads
<1>1. UNCHANGED <<now, db, counter, change, entry, body>>
  BY DEF Load
<1>2. PICK p \in Pieces : p = req[r].piece
  BY <1>0
<1>3. /\ db[p] \in Nat /\ db[p] # Blank
      /\ \A t, s : Current(p, db[p], t, s)
      /\ \A X \in [Nat -> Versions] : ExactInv(X) =>
           /\ req[r].exact[p] <= db[p]
           /\ \A e \in Nat : e <= counter["epoch"] => AsOf(X, db[p], e, p)
  BY StorageExact
<1>4. ASSUME NEW X \in [Nat -> Versions], ExactInv(X), "epoch" \in DOMAIN req[r].tag
      PROVE  AsOf(X, db[p], req[r].tag["epoch"], p)
  <2>1. req[r].tag["epoch"] \in Nat
    BY <1>0, <1>4, ReqFields DEF Partial
  <2> QED BY <1>0, <1>3, <1>4, <2>1 DEF ReqExact
<1>5. CASE Works /\ ~req[r].usable /\ Update(r, Took(req[r], db[p]))
  <2>1. /\ hist' \in HistState /\ hist'.since = hist.since /\ hist'.exact = hist.exact
        /\ hist'.blank = hist.blank /\ hist'.blind = hist.blind
    BY <1>0, <1>5, HistSteps
  <2>2. Current(req[r].piece, db[p], req[r].at + 1, Span)
    BY <1>2, <1>3
  <2>3. PICK y \in ReqState :
             /\ y = Took(req[r], db[p]) /\ Shape(y) /\ ReqAge(y)' /\ y.pc # "answered"
             /\ \A X \in [Nat -> Versions] :
                  /\ ExactInv(X)
                  /\ db[p] # Blank =>
                        /\ req[r].exact[req[r].piece] <= db[p]
                        /\ "epoch" \in DOMAIN req[r].tag =>
                              AsOf(X, db[p], req[r].tag["epoch"], req[r].piece)
                  => ReqExact(X, y)
    BY <1>0, <1>1, <1>3, <2>1, <2>2, Taken
  <2>4. \A X \in [Nat -> Versions] : ExactInv(X) => ReqExact(X, y)
    BY <1>2, <1>3, <1>4, <2>3
  <2> QED BY <1>1, <1>5, <2>1, <2>3, <2>4, MovesOnly
<1>6. CASE Works /\ req[r].usable
           /\ Update(r, [req[r] EXCEPT !.pc = "put", !.ver[req[r].piece] = db[req[r].piece]])
  <2>1. /\ hist' \in HistState /\ hist'.since = hist.since /\ hist'.exact = hist.exact
        /\ hist'.blank = hist.blank /\ hist'.blind = hist.blind
    BY <1>0, <1>6, HistSteps
  <2>2. PICK x : x = [req[r] EXCEPT !.pc = "put", !.ver = [req[r].ver EXCEPT ![p] = db[p]]]
    OBVIOUS
  <2>3. Update(r, x)
    BY <1>2, <1>6, <2>2
  <2>4. req[r].ver \in Versions /\ [req[r].ver EXCEPT ![p] = db[p]] \in Versions
    BY <1>0, <1>3, ReqFields DEF Versions
  <2>5. x \in ReqState
    BY <1>0, <2>2, <2>4 DEF ReqState, PCs
  <2>6. /\ x.pc = "put" /\ x.epoch = req[r].epoch /\ x.usable = req[r].usable
        /\ x.piece = req[r].piece /\ x.ver = [req[r].ver EXCEPT ![p] = db[p]]
        /\ x.cur = req[r].cur /\ x.tag = req[r].tag /\ x.at = req[r].at /\ x.exact = req[r].exact
    BY <1>0, <2>2 DEF ReqState
  <2>7. x.ver[p] = db[p] /\ \A q \in Pieces : q # p => x.ver[q] = req[r].ver[q]
    BY <2>4, <2>6 DEF Versions
  <2>8. Shape(x)
    <3>1. x.piece = "client" => x.tag = None /\ \A q \in Pieces : q # "client" => x.ver[q] = Blank
      BY <1>0, <1>2, <2>6, <2>7 DEF Shape
    <3> QED BY <1>0, <1>6, <2>6, <3>1 DEF Shape, Reads
  <2>9. ReqAge(x)'
    <3>1. \A q \in Pieces : x.ver[q] # Blank => Current(q, x.ver[q], x.at + 1, Span)
      BY <1>0, <1>3, <2>6, <2>7 DEF ReqAge
    <3>2. ASSUME NEW q \in Pieces, Has(x, q), x.ver[q] = Blank PROVE x.at <= hist.blank
      <4>1. q # p /\ req[r].ver[q] = Blank
        BY <1>3, <2>7, <3>2
      <4>2. Has(req[r], q)
        BY <1>0, <2>6, <3>2 DEF Has, Reads, Full
      <4> QED BY <1>0, <2>6, <4>1, <4>2 DEF ReqAge
    <3>3. x.ver[x.piece] # Blank /\ Current(x.piece, x.ver[x.piece], x.at, 0)
      BY <1>2, <1>3, <2>6, <2>7
    <3> QED BY <1>0, <1>1, <2>1, <2>6, <3>1, <3>2, <3>3 DEF ReqAge, Has, Current
  <2>10. ASSUME NEW X \in [Nat -> Versions], ExactInv(X) PROVE ReqExact(X, x)
    <3>1. ReqExact(X, req[r])
      BY <1>0, <2>10
    <3>2. \A q \in Pieces : /\ x.exact[q] <= hist.exact[q]
                            /\ x.ver[q] = Blank \/ x.exact[q] <= x.ver[q]
      BY <1>3, <2>6, <2>7, <2>10, <3>1 DEF ReqExact
    <3>3. /\ x.epoch <= counter["epoch"]
          /\ \A q \in Pieces : x.exact[q] <= X[x.epoch][q]
      BY <1>6, <2>6, <3>1 DEF ReqExact
    <3>4. AsOf(X, x.ver[x.piece], x.epoch, x.piece)
      BY <1>0, <1>2, <1>3, <2>6, <2>7, <2>10, <3>3
    <3>5. "epoch" \in DOMAIN x.tag =>
            /\ x.tag["epoch"] <= counter["epoch"]
            /\ \A q \in Pieces : x.ver[q] = Blank \/ AsOf(X, x.ver[q], x.tag["epoch"], q)
            /\ x.tag["epoch"] <= x.epoch
      BY <1>4, <1>6, <2>6, <2>7, <2>10, <3>1 DEF ReqExact
    <3> QED BY <1>0, <2>6, <3>1, <3>2, <3>3, <3>4, <3>5 DEF ReqExact, Reads
  <2> QED BY <1>1, <2>1, <2>3, <2>5, <2>6, <2>8, <2>9, <2>10, MovesOnly
<1>7. CASE hist' = [hist EXCEPT !.faults = @ + 1, !.blank = now]
  <2>1. /\ hist' \in HistState /\ hist'.since = hist.since /\ hist'.exact = hist.exact
        /\ hist'.blank = now /\ hist'.blind = hist.blind
    <3>1. hist.faults + 1 \in Nat
      BY <1>0, HistFields
    <3>2. PICK h : h = [hist EXCEPT !.faults = hist.faults + 1]
      OBVIOUS
    <3>3. /\ h \in HistState /\ h.since = hist.since /\ h.exact = hist.exact
          /\ h.blind = hist.blind
      BY <1>0, <3>1, <3>2 DEF HistState
    <3>4. hist' = [h EXCEPT !.blank = now]
      BY <1>7, <3>2
    <3>5. hist' \in HistState
      BY <1>0, <3>3, <3>4 DEF HistState
    <3> QED BY <3>3, <3>4, <3>5 DEF HistState
  <2>2. CASE Update(r, Took(req[r], Blank))
    <3>1. PICK y \in ReqState :
             /\ y = Took(req[r], Blank) /\ Shape(y) /\ ReqAge(y)' /\ y.pc # "answered"
             /\ \A X \in [Nat -> Versions] : ExactInv(X) => ReqExact(X, y)
      <4>1. Blank \in Nat
        BY DEF Blank
      <4> QED BY <1>0, <1>1, <2>1, <4>1, Taken
    <3> QED BY <1>1, <2>1, <2>2, <3>1, MovesOnly
  <2>3. CASE Update(r, [req[r] EXCEPT !.pc = "answered", !.tag = None])
    <3>1. PICK x : x = [req[r] EXCEPT !.pc = "answered", !.tag = None]
      OBVIOUS
    <3>2. x \in ReqState
      BY <1>0, <3>1, NoneFacts DEF ReqState, PCs
    <3>3. /\ x.pc = "answered" /\ x.epoch = req[r].epoch /\ x.usable = req[r].usable
          /\ x.piece = req[r].piece /\ x.ver = req[r].ver /\ x.cur = req[r].cur
          /\ x.tag = None /\ x.at = req[r].at /\ x.exact = req[r].exact
      BY <1>0, <3>1 DEF ReqState
    <3>4. Shape(x)
      BY <3>3 DEF Shape, Reads
    <3>5. AnswerAge(x)'
      <4>1. \A q \in Pieces : x.ver[q] # Blank => Current(q, x.ver[q], x.at + 1, Span)
        BY <1>0, <3>3 DEF ReqAge
      <4>2. x.at <= hist'.blank
        BY <1>0, <2>1, <3>3 DEF ReqAge
      <4> QED BY <1>0, <2>1, <3>2, <4>1, <4>2, AnswersItself
    <3>6. ASSUME NEW X \in [Nat -> Versions], ExactInv(X) PROVE ReqExact(X, x)
      <4>1. ReqExact(X, req[r])
        BY <1>0, <3>6
      <4>2. "epoch" \notin DOMAIN x.tag
        BY <3>3, NoneFacts
      <4>3. x.usable => /\ x.epoch <= counter["epoch"]
                        /\ \A q \in Pieces : x.exact[q] <= X[x.epoch][q]
        BY <3>3, <4>1 DEF ReqExact
      <4> QED BY <3>3, <4>1, <4>2, <4>3 DEF ReqExact, Reads
    <3> QED BY <1>1, <2>1, <2>3, <3>1, <3>2, <3>3, <3>4, <3>5, <3>6, MovesOnly
  <2> QED BY <1>7, <2>2, <2>3, <1>5, <1>6, <1>2 DEF Load
<1> QED BY <1>2, <1>5, <1>6, <1>7 DEF Load

\* What a request writes to the read model.
LEMMA PutStep ==
    ASSUME ReadInv, NEW r \in Requests, Put(r)
    PROVE  ReadInv'
<1>0. /\ req[r] \in ReqState /\ Shape(req[r]) /\ ReqAge(req[r]) /\ hist \in HistState
      /\ now \in Nat /\ TypeOK /\ AgeInv /\ req[r].piece \in Pieces /\ counter["epoch"] \in Nat
      /\ req[r].pc = "put" /\ req[r].at \in Nat /\ req[r].epoch \in Nat /\ req[r].pc \in Reads
      /\ req[r].ver \in Versions
      /\ \A X \in [Nat -> Versions] : ExactInv(X) => Epochs(X) /\ ReqExact(X, req[r])
  BY ReqKnown, ReqFields DEF Put, Shape, Reads
<1>1. UNCHANGED <<now, db, counter, change, body>>
  BY DEF Put
<1>2. /\ hist' \in HistState /\ hist'.since = hist.since /\ hist'.exact = hist.exact
      /\ hist'.blank = hist.blank /\ hist'.blind = hist.blind
  BY <1>0, HistSteps DEF Put
<1>3. PICK p \in Pieces, v \in Nat : p = req[r].piece /\ v = req[r].ver[p]
  BY <1>0 DEF Versions
<1>4. v # Blank /\ Current(p, v, req[r].at, 0) /\ now <= req[r].at + MaxRequest
  BY <1>0, <1>3 DEF ReqAge
<1>5. Current(p, v, req[r].at + 1, Span) /\ Current(p, v, now + TTL, Span)
  <2>1. /\ TTL \in Nat /\ TTL > 0 /\ MaxRequest \in Nat /\ Span \in Nat /\ Span = MaxRequest + TTL
    BY Constants DEF Span
  <2>2. PICK a \in Nat, b \in Nat, c \in Nat, s \in Nat, z \in Nat :
           a = req[r].at /\ b = req[r].at + 1 /\ c = now + TTL /\ s = Span /\ z = 0
    <3>1. req[r].at + 1 \in Nat /\ now + TTL \in Nat /\ 0 \in Nat
      BY <1>0, <2>1
    <3> QED BY <1>0, <2>1, <3>1, Zenon
  <2>3. b + z <= a + s /\ c + z <= a + s
    BY <1>0, <1>4, <2>1, <2>2
  <2>4. Current(p, v, a, z)
    BY <1>4, <2>2
  <2>5. Current(p, v, b, s)
    BY <1>0, <2>3, <2>4, Sooner
  <2>6. Current(p, v, c, s)
    BY <1>0, <2>3, <2>4, Sooner
  <2> QED BY <2>2, <2>5, <2>6
<1>6. PICK y \in ReqState :
             /\ y = Took(req[r], v) /\ Shape(y) /\ ReqAge(y)' /\ y.pc # "answered"
             /\ \A X \in [Nat -> Versions] :
                  /\ ExactInv(X)
                  /\ v # Blank =>
                        /\ req[r].exact[req[r].piece] <= v
                        /\ "epoch" \in DOMAIN req[r].tag =>
                              AsOf(X, v, req[r].tag["epoch"], req[r].piece)
                  => ReqExact(X, y)
  BY <1>0, <1>1, <1>2, <1>3, <1>4, <1>5, Taken
<1>7. ASSUME NEW X \in [Nat -> Versions], ExactInv(X)
      PROVE  ReqExact(X, y) /\ AsOf(X, v, req[r].epoch, p)
  <2>1. ReqExact(X, req[r])
    BY <1>0, <1>7
  <2>2. req[r].exact[p] <= v
    BY <1>3, <1>4, <2>1 DEF ReqExact
  <2>3. "epoch" \in DOMAIN req[r].tag => AsOf(X, v, req[r].tag["epoch"], p)
    BY <1>3, <1>4, <2>1 DEF ReqExact
  <2>4. AsOf(X, v, req[r].epoch, p)
    BY <1>0, <1>3, <2>1 DEF ReqExact
  <2> QED BY <1>3, <1>6, <1>7, <2>2, <2>3, <2>4
<1>7e. PICK e : e = [ver |-> v, epoch |-> req[r].epoch, exp |-> now + TTL]
  OBVIOUS
<1>8. /\ e \in Entries /\ e = [ver |-> v, epoch |-> req[r].epoch, exp |-> now + TTL]
      /\ e.ver = v /\ e.epoch = req[r].epoch /\ e.exp = now + TTL
  <2>1. now + TTL \in Nat
    BY <1>0, Constants
  <2>2. e \in Entries
    BY <1>0, <1>7e, <2>1 DEF Entries
  <2> QED BY <1>7e, <2>2
<1>9. entry \in [Pieces -> Entries] /\ EntryAge /\ BodyAge /\ body \in Bodies
  BY <1>0 DEF TypeOK, AgeInv
<1>10. \/ UNCHANGED entry
       \/ entry' = [entry EXCEPT ![p] = e]
  BY <1>3, <1>8 DEF Put, TagOf, Expiry
<1>11. /\ entry' \in [Pieces -> Entries]
       /\ \A q \in Pieces : entry'[q] \in {entry[q], e} /\ (q # p => entry'[q] = entry[q])
  BY <1>8, <1>9, <1>10
<1>12. EntryAge'
  <2> SUFFICES ASSUME NEW q \in Pieces
               PROVE  /\ entry'[q].exp <= now + TTL
                      /\ \/ entry'[q] = NoEntry
                         \/ /\ entry'[q].ver # Blank
                            /\ Current(q, entry'[q].ver, entry'[q].exp, Span)
    BY <1>1, <1>2 DEF EntryAge, Current, NoEntry, Blank, Span
  <2>1. CASE entry'[q] = entry[q]
    BY <1>9, <2>1 DEF EntryAge
  <2>2. CASE q = p /\ entry'[q] = e
    <3>1. now + TTL <= now + TTL
      BY <1>0, Constants
    <3> QED BY <1>4, <1>5, <1>8, <2>2, <3>1
  <2> QED BY <1>11, <2>1, <2>2
<1>13. BodyAge'
  BY <1>1, <1>2, <1>9 DEF BodyAge, Current, NoBody, None, Blank
<1>14. ASSUME NEW X \in [Nat -> Versions], ExactInv(X) PROVE EntryExact(X)' /\ BodyExact(X)'
  <2>1. BodyExact(X)'
    BY <1>1, <1>14 DEF ExactInv, BodyExact, AsOf, NoBody, None, Blank
  <2>2. \A q \in Pieces : entry'[q] = NoEntry \/ AsOf(X, entry'[q].ver, entry'[q].epoch, q)
    BY <1>7, <1>8, <1>11, <1>14 DEF ExactInv, EntryExact
  <2>3. EntryExact(X)'
    BY <1>1, <2>2 DEF EntryExact, AsOf, NoEntry, Blank
  <2> QED BY <2>1, <2>3
<1>15. Update(r, y)
  BY <1>3, <1>6 DEF Put
<1> HIDE DEF ExactInv, ReqExact, EntryExact, BodyExact
<1> QED BY <1>1, <1>2, <1>6, <1>7, <1>9, <1>11, <1>12, <1>13, <1>14, <1>15, Moves

-----------------------------------------------------------------------------
(* The rendered response *)

\* No version of the client is older than an epoch: a definition change is
\* never of a client.
LEMMA ClientUndefined ==
    ASSUME NEW X \in [Nat -> Versions], TypeOK, Epochs(X), "client" \in Pieces, counter["epoch"] \in Nat,
           NEW e \in Nat, e <= counter["epoch"]
    PROVE  X[e]["client"] = 0
<1>1. PICK f \in Nat : f = counter["epoch"]
  OBVIOUS
<1>2. X[e]["client"] <= X[f]["client"] /\ X[f]["client"] = 0
  <2>1. e <= f /\ f <= f
    BY <1>1
  <2> QED BY <1>1, <2>1 DEF Epochs
<1>3. X[e]["client"] \in Nat
  BY DEF Versions
<1> QED BY <1>2, <1>3

\* A counter is read, for one of the three uses.
LEMMA ReadCounterStep ==
    ASSUME ReadInv, NEW r \in Requests, ReadCounter(r)
    PROVE  ReadInv'
<1>0. /\ req[r] \in ReqState /\ Shape(req[r]) /\ ReqAge(req[r]) /\ hist \in HistState
      /\ now \in Nat /\ counter["epoch"] \in Nat /\ TypeOK /\ counter \in [Counters -> Nat]
      /\ \A X \in [Nat -> Versions] : ExactInv(X) => Epochs(X) /\ ReqExact(X, req[r])
  BY ReqKnown DEF TypeOK
<1>1. UNCHANGED <<now, db, counter, change, entry, body, hist>> /\ req[r].pc \in {"tag", "check", "retag"}
  BY DEF ReadCounter
<1>2. PICK x \in ReqState : x = req[r]
  BY <1>0
<1>3. PICK D \in SUBSET Counters : x.cur \in [D -> Nat]
  BY ReqFields DEF Partial
<1>4. PICK c \in Counters \ DOMAIN x.cur : Update(r, Counted(x, Read(x, c)))
  BY <1>2 DEF ReadCounter
<1>5. PICK read : /\ read = [d \in DOMAIN x.cur \cup {c} |-> IF d = c THEN counter[c] ELSE x.cur[d]]
                  /\ Update(r, Counted(x, read))
  BY <1>4 DEF Read
<1>6. /\ read \in Partial /\ DOMAIN read = DOMAIN x.cur \cup {c}
      /\ "epoch" \in DOMAIN read =>
            \/ read["epoch"] = counter["epoch"]
            \/ "epoch" \in DOMAIN x.cur /\ read["epoch"] = x.cur["epoch"]
  <2>1. DOMAIN x.cur = D
    BY <1>3
  <2>2. D \cup {c} \in SUBSET Counters /\ read \in [D \cup {c} -> Nat]
    BY <1>0, <1>3, <1>4, <1>5, <2>1
  <2>3. read \in Partial
    BY <2>2 DEF Partial
  <2> QED BY <1>5, <2>3
<1>7. PICK z \in ReqState :
        /\ Update(r, z) /\ z.piece = x.piece /\ z.ver = x.ver /\ z.at = x.at /\ z.exact = x.exact
        /\ z.usable = x.usable /\ z.epoch = x.epoch
        /\ \/ z.pc = x.pc /\ z.cur = read /\ z.tag = x.tag
           \/ x.pc = "tag" /\ z.pc = "check" /\ z.cur = None /\ z.tag = read /\ DOMAIN read = Counters
           \/ x.pc = "check" /\ z.pc = "body" /\ z.cur = read /\ z.tag = x.tag
           \/ x.pc = "retag" /\ z.pc = "write" /\ z.cur = None /\ z.tag = read
  <2>1. PICK y : y = [x EXCEPT !.cur = None]
    OBVIOUS
  <2>2. /\ y \in ReqState /\ y.piece = x.piece /\ y.ver = x.ver /\ y.at = x.at /\ y.exact = x.exact
        /\ y.usable = x.usable /\ y.epoch = x.epoch /\ y.pc = x.pc /\ y.tag = x.tag /\ y.cur = None
    BY <2>1, NoneFacts DEF ReqState
  <2>3. Counted(x, read) =
          IF DOMAIN read # Counters THEN [x EXCEPT !.cur = read] ELSE
          CASE x.pc = "tag"   -> [y EXCEPT !.pc = "check", !.tag = read]
            [] x.pc = "check" -> [x EXCEPT !.pc = "body", !.cur = read]
            [] x.pc = "retag" -> [y EXCEPT !.pc = "write", !.tag = read]
    BY <2>1 DEF Counted
  <2>4. CASE DOMAIN read # Counters
    <3>1. PICK z : z = [x EXCEPT !.cur = read]
      OBVIOUS
    <3>2. z \in ReqState
      BY <1>6, <3>1 DEF ReqState
    <3>u. Update(r, z)
      <4>1. z = Counted(x, read)
        BY <2>3, <2>4, <3>1
      <4> QED BY <1>5, <4>1
    <3>3. /\ z.piece = x.piece /\ z.ver = x.ver /\ z.at = x.at /\ z.exact = x.exact
          /\ z.usable = x.usable /\ z.epoch = x.epoch /\ z.pc = x.pc /\ z.cur = read /\ z.tag = x.tag
      BY <3>1 DEF ReqState
    <3> QED BY <3>2, <3>u, <3>3
  <2>5. CASE DOMAIN read = Counters /\ x.pc = "tag"
    <3>1. PICK z : z = [y EXCEPT !.pc = "check", !.tag = read]
      OBVIOUS
    <3>2. z \in ReqState
      BY <1>6, <2>2, <3>1 DEF ReqState, PCs
    <3>u. Update(r, z)
      <4>1. z = Counted(x, read)
        BY <2>3, <2>5, <3>1
      <4> QED BY <1>5, <4>1
    <3>3. /\ z.piece = x.piece /\ z.ver = x.ver /\ z.at = x.at /\ z.exact = x.exact
          /\ z.usable = x.usable /\ z.epoch = x.epoch /\ z.pc = "check" /\ z.cur = None /\ z.tag = read
      BY <2>2, <3>1 DEF ReqState
    <3> QED BY <2>5, <3>2, <3>u, <3>3
  <2>6. CASE DOMAIN read = Counters /\ x.pc = "check"
    <3>1. PICK z : z = [x EXCEPT !.pc = "body", !.cur = read]
      OBVIOUS
    <3>2. z \in ReqState
      BY <1>6, <3>1 DEF ReqState, PCs
    <3>u. Update(r, z)
      <4>1. z = Counted(x, read)
        BY <2>3, <2>6, <3>1
      <4> QED BY <1>5, <4>1
    <3>3. /\ z.piece = x.piece /\ z.ver = x.ver /\ z.at = x.at /\ z.exact = x.exact
          /\ z.usable = x.usable /\ z.epoch = x.epoch /\ z.pc = "body" /\ z.cur = read /\ z.tag = x.tag
      BY <3>1 DEF ReqState
    <3> QED BY <2>6, <3>2, <3>u, <3>3
  <2>7. CASE DOMAIN read = Counters /\ x.pc = "retag"
    <3>1. PICK z : z = [y EXCEPT !.pc = "write", !.tag = read]
      OBVIOUS
    <3>2. z \in ReqState
      BY <1>6, <2>2, <3>1 DEF ReqState, PCs
    <3>u. Update(r, z)
      <4>1. z = Counted(x, read)
        BY <2>3, <2>7, <3>1
      <4> QED BY <1>5, <4>1
    <3>3. /\ z.piece = x.piece /\ z.ver = x.ver /\ z.at = x.at /\ z.exact = x.exact
          /\ z.usable = x.usable /\ z.epoch = x.epoch /\ z.pc = "write" /\ z.cur = None /\ z.tag = read
      BY <2>2, <3>1 DEF ReqState
    <3> QED BY <2>7, <3>2, <3>u, <3>3
  <2> QED BY <1>1, <1>2, <2>4, <2>5, <2>6, <2>7
<1>8. /\ x.pc \in {"tag", "check", "retag"} /\ x.piece = "none" /\ x.usable = FALSE /\ Shape(x) /\ ReqAge(x)
      /\ z.pc \in {"tag", "check", "retag", "body", "write"} /\ z.piece = "none" /\ z.usable = FALSE
      /\ z.pc # "answered"
  <2>1. Shape(x) /\ ReqAge(x) /\ x.pc \in {"tag", "check", "retag"} /\ x.usable \in BOOLEAN
    BY <1>0, <1>1, <1>2, ReqFields
  <2>2. x.piece = "none" /\ x.usable = FALSE
    BY <2>1 DEF Shape, Reads
  <2> QED BY <1>7, <2>1, <2>2
<1>9. Shape(z)
  BY <1>7, <1>8 DEF Shape, Reads
<1>10. ReqAge(z)'
  <2>1. \A p \in Pieces : Has(z, p) => Has(x, p)
    BY <1>7, <1>8 DEF Has, Reads, Full
  <2> QED BY <1>1, <1>7, <1>8, <2>1 DEF ReqAge, Has, Current
<1>11. ASSUME NEW X \in [Nat -> Versions], ExactInv(X) PROVE ReqExact(X, z)
  <2>1. Epochs(X) /\ ReqExact(X, x)
    BY <1>0, <1>2, <1>11
  <2>2. "epoch" \in DOMAIN read =>
           /\ read["epoch"] <= counter["epoch"] /\ read["epoch"] \in Nat
           /\ \A p \in Pieces : x.exact[p] <= X[read["epoch"]][p]
    <3>1. CASE read["epoch"] = counter["epoch"]
      BY <1>0, <2>1, <3>1 DEF Epochs, ReqExact
    <3>2. CASE "epoch" \in DOMAIN x.cur /\ read["epoch"] = x.cur["epoch"]
      <4>1. x.cur["epoch"] \in Nat
        BY <1>3, <3>2
      <4> QED BY <2>1, <3>2, <4>1 DEF ReqExact
    <3> QED BY <1>6, <3>1, <3>2
  <2>3. x.pc = "tag" /\ z.tag = read /\ "epoch" \in DOMAIN read =>
           \A p \in Pieces : z.ver[p] = Blank \/ AsOf(X, z.ver[p], read["epoch"], p)
    <3> SUFFICES ASSUME x.pc = "tag", "epoch" \in DOMAIN read, NEW p \in Pieces, z.ver[p] # Blank
                 PROVE  AsOf(X, z.ver[p], read["epoch"], p)
      OBVIOUS
    <3>1. p = "client"
      BY <1>7, <1>8 DEF Shape
    <3>2. PICK e \in Nat : e = read["epoch"] /\ e <= counter["epoch"]
      BY <2>2
    <3>3. X[e]["client"] = 0
      BY <1>0, <2>1, <3>1, <3>2, ClientUndefined
    <3>4. z.ver[p] \in Nat
      BY ReqFields
    <3> QED BY <3>1, <3>2, <3>3, <3>4 DEF AsOf
  <2>4. "epoch" \in DOMAIN z.cur => /\ z.cur["epoch"] <= counter["epoch"]
                                    /\ \A p \in Pieces : z.exact[p] <= X[z.cur["epoch"]][p]
    BY <1>7, <2>2, NoneFacts
  <2>5. "epoch" \in DOMAIN z.tag =>
          /\ z.tag["epoch"] <= counter["epoch"]
          /\ \A p \in Pieces : z.ver[p] = Blank \/ AsOf(X, z.ver[p], z.tag["epoch"], p)
    <3>1. CASE z.tag = x.tag
      BY <1>7, <2>1, <3>1 DEF ReqExact
    <3>2. CASE x.pc = "tag" /\ z.tag = read
      BY <2>2, <2>3, <3>2
    <3>3. x.pc # "retag"
      BY <2>1 DEF ReqExact
    <3> QED BY <1>7, <3>1, <3>2, <3>3
  <2>6. x.pc # "retag" /\ (x.pc = "check" => "epoch" \in DOMAIN x.tag)
    BY <2>1 DEF ReqExact
  <2>7. /\ z.pc \in {"check", "body", "write"} => "epoch" \in DOMAIN z.tag
        /\ z.pc # "retag"
    BY <1>7, <1>8, <2>6, Constants
  <2>8. \A p \in Pieces : /\ z.exact[p] <= hist.exact[p]
                          /\ z.ver[p] = Blank \/ z.exact[p] <= z.ver[p]
    BY <1>7, <2>1 DEF ReqExact
  <2>9. ~z.usable /\ z.pc # "put" /\ z.pc \notin Reads
    BY <1>8 DEF Reads
  <2> QED BY <2>4, <2>5, <2>7, <2>8, <2>9 DEF ReqExact
<1>12. hist' \in HistState /\ hist'.since = hist.since /\ hist'.exact = hist.exact
       /\ hist'.blank = hist.blank /\ hist'.blind = hist.blind
  BY <1>0, <1>1
<1> QED BY <1>1, <1>7, <1>8, <1>9, <1>10, <1>11, <1>12, MovesOnly

\* A request with no body to use turns to the user.
LEMMA TurnsToUser ==
    ASSUME ReadInv, NEW r \in Requests, req[r].pc \in {"check", "body"}, UNCHANGED now,
           hist' \in HistState, hist'.since = hist.since, hist'.blank = hist.blank
    PROVE  \E z \in ReqState :
             /\ z = Reading([req[r] EXCEPT !.cur = None], "user")
             /\ Shape(z) /\ ReqAge(z)' /\ z.pc # "answered"
             /\ \A X \in [Nat -> Versions] : ExactInv(X) => ReqExact(X, z)
<1>0. /\ req[r] \in ReqState /\ Shape(req[r]) /\ ReqAge(req[r]) /\ hist \in HistState
      /\ \A X \in [Nat -> Versions] : ExactInv(X) => Epochs(X) /\ ReqExact(X, req[r])
  BY ReqKnown
<1>1. PICK w : w = [req[r] EXCEPT !.cur = None]
  OBVIOUS
<1>2. /\ w \in ReqState /\ w.cur = None /\ w.ver = req[r].ver /\ w.tag = req[r].tag
      /\ w.at = req[r].at /\ w.exact = req[r].exact
  BY <1>0, <1>1, NoneFacts DEF ReqState
<1>3. PICK z \in ReqState :
        /\ z = Reading(w, "user") /\ z.pc = "epoch" /\ z.piece = "user" /\ z.usable = FALSE
        /\ z.ver = w.ver /\ z.cur = w.cur /\ z.tag = w.tag /\ z.at = w.at /\ z.exact = w.exact
  <2>1. "user" \in Pieces
    BY Constants
  <2> QED BY <1>2, <2>1, ReadingFacts
<1>4. Shape(z)
  BY <1>3, Constants DEF Shape, Reads
<1>5. ReqAge(z)'
  <2>1. req[r].piece = "none"
    BY <1>0 DEF Shape, Reads
  <2>2. \A p \in Pieces : Has(z, p) => Has(req[r], p)
    BY <1>3, <2>1 DEF Has, Reads, Full
  <2> QED BY <1>0, <1>2, <1>3, <2>2 DEF ReqAge, Has, Current
<1>6. ASSUME NEW X \in [Nat -> Versions], ExactInv(X) PROVE ReqExact(X, z)
  <2>1. ReqExact(X, req[r])
    BY <1>0, <1>6
  <2>2. "epoch" \notin DOMAIN z.cur /\ ~z.usable /\ z.pc # "put" /\ z.pc # "retag"
    BY <1>2, <1>3, NoneFacts
  <2>3. "epoch" \in DOMAIN z.tag
    BY <1>2, <1>3, <2>1 DEF ReqExact
  <2> QED BY <1>2, <1>3, <2>1, <2>2, <2>3 DEF ReqExact
<1> QED BY <1>1, <1>3, <1>4, <1>5, <1>6

\* A counter that cannot be read.
LEMMA NoCountersStep ==
    ASSUME ReadInv, NEW r \in Requests, NoCounters(r)
    PROVE  ReadInv'
<1>0. /\ req[r] \in ReqState /\ Shape(req[r]) /\ ReqAge(req[r]) /\ hist \in HistState
      /\ now \in Nat /\ TypeOK
      /\ \A X \in [Nat -> Versions] : ExactInv(X) => Epochs(X) /\ ReqExact(X, req[r])
  BY ReqKnown
<1>1. PICK w : w = [req[r] EXCEPT !.cur = None]
  OBVIOUS
<1>2. /\ w \in ReqState /\ w.cur = None /\ w.ver = req[r].ver /\ w.tag = req[r].tag
      /\ w.at = req[r].at /\ w.exact = req[r].exact /\ w.pc = req[r].pc
      /\ w.piece = req[r].piece /\ w.usable = req[r].usable
  BY <1>0, <1>1, NoneFacts DEF ReqState
<1>3. /\ UNCHANGED <<now, db, counter, entry, body, change>> /\ w.pc \in {"tag", "check", "retag"}
      /\ Update(r, CASE w.pc = "tag"   -> [w EXCEPT !.pc = "check"]
                     [] w.pc = "check" -> Reading(w, "user")
                     [] OTHER          -> [w EXCEPT !.pc = "answered"])
      /\ hist' = [hist EXCEPT !.faults = hist.faults + 1, !.blind = hist.blind \/ w.pc = "tag"]
  BY <1>1 DEF NoCounters
<1>4. /\ hist' \in HistState /\ hist'.since = hist.since /\ hist'.exact = hist.exact
      /\ hist'.blank = hist.blank /\ (hist.blind => hist'.blind) /\ (w.pc = "tag" => hist'.blind)
  <2>1. hist.faults + 1 \in Nat /\ hist.blind \in BOOLEAN
    BY <1>0, HistFields
  <2>2. PICK b \in BOOLEAN : b = (hist.blind \/ w.pc = "tag")
    OBVIOUS
  <2>3. PICK h : h = [hist EXCEPT !.faults = hist.faults + 1]
    OBVIOUS
  <2>4. /\ h \in HistState /\ h.since = hist.since /\ h.exact = hist.exact /\ h.blank = hist.blank
    BY <1>0, <2>1, <2>3 DEF HistState
  <2>5. hist' = [h EXCEPT !.blind = b]
    BY <1>3, <2>2, <2>3
  <2>6. hist' \in HistState
    BY <2>2, <2>4, <2>5 DEF HistState
  <2>7. hist'.since = h.since /\ hist'.exact = h.exact /\ hist'.blank = h.blank /\ hist'.blind = b
    BY <2>4, <2>5 DEF HistState
  <2>8. (hist.blind => b) /\ (w.pc = "tag" => b)
    BY <2>2
  <2> QED BY <2>4, <2>6, <2>7, <2>8
<1>5. CASE w.pc = "tag"
  <2>1. PICK z : z = [w EXCEPT !.pc = "check"]
    OBVIOUS
  <2>2. z \in ReqState
    BY <1>2, <2>1 DEF ReqState, PCs
  <2>3. /\ z.pc = "check" /\ z.ver = w.ver /\ z.at = w.at /\ z.piece = w.piece /\ z.usable = w.usable
    BY <1>2, <2>1 DEF ReqState
  <2>4. Update(r, z)
    BY <1>3, <1>5, <2>1
  <2>5. req[r].pc = "tag" /\ req[r].piece = "none" /\ ~req[r].usable
    BY <1>0, <1>2, <1>5 DEF Shape, Reads
  <2>6. Shape(z)
    BY <1>2, <2>3, <2>5 DEF Shape, Reads
  <2>7. ReqAge(z)'
    <3>1. \A p \in Pieces : Has(z, p) => Has(req[r], p)
      BY <2>3, <2>5 DEF Has, Reads, Full
    <3> QED BY <1>0, <1>2, <1>3, <1>4, <2>3, <2>5, <3>1 DEF ReqAge, Has, Current
  <2>8. hist'.blind /\ z.pc # "answered"
    BY <1>4, <1>5, <2>3
  <2> QED BY <1>3, <1>4, <2>2, <2>4, <2>6, <2>7, <2>8, MovesOnly
<1>6. CASE w.pc = "check"
  <2>1. Update(r, Reading(w, "user")) /\ req[r].pc \in {"check", "body"}
    BY <1>2, <1>3, <1>6
  <2>2. PICK z \in ReqState :
             /\ z = Reading(w, "user") /\ Shape(z) /\ ReqAge(z)' /\ z.pc # "answered"
             /\ \A X \in [Nat -> Versions] : ExactInv(X) => ReqExact(X, z)
    BY <1>1, <1>3, <1>4, <2>1, TurnsToUser
  <2> QED BY <1>3, <1>4, <2>1, <2>2, MovesOnly
<1>7. CASE w.pc = "retag"
  <2>1. PICK z : z = [w EXCEPT !.pc = "answered"]
    OBVIOUS
  <2>2. z \in ReqState
    BY <1>2, <2>1 DEF ReqState, PCs
  <2>3. z.pc = "answered" /\ z.ver = w.ver /\ z.at = w.at
    BY <1>2, <2>1 DEF ReqState
  <2>4. Update(r, z)
    BY <1>3, <1>7, <2>1
  <2>5. Shape(z)
    BY <2>3 DEF Shape, Reads
  <2>6. AnswerAge(z)'
    <3>1. \A p \in Pieces : z.ver[p] # Blank => Current(p, z.ver[p], z.at + 1, Span)
      BY <1>0, <1>2, <2>3 DEF ReqAge
    <3>2. \A p \in Pieces : z.ver[p] = Blank => z.at <= hist'.blank
      BY <1>0, <1>2, <1>4, <1>7, <2>3 DEF ReqAge, Has, Full
    <3> QED BY <1>0, <1>4, <2>2, <3>1, <3>2, AnswersItself
  <2>7. ASSUME NEW X \in [Nat -> Versions], ExactInv(X) PROVE FALSE
    BY <1>0, <1>2, <1>7, <2>7 DEF ReqExact
  <2> QED BY <1>3, <1>4, <2>2, <2>3, <2>4, <2>5, <2>6, <2>7, MovesOnly
<1> QED BY <1>3, <1>5, <1>6, <1>7

\* A rendered body is used when it carries the counters just read.
LEMMA ReadBodyStep ==
    ASSUME ReadInv, NEW r \in Requests, ReadBody(r)
    PROVE  ReadInv'
<1>0. /\ req[r] \in ReqState /\ Shape(req[r]) /\ ReqAge(req[r]) /\ hist \in HistState
      /\ now \in Nat /\ TypeOK /\ AgeInv /\ req[r].pc = "body" /\ body \in Bodies
      /\ counter["epoch"] \in Nat
      /\ \A X \in [Nat -> Versions] : ExactInv(X) => Epochs(X) /\ ReqExact(X, req[r])
  BY ReqKnown DEF ReadBody, TypeOK
<1>1. UNCHANGED <<now, db, counter, entry, body, change>>
  BY DEF ReadBody
<1>2. /\ hist' \in HistState /\ hist'.since = hist.since /\ hist'.exact = hist.exact
      /\ hist'.blank = hist.blank /\ hist'.blind = hist.blind
  BY <1>0, HistSteps DEF ReadBody
<1>3. PICK w : w = [req[r] EXCEPT !.cur = None]
  OBVIOUS
<1>4. CASE Update(r, Reading(w, "user"))
  <2>1. PICK z \in ReqState :
             /\ z = Reading(w, "user") /\ Shape(z) /\ ReqAge(z)' /\ z.pc # "answered"
             /\ \A X \in [Nat -> Versions] : ExactInv(X) => ReqExact(X, z)
    BY <1>0, <1>1, <1>2, <1>3, TurnsToUser
  <2> QED BY <1>1, <1>2, <1>4, <2>1, MovesOnly
<1>5. CASE /\ body.exp > now /\ body.tag = req[r].cur
           /\ Update(r, [w EXCEPT !.pc = "answered", !.ver = body.ver, !.tag = None])
  <2>1. /\ w \in ReqState /\ w.cur = None /\ w.at = req[r].at /\ w.exact = req[r].exact
        /\ w.usable = req[r].usable
    BY <1>0, <1>3, NoneFacts DEF ReqState
  <2>2. body.exp \in Nat /\ body.ver \in Versions /\ body.tag \in Partial
    BY <1>0 DEF Bodies
  <2>3. PICK z : z = [w EXCEPT !.pc = "answered", !.ver = body.ver, !.tag = None]
    OBVIOUS
  <2>4. z \in ReqState
    BY <2>1, <2>2, <2>3, NoneFacts DEF ReqState, PCs
  <2>5. /\ z.pc = "answered" /\ z.ver = body.ver /\ z.tag = None /\ z.cur = None
        /\ z.at = req[r].at /\ z.exact = req[r].exact /\ z.usable = req[r].usable
    BY <2>1, <2>3 DEF ReqState
  <2>6. body # NoBody
    BY <1>0, <1>5, <2>2 DEF NoBody
  <2>7. Shape(z)
    BY <2>5 DEF Shape, Reads
  <2>8. z.at \in Nat /\ z.at <= now /\ z.at < body.exp
    <3>1. z.at \in Nat /\ z.at <= now
      BY <1>0, <2>4, <2>5, ReqFields DEF ReqAge
    <3> QED BY <1>0, <1>5, <2>2, <3>1
  <2>9. AnswerAge(z)'
    <3> SUFFICES ASSUME NEW p \in Pieces
                 PROVE  /\ z.ver[p] = Blank => z.at < hist.blank + Span
                        /\ z.ver[p] # Blank => Current(p, z.ver[p], z.at + 2, 2 * Span)
      BY <1>2 DEF AnswerAge, Current, Blank, Span
    <3>1. /\ body.ver[p] = Blank => body.exp <= hist.blank + Span
          /\ body.ver[p] # Blank => Current(p, body.ver[p], body.exp + 1, 2 * Span)
      BY <1>0, <2>6 DEF AgeInv, BodyAge
    <3>2. hist.blank \in Nat /\ Span \in Nat /\ z.ver[p] \in Nat
      BY <1>0, <2>4, HistFields, Constants, ReqFields
    <3>3. z.ver[p] = Blank => z.at < hist.blank + Span
      BY <2>2, <2>5, <2>8, <3>1, <3>2
    <3>4. PICK v \in Nat, t \in Nat, u \in Nat, s \in Nat :
            v = z.ver[p] /\ t = body.exp + 1 /\ u = z.at + 2 /\ s = 2 * Span
      <4>1. body.exp + 1 \in Nat /\ z.at + 2 \in Nat /\ 2 * Span \in Nat
        BY <2>2, <2>8, <3>2
      <4> QED BY <3>2, <4>1, Zenon
    <3>5. ASSUME v # Blank PROVE Current(p, v, u, s)
      <4>1. Current(p, v, t, s)
        BY <2>5, <3>1, <3>4, <3>5
      <4>2. u + s <= t + s
        BY <2>2, <2>8, <3>4
      <4> QED BY <1>0, <4>1, <4>2, Sooner
    <3> QED BY <3>3, <3>4, <3>5
  <2>10. ASSUME NEW X \in [Nat -> Versions], ExactInv(X) PROVE ReqExact(X, z)
    <3>1. Epochs(X) /\ ReqExact(X, req[r]) /\ BodyExact(X)
      BY <1>0, <2>10 DEF ExactInv
    <3>2. /\ "epoch" \in DOMAIN body.tag
          /\ \A p \in Pieces : body.ver[p] = Blank \/ AsOf(X, body.ver[p], body.tag["epoch"], p)
      BY <2>6, <3>1 DEF BodyExact
    <3>3. \A p \in Pieces : req[r].exact[p] <= X[body.tag["epoch"]][p]
      BY <1>5, <3>1, <3>2 DEF ReqExact
    <3>4. body.tag["epoch"] \in Nat
      BY <2>2, <3>2 DEF Partial
    <3>5. \A p \in Pieces : /\ z.exact[p] <= hist.exact[p]
                            /\ z.ver[p] = Blank \/ z.exact[p] <= z.ver[p]
      <4> SUFFICES ASSUME NEW p \in Pieces
                   PROVE  /\ z.exact[p] <= hist.exact[p]
                          /\ z.ver[p] = Blank \/ z.exact[p] <= z.ver[p]
        OBVIOUS
      <4>1. z.exact[p] <= hist.exact[p]
        BY <2>5, <3>1 DEF ReqExact
      <4>2. PICK e \in Nat : e = body.tag["epoch"]
        BY <3>4
      <4>3. X[e] \in Versions
        OBVIOUS
      <4>4. X[e][p] \in Nat /\ z.exact[p] \in Nat /\ z.ver[p] \in Nat
        BY <2>4, <4>3, ReqFields DEF Versions
      <4>5. z.ver[p] = Blank \/ X[e][p] <= z.ver[p]
        BY <2>5, <3>2, <4>2 DEF AsOf
      <4>6. z.exact[p] <= X[e][p]
        BY <2>5, <3>3, <4>2
      <4> QED BY <4>1, <4>4, <4>5, <4>6
    <3>6. "epoch" \notin DOMAIN z.cur /\ "epoch" \notin DOMAIN z.tag
      BY <2>5, NoneFacts
    <3>7. ~z.usable
      BY <1>0, <2>5 DEF Shape, Reads
    <3> QED BY <2>5, <3>5, <3>6, <3>7 DEF ReqExact, Reads
  <2>11. Update(r, z)
    BY <1>5, <2>3
  <2> QED BY <1>1, <1>2, <2>4, <2>5, <2>7, <2>9, <2>10, <2>11, MovesOnly
<1> QED BY <1>3, <1>4, <1>5 DEF ReadBody

\* What a request writes to the response cache.
LEMMA WriteBodyStep ==
    ASSUME ReadInv, NEW r \in Requests, WriteBody(r)
    PROVE  ReadInv'
<1>0. /\ req[r] \in ReqState /\ Shape(req[r]) /\ ReqAge(req[r]) /\ hist \in HistState
      /\ now \in Nat /\ TypeOK /\ AgeInv /\ req[r].pc = "write" /\ body \in Bodies
      /\ entry \in [Pieces -> Entries] /\ BodyAge /\ EntryAge
      /\ \A X \in [Nat -> Versions] : ExactInv(X) => Epochs(X) /\ ReqExact(X, req[r])
  BY ReqKnown DEF WriteBody, TypeOK, AgeInv
<1>1. UNCHANGED <<now, db, counter, entry, change>>
  BY DEF WriteBody
<1>2. /\ hist' \in HistState /\ hist'.since = hist.since /\ hist'.exact = hist.exact
      /\ hist'.blank = hist.blank /\ hist'.blind = hist.blind
  BY <1>0, HistSteps DEF WriteBody
<1>3. PICK x \in ReqState : x = req[r] /\ x.at \in Nat /\ x.pc = "write" /\ now <= x.at + MaxRequest
  BY <1>0, ReqFields DEF ReqAge
<1>4. \A p \in Pieces : /\ x.ver[p] # Blank => Current(p, x.ver[p], x.at + 1, Span)
                        /\ x.ver[p] = Blank => x.at <= hist.blank
  BY <1>0, <1>3 DEF ReqAge, Has, Full
<1>5. PICK z : z = [x EXCEPT !.pc = "answered", !.tag = None]
  OBVIOUS
<1>6. z \in ReqState /\ Update(r, z)
  <2>1. z \in ReqState
    BY <1>5, NoneFacts DEF ReqState, PCs
  <2> QED BY <1>3, <1>5, <2>1 DEF WriteBody
<1>7. /\ z.pc = "answered" /\ z.ver = x.ver /\ z.tag = None /\ z.cur = x.cur
      /\ z.at = x.at /\ z.exact = x.exact /\ z.usable = x.usable
  BY <1>5 DEF ReqState
<1>8. Shape(z)
  BY <1>7 DEF Shape, Reads
<1>9. AnswerAge(z)'
  <2>1. \A p \in Pieces : z.ver[p] # Blank => Current(p, z.ver[p], z.at + 1, Span)
    BY <1>4, <1>7
  <2>2. \A p \in Pieces : z.ver[p] = Blank => z.at <= hist'.blank
    BY <1>2, <1>4, <1>7
  <2> QED BY <1>0, <1>2, <1>6, <2>1, <2>2, AnswersItself
<1>10. PICK b : b = [ver |-> x.ver, tag |-> x.tag, exp |-> now + TTL]
  OBVIOUS
<1>11. b \in Bodies /\ b.ver = x.ver /\ b.tag = x.tag /\ b.exp = now + TTL /\ now + TTL \in Nat
  <2>1. now + TTL \in Nat
    BY <1>0, Constants
  <2>2. b \in Bodies
    BY <1>10, <2>1, ReqFields DEF Bodies
  <2> QED BY <1>10, <2>1, <2>2
<1>12. body' \in {body, b}
  BY <1>3, <1>10 DEF WriteBody, Expiry
<1>13. ASSUME NEW p \in Pieces
       PROVE  /\ x.ver[p] = Blank => now + TTL <= hist.blank + Span
              /\ x.ver[p] # Blank => Current(p, x.ver[p], now + TTL + 1, 2 * Span)
  <2>1. /\ hist.blank \in Nat /\ Span \in Nat /\ x.ver[p] \in Nat /\ TTL \in Nat /\ MaxRequest \in Nat
        /\ Span = MaxRequest + TTL
    BY <1>0, HistFields, Constants, ReqFields DEF Span
  <2>2. x.ver[p] = Blank => now + TTL <= hist.blank + Span
    BY <1>0, <1>3, <1>4, <2>1
  <2>3. PICK v \in Nat, t \in Nat, s \in Nat, u \in Nat, d \in Nat :
          v = x.ver[p] /\ t = x.at + 1 /\ s = Span /\ u = now + TTL + 1 /\ d = 2 * Span
    <3>1. x.at + 1 \in Nat /\ now + TTL + 1 \in Nat /\ 2 * Span \in Nat
      BY <1>0, <1>3, <2>1
    <3> QED BY <2>1, <3>1, Zenon
  <2>4. ASSUME v # Blank PROVE Current(p, v, u, d)
    <3>1. Current(p, v, t, s)
      BY <1>4, <2>3, <2>4
    <3>2. u + s <= t + d
      BY <1>0, <1>3, <2>1, <2>3
    <3> QED BY <1>0, <3>1, <3>2, Sooner
  <2> QED BY <2>2, <2>3, <2>4
<1>14. BodyAge'
  <2>1. CASE body' = body
    BY <1>0, <1>1, <1>2, <2>1 DEF BodyAge, Current, NoBody, None, Blank
  <2>2. CASE body' = b
    <3>1. /\ body'.exp <= now + TTL
          /\ \A p \in Pieces :
               /\ body'.ver[p] = Blank => body'.exp <= hist.blank + Span
               /\ body'.ver[p] # Blank => Current(p, body'.ver[p], body'.exp + 1, 2 * Span)
      BY <1>11, <1>13, <2>2
    <3> QED BY <1>1, <1>2, <3>1 DEF BodyAge, Current, Blank, Span
  <2> QED BY <1>12, <2>1, <2>2
<1>15. EntryAge'
  BY <1>0, <1>1, <1>2 DEF EntryAge, Current, NoEntry, Blank
<1>16. ASSUME NEW X \in [Nat -> Versions], ExactInv(X)
       PROVE  ReqExact(X, z) /\ EntryExact(X)' /\ BodyExact(X)'
  <2>1. ReqExact(X, x) /\ EntryExact(X) /\ BodyExact(X)
    BY <1>0, <1>3, <1>16 DEF ExactInv
  <2>2. EntryExact(X)'
    BY <1>1, <2>1 DEF EntryExact, AsOf, NoEntry, Blank
  <2>3. BodyExact(X)'
    <3>1. CASE body' = body
      BY <1>1, <2>1, <3>1 DEF BodyExact, AsOf, NoBody, None, Blank
    <3>2. CASE body' = b
      <4>1. /\ "epoch" \in DOMAIN body'.tag
            /\ \A p \in Pieces : body'.ver[p] = Blank \/ AsOf(X, body'.ver[p], body'.tag["epoch"], p)
        BY <1>3, <1>11, <2>1, <3>2 DEF ReqExact
      <4> QED BY <1>1, <4>1 DEF BodyExact, AsOf, Blank
    <3> QED BY <1>12, <3>1, <3>2
  <2>4. ReqExact(X, z)
    <3>1. "epoch" \notin DOMAIN z.tag
      BY <1>7, NoneFacts
    <3>2. ~z.usable
      BY <1>0, <1>3, <1>7 DEF Shape, Reads
    <3> QED BY <1>7, <2>1, <3>1, <3>2 DEF ReqExact, Reads
  <2> QED BY <2>2, <2>3, <2>4
<1>17. body' \in Bodies /\ entry' \in [Pieces -> Entries]
  BY <1>0, <1>1, <1>11, <1>12
<1> QED BY <1>1, <1>2, <1>6, <1>7, <1>8, <1>9, <1>14, <1>15, <1>16, <1>17, Moves

-----------------------------------------------------------------------------
(* Changes *)

\* A step of a change: what was current when it was read still is, and what was
\* as of an epoch still is.
LEMMA Changing ==
    ASSUME ReadInv, UNCHANGED <<now, body, req>>, answer' = Idle,
           db' \in Versions, counter' \in [Counters -> Nat], entry' \in [Pieces -> Entries],
           change' \in Changes, hist' \in HistState, ChangeOK',
           \A p \in Pieces : entry'[p] \in {entry[p], NoEntry},
           \A p \in Pieces : Len(hist'.since[p]) = db'[p] /\ db'[p] > 0,
           hist'.blank = hist.blank, hist.blind => hist'.blind,
           \A p \in Pieces, v, t, s \in Nat :
              Current(p, v, t, s) /\ t <= now + s => Current(p, v, t, s)',
           counter["epoch"] <= counter'["epoch"],
           \A X \in [Nat -> Versions] : Epochs(X) => \A p \in Pieces : hist.exact[p] <= hist'.exact[p],
           \A X \in [Nat -> Versions] : Epochs(X) =>
              \E Y \in [Nat -> Versions] :
                 Epochs(Y)' /\ \A e \in Nat : e <= counter["epoch"] => Y[e] = X[e]
    PROVE  ReadInv'
<1>0. /\ Base /\ TypeOK /\ AgeInv /\ now \in Nat /\ hist \in HistState /\ body \in Bodies
      /\ counter["epoch"] \in Nat /\ counter'["epoch"] \in Nat
      /\ entry \in [Pieces -> Entries] /\ req \in [Requests -> ReqState]
  BY Constants DEF ReadInv, Base, TypeOK
<1>1. TypeOK'
  BY <1>0, IdleFacts DEF TypeOK
<1>2. Base'
  BY <1>0, <1>1 DEF Base, Shape
<1>c. /\ TTL \in Nat /\ Span \in Nat /\ Span >= TTL /\ TTL > 0 /\ 2 * Span \in Nat
      /\ 0 \in Nat
  BY Constants
<1>3. ASSUME NEW r \in Requests PROVE ReqAge(req[r])'
  <2>1. PICK x \in ReqState : x = req[r] /\ ReqAge(x) /\ Shape(x)
    BY <1>0 DEF AgeInv, Base
  <2>2. x.at \in Nat /\ x.at <= now /\ x.at + 1 \in Nat /\ x.piece \in Pieces \cup {"none"}
        /\ \A p \in Pieces : x.ver[p] \in Nat
    BY <2>1, ReqFields DEF ReqAge
  <2>3. x.at + 1 <= now + Span /\ x.at <= now + 0
    BY <1>0, <1>c, <2>2
  <2>4. \A p \in Pieces : x.ver[p] # Blank => Current(p, x.ver[p], x.at + 1, Span)'
    BY <1>c, <2>1, <2>2, <2>3 DEF ReqAge
  <2>5. x.pc = "put" => x.ver[x.piece] # Blank /\ Current(x.piece, x.ver[x.piece], x.at, 0)'
    <3> SUFFICES ASSUME x.pc = "put"
                 PROVE  x.ver[x.piece] # Blank /\ Current(x.piece, x.ver[x.piece], x.at, 0)'
      OBVIOUS
    <3>1. PICK p \in Pieces : p = x.piece
      BY <2>1 DEF Shape, Reads
    <3>2. x.ver[p] # Blank /\ Current(p, x.ver[p], x.at, 0)
      BY <2>1, <3>1 DEF ReqAge
    <3>3. Current(p, x.ver[p], x.at, 0)'
      BY <1>c, <2>2, <2>3, <3>2
    <3> QED BY <3>1, <3>2, <3>3 DEF Current
  <2>6. /\ x.pc # "idle" => now <= x.at + MaxRequest
        /\ \A p \in Pieces : Has(x, p) /\ x.ver[p] = Blank => x.at <= hist.blank
    BY <2>1 DEF ReqAge
  <2> QED BY <2>1, <2>2, <2>4, <2>5, <2>6 DEF ReqAge, Has, Current
<1>4. EntryAge'
  <2> SUFFICES ASSUME NEW p \in Pieces
               PROVE  /\ entry'[p].exp <= now + TTL
                      /\ \/ entry'[p] = NoEntry
                         \/ /\ entry'[p].ver # Blank
                            /\ Current(p, entry[p].ver, entry[p].exp, Span)' 
    BY DEF EntryAge, Current, NoEntry, Blank, Span
  <2>1. PICK e \in Entries : e = entry[p] /\ e.ver \in Nat /\ e.exp \in Nat
    BY <1>0 DEF Entries
  <2>2. e.exp <= now + TTL /\ (e = NoEntry \/ (e.ver # Blank /\ Current(p, e.ver, e.exp, Span)))
    BY <1>0, <2>1 DEF AgeInv, EntryAge
  <2>3. CASE entry'[p] = NoEntry
    BY <1>0, <1>c, <2>3 DEF NoEntry
  <2>4. CASE entry'[p] = e /\ e # NoEntry
    <3>1. e.exp <= now + Span
      BY <1>0, <1>c, <2>1, <2>2
    <3>2. Current(p, e.ver, e.exp, Span)'
      BY <1>c, <2>1, <2>2, <2>4, <3>1
    <3> QED BY <2>1, <2>2, <2>4, <3>2 DEF Current
  <2> QED BY <2>1, <2>3, <2>4
<1>5. BodyAge'
  <2>1. body.exp \in Nat /\ body.exp + 1 \in Nat /\ \A p \in Pieces : body.ver[p] \in Nat
    BY <1>0 DEF Bodies, Versions
  <2>2. /\ body.exp <= now + TTL
        /\ body = NoBody \/ \A p \in Pieces :
              /\ body.ver[p] = Blank => body.exp <= hist.blank + Span
              /\ body.ver[p] # Blank => Current(p, body.ver[p], body.exp + 1, 2 * Span)
    BY <1>0 DEF AgeInv, BodyAge
  <2>3. body.exp + 1 <= now + 2 * Span
    BY <1>0, <1>c, <2>1, <2>2
  <2>4. \A p \in Pieces : body.ver[p] # Blank /\ Current(p, body.ver[p], body.exp + 1, 2 * Span) =>
           Current(p, body.ver[p], body.exp + 1, 2 * Span)'
    BY <1>c, <2>1, <2>3
  <2>5. body = NoBody \/ \A p \in Pieces :
              /\ body.ver[p] = Blank => body.exp <= hist.blank + Span
              /\ body.ver[p] # Blank => Current(p, body.ver[p], body.exp + 1, 2 * Span)'
    BY <2>2, <2>4
  <2> QED BY <2>2, <2>5 DEF BodyAge, Current, NoBody, None, Blank, Span
<1>6. AgeInv'
  <2>1. hist'.blank <= now' /\ answer'.pc # "answered"
    BY <1>0, IdleFacts DEF AgeInv
  <2> QED BY <1>3, <1>4, <1>5, <2>1 DEF AgeInv
<1>7. ASSUME ~hist'.blind PROVE \E Y \in [Nat -> Versions] : ExactInv(Y)'
  <2>1. PICK X \in [Nat -> Versions] : ExactInv(X)
    BY <1>7 DEF ReadInv
  <2>2. PICK Y \in [Nat -> Versions] :
          Epochs(Y)' /\ \A e \in Nat : e <= counter["epoch"] => Y[e] = X[e]
    BY <2>1 DEF ExactInv
  <2>3. ASSUME NEW e \in Nat, NEW v, NEW p \in Pieces, AsOf(X, v, e, p)
        PROVE  AsOf(Y, v, e, p)'
    BY <1>0, <2>2, <2>3 DEF AsOf
  <2>5. EntryExact(Y)'
    <3> SUFFICES ASSUME NEW p \in Pieces, entry'[p] # NoEntry
                 PROVE  entry'[p].epoch <= counter'["epoch"] /\ Y[entry'[p].epoch][p] <= entry'[p].ver
      BY DEF EntryExact, AsOf, NoEntry, Blank
    <3>1. entry'[p] = entry[p]
      OBVIOUS
    <3>2. PICK e \in Entries : e = entry[p] /\ e.epoch \in Nat
      BY <1>0 DEF Entries
    <3>3. AsOf(X, e.ver, e.epoch, p)
      BY <2>1, <3>1, <3>2 DEF ExactInv, EntryExact
    <3>4. AsOf(Y, e.ver, e.epoch, p)'
      BY <2>3, <3>2, <3>3
    <3> QED BY <3>1, <3>2, <3>4 DEF AsOf
  <2>6. BodyExact(Y)'
    <3>1. CASE body = NoBody
      BY <3>1 DEF BodyExact, NoBody, None, Blank
    <3>2. CASE body # NoBody
      <4>1. /\ "epoch" \in DOMAIN body.tag
            /\ \A p \in Pieces : body.ver[p] = Blank \/ AsOf(X, body.ver[p], body.tag["epoch"], p)
        BY <2>1, <3>2 DEF ExactInv, BodyExact
      <4>2. body.tag["epoch"] \in Nat
        BY <1>0, <4>1 DEF Bodies, Partial
      <4>3. \A p \in Pieces : body.ver[p] = Blank \/ AsOf(Y, body.ver[p], body.tag["epoch"], p)'
        BY <2>3, <4>1, <4>2
      <4> QED BY <4>1, <4>3 DEF BodyExact, AsOf, Blank
    <3> QED BY <3>1, <3>2
  <2>7. ASSUME NEW r \in Requests PROVE ReqExact(Y, req[r])'
    <3>1. PICK x \in ReqState : x = req[r] /\ ReqExact(X, x) /\ Shape(x)
      BY <1>0, <2>1 DEF ExactInv, Base
    <3>2. /\ x.epoch \in Nat /\ \A p \in Pieces : x.exact[p] \in Nat
          /\ "epoch" \in DOMAIN x.cur => x.cur["epoch"] \in Nat
          /\ "epoch" \in DOMAIN x.tag => x.tag["epoch"] \in Nat
      BY <3>1, ReqFields DEF Partial
    <3>3. \A p \in Pieces : hist.exact[p] \in Nat /\ hist'.exact[p] \in Nat
      BY <1>0, HistFields
    <3>4. \A p \in Pieces : /\ x.exact[p] <= hist'.exact[p]
                            /\ x.ver[p] = Blank \/ x.exact[p] <= x.ver[p]
      <4> SUFFICES ASSUME NEW p \in Pieces
                   PROVE  /\ x.exact[p] <= hist'.exact[p]
                          /\ x.ver[p] = Blank \/ x.exact[p] <= x.ver[p]
        OBVIOUS
      <4>1. x.exact[p] <= hist.exact[p] /\ (x.ver[p] = Blank \/ x.exact[p] <= x.ver[p])
        BY <3>1 DEF ReqExact
      <4>2. PICK a \in Nat, b \in Nat, c \in Nat :
              a = x.exact[p] /\ b = hist.exact[p] /\ c = hist'.exact[p]
        BY <3>2, <3>3
      <4>3. b <= c
        BY <2>1, <4>2 DEF ExactInv
      <4>4. a <= c
        BY <4>1, <4>2, <4>3
      <4> QED BY <4>1, <4>2, <4>4
    <3>5. ASSUME NEW e \in Nat, e <= counter["epoch"], \A p \in Pieces : x.exact[p] <= X[e][p]
          PROVE  e <= counter'["epoch"] /\ \A p \in Pieces : x.exact[p] <= Y[e][p]
      BY <1>0, <2>2, <3>5
    <3>6. x.usable => /\ x.epoch <= counter'["epoch"]
                      /\ \A p \in Pieces : x.exact[p] <= Y[x.epoch][p]
      BY <3>1, <3>2, <3>5 DEF ReqExact
    <3>7. "epoch" \in DOMAIN x.cur => /\ x.cur["epoch"] <= counter'["epoch"]
                                      /\ \A p \in Pieces : x.exact[p] <= Y[x.cur["epoch"]][p]
      BY <3>1, <3>2, <3>5 DEF ReqExact
    <3>8. x.pc = "put" => AsOf(Y, x.ver[x.piece], x.epoch, x.piece)'
      <4> SUFFICES ASSUME x.pc = "put" PROVE AsOf(Y, x.ver[x.piece], x.epoch, x.piece)'
        OBVIOUS
      <4>0. PICK p \in Pieces : p = x.piece
        BY <3>1 DEF Shape, Reads
      <4>1. PICK v \in Nat : p = x.piece /\ v = x.ver[p]
        BY <3>1, <4>0, ReqFields
      <4>2. AsOf(X, v, x.epoch, p)
        BY <3>1, <4>1 DEF ReqExact
      <4>3. AsOf(Y, v, x.epoch, p)'
        BY <2>3, <3>2, <4>2
      <4> QED BY <4>1, <4>3 DEF AsOf
    <3>9. "epoch" \in DOMAIN x.tag =>
            /\ x.tag["epoch"] <= counter'["epoch"]
            /\ \A p \in Pieces : x.ver[p] = Blank \/ AsOf(Y, x.ver[p], x.tag["epoch"], p)'
            /\ x.usable => x.tag["epoch"] <= x.epoch
      <4> SUFFICES ASSUME "epoch" \in DOMAIN x.tag
                   PROVE  /\ x.tag["epoch"] <= counter'["epoch"]
                          /\ \A p \in Pieces : x.ver[p] = Blank \/ AsOf(Y, x.ver[p], x.tag["epoch"], p)'
                          /\ x.usable => x.tag["epoch"] <= x.epoch
        OBVIOUS
      <4>1. PICK e \in Nat : e = x.tag["epoch"]
        BY <3>2
      <4>2. /\ e <= counter["epoch"]
            /\ \A p \in Pieces : x.ver[p] = Blank \/ AsOf(X, x.ver[p], e, p)
            /\ x.usable => e <= x.epoch
        BY <3>1, <4>1 DEF ReqExact
      <4>3. \A p \in Pieces : x.ver[p] = Blank \/ AsOf(Y, x.ver[p], e, p)'
        BY <2>3, <4>2
      <4>4. e <= counter'["epoch"]
        BY <1>0, <4>2
      <4> QED BY <4>1, <4>2, <4>3, <4>4 DEF AsOf
    <3>10. /\ x.pc \in {"check", "body", "write"} \/ (x.pc \in Reads /\ x.piece # "client") =>
                 "epoch" \in DOMAIN x.tag
           /\ x.pc # "retag"
      BY <3>1 DEF ReqExact
    <3> QED BY <3>1, <3>4, <3>6, <3>7, <3>8, <3>9, <3>10 DEF ReqExact, AsOf, Blank, Reads
  <2>8. \A p \in Pieces : answer'.ver[p] = Blank
    BY IdleFacts
  <2>9. ExactInv(Y)'
    BY <2>2, <2>5, <2>6, <2>7, <2>8 DEF ExactInv, Blank
  <2> QED BY <2>9
<1> QED BY <1>2, <1>6, <1>7 DEF ReadInv

\* What is known of a change.
LEMMA ChangeKnown ==
    ASSUME ReadInv
    PROVE  /\ TypeOK /\ ChangeOK /\ AgeInv /\ hist \in HistState /\ now \in Nat /\ db \in Versions
           /\ counter \in [Counters -> Nat] /\ entry \in [Pieces -> Entries] /\ change \in Changes
           /\ \A p \in Pieces : Len(hist.since[p]) = db[p] /\ db[p] > 0 /\ db[p] \in Nat
           /\ NoChange \in Changes /\ NoEntry \in Entries
<1>1. TypeOK /\ ChangeOK /\ AgeInv
  BY DEF ReadInv, Base
<1>2. NoChange \in Changes /\ NoEntry \in Entries
  BY DEF NoChange, Changes, NoEntry, Entries, Blank
<1> QED BY <1>1, <1>2 DEF TypeOK, AgeInv, Versions

\* A version is current from the moment the next one is not.
LEMMA CommitStep ==
    ASSUME ReadInv, Commit
    PROVE  ReadInv'
<1>0. /\ TypeOK /\ hist \in HistState /\ now \in Nat /\ db \in Versions
      /\ counter \in [Counters -> Nat] /\ entry \in [Pieces -> Entries]
      /\ \A p \in Pieces : Len(hist.since[p]) = db[p] /\ db[p] > 0 /\ db[p] \in Nat
  BY ChangeKnown
<1>1. UNCHANGED <<now, counter, entry, body, req>> /\ answer' = Idle
  BY DEF Commit
<1>2. PICK p \in Pieces, kind \in {"bump", "epoch"} :
          /\ kind = "bump" => p \in Entities
          /\ kind = "epoch" => p # "client"
          /\ db' = [db EXCEPT ![p] = @ + 1]
          /\ change' = [pc |-> kind, piece |-> p]
          /\ hist' = [hist EXCEPT !.changes = @ + 1, !.since[p] = Append(@, now)]
  BY DEF Commit
<1>3. change' \in Changes /\ change'.pc = kind /\ change'.piece = p
  BY <1>2 DEF Changes
<1>4. ChangeOK'
  BY <1>2, <1>3 DEF ChangeOK, Entities
<1>5. db' \in Versions /\ db'[p] = db[p] + 1 /\ \A q \in Pieces : q # p => db'[q] = db[q]
  <2>1. db[p] + 1 \in Nat
    BY <1>0
  <2> QED BY <1>0, <1>2, <2>1 DEF Versions
<1>6. /\ hist' \in HistState /\ hist'.exact = hist.exact /\ hist'.blank = hist.blank
      /\ hist'.blind = hist.blind /\ hist'.since[p] = Append(hist.since[p], now)
      /\ \A q \in Pieces : q # p => hist'.since[q] = hist.since[q]
  <2>1. /\ hist.since \in [Pieces -> Seq(Nat)] /\ hist.changes + 1 \in Nat
        /\ Append(hist.since[p], now) \in Seq(Nat)
    BY <1>0, HistFields
  <2>s. PICK S : S = [hist.since EXCEPT ![p] = Append(hist.since[p], now)]
    OBVIOUS
  <2>2. /\ S \in [Pieces -> Seq(Nat)] /\ S = [hist.since EXCEPT ![p] = Append(hist.since[p], now)]
        /\ S[p] = Append(hist.since[p], now) /\ \A q \in Pieces : q # p => S[q] = hist.since[q]
    BY <2>1, <2>s
  <2>3. PICK h : h = [hist EXCEPT !.changes = hist.changes + 1]
    OBVIOUS
  <2>4. /\ h \in HistState /\ h.since = hist.since /\ h.exact = hist.exact /\ h.blank = hist.blank
        /\ h.blind = hist.blind
    BY <1>0, <2>1, <2>3 DEF HistState
  <2>5. hist' = [h EXCEPT !.since = S]
    BY <1>2, <2>2, <2>3, <2>4
  <2>6. hist' \in HistState
    BY <2>2, <2>4, <2>5 DEF HistState
  <2>7. hist'.since = S /\ hist'.exact = h.exact /\ hist'.blank = h.blank /\ hist'.blind = h.blind
    BY <2>4, <2>5 DEF HistState
  <2> QED BY <2>2, <2>4, <2>6, <2>7
<1>7. ASSUME NEW q \in Pieces, NEW v \in Nat, NEW t \in Nat, NEW s \in Nat, Current(q, v, t, s),
             t <= now + s
      PROVE  Current(q, v, t, s)'
  <2>1. CASE q # p
    BY <1>6, <1>7, <2>1 DEF Current
  <2>2. CASE q = p
    <3>1. PICK S \in Seq(Nat) : S = hist.since[p]
      BY <1>0, HistFields
    <3>2. hist'.since[q] = Append(S, now)
      BY <1>6, <2>2, <3>1
    <3>3. v < Len(S) => t <= S[v + 1] + s
      BY <1>7, <2>2, <3>1 DEF Current
    <3>4. v < Len(Append(S, now)) => t <= Append(S, now)[v + 1] + s
      <4>1. Len(Append(S, now)) = Len(S) + 1 /\ Len(S) \in Nat
        BY <1>0
      <4>2. CASE v < Len(S)
        <5>1. Append(S, now)[v + 1] = S[v + 1]
          BY <1>0, <4>1, <4>2
        <5> QED BY <3>3, <4>2, <5>1
      <4>3. CASE v = Len(S)
        <5>1. Append(S, now)[v + 1] = now
          BY <1>0, <4>1, <4>3
        <5> QED BY <1>7, <5>1
      <4> QED BY <4>1, <4>2, <4>3
    <3> QED BY <3>2, <3>4 DEF Current
  <2> QED BY <2>1, <2>2
<1>8. \A q \in Pieces : Len(hist'.since[q]) = db'[q] /\ db'[q] > 0
  <2> SUFFICES ASSUME NEW q \in Pieces PROVE Len(hist'.since[q]) = db'[q] /\ db'[q] > 0
    OBVIOUS
  <2>1. CASE q # p
    BY <1>0, <1>5, <1>6, <2>1
  <2>2. CASE q = p
    <3>1. hist.since[p] \in Seq(Nat) /\ Len(Append(hist.since[p], now)) = Len(hist.since[p]) + 1
      BY <1>0, HistFields
    <3> QED BY <1>0, <1>5, <1>6, <2>2, <3>1
  <2> QED BY <2>1, <2>2
<1>9. \A q \in Pieces : hist.exact[q] <= hist'.exact[q]
  BY <1>0, <1>6, HistFields
<1>10. ASSUME NEW X \in [Nat -> Versions], Epochs(X) PROVE Epochs(X)'
  <2>1. \A q \in Pieces : hist'.exact[q] <= db'[q]
    <3> SUFFICES ASSUME NEW q \in Pieces PROVE hist.exact[q] <= db'[q]
      BY <1>6
    <3>1. hist.exact[q] \in Nat /\ hist.exact[q] <= db[q] /\ db[q] \in Nat /\ db'[q] \in {db[q], db[q] + 1}
      BY <1>0, <1>5, <1>10, HistFields DEF Epochs
    <3> QED BY <3>1
  <2> QED BY <1>1, <1>6, <1>10, <2>1 DEF Epochs
<1>11. /\ counter' \in [Counters -> Nat] /\ entry' \in [Pieces -> Entries]
       /\ counter["epoch"] <= counter'["epoch"] /\ \A q \in Pieces : entry'[q] \in {entry[q], NoEntry}
  BY <1>0, <1>1, Constants
<1> QED BY <1>1, <1>3, <1>4, <1>5, <1>6, <1>7, <1>8, <1>9, <1>10, <1>11, Changing

\* The frame of the steps of a change after its commit.
LEMMA AfterCommit ==
    ASSUME ReadInv, UNCHANGED <<now, db, body, req>>, answer' = Idle,
           counter' \in [Counters -> Nat], entry' \in [Pieces -> Entries],
           change' \in Changes, hist' \in HistState, ChangeOK',
           \A p \in Pieces : entry'[p] \in {entry[p], NoEntry},
           hist'.since = hist.since, hist'.blank = hist.blank, hist'.blind = hist.blind,
           counter["epoch"] <= counter'["epoch"],
           \A X \in [Nat -> Versions] : Epochs(X) =>
              /\ \A p \in Pieces : hist.exact[p] <= hist'.exact[p]
              /\ \E Y \in [Nat -> Versions] :
                    Epochs(Y)' /\ \A e \in Nat : e <= counter["epoch"] => Y[e] = X[e]
    PROVE  ReadInv'
<1>1. \A p \in Pieces : Len(hist'.since[p]) = db'[p] /\ db'[p] > 0
  BY ChangeKnown
<1>2. \A p \in Pieces, v, t, s \in Nat :
        Current(p, v, t, s) /\ t <= now + s => Current(p, v, t, s)'
  BY DEF Current
<1>3. db' \in Versions
  BY ChangeKnown
<1> QED BY <1>1, <1>2, <1>3, Changing

\* The generation of what changed.
LEMMA BumpStep ==
    ASSUME ReadInv, Bump
    PROVE  ReadInv'
<1>0. /\ TypeOK /\ hist \in HistState /\ now \in Nat /\ counter \in [Counters -> Nat]
      /\ entry \in [Pieces -> Entries] /\ change \in Changes /\ ChangeOK
  BY ChangeKnown
<1>1. UNCHANGED <<now, db, entry, body, req>> /\ answer' = Idle /\ change.pc = "bump"
  BY DEF Bump
<1>2. change.piece \in Entities /\ change.piece # "epoch" /\ change.piece \in Counters
  <2>1. change.piece \in Entities
    BY <1>0, <1>1 DEF ChangeOK
  <2> QED BY <2>1, Constants DEF Counters
<1>3. counter' \in [Counters -> Nat] /\ counter'["epoch"] = counter["epoch"] /\ counter["epoch"] \in Nat
  BY <1>0, <1>2, Constants DEF Bump
<1>4. /\ hist' \in HistState /\ hist'.since = hist.since /\ hist'.exact = hist.exact
      /\ hist'.blank = hist.blank /\ hist'.blind = hist.blind
  BY <1>0, HistSteps DEF Bump
<1>5. change' \in Changes /\ change'.pc = "delete" /\ change'.piece = change.piece
  BY <1>0 DEF Bump, Changes
<1>6. ChangeOK'
  BY <1>2, <1>5 DEF ChangeOK, Entities
<1>7. ASSUME NEW X \in [Nat -> Versions], Epochs(X)
      PROVE  Epochs(X)' /\ \A p \in Pieces : hist.exact[p] <= hist'.exact[p]
  <2>1. Epochs(X)'
    BY <1>1, <1>3, <1>4, <1>7 DEF Epochs
  <2>2. \A p \in Pieces : hist.exact[p] <= hist'.exact[p]
    BY <1>0, <1>4, HistFields
  <2> QED BY <2>1, <2>2
<1>8. /\ entry' \in [Pieces -> Entries] /\ counter["epoch"] <= counter'["epoch"]
      /\ \A q \in Pieces : entry'[q] \in {entry[q], NoEntry}
  BY <1>0, <1>1, <1>3
<1> QED BY <1>1, <1>3, <1>4, <1>5, <1>6, <1>7, <1>8, AfterCommit

\* The entry of what changed.
LEMMA DeleteStep ==
    ASSUME ReadInv, Delete
    PROVE  ReadInv'
<1>0. /\ TypeOK /\ hist \in HistState /\ now \in Nat /\ counter \in [Counters -> Nat]
      /\ entry \in [Pieces -> Entries] /\ NoChange \in Changes /\ NoEntry \in Entries
  BY ChangeKnown
<1>1. UNCHANGED <<now, db, counter, body, req>> /\ answer' = Idle /\ change' = NoChange
  BY DEF Delete
<1>2. counter' \in [Counters -> Nat] /\ counter["epoch"] \in Nat /\ counter["epoch"] <= counter'["epoch"]
  BY <1>0, <1>1, Constants
<1>3. /\ hist' \in HistState /\ hist'.since = hist.since /\ hist'.exact = hist.exact
      /\ hist'.blank = hist.blank /\ hist'.blind = hist.blind
  BY <1>0, HistSteps DEF Delete
<1>4. ChangeOK'
  BY <1>1 DEF ChangeOK, NoChange
<1>5. entry' \in [Pieces -> Entries] /\ \A q \in Pieces : entry'[q] \in {entry[q], NoEntry}
  <2>1. CASE UNCHANGED entry
    BY <1>0, <2>1
  <2>2. CASE entry' = [entry EXCEPT ![change.piece] = NoEntry]
    BY <1>0, <2>2
  <2> QED BY <2>1, <2>2 DEF Delete
<1>6. ASSUME NEW X \in [Nat -> Versions], Epochs(X)
      PROVE  Epochs(X)' /\ \A p \in Pieces : hist.exact[p] <= hist'.exact[p]
  <2>1. Epochs(X)'
    BY <1>1, <1>3, <1>6 DEF Epochs
  <2>2. \A p \in Pieces : hist.exact[p] <= hist'.exact[p]
    BY <1>0, <1>3, HistFields
  <2> QED BY <2>1, <2>2
<1>7. change' \in Changes
  BY <1>0, <1>1
<1> QED BY <1>1, <1>2, <1>3, <1>4, <1>5, <1>6, <1>7, AfterCommit

\* A definition change takes effect with the next epoch.
LEMMA BumpEpochStep ==
    ASSUME ReadInv, BumpEpoch
    PROVE  ReadInv'
<1>0. /\ TypeOK /\ hist \in HistState /\ now \in Nat /\ counter \in [Counters -> Nat] /\ db \in Versions
      /\ entry \in [Pieces -> Entries] /\ NoChange \in Changes /\ ChangeOK
      /\ \A q \in Pieces : db[q] \in Nat
  BY ChangeKnown
<1>1. UNCHANGED <<now, db, entry, body, req>> /\ answer' = Idle /\ change' = NoChange /\ change.pc = "epoch"
  BY DEF BumpEpoch
<1>2. PICK p \in Pieces : p = change.piece /\ p # "client"
  BY <1>0, <1>1 DEF ChangeOK
<1>3. PICK E \in Nat : E = counter["epoch"]
  BY <1>0, Constants
<1>4. change' \in Changes /\ ChangeOK'
  BY <1>0, <1>1 DEF ChangeOK, NoChange
<1>5. entry' \in [Pieces -> Entries] /\ \A q \in Pieces : entry'[q] \in {entry[q], NoEntry}
  BY <1>0, <1>1
<1>6. CASE Fault /\ UNCHANGED counter
  <2>1. /\ hist' \in HistState /\ hist'.since = hist.since /\ hist'.exact = hist.exact
        /\ hist'.blank = hist.blank /\ hist'.blind = hist.blind
    BY <1>0, <1>6, HistSteps
  <2>2. ASSUME NEW X \in [Nat -> Versions], Epochs(X)
        PROVE  Epochs(X)' /\ \A q \in Pieces : hist.exact[q] <= hist'.exact[q]
    <3>1. Epochs(X)'
      BY <1>1, <1>6, <2>1, <2>2 DEF Epochs
    <3>2. \A q \in Pieces : hist.exact[q] <= hist'.exact[q]
      BY <1>0, <2>1, HistFields
    <3> QED BY <3>1, <3>2
  <2>3. counter' \in [Counters -> Nat] /\ counter["epoch"] <= counter'["epoch"]
    BY <1>0, <1>3, <1>6
  <2> QED BY <1>1, <1>4, <1>5, <2>1, <2>2, <2>3, AfterCommit
<1>7. CASE /\ counter' = [counter EXCEPT !["epoch"] = @ + 1]
           /\ hist' = [hist EXCEPT !.exact[change.piece] = db[change.piece]]
  <2>1. counter' \in [Counters -> Nat] /\ counter'["epoch"] = E + 1 /\ E + 1 \in Nat
    <3>1. E + 1 \in Nat
      BY <1>3
    <3> QED BY <1>0, <1>3, <1>7, <3>1, Constants
  <2>s. PICK V : V = [hist.exact EXCEPT ![p] = db[p]]
    OBVIOUS
  <2>2. V \in Versions /\ V[p] = db[p] /\ \A q \in Pieces : q # p => V[q] = hist.exact[q]
    <3>1. hist.exact \in Versions
      BY <1>0, HistFields
    <3> QED BY <1>0, <2>s, <3>1 DEF Versions
  <2>3. /\ hist' \in HistState /\ hist'.since = hist.since /\ hist'.exact = V
        /\ hist'.blank = hist.blank /\ hist'.blind = hist.blind
    <3>1. hist' = [hist EXCEPT !.exact = V]
      BY <1>2, <1>7, <2>s
    <3>2. hist' \in HistState
      BY <1>0, <2>2, <3>1 DEF HistState
    <3> QED BY <1>0, <3>1, <3>2 DEF HistState
  <2>4. ASSUME NEW X \in [Nat -> Versions], Epochs(X)
        PROVE  /\ \A q \in Pieces : hist.exact[q] <= hist'.exact[q]
               /\ \E Y \in [Nat -> Versions] :
                     Epochs(Y)' /\ \A e \in Nat : e <= counter["epoch"] => Y[e] = X[e]
    <3>1. \A q \in Pieces : /\ hist.exact[q] \in Nat /\ hist.exact[q] <= db[q] /\ V[q] \in Nat
                            /\ X[E][q] = hist.exact[q]
      BY <1>0, <1>3, <2>2, <2>4, HistFields DEF Epochs, Versions
    <3>2. \A q \in Pieces : hist.exact[q] <= V[q] /\ V[q] <= db[q]
      BY <1>0, <2>2, <3>1
    <3>y. PICK Y : Y = [X EXCEPT ![E + 1] = V]
      OBVIOUS
    <3>3. /\ Y \in [Nat -> Versions] /\ Y[E + 1] = V
          /\ \A e \in Nat : e <= E => Y[e] = X[e]
      <4>1. \A e \in Nat : e <= E => e # E + 1
        BY <1>3
      <4> QED BY <2>1, <2>2, <3>y, <4>1
    <3>4. ASSUME NEW e \in Nat, NEW f \in Nat, e <= f, f <= E + 1, NEW q \in Pieces
          PROVE  Y[e][q] <= Y[f][q]
      <4>0. Y[e] \in Versions /\ Y[f] \in Versions
        BY <3>3
      <4>n. Y[e][q] \in Nat /\ Y[f][q] \in Nat
        BY <4>0 DEF Versions
      <4>m. \A d, g \in Nat : d <= g /\ g <= E => X[d][q] <= X[g][q]
        BY <1>3, <2>4 DEF Epochs
      <4>1. CASE f <= E
        <5>1. e <= E
          BY <1>3, <3>4, <4>1
        <5> QED BY <3>3, <3>4, <4>1, <4>m, <5>1
      <4>2. CASE e = E + 1
        <5>1. f = E + 1
          BY <1>3, <3>4, <4>2
        <5> QED BY <4>2, <4>n, <5>1
      <4>3. CASE e <= E /\ f = E + 1
        <5>1. X[e][q] <= X[E][q]
          <6>1. E <= E
            BY <1>3
          <6> QED BY <4>3, <4>m, <6>1
        <5>2. PICK a \in Nat, b \in Nat, c \in Nat : a = Y[e][q] /\ b = hist.exact[q] /\ c = V[q]
          BY <3>1, <4>n
        <5>3. a <= b /\ b <= c
          BY <3>1, <3>2, <3>3, <4>3, <5>1, <5>2
        <5>4. a <= c
          BY <5>3
        <5> QED BY <3>3, <4>3, <5>2, <5>4
      <4> QED BY <1>3, <3>4, <4>1, <4>2, <4>3
    <3>5. "client" \in Pieces => V["client"] = 0
      BY <1>2, <2>2, <2>4 DEF Epochs
    <3>6. Epochs(Y)'
      BY <1>1, <2>1, <2>3, <3>2, <3>3, <3>4, <3>5 DEF Epochs
    <3> QED BY <1>3, <2>3, <3>2, <3>3, <3>6
  <2>5. counter["epoch"] <= counter'["epoch"]
    BY <1>3, <2>1
  <2> QED BY <1>1, <1>4, <1>5, <2>1, <2>3, <2>4, <2>5, AfterCommit
<1> QED BY <1>6, <1>7 DEF BumpEpoch

\* Time passes.
LEMMA TickStep ==
    ASSUME ReadInv, Tick
    PROVE  ReadInv'
<1>0. Base /\ TypeOK /\ AgeInv /\ now \in Nat /\ hist \in HistState
  BY DEF ReadInv, Base, TypeOK
<1>1. /\ UNCHANGED <<db, counter, entry, body, req, change, hist>> /\ answer' = Idle
      /\ now' = now + 1 /\ now' \in Nat
  BY <1>0 DEF Tick
<1>2. Base'
  BY <1>0, <1>1, IdleFacts DEF Base, TypeOK, ChangeOK, Shape
<1>3. ASSUME NEW r \in Requests PROVE ReqAge(req[r])'
  <2>1. PICK x \in ReqState : x = req[r] /\ ReqAge(x) /\ x.at \in Nat
    BY <1>0, ReqFields DEF AgeInv, TypeOK
  <2>2. x.at <= now + 1
    BY <1>0, <2>1 DEF ReqAge
  <2>3. x.pc # "idle" => now + 1 <= x.at + MaxRequest
    <3>1. x.pc # "idle" => now < x.at + MaxRequest
      BY <2>1 DEF Tick
    <3> QED BY <1>0, <2>1, <3>1, Constants
  <2> QED BY <1>1, <2>1, <2>2, <2>3 DEF ReqAge, Has, Current
<1>4. EntryAge'
  <2>1. \A p \in Pieces : entry[p].exp \in Nat /\ TTL \in Nat
    BY <1>0, Constants DEF TypeOK, Entries
  <2>2. \A p \in Pieces : entry[p].exp <= now + TTL
    BY <1>0 DEF AgeInv, EntryAge
  <2>3. \A p \in Pieces : entry[p].exp <= now + 1 + TTL
    BY <1>0, <2>1, <2>2
  <2> QED BY <1>0, <1>1, <2>3 DEF AgeInv, EntryAge, Current, NoEntry, Blank
<1>5. BodyAge'
  <2>1. body.exp \in Nat /\ TTL \in Nat
    BY <1>0, Constants DEF TypeOK, Bodies
  <2>2. body.exp <= now + 1 + TTL
    BY <1>0, <2>1 DEF AgeInv, BodyAge
  <2> QED BY <1>0, <1>1, <2>2 DEF AgeInv, BodyAge, Current, NoBody, None, Blank
<1>6. AgeInv'
  <2>1. hist'.blank <= now'
    BY <1>0, <1>1, HistFields DEF AgeInv
  <2>2. answer'.pc # "answered"
    BY <1>1, IdleFacts
  <2>3. \A p \in Pieces : Len(hist'.since[p]) = db'[p] /\ db'[p] > 0
    BY <1>0, <1>1 DEF AgeInv
  <2> QED BY <1>3, <1>4, <1>5, <2>1, <2>2, <2>3 DEF AgeInv
<1>7. ASSUME ~hist'.blind PROVE \E X \in [Nat -> Versions] : ExactInv(X)'
  <2>1. PICK X \in [Nat -> Versions] : ExactInv(X)
    BY <1>1, <1>7 DEF ReadInv
  <2>2. Epochs(X)' /\ EntryExact(X)' /\ BodyExact(X)'
    BY <1>1, <2>1 DEF ExactInv, Epochs, EntryExact, BodyExact, AsOf, NoEntry, NoBody, None, Blank
  <2>3. \A r \in Requests : ReqExact(X, req[r])'
    BY <1>1, <2>1 DEF ExactInv, ReqExact, AsOf, Blank, Reads
  <2>4. \A p \in Pieces : answer'.ver[p] = Blank
    BY <1>1, IdleFacts
  <2>5. ExactInv(X)'
    BY <2>2, <2>3, <2>4 DEF ExactInv, Blank
  <2> QED BY <2>5
<1> QED BY <1>2, <1>6, <1>7 DEF ReadInv

\* Nothing happens.
LEMMA ReadStutter ==
    ASSUME ReadInv, UNCHANGED vars
    PROVE  ReadInv'
<1>1. UNCHANGED <<now, db, counter, entry, body, req, answer, change, hist>>
  BY DEF vars
<1>2. Base'
  BY <1>1 DEF ReadInv, Base, TypeOK, ChangeOK, Shape
<1>3. AgeInv'
  <2>1. AgeInv
    BY DEF ReadInv
  <2>2. \A r \in Requests : ReqAge(req[r])'
    BY <1>1, <2>1 DEF AgeInv, ReqAge, Has, Current
  <2>3. EntryAge' /\ BodyAge'
    BY <1>1, <2>1 DEF AgeInv, EntryAge, BodyAge, Current, NoEntry, NoBody, None, Blank
  <2>4. answer'.pc = "answered" => AnswerAge(answer)'
    BY <1>1, <2>1 DEF AgeInv, AnswerAge, Current
  <2> QED BY <1>1, <2>1, <2>2, <2>3, <2>4 DEF AgeInv
<1>4. ASSUME ~hist'.blind PROVE \E X \in [Nat -> Versions] : ExactInv(X)'
  <2>1. PICK X \in [Nat -> Versions] : ExactInv(X)
    BY <1>1, <1>4 DEF ReadInv
  <2>2. Epochs(X)' /\ EntryExact(X)' /\ BodyExact(X)'
    BY <1>1, <2>1 DEF ExactInv, Epochs, EntryExact, BodyExact, AsOf, NoEntry, NoBody, None, Blank
  <2>3. \A r \in Requests : ReqExact(X, req[r])'
    BY <1>1, <2>1 DEF ExactInv, ReqExact, AsOf, Blank, Reads
  <2>4. ExactInv(X)'
    BY <1>1, <2>1, <2>2, <2>3 DEF ExactInv, Blank
  <2> QED BY <2>4
<1> QED BY <1>2, <1>3, <1>4 DEF ReadInv

\* The first state: no entry, no body, no epoch but the first.
LEMMA ReadInit == Init => ReadInv
<1> SUFFICES ASSUME Init PROVE ReadInv
  OBVIOUS
<1>0. /\ now = 0 /\ db = [p \in Pieces |-> 1] /\ counter = [c \in Counters |-> 0]
      /\ entry = [p \in Pieces |-> NoEntry] /\ body = NoBody /\ req = [r \in Requests |-> Idle]
      /\ answer = Idle /\ change = NoChange /\ hist = InitHist
  BY DEF Init
<1>1. TypeOK
  <2>1. [p \in Pieces |-> Blank] \in Versions /\ <<0>> \in Seq(Nat)
    BY DEF Versions, Blank
  <2>2. hist \in HistState
    BY <1>0, <2>1 DEF InitHist, HistState
  <2>3. body \in Bodies
    BY <1>0, <2>1, NoneFacts DEF NoBody, Bodies
  <2>4. NoEntry \in Entries /\ NoChange \in Changes
    BY DEF NoEntry, Entries, Blank, NoChange, Changes
  <2> QED BY <1>0, <2>2, <2>3, <2>4, IdleFacts DEF TypeOK, Versions
<1>2. Shape(Idle) /\ ReqAge(Idle) /\ \A X : ReqExact(X, Idle)
  BY <1>1, IdleOK
<1>3. Base
  BY <1>0, <1>1, <1>2 DEF Base, ChangeOK, NoChange
<1>4. AgeInv
  <2>1. \A p \in Pieces : Len(hist.since[p]) = db[p] /\ db[p] > 0
    BY <1>0 DEF InitHist
  <2>2. EntryAge /\ BodyAge /\ hist.blank <= now
    BY <1>0, Constants DEF EntryAge, BodyAge, NoEntry, NoBody, InitHist
  <2>3. answer.pc # "answered"
    BY <1>0, IdleFacts
  <2> QED BY <1>0, <1>2, <2>1, <2>2, <2>3 DEF AgeInv
<1>5. \E X \in [Nat -> Versions] : ExactInv(X)
  <2>1. PICK Z : Z = [p \in Pieces |-> Blank]
    OBVIOUS
  <2>2. PICK X : X = [e \in Nat |-> Z]
    OBVIOUS
  <2>3. Z \in Versions /\ X \in [Nat -> Versions] /\ \A p \in Pieces : Z[p] = 0
    BY <2>1, <2>2 DEF Versions, Blank
  <2>4. hist.exact = Z /\ counter["epoch"] = 0
    BY <1>0, <2>1, Constants DEF InitHist
  <2>5. Epochs(X)
    <3>1. X[counter["epoch"]] = hist.exact
      BY <2>2, <2>4
    <3>2. \A e, f \in Nat : \A p \in Pieces : X[e][p] <= X[f][p]
      BY <2>2, <2>3
    <3>3. \A p \in Pieces : hist.exact[p] <= db[p]
      BY <1>0, <2>3, <2>4
    <3>4. "client" \in Pieces => hist.exact["client"] = 0
      BY <2>3, <2>4
    <3> QED BY <2>3, <3>1, <3>2, <3>3, <3>4 DEF Epochs
  <2>6. EntryExact(X) /\ BodyExact(X)
    BY <1>0 DEF EntryExact, BodyExact
  <2>7. \A r \in Requests : ReqExact(X, req[r])
    BY <1>0, <1>2
  <2>8. \A p \in Pieces : answer.ver[p] = Blank
    BY <1>0, IdleFacts
  <2>9. ExactInv(X)
    BY <2>5, <2>6, <2>7, <2>8 DEF ExactInv
  <2> QED BY <2>3, <2>9
<1> QED BY <1>3, <1>4, <1>5 DEF ReadInv

-----------------------------------------------------------------------------
(* Theorems *)

\* What every cached entry, every cached body and every request under way can
\* be, given what it is tagged with and when it expires.
THEOREM ReadsSafe == Spec => []ReadInv
<1>1. ReadInv /\ [Next]_vars => ReadInv'
  <2> SUFFICES ASSUME ReadInv, [Next]_vars PROVE ReadInv'
    OBVIOUS
  <2>1. ASSUME NEW r \in Requests, Request(r) PROVE ReadInv'
    <3>1. CASE Begin(r) BY <3>1, BeginStep
    <3>2. CASE Epoch(r) BY <3>2, EpochStep
    <3>3. CASE Get(r) BY <3>3, GetStep
    <3>4. CASE Load(r) BY <3>4, LoadStep
    <3>5. CASE Put(r) BY <3>5, PutStep
    <3>6. CASE ReadCounter(r) BY <3>6, ReadCounterStep
    <3>7. CASE NoCounters(r) BY <3>7, NoCountersStep
    <3>8. CASE ReadBody(r) BY <3>8, ReadBodyStep
    <3>9. CASE WriteBody(r) BY <3>9, WriteBodyStep
    <3> QED BY <2>1, <3>1, <3>2, <3>3, <3>4, <3>5, <3>6, <3>7, <3>8, <3>9 DEF Request
  <2>2. CASE Commit BY <2>2, CommitStep
  <2>3. CASE Bump BY <2>3, BumpStep
  <2>4. CASE Delete BY <2>4, DeleteStep
  <2>5. CASE BumpEpoch BY <2>5, BumpEpochStep
  <2>6. CASE Tick BY <2>6, TickStep
  <2>7. CASE UNCHANGED vars BY <2>7, ReadStutter
  <2> QED BY <2>1, <2>2, <2>3, <2>4, <2>5, <2>6, <2>7 DEF Next
<1> QED BY <1>1, ReadInit, PTL DEF Spec

\* A request that begins after a definition change's epoch bump answers with
\* that change, whatever loads, entry writes and body writes were under way
\* when the epoch was bumped and however many calls on the cache fail, unless
\* some request could not read its generation (claims_cache.rs,
\* userinfo_cache.rs).
THEOREM DefinitionsHeeded == Spec => []DefinitionsExact
<1>1. ReadInv => DefinitionsExact
  <2> SUFFICES ASSUME ReadInv, ~hist.blind, NEW p \in Pieces
               PROVE  answer.ver[p] = Blank \/ answer.ver[p] >= answer.exact[p]
    BY DEF DefinitionsExact
  <2>1. PICK X \in [Nat -> Versions] : ExactInv(X)
    BY DEF ReadInv
  <2>2. answer.ver[p] \in Nat /\ answer.exact[p] \in Nat
    BY ReqFields DEF ReadInv, Base, TypeOK
  <2> QED BY <2>1, <2>2 DEF ExactInv
<1> QED BY <1>1, ReadsSafe, PTL

\* An answer is never older than a request, an entry's life, a request and a
\* body's life put together, even when every invalidation fails: each hand from
\* storage to entry to body adds one lifetime and one request.
THEOREM AnswersFresh == Spec => []StaleBounded
<1>1. ReadInv => StaleBounded
  <2> SUFFICES ASSUME ReadInv, answer.pc = "answered", NEW p \in Pieces
               PROVE  IF answer.ver[p] = Blank THEN answer.at < hist.blank + MaxRequest + TTL
                      ELSE answer.ver[p] < Len(hist.since[p]) =>
                             answer.at + 2 <= hist.since[p][answer.ver[p] + 1] + 2 * (MaxRequest + TTL)
    BY DEF StaleBounded
  <2>1. /\ answer.ver[p] = Blank => answer.at < hist.blank + Span
        /\ answer.ver[p] # Blank => Current(p, answer.ver[p], answer.at + 2, 2 * Span)
    BY DEF ReadInv, AgeInv, AnswerAge
  <2>2. answer.at \in Nat /\ hist.blank \in Nat
    BY ReqFields, HistFields DEF ReadInv, Base, TypeOK
  <2>3. TTL \in Nat /\ MaxRequest \in Nat
    BY Constants
  <2> QED BY <2>1, <2>2, <2>3 DEF Current, Span
<1> QED BY <1>1, ReadsSafe, PTL

=============================================================================
