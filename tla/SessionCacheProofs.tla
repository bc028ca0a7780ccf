------------------------- MODULE SessionCacheProofs -------------------------
(***************************************************************************)
(* The session-validity cache for any number of sessions, readers and      *)
(* deleters and any lifetimes the constants' assumption allows: a logout   *)
(* is seen by every later request, and cached answers age out.             *)
(***************************************************************************)
EXTENDS SessionCache, TLAPS

SnapState == [kind : {"none", "pos", "neg"}, v : Nat, g : Nat, exp : Nat]
ReaderPCs == {"idle", "version", "tombstone", "before", "row", "load", "after", "positive",
              "negative", "yes", "no"}
ReaderState == [pc : ReaderPCs, sid : Sessions \cup {None}, v : Nat, g : Nat, sure : BOOLEAN,
                at : Nat, was : {"present", "absent", "either"}, long : BOOLEAN, late : BOOLEAN]
DeleterState == [pc : {"idle", "mark", "unmark", "drop", "bump"}, sid : Sessions \cup {None},
                 id : Nat]

\* Every variable has its shape.
TypeOK ==
    /\ now \in Nat /\ version \in Nat /\ creates \in Nat /\ deletes \in Nat
    /\ row \subseteq Sessions
    /\ snap \in [Sessions -> SnapState]
    /\ tomb \in [Sessions -> [id : Nat, exp : Nat]]
    /\ reader \in [Readers -> ReaderState]
    /\ deleter \in [Deleters -> DeleterState]
    /\ since \in [Sessions -> Nat]
    /\ ended \in [Sessions -> BOOLEAN]

\* A snapshot is in the cache until it expires.  One that contradicts the row
\* was written by a request that had begun when the row changed.
SnapInv ==
    \A s \in Sessions :
        /\ since[s] <= now
        /\ snap[s].kind # "none" => now < snap[s].exp
        /\ snap[s].kind = "pos" =>
            /\ snap[s].exp <= now + PosTTL
            /\ s \notin row => snap[s].exp <= since[s] + MaxRequest + PosTTL
        /\ snap[s].kind = "neg" =>
            /\ snap[s].exp <= now + NegTTL
            /\ s \in row => snap[s].exp <= since[s] + MaxRequest + NegTTL

\* No tombstone that is about to be written has identity g.
Unseen(g) ==
    /\ g <= deletes
    /\ \A d \in Deleters : deleter[d].pc = "mark" => deleter[d].id # g

\* A deleter knows its session, and the tombstone it is about to write has an
\* identity nobody has seen.
IdInv ==
    /\ \A d \in Deleters :
        /\ deleter[d].pc \in {"mark", "unmark", "drop"} => deleter[d].sid \in Sessions
        /\ deleter[d].pc = "mark" =>
            /\ deleter[d].id # 0 /\ deleter[d].id <= deletes
            /\ \A e \in Deleters : deleter[e].pc = "mark" /\ deleter[e].id = deleter[d].id => e = d
    /\ \A s \in Sessions : Unseen(tomb[s].id) /\ Unseen(snap[s].g)

\* A tombstone with identity g is not the one of session s.
Outdated(s, g) == tomb[s].id = 0 \/ tomb[s].id # g

\* After a logout the tombstone differs from everything the cache held before,
\* for longer than any of that lives.
EndedInv ==
    \A s \in Sessions : ended[s] =>
        /\ s \notin row
        /\ \/ tomb[s].id # 0 /\ tomb[s].exp >= since[s] + TombTTL
           \/ now >= since[s] + TombTTL
        /\ snap[s].kind = "pos" => Outdated(s, snap[s].g)

\* A reader that has seen the row and may store a positive snapshot, and one
\* that verifies the snapshot it has read.
Storing(x) == x.pc \in {"load", "after", "positive"}
Verifying(x) == x.pc \in {"version", "tombstone"}

\* What reader x remembers of its start is still so...
Remembers(x) ==
    /\ x.sid \in Sessions
    /\ x.at <= now /\ now <= x.at + MaxRequest
    /\ x.was = "present" => x.sid \in row
    /\ x.was = "absent" => x.sid \notin row
    /\ x.late => ended[x.sid]

\* ... and what it has read since was written, or was true, in time.
Knows(x) ==
    /\ x.late => ~Storing(x) /\ x.pc # "yes"
    /\ x.was = "absent" => ~Storing(x)
    /\ x.was = "present" => x.pc # "negative"
    /\ x.sid \notin row /\ Storing(x) => x.at <= since[x.sid]
    /\ x.sid \in row /\ x.pc = "negative" => x.at <= since[x.sid]
    /\ x.was = "absent" /\ (Verifying(x) \/ x.pc = "yes") => ~x.long
    /\ x.was = "present" /\ x.pc = "no" => ~x.long
    /\ x.late /\ Verifying(x) => x.at < since[x.sid] + MaxRequest + PosTTL
    /\ ended[x.sid] /\ Storing(x) => Outdated(x.sid, x.g)
    /\ x.late /\ Verifying(x) => Outdated(x.sid, x.g)

Fits(x) == Unseen(x.g) /\ (x.pc # "idle" => Remembers(x) /\ Knows(x))

CacheInv ==
    /\ TypeOK /\ SnapInv /\ IdInv /\ EndedInv
    /\ \A r \in Readers : Fits(reader[r])

-----------------------------------------------------------------------------

\* Initially the cache is empty and no request runs.
LEMMA InitCache == Init => CacheInv
<1> SUFFICES ASSUME Init PROVE CacheInv
    OBVIOUS
<1> USE CacheAssumption DEF Init, NoSnapshot, NoTomb, IdleReader, IdleDeleter, None
<1>1. TypeOK
    BY DEF TypeOK, SnapState, ReaderState, ReaderPCs, DeleterState
<1>2. SnapInv /\ EndedInv
    BY DEF SnapInv, EndedInv
<1>3. IdInv
    BY DEF IdInv, Unseen
<1>4. \A r \in Readers : Fits(reader[r])
    BY DEF Fits, Unseen
<1> QED
    BY <1>1, <1>2, <1>3, <1>4 DEF CacheInv

\* When one reader moves to a state that fits, all readers fit again.
LEMMA ReadersFit ==
    ASSUME CacheInv, NEW r \in Readers, NEW x \in ReaderState, Fits(x),
           reader' = [reader EXCEPT ![r] = x],
           UNCHANGED <<now, row, since, tomb, deleter, deletes, ended>>
    PROVE  \A q \in Readers : Fits(reader[q])'
<1>1. \A y \in ReaderState : Fits(y) => Fits(y)'
    BY DEF Fits, Unseen, Remembers, Knows, Outdated, Storing, Verifying
<1>2. ASSUME NEW q \in Readers PROVE Fits(reader[q])'
    <2>1. PICK y \in ReaderState : y = reader'[q] /\ Fits(y)
        BY DEF CacheInv, TypeOK
    <2>2. Fits(y)'
        BY <1>1, <2>1
    <2> QED
        BY <2>1, <2>2 DEF Fits, Unseen, Remembers, Knows, Outdated, Storing, Verifying
<1> QED
    BY <1>2

\* A step that only moves one reader on keeps the invariant if the reader's
\* new state fits.
LEMMA ReaderStep ==
    ASSUME CacheInv, NEW r \in Readers, NEW x \in ReaderState, Fits(x),
           reader' = [reader EXCEPT ![r] = x],
           UNCHANGED <<now, row, since, creates, snap, tomb, version, deleter, deletes, ended>>
    PROVE  CacheInv'
<1>1. TypeOK'
    BY DEF CacheInv, TypeOK
<1>2. SnapInv' /\ IdInv' /\ EndedInv'
    BY DEF CacheInv, SnapInv, IdInv, EndedInv, Unseen, Outdated
<1>3. \A q \in Readers : Fits(reader[q])'
    BY ReadersFit
<1> QED
    BY <1>1, <1>2, <1>3 DEF CacheInv

\* A new reader takes the answer of a snapshot that is in time, or none.
LEMMA LookupStep ==
    ASSUME CacheInv, NEW r \in Readers, NEW s \in Sessions, NEW out \in Reads, Lookup(r, s, out)
    PROVE  CacheInv'
<1> DEFINE e == IF out = "ok" THEN snap[s] ELSE NoSnapshot
           x == [pc |-> CASE e.kind = "neg" -> "no" [] e.kind = "pos" -> "version"
                        [] OTHER -> "before",
                 sid |-> s, v |-> e.v, g |-> e.g, sure |-> FALSE, at |-> now,
                 was |-> IF s \in row THEN "present" ELSE "absent",
                 long |-> now - since[s] >= MaxRequest + (IF s \in row THEN NegTTL ELSE PosTTL),
                 late |-> ended[s]]
<1>1. e \in SnapState /\ (e = snap[s] \/ e = NoSnapshot)
    BY DEF CacheInv, TypeOK, SnapState, NoSnapshot
<1>2. reader' = [reader EXCEPT ![r] = x] /\ UNCHANGED <<now, dbVars, cacheVars, deleter, deletes, ended>>
    BY DEF Lookup
<1>3. /\ x.pc \in {"no", "version", "before"} /\ x.sid = s /\ x.v = e.v /\ x.g = e.g
      /\ x.sure = FALSE /\ x.at = now /\ x.late = ended[s]
      /\ x.was = IF s \in row THEN "present" ELSE "absent"
      /\ x.long = (now - since[s] >= MaxRequest + (IF s \in row THEN NegTTL ELSE PosTTL))
      /\ x.pc = "no" => e.kind = "neg"
      /\ x.pc = "version" => e.kind = "pos"
    BY <1>1 DEF SnapState
<1>4. x \in ReaderState
    BY <1>1 DEF CacheInv, TypeOK, ReaderState, ReaderPCs, SnapState
<1> HIDE DEF x
<1>5. Unseen(x.g)
    <2>1. CASE e = snap[s]
        BY <2>1, <1>3 DEF CacheInv, IdInv
    <2>2. CASE e = NoSnapshot
        BY <2>2, <1>3 DEF CacheInv, IdInv, TypeOK, Unseen, NoSnapshot
    <2> QED
        BY <1>1, <2>1, <2>2
<1>6. /\ now \in Nat /\ since[s] \in Nat /\ since[s] <= now /\ MaxRequest \in Nat
      /\ PosTTL \in Nat /\ NegTTL \in Nat
    BY CacheAssumption DEF CacheInv, TypeOK, SnapInv
<1>7. Remembers(x)
    BY <1>3, <1>6 DEF Remembers
<1>8. e.kind = "pos" /\ s \notin row => now < since[s] + MaxRequest + PosTTL
    BY <1>1, <1>6 DEF CacheInv, TypeOK, SnapState, SnapInv, NoSnapshot
<1>9. e.kind = "neg" /\ s \in row => now < since[s] + MaxRequest + NegTTL
    BY <1>1, <1>6 DEF CacheInv, TypeOK, SnapState, SnapInv, NoSnapshot
<1>10. e.kind = "pos" /\ ended[s] => Outdated(s, e.g) /\ s \notin row
    BY <1>1 DEF CacheInv, EndedInv, NoSnapshot
<1>11. Knows(x)
    <2> DEFINE old(ttl) == now - since[s] >= MaxRequest + ttl
    <2>a. /\ now < since[s] + MaxRequest + PosTTL => ~old(PosTTL)
          /\ now < since[s] + MaxRequest + NegTTL => ~old(NegTTL)
        BY <1>6
    <2>b. x.long = IF s \in row THEN old(NegTTL) ELSE old(PosTTL)
        BY <1>3
    <2>c. x.was = "absent" => s \notin row
        BY <1>3
    <2>d. x.was = "present" => s \in row
        BY <1>3
    <2> HIDE DEF old
    <2>1. x.was = "absent" /\ x.pc = "version" => ~x.long
        BY <1>3, <1>8, <2>a, <2>b, <2>c
    <2>2. x.was = "present" /\ x.pc = "no" => ~x.long
        BY <1>3, <1>9, <2>a, <2>b, <2>d
    <2>3. x.late /\ x.pc = "version" =>
              x.at < since[x.sid] + MaxRequest + PosTTL /\ Outdated(x.sid, x.g)
        BY <1>3, <1>8, <1>10
    <2> QED
        BY <1>3, <2>1, <2>2, <2>3 DEF Knows, Storing, Verifying
<1>12. Fits(x)
    BY <1>5, <1>7, <1>11 DEF Fits
<1> QED
    BY <1>2, <1>4, <1>12, ReaderStep DEF dbVars, cacheVars

\* The facts a step of a busy reader starts from.
LEMMA BusyReader ==
    ASSUME CacheInv, NEW r \in Readers, reader[r].pc # "idle"
    PROVE  /\ reader[r] \in ReaderState /\ Unseen(reader[r].g) /\ Unseen(0)
           /\ Remembers(reader[r]) /\ Knows(reader[r])
           /\ reader[r].sid \in Sessions
           /\ now \in Nat /\ since[reader[r].sid] \in Nat
           /\ reader[r].at \in Nat /\ reader[r].at <= now
           /\ tomb[reader[r].sid].id \in Nat /\ Unseen(tomb[reader[r].sid].id)
           /\ version \in Nat /\ deletes \in Nat
BY DEF CacheInv, TypeOK, IdInv, Fits, Remembers, Unseen, ReaderState

\* Going on with pc changes nothing but the progress and what it needs.
LEMMA MovedOn ==
    ASSUME CacheInv, NEW r \in Readers, NEW pc \in ReaderPCs, ReaderTo(r, pc)
    PROVE  \E x \in ReaderState :
              /\ reader' = [reader EXCEPT ![r] = x]
              /\ x.pc = pc /\ x.sid = reader[r].sid /\ x.at = reader[r].at
              /\ x.was = reader[r].was /\ x.long = reader[r].long /\ x.late = reader[r].late
              /\ x.g = IF pc \in {"before", "yes", "no"} THEN 0 ELSE reader[r].g
<1> DEFINE x == IF pc \in {"before", "yes", "no"}
                THEN [reader[r] EXCEPT !.pc = pc, !.v = 0, !.g = 0, !.sure = FALSE]
                ELSE [reader[r] EXCEPT !.pc = pc]
<1>1. reader[r] \in ReaderState
    BY DEF CacheInv, TypeOK
<1>2. x \in ReaderState
    BY <1>1 DEF ReaderState
<1>3. reader' = [reader EXCEPT ![r] = x]
    BY DEF ReaderTo
<1>4. /\ x.pc = pc /\ x.sid = reader[r].sid /\ x.at = reader[r].at
      /\ x.was = reader[r].was /\ x.long = reader[r].long /\ x.late = reader[r].late
      /\ x.g = IF pc \in {"before", "yes", "no"} THEN 0 ELSE reader[r].g
    BY <1>1 DEF ReaderState
<1> QED
    BY <1>2, <1>3, <1>4

\* A reader whose request runs may start over at the database.
LEMMA RestartStep ==
    ASSUME CacheInv, NEW r \in Readers, reader[r].pc # "idle", ReaderTo(r, "before"),
           UNCHANGED <<now, row, since, creates, snap, tomb, version, deleter, deletes, ended>>
    PROVE  CacheInv'
<1>1. PICK x \in ReaderState :
          /\ reader' = [reader EXCEPT ![r] = x]
          /\ x.pc = "before" /\ x.sid = reader[r].sid /\ x.at = reader[r].at
          /\ x.was = reader[r].was /\ x.long = reader[r].long /\ x.late = reader[r].late
          /\ x.g = 0
    BY MovedOn DEF ReaderPCs
<1>2. Fits(x)
    BY <1>1, BusyReader DEF Fits, Remembers, Knows, Storing, Verifying
<1> QED
    BY <1>1, <1>2, ReaderStep

\* An entry is answered with only while its version is the current one.
LEMMA CheckVersionStep ==
    ASSUME CacheInv, NEW r \in Readers, NEW out \in Reads, CheckVersion(r, out)
    PROVE  CacheInv'
<1>1. reader[r].pc = "version" /\ UNCHANGED <<now, dbVars, cacheVars, deleter, deletes, ended>>
    BY DEF CheckVersion
<1>2. CASE ReaderTo(r, "before")
    BY <1>1, <1>2, RestartStep DEF dbVars, cacheVars
<1>3. CASE ReaderTo(r, "tombstone")
    <2>1. PICK x \in ReaderState :
              /\ reader' = [reader EXCEPT ![r] = x]
              /\ x.pc = "tombstone" /\ x.sid = reader[r].sid /\ x.at = reader[r].at
              /\ x.was = reader[r].was /\ x.long = reader[r].long /\ x.late = reader[r].late
              /\ x.g = reader[r].g
        BY <1>3, MovedOn DEF ReaderPCs
    <2>2. Fits(x)
        BY <1>1, <2>1, BusyReader DEF Fits, Remembers, Knows, Storing, Verifying
    <2> QED
        BY <1>1, <2>1, <2>2, ReaderStep DEF dbVars, cacheVars
<1> QED
    BY <1>2, <1>3 DEF CheckVersion

\* The tombstone of a session that was logged out before the reader began is
\* still there when the reader asks for it.
LEMMA CheckTombstoneStep ==
    ASSUME CacheInv, NEW r \in Readers, NEW out \in Reads, CheckTombstone(r, out)
    PROVE  CacheInv'
<1>1. reader[r].pc = "tombstone" /\ UNCHANGED <<now, dbVars, cacheVars, deleter, deletes, ended>>
    BY DEF CheckTombstone
<1>2. CASE ReaderTo(r, "before")
    BY <1>1, <1>2, RestartStep DEF dbVars, cacheVars
<1>3. CASE ReaderTo(r, "yes") /\ tomb[reader[r].sid].id = reader[r].g
    <2>1. PICK x \in ReaderState :
              /\ reader' = [reader EXCEPT ![r] = x]
              /\ x.pc = "yes" /\ x.sid = reader[r].sid /\ x.at = reader[r].at
              /\ x.was = reader[r].was /\ x.long = reader[r].long /\ x.late = reader[r].late
              /\ x.g = 0
        BY <1>3, MovedOn DEF ReaderPCs
    <2>2. ASSUME reader[r].late PROVE FALSE
        <3> DEFINE s == reader[r].sid
        <3>1. s \in Sessions /\ ended[s] /\ Outdated(s, reader[r].g)
              /\ reader[r].at < since[s] + MaxRequest + PosTTL
              /\ now <= reader[r].at + MaxRequest
            BY <1>1, <2>2, BusyReader DEF Remembers, Knows, Verifying
        <3>2. tomb[s].id = 0
            BY <3>1, <1>3 DEF Outdated
        <3>3. now >= since[s] + TombTTL
            BY <3>1, <3>2 DEF CacheInv, EndedInv
        <3>4. /\ now \in Nat /\ since[s] \in Nat /\ reader[r].at \in Nat /\ MaxRequest \in Nat
              /\ PosTTL \in Nat /\ TombTTL \in Nat /\ TombTTL >= PosTTL + 2 * MaxRequest
            BY <1>1, BusyReader, CacheAssumption
        <3> HIDE DEF s
        <3> QED
            BY <3>1, <3>3, <3>4
    <2>3. Fits(x)
        BY <1>1, <2>1, <2>2, BusyReader DEF Fits, Remembers, Knows, Storing, Verifying
    <2> QED
        BY <1>1, <2>1, <2>3, ReaderStep DEF dbVars, cacheVars
<1> QED
    BY <1>2, <1>3 DEF CheckTombstone

\* The tombstone is read before the row is.
LEMMA LoadBeforeStep ==
    ASSUME CacheInv, NEW r \in Readers, NEW out \in Reads, LoadBefore(r, out)
    PROVE  CacheInv'
<1> DEFINE x == [reader[r] EXCEPT !.pc = "row", !.sure = (out = "ok"),
                                  !.g = IF out = "ok" THEN tomb[reader[r].sid].id ELSE 0]
<1>1. reader[r].pc = "before" /\ UNCHANGED <<now, dbVars, cacheVars, deleter, deletes, ended>>
    BY DEF LoadBefore
<1>2. reader' = [reader EXCEPT ![r] = x]
    BY DEF LoadBefore, CacheInv, TypeOK
<1>3. x \in ReaderState
    BY <1>1, BusyReader, ZenonT(30) DEF ReaderState, ReaderPCs
<1>4. /\ x.pc = "row" /\ x.sid = reader[r].sid /\ x.at = reader[r].at
      /\ x.was = reader[r].was /\ x.long = reader[r].long /\ x.late = reader[r].late
      /\ x.g = IF out = "ok" THEN tomb[reader[r].sid].id ELSE 0
    BY <1>1, BusyReader DEF ReaderState
<1> HIDE DEF x
<1>5. Fits(x)
    BY <1>1, <1>4, BusyReader DEF Fits, Remembers, Knows, Storing, Verifying
<1> QED
    BY <1>1, <1>2, <1>3, <1>5, ReaderStep DEF dbVars, cacheVars

\* A reader without a request fits.
LEMMA IdleFits == CacheInv => IdleReader \in ReaderState /\ Fits(IdleReader)
BY DEF CacheInv, TypeOK, IdInv, IdleReader, ReaderState, ReaderPCs, None, Fits, Unseen

\* A row that is there is not deleted yet, one that is not is answered so.
LEMMA LoadRowStep ==
    ASSUME CacheInv, NEW r \in Readers, NEW out \in Reads, LoadRow(r, out)
    PROVE  CacheInv'
<1> DEFINE x == [reader[r] EXCEPT !.pc = IF reader[r].sid \in row THEN "load" ELSE "negative"]
<1>1. reader[r].pc = "row" /\ UNCHANGED <<now, dbVars, cacheVars, deleter, deletes, ended>>
    BY DEF LoadRow
<1>2. CASE reader' = [reader EXCEPT ![r] = IdleReader]
    BY <1>1, <1>2, IdleFits, ReaderStep DEF dbVars, cacheVars
<1>3. CASE reader' = [reader EXCEPT ![r] = x]
    <2>1. x \in ReaderState
        BY <1>1, BusyReader DEF ReaderState, ReaderPCs
    <2>2. /\ x.pc = (IF reader[r].sid \in row THEN "load" ELSE "negative")
          /\ x.sid = reader[r].sid /\ x.at = reader[r].at
          /\ x.was = reader[r].was /\ x.long = reader[r].long /\ x.late = reader[r].late
          /\ x.g = reader[r].g
        BY <1>1, BusyReader DEF ReaderState
    <2> HIDE DEF x
    <2>3. ended[x.sid] => x.sid \notin row
        BY <1>1, <2>2, BusyReader DEF CacheInv, EndedInv
    <2>4. Fits(x)
        BY <1>1, <2>2, <2>3, BusyReader DEF Fits, Remembers, Knows, Storing, Verifying
    <2> QED
        BY <1>1, <1>3, <2>1, <2>4, ReaderStep DEF dbVars, cacheVars
<1> QED
    BY <1>2, <1>3 DEF LoadRow

\* The version that goes into the snapshot is no newer than the current one.
LEMMA LoadVersionStep ==
    ASSUME CacheInv, NEW r \in Readers, NEW out \in Reads, LoadVersion(r, out)
    PROVE  CacheInv'
<1> DEFINE x == [reader[r] EXCEPT !.pc = "after", !.v = IF out = "ok" THEN version ELSE 0]
<1>1. reader[r].pc = "load" /\ UNCHANGED <<now, dbVars, cacheVars, deleter, deletes, ended>>
    BY DEF LoadVersion
<1>2. reader' = [reader EXCEPT ![r] = x]
    BY DEF LoadVersion, CacheInv, TypeOK
<1>3. x \in ReaderState
    BY <1>1, BusyReader DEF ReaderState, ReaderPCs
<1>4. /\ x.pc = "after" /\ x.sid = reader[r].sid /\ x.at = reader[r].at
      /\ x.was = reader[r].was /\ x.long = reader[r].long /\ x.late = reader[r].late
      /\ x.g = reader[r].g
    BY <1>1, BusyReader DEF ReaderState
<1> HIDE DEF x
<1>5. Fits(x)
    BY <1>1, <1>4, BusyReader DEF Fits, Remembers, Knows, Storing, Verifying
<1> QED
    BY <1>1, <1>2, <1>3, <1>5, ReaderStep DEF dbVars, cacheVars

\* The row is stored only if the tombstone is the one read before it.
LEMMA LoadAfterStep ==
    ASSUME CacheInv, NEW r \in Readers, NEW out \in Reads, LoadAfter(r, out)
    PROVE  CacheInv'
<1>1. reader[r].pc = "after" /\ UNCHANGED <<now, dbVars, cacheVars, deleter, deletes, ended>>
    BY DEF LoadAfter
<1>2. PICK pc \in {"positive", "yes"} : ReaderTo(r, pc)
    BY DEF LoadAfter
<1>3. PICK x \in ReaderState :
          /\ reader' = [reader EXCEPT ![r] = x]
          /\ x.pc = pc /\ x.sid = reader[r].sid /\ x.at = reader[r].at
          /\ x.was = reader[r].was /\ x.long = reader[r].long /\ x.late = reader[r].late
          /\ x.g = IF pc \in {"before", "yes", "no"} THEN 0 ELSE reader[r].g
    BY <1>2, MovedOn DEF ReaderPCs
<1>4. Fits(x)
    BY <1>1, <1>3, BusyReader DEF Fits, Remembers, Knows, Storing, Verifying
<1> QED
    BY <1>1, <1>3, <1>4, ReaderStep DEF dbVars, cacheVars

\* The reader is done.
LEMMA AnswerStep ==
    ASSUME CacheInv, NEW r \in Readers, Answer(r)
    PROVE  CacheInv'
BY IdleFits, ReaderStep DEF Answer, dbVars, cacheVars

\* A snapshot that contradicts the row is written while the request that read
\* the row before it changed still runs.
LEMMA PopulateStep ==
    ASSUME CacheInv, NEW r \in Readers, NEW out \in Reads, Populate(r, out)
    PROVE  CacheInv'
<1> DEFINE kind == IF reader[r].pc = "positive" THEN "pos" ELSE "neg"
           e == [kind |-> kind, v |-> IF kind = "pos" THEN reader[r].v ELSE 0,
                 g |-> IF kind = "pos" THEN reader[r].g ELSE 0, exp |-> now + SnapshotTTL(kind)]
           s == reader[r].sid
           ttl == SnapshotTTL(kind)
<1>1. /\ reader[r].pc \in {"positive", "negative"}
      /\ snap' = [snap EXCEPT ![s] = e] \/ snap' = snap
      /\ ReaderTo(r, IF kind = "pos" THEN "yes" ELSE "no")
      /\ UNCHANGED <<now, dbVars, tomb, version, deleter, deletes, ended>>
    BY DEF Populate
<1>2. /\ ttl \in Nat \ {0}
      /\ kind = "pos" => reader[r].pc = "positive" /\ ttl = PosTTL
      /\ kind # "pos" => kind = "neg" /\ reader[r].pc = "negative" /\ ttl = NegTTL
    BY <1>1, CacheAssumption DEF SnapshotTTL
<1>3. e \in SnapState /\ Unseen(e.g)
    BY <1>1, <1>2, BusyReader DEF ReaderState, SnapState
<1>4. e.kind = kind /\ e.exp = now + ttl /\ (kind = "pos" => e.g = reader[r].g)
    OBVIOUS
<1>5. /\ s \in Sessions /\ now \in Nat /\ since[s] \in Nat /\ reader[r].at \in Nat
      /\ now <= reader[r].at + MaxRequest
      /\ Knows(reader[r])
    BY <1>1, BusyReader DEF Remembers
<1> HIDE DEF e, kind, ttl, s
<1>6. TypeOK'
    <2>1. reader' \in [Readers -> ReaderState]
        BY <1>1, MovedOn DEF CacheInv, TypeOK, ReaderPCs
    <2>2. snap' \in [Sessions -> SnapState]
        BY <1>1, <1>3, <1>5 DEF CacheInv, TypeOK
    <2> QED
        BY <1>1, <2>1, <2>2 DEF CacheInv, TypeOK, dbVars
<1>7. ASSUME NEW t \in Sessions
      PROVE  /\ since[t] <= now
             /\ snap'[t].kind # "none" => now < snap'[t].exp
             /\ snap'[t].kind = "pos" =>
                 /\ snap'[t].exp <= now + PosTTL
                 /\ t \notin row => snap'[t].exp <= since[t] + MaxRequest + PosTTL
             /\ snap'[t].kind = "neg" =>
                 /\ snap'[t].exp <= now + NegTTL
                 /\ t \in row => snap'[t].exp <= since[t] + MaxRequest + NegTTL
    <2>1. CASE snap'[t] = snap[t]
        BY <2>1 DEF CacheInv, SnapInv
    <2>2. CASE snap'[t] = e /\ t = s
        <3>1. kind = "pos" /\ s \notin row => reader[r].at <= since[s]
            BY <1>2, <1>5 DEF Knows, Storing, s
        <3>2. kind = "neg" /\ s \in row => reader[r].at <= since[s]
            BY <1>2, <1>5 DEF Knows, s
        <3>3. since[t] <= now
            BY DEF CacheInv, SnapInv
        <3> QED
            BY <1>2, <1>4, <1>5, <2>2, <3>1, <3>2, <3>3, CacheAssumption
    <2> QED
        BY <1>1, <1>5, <2>1, <2>2 DEF CacheInv, TypeOK
<1>8. SnapInv'
    BY <1>1, <1>7 DEF SnapInv, dbVars
<1>9. IdInv'
    <2>1. \A t \in Sessions : Unseen(snap'[t].g)
        BY <1>1, <1>3, <1>5 DEF CacheInv, IdInv, TypeOK
    <2> QED
        BY <1>1, <2>1 DEF CacheInv, IdInv, Unseen
<1>10. EndedInv'
    <2>1. \A t \in Sessions : ended[t] /\ snap'[t].kind = "pos" => Outdated(t, snap'[t].g)
        <3>1. kind = "pos" /\ ended[s] => Outdated(s, e.g)
            BY <1>2, <1>4, <1>5 DEF Knows, Storing, s
        <3> QED
            BY <1>1, <1>4, <1>5, <3>1 DEF CacheInv, EndedInv, TypeOK
    <2> QED
        BY <1>1, <2>1 DEF CacheInv, EndedInv, Outdated, dbVars
<1>11. \A q \in Readers : Fits(reader[q])'
    <2>1. PICK pc \in {"yes", "no"} :
              /\ ReaderTo(r, pc)
              /\ pc = "yes" => reader[r].pc = "positive"
              /\ pc = "no" => reader[r].pc = "negative"
        BY <1>1, <1>2
    <2>2. PICK x \in ReaderState :
              /\ reader' = [reader EXCEPT ![r] = x]
              /\ x.pc = pc /\ x.sid = reader[r].sid /\ x.at = reader[r].at
              /\ x.was = reader[r].was /\ x.long = reader[r].long /\ x.late = reader[r].late
              /\ x.g = 0
        BY <2>1, MovedOn DEF ReaderPCs
    <2>3. Fits(x)
        BY <1>1, <2>1, <2>2, BusyReader DEF Fits, Remembers, Knows, Storing, Verifying
    <2> QED
        BY <1>1, <2>2, <2>3, ReadersFit DEF dbVars
<1> QED
    BY <1>6, <1>8, <1>9, <1>10, <1>11 DEF CacheInv

-----------------------------------------------------------------------------
(* The deleters. *)

\* A deleter that is through, or dropped, leaves at most a snapshot less.
LEMMA DoneStep ==
    ASSUME CacheInv, NEW d \in Deleters,
           deleter' = [deleter EXCEPT ![d] = IdleDeleter],
           version' \in Nat,
           \/ snap' = snap
           \/ \E s \in Sessions : snap' = [snap EXCEPT ![s] = NoSnapshot],
           UNCHANGED <<now, row, since, creates, tomb, reader, deletes, ended>>
    PROVE  CacheInv'
<1>1. \A s \in Sessions : snap'[s] = snap[s] \/ snap'[s] = NoSnapshot
    BY DEF CacheInv, TypeOK
<1>2. TypeOK'
    <2>1. NoSnapshot \in SnapState /\ IdleDeleter \in DeleterState
        BY DEF SnapState, DeleterState, NoSnapshot, IdleDeleter, None
    <2>2. snap' \in [Sessions -> SnapState] /\ deleter' \in [Deleters -> DeleterState]
        BY <2>1 DEF CacheInv, TypeOK
    <2> QED
        BY <2>2 DEF CacheInv, TypeOK
<1>3. SnapInv'
    BY <1>1 DEF CacheInv, SnapInv, NoSnapshot
<1>4. \A n \in Nat : Unseen(n) => Unseen(n)'
    BY DEF CacheInv, TypeOK, Unseen, IdleDeleter
<1>5. IdInv'
    <2>1. Unseen(0)
        BY DEF CacheInv, TypeOK, IdInv, Unseen
    <2>2. ASSUME NEW s \in Sessions PROVE Unseen(tomb[s].id)' /\ Unseen(snap[s].g)'
        <3>1. PICK n \in Nat : n = snap'[s].g /\ Unseen(n)
            BY <1>1, <2>1 DEF CacheInv, TypeOK, IdInv, NoSnapshot, SnapState
        <3>2. PICK m \in Nat : m = tomb[s].id /\ Unseen(m)
            BY DEF CacheInv, TypeOK, IdInv
        <3>3. Unseen(n)' /\ Unseen(m)'
            BY <1>4, <3>1, <3>2
        <3> QED
            BY <3>1, <3>2, <3>3 DEF Unseen
    <2> QED
        BY <2>2 DEF CacheInv, TypeOK, IdInv, IdleDeleter
<1>6. EndedInv'
    BY <1>1 DEF CacheInv, EndedInv, Outdated, NoSnapshot
<1>7. ASSUME NEW r \in Readers PROVE Fits(reader[r])'
    <2>1. PICK y \in ReaderState : y = reader[r] /\ Fits(y)
        BY DEF CacheInv, TypeOK
    <2>2. Unseen(y.g)'
        BY <1>4, <2>1 DEF Fits, ReaderState
    <2> QED
        BY <2>1, <2>2 DEF Fits, Unseen, Remembers, Knows, Outdated, Storing, Verifying
<1> QED
    BY <1>2, <1>3, <1>5, <1>6, <1>7 DEF CacheInv

\* A snapshot less.
LEMMA DropStep ==
    ASSUME CacheInv, NEW d \in Deleters, NEW out \in Reads, Drop(d, out)
    PROVE  CacheInv'
<1>1. deleter[d].sid \in Sessions
    BY DEF Drop, CacheInv, IdInv
<1> QED
    BY <1>1, DoneStep DEF Drop, dbVars, CacheInv, TypeOK

\* The version only grows.
LEMMA BumpStep ==
    ASSUME CacheInv, NEW d \in Deleters, NEW out \in Reads, Bump(d, out)
    PROVE  CacheInv'
<1>1. version' \in Nat
    BY DEF Bump, CacheInv, TypeOK
<1> QED
    BY <1>1, DoneStep DEF Bump, dbVars

\* A deletion that dies leaves what it did.
LEMMA CrashStep ==
    ASSUME CacheInv, NEW d \in Deleters, Crash(d)
    PROVE  CacheInv'
BY DoneStep DEF Crash, dbVars, cacheVars, CacheInv, TypeOK

\* Rows disappear: what contradicts the rows from now on was written, or is
\* about to be, by requests that run now.
LEMMA RemoveStep ==
    ASSUME CacheInv, NEW d \in Deleters, NEW S \in SUBSET Sessions,
           NEW s \in Sessions \cup {None}, NEW pc \in {"mark", "drop", "bump"},
           pc # "bump" => s \in Sessions,
           NEW out \in {"ok", "lost"}, Remove(d, S, s, pc, out)
    PROVE  CacheInv'
<1> DEFINE x == IF out = "ok" THEN [pc |-> pc, sid |-> s, id |-> deletes + 1] ELSE IdleDeleter
<1>1. /\ deleter[d].pc = "idle" /\ deletes' = deletes + 1 /\ row' = row \ S
      /\ since' = [t \in Sessions |-> IF t \in S \cap row THEN now ELSE since[t]]
      /\ reader' = [r \in Readers |-> IF reader[r].sid \in S \cap row
                                      THEN [reader[r] EXCEPT !.was = "either"] ELSE reader[r]]
      /\ deleter' = [deleter EXCEPT ![d] = x]
      /\ now' = now /\ creates' = creates /\ snap' = snap /\ tomb' = tomb /\ version' = version
      /\ ended' = ended
    BY DEF Remove, cacheVars
<1>2. deletes \in Nat /\ now \in Nat
    BY DEF CacheInv, TypeOK
<1>3. /\ x \in DeleterState
      /\ x.pc \in {"mark", "unmark", "drop"} => x.sid \in Sessions
      /\ x.pc = "mark" => x.id = deletes + 1
    BY <1>2 DEF DeleterState, IdleDeleter, None
<1> HIDE DEF x
<1>4. TypeOK'
    <2>1. reader' \in [Readers -> ReaderState]
        BY <1>1, SMTT(30) DEF CacheInv, TypeOK, ReaderState
    <2>2. since' \in [Sessions -> Nat] /\ row' \subseteq Sessions /\ deletes' \in Nat
          /\ deleter' \in [Deleters -> DeleterState]
        BY <1>1, <1>2, <1>3 DEF CacheInv, TypeOK
    <2> QED
        BY <1>1, <2>1, <2>2 DEF CacheInv, TypeOK
<1>5. SnapInv'
    BY <1>1, <1>2, CacheAssumption DEF CacheInv, TypeOK, SnapState, SnapInv
<1>6. \A n \in Nat : Unseen(n) => Unseen(n)'
    BY <1>1, <1>2, <1>3 DEF Unseen, CacheInv, TypeOK
<1>7. IdInv'
    <2>1. ASSUME NEW t \in Sessions PROVE Unseen(tomb[t].id)' /\ Unseen(snap[t].g)'
        <3>1. PICK n \in Nat, m \in Nat : n = snap[t].g /\ Unseen(n) /\ m = tomb[t].id /\ Unseen(m)
            BY DEF CacheInv, TypeOK, IdInv, SnapState
        <3>2. Unseen(n)' /\ Unseen(m)'
            BY <1>6, <3>1
        <3> QED
            BY <1>1, <3>1, <3>2 DEF Unseen
    <2>2. ASSUME NEW c \in Deleters
          PROVE  /\ deleter'[c].pc \in {"mark", "unmark", "drop"} => deleter'[c].sid \in Sessions
                 /\ deleter'[c].pc = "mark" =>
                     /\ deleter'[c].id # 0 /\ deleter'[c].id <= deletes'
                     /\ \A e \in Deleters :
                         deleter'[e].pc = "mark" /\ deleter'[e].id = deleter'[c].id => e = c
        <3>1. \A e \in Deleters : deleter'[e] = IF e = d THEN x ELSE deleter[e]
            BY <1>1 DEF CacheInv, TypeOK
        <3>2. \A e \in Deleters : deleter[e].pc = "mark" => deleter[e].id <= deletes
                                                          /\ deleter[e].id \in Nat
            BY DEF CacheInv, TypeOK, IdInv, DeleterState
        <3>3. CASE c = d
            BY <1>1, <1>2, <1>3, <3>1, <3>2, <3>3
        <3>4. CASE c # d
            BY <1>1, <1>2, <1>3, <3>1, <3>2, <3>4 DEF CacheInv, IdInv
        <3> QED
            BY <3>3, <3>4
    <2> QED
        BY <2>1, <2>2 DEF IdInv
<1>8. EndedInv'
    BY <1>1 DEF CacheInv, TypeOK, EndedInv, Outdated
<1>9. ASSUME NEW r \in Readers PROVE Fits(reader[r])'
    <2>1. PICK y \in ReaderState : y = reader[r] /\ Fits(y)
        BY DEF CacheInv, TypeOK
    <2>2. PICK z \in ReaderState : z = reader'[r]
        BY <1>4 DEF TypeOK
    <2>3. /\ z.pc = y.pc /\ z.sid = y.sid /\ z.at = y.at /\ z.g = y.g /\ z.long = y.long
          /\ z.late = y.late /\ (z.was = y.was \/ z.was = "either")
          /\ y.sid \in S \cap row => z.was = "either"
        BY <1>1, <2>1, <2>2 DEF ReaderState
    <2>4. Unseen(z.g)'
        BY <1>6, <2>1, <2>3 DEF Fits, ReaderState
    <2>5. ASSUME z.pc # "idle" PROVE Remembers(z)'
        BY <1>1, <2>1, <2>3, <2>5 DEF Fits, Remembers, CacheInv, TypeOK
    <2>6. ASSUME z.pc # "idle" PROVE Knows(z)'
        <3>1. Remembers(y) /\ Knows(y) /\ y.sid \in Sessions /\ y.at <= now
            BY <2>1, <2>3, <2>6 DEF Fits, Remembers
        <3>2. ended[y.sid] => y.sid \notin row
            BY <3>1 DEF CacheInv, EndedInv
        <3>3. since'[y.sid] = IF y.sid \in S \cap row THEN now ELSE since[y.sid]
            BY <1>1, <3>1
        <3>4. CASE y.sid \in S \cap row
            BY <1>1, <2>3, <3>1, <3>2, <3>3, <3>4 DEF Knows, Remembers, Storing, Verifying, Outdated
        <3>5. CASE y.sid \notin S \cap row
            BY <1>1, <2>3, <3>1, <3>2, <3>3, <3>5 DEF Knows, Storing, Verifying, Outdated
        <3> QED
            BY <3>4, <3>5
    <2>7. Fits(z)'
        BY <2>4, <2>5, <2>6 DEF Fits
    <2> QED
        BY <2>2, <2>7 DEF Fits, Unseen, Remembers, Knows, Outdated, Storing, Verifying
<1> QED
    BY <1>4, <1>5, <1>7, <1>8, <1>9 DEF CacheInv

\* A fresh tombstone contradicts everything the cache and the readers hold.
LEMMA MarkStep ==
    ASSUME CacheInv, NEW d \in Deleters, NEW out \in Reads, Mark(d, out)
    PROVE  CacheInv'
<1> DEFINE s == deleter[d].sid
           x == [id |-> deleter[d].id, exp |-> now + TombTTL]
<1>1. /\ deleter[d].pc = "mark"
      /\ out # "fail" => tomb' = [tomb EXCEPT ![s] = x]
      /\ out = "fail" => tomb' = tomb
      /\ ended' = [ended EXCEPT ![s] = ended[s] \/ (out # "fail" /\ s \notin row)]
      /\ deleter' = [deleter EXCEPT ![d].pc = "unmark"]
      /\ UNCHANGED <<now, dbVars, snap, version, reader, deletes>>
    BY DEF Mark, FreshTombstone, CacheInv, TypeOK
<1>2. /\ s \in Sessions /\ deleter[d] \in DeleterState /\ deleter[d].id \in Nat
      /\ deleter[d].id # 0 /\ deleter[d].id <= deletes /\ now \in Nat /\ deletes \in Nat
      /\ TombTTL \in Nat
    BY <1>1, CacheAssumption DEF CacheInv, TypeOK, IdInv, DeleterState
<1>3. \A t \in Sessions : \/ tomb'[t] = tomb[t]
                          \/ t = s /\ tomb'[t] = x
    BY <1>1 DEF CacheInv, TypeOK
<1>4. /\ \A t \in Sessions : t # s => tomb'[t] = tomb[t] /\ ended'[t] = ended[t]
      /\ ended'[s] => ended[s] \/ (tomb'[s] = x /\ s \notin row)
    BY <1>1, <1>2 DEF CacheInv, TypeOK
<1>5. x.id = deleter[d].id /\ x.exp = now + TombTTL
    OBVIOUS
<1> HIDE DEF x
<1>6. TypeOK'
    <2>1. tomb' \in [Sessions -> [id : Nat, exp : Nat]]
        BY <1>1, <1>2 DEF CacheInv, TypeOK, x
    <2>2. ended' \in [Sessions -> BOOLEAN]
        BY <1>1 DEF CacheInv, TypeOK
    <2>3. deleter' \in [Deleters -> DeleterState]
        BY <1>1, <1>2 DEF CacheInv, TypeOK, DeleterState
    <2> QED
        BY <1>1, <2>1, <2>2, <2>3 DEF CacheInv, TypeOK, dbVars
<1>7. SnapInv'
    BY <1>1 DEF CacheInv, SnapInv, dbVars
<1>8. \A e \in Deleters : deleter'[e].pc = "mark" => e # d /\ deleter'[e] = deleter[e]
    BY <1>1, <1>2 DEF CacheInv, TypeOK, DeleterState
<1>9. \A n \in Nat : (Unseen(n) \/ n = deleter[d].id) => Unseen(n)'
    BY <1>1, <1>2, <1>8 DEF Unseen, CacheInv, IdInv
<1>10. IdInv'
    <2>1. ASSUME NEW t \in Sessions PROVE Unseen(tomb[t].id)' /\ Unseen(snap[t].g)'
        <3>1. PICK n \in Nat : n = snap[t].g /\ Unseen(n)
            BY DEF CacheInv, TypeOK, IdInv, SnapState
        <3>2. PICK m \in Nat : m = tomb'[t].id /\ (Unseen(m) \/ m = deleter[d].id)
            BY <1>2, <1>3, <1>5 DEF CacheInv, TypeOK, IdInv
        <3>3. Unseen(n)' /\ Unseen(m)'
            BY <1>9, <3>1, <3>2
        <3> QED
            BY <1>1, <3>1, <3>2, <3>3 DEF Unseen
    <2>2. \A e \in Deleters : deleter'[e].sid = deleter[e].sid
                              /\ (e # d => deleter'[e] = deleter[e])
        BY <1>1, <1>2 DEF CacheInv, TypeOK, DeleterState
    <2>3. \A e \in Deleters :
             deleter'[e].pc \in {"mark", "unmark", "drop"} => deleter'[e].sid \in Sessions
        BY <1>1, <1>2, <2>2 DEF CacheInv, IdInv
    <2> QED
        BY <1>1, <1>8, <2>1, <2>3 DEF CacheInv, IdInv
<1>11. \A n \in Nat, t \in Sessions : Unseen(n) /\ tomb'[t] = x => Outdated(t, n)'
    BY <1>1, <1>5 DEF Unseen, Outdated
<1>12. ASSUME NEW t \in Sessions, ended'[t]
       PROVE  /\ t \notin row
              /\ \/ tomb'[t].id # 0 /\ tomb'[t].exp >= since[t] + TombTTL
                 \/ now >= since[t] + TombTTL
              /\ snap[t].kind = "pos" => Outdated(t, snap[t].g)'
    <2>1. since[t] \in Nat /\ since[t] <= now
        BY DEF CacheInv, TypeOK, SnapInv
    <2>2. PICK n \in Nat : n = snap[t].g /\ Unseen(n)
        BY DEF CacheInv, TypeOK, IdInv, SnapState
    <2>3. CASE tomb'[t] = x
        <3>1. t = s \/ ended[t]
            BY <1>4, <1>12
        <3>2. t \notin row
            BY <3>1, <1>4, <1>12 DEF CacheInv, EndedInv
        <3>3. Outdated(t, n)'
            BY <1>11, <2>2, <2>3
        <3> QED
            BY <1>1, <1>2, <1>5, <2>1, <2>2, <2>3, <3>2, <3>3 DEF Outdated
    <2>4. CASE tomb'[t] = tomb[t] /\ ended[t]
        BY <1>1, <2>4 DEF CacheInv, EndedInv, Outdated
    <2> QED
        BY <1>3, <1>4, <1>12, <2>3, <2>4
<1>13. EndedInv'
    BY <1>1, <1>12 DEF EndedInv, dbVars, Outdated
<1>14. ASSUME NEW r \in Readers PROVE Fits(reader[r])'
    <2>1. PICK y \in ReaderState : y = reader[r] /\ Fits(y)
        BY DEF CacheInv, TypeOK
    <2>2. Unseen(y.g)'
        BY <1>9, <2>1 DEF Fits, ReaderState
    <2>3. ASSUME y.pc # "idle" PROVE Remembers(y)' /\ Knows(y)'
        <3>1. Remembers(y) /\ Knows(y) /\ y.sid \in Sessions /\ Unseen(y.g) /\ y.g \in Nat
            BY <2>1, <2>3 DEF Fits, Remembers, ReaderState
        <3>2. ended[y.sid] => ended'[y.sid]
            BY <1>1, <3>1 DEF CacheInv, TypeOK
        <3>3. CASE tomb'[y.sid] = x
            <4>1. Outdated(y.sid, y.g)'
                BY <1>11, <3>1, <3>3
            <4> QED
                BY <1>1, <3>1, <3>2, <4>1 DEF Remembers, Knows, Storing, Verifying, dbVars
        <3>4. CASE tomb'[y.sid] = tomb[y.sid] /\ (ended'[y.sid] => ended[y.sid])
            BY <1>1, <3>1, <3>2, <3>4 DEF Remembers, Knows, Storing, Verifying, Outdated, dbVars
        <3> QED
            BY <1>3, <1>4, <3>1, <3>3, <3>4
    <2> QED
        BY <1>1, <2>1, <2>2, <2>3 DEF Fits, Unseen, Remembers, Knows, Outdated, Storing, Verifying
<1> QED
    BY <1>6, <1>7, <1>10, <1>13, <1>14 DEF CacheInv

-----------------------------------------------------------------------------
(* The database and the clock. *)

\* A row appears: the requests that run may give either answer.
LEMMA CreateStep ==
    ASSUME CacheInv, NEW s \in Sessions, Create(s)
    PROVE  CacheInv'
<1>1. /\ s \notin row /\ row' = row \cup {s} /\ creates' = creates + 1
      /\ since' = [since EXCEPT ![s] = now]
      /\ ended' = [ended EXCEPT ![s] = FALSE]
      /\ reader' = [r \in Readers |->
             IF reader[r].sid \in {s} THEN [reader[r] EXCEPT !.was = "either", !.late = FALSE]
                                      ELSE reader[r]]
      /\ UNCHANGED <<now, snap, tomb, version, deleter, deletes>>
    BY DEF Create, Disturb, cacheVars
<1>2. TypeOK'
    <2>1. \A y \in ReaderState : [y EXCEPT !.was = "either", !.late = FALSE] \in ReaderState
        BY DEF ReaderState
    <2>2. reader' \in [Readers -> ReaderState]
        BY <1>1, <2>1 DEF CacheInv, TypeOK
    <2>3. /\ since' \in [Sessions -> Nat]
          /\ row' \subseteq Sessions
          /\ creates' \in Nat
        <3>1. now \in Nat /\ creates \in Nat /\ since \in [Sessions -> Nat] /\ row \subseteq Sessions
            BY DEF CacheInv, TypeOK
        <3>2. since' = [since EXCEPT ![s] = now] /\ row' = row \cup {s} /\ creates' = creates + 1
            BY <1>1
        <3>3. since' \in [Sessions -> Nat]
            BY ONLY <3>1, <3>2
        <3>4. row' \subseteq Sessions
            BY ONLY <3>1, <3>2, s \in Sessions
        <3>5. creates' \in Nat
            BY ONLY <3>1, <3>2
        <3> QED
            BY <3>3, <3>4, <3>5
    <2>4. ended' \in [Sessions -> BOOLEAN]
        BY <1>1 DEF CacheInv, TypeOK
    <2> QED
        BY <1>1, <2>2, <2>3, <2>4 DEF CacheInv, TypeOK
<1>3. SnapInv'
    <2> SUFFICES ASSUME NEW t \in Sessions
                 PROVE  /\ since'[t] <= now
                        /\ snap[t].kind # "none" => now < snap[t].exp
                        /\ snap[t].kind = "pos" =>
                            /\ snap[t].exp <= now + PosTTL
                            /\ t \notin row' => snap[t].exp <= since'[t] + MaxRequest + PosTTL
                        /\ snap[t].kind = "neg" =>
                            /\ snap[t].exp <= now + NegTTL
                            /\ t \in row' => snap[t].exp <= since'[t] + MaxRequest + NegTTL
        BY <1>1 DEF SnapInv
    <2>1. since'[t] = IF t = s THEN now ELSE since[t]
        BY <1>1 DEF CacheInv, TypeOK
    <2>2. now \in Nat /\ snap[t].exp \in Nat /\ MaxRequest \in Nat /\ NegTTL \in Nat
        BY CacheAssumption DEF CacheInv, TypeOK, SnapState
    <2>3. /\ since[t] <= now
          /\ snap[t].kind # "none" => now < snap[t].exp
          /\ snap[t].kind = "pos" =>
              /\ snap[t].exp <= now + PosTTL
              /\ t \notin row => snap[t].exp <= since[t] + MaxRequest + PosTTL
          /\ snap[t].kind = "neg" =>
              /\ snap[t].exp <= now + NegTTL
              /\ t \in row => snap[t].exp <= since[t] + MaxRequest + NegTTL
        BY DEF CacheInv, SnapInv
    <2>4. t # s => (t \in row' <=> t \in row)
        BY <1>1
    <2>5. s \in row'
        BY <1>1
    <2>6. CASE t = s
        BY <2>1, <2>2, <2>3, <2>5, <2>6
    <2>7. CASE t # s
        BY <2>1, <2>3, <2>4, <2>7
    <2> QED
        BY <2>6, <2>7
<1>4. IdInv'
    BY <1>1 DEF CacheInv, IdInv, Unseen
<1>5. EndedInv'
    BY <1>1 DEF CacheInv, TypeOK, EndedInv, Outdated
<1>6. ASSUME NEW r \in Readers PROVE Fits(reader[r])'
    <2>1. PICK y \in ReaderState : y = reader[r] /\ Fits(y)
        BY DEF CacheInv, TypeOK
    <2>2. PICK z \in ReaderState : z = reader'[r]
        BY <1>2 DEF TypeOK
    <2>3. /\ z.pc = y.pc /\ z.sid = y.sid /\ z.at = y.at /\ z.g = y.g /\ z.long = y.long
          /\ y.sid = s => z.was = "either" /\ ~z.late
          /\ y.sid # s => z = y
        BY <1>1, <2>1, <2>2 DEF ReaderState
    <2>4. Unseen(z.g)'
        BY <1>1, <2>1, <2>3 DEF Fits, Unseen
    <2>5. ASSUME z.pc # "idle" PROVE Remembers(z)' /\ Knows(z)'
        <3>1. Remembers(y) /\ Knows(y) /\ y.sid \in Sessions /\ y.at <= now
            BY <2>1, <2>3, <2>5 DEF Fits, Remembers
        <3>2. CASE y.sid = s
            <4>1. since'[s] = now /\ ~ended'[s] /\ s \in row'
                BY <1>1 DEF CacheInv, TypeOK
            <4> QED
                BY <1>1, <2>3, <3>1, <3>2, <4>1 DEF Remembers, Knows, Storing, Verifying
        <3>3. CASE y.sid # s
            BY <1>1, <2>3, <3>1, <3>3
               DEF Remembers, Knows, Storing, Verifying, Outdated, CacheInv, TypeOK
        <3> QED
            BY <3>2, <3>3
    <2>6. Fits(z)'
        BY <2>4, <2>5 DEF Fits
    <2> QED
        BY <2>2, <2>6 DEF Fits, Unseen, Remembers, Knows, Outdated, Storing, Verifying
<1> QED
    BY <1>2, <1>3, <1>4, <1>5, <1>6 DEF CacheInv

\* A tombstone expires only when everything it contradicts has expired.
LEMMA TickStep ==
    ASSUME CacheInv, Tick
    PROVE  CacheInv'
<1>1. /\ \A r \in Readers : reader[r].pc # "idle" => now < reader[r].at + MaxRequest
      /\ now' = now + 1
      /\ snap' = [s \in Sessions |-> IF snap[s].exp <= now' THEN NoSnapshot ELSE snap[s]]
      /\ tomb' = [s \in Sessions |-> IF tomb[s].exp <= now' THEN NoTomb ELSE tomb[s]]
      /\ UNCHANGED <<row, since, creates, version, reader, deleter, deletes, ended>>
    BY DEF Tick, dbVars
<1>2. now \in Nat /\ MaxRequest \in Nat /\ PosTTL \in Nat /\ NegTTL \in Nat /\ TombTTL \in Nat
    BY CacheAssumption DEF CacheInv, TypeOK
<1>3. TypeOK'
    <2>1. NoSnapshot \in SnapState /\ NoTomb \in [id : Nat, exp : Nat]
        BY DEF NoSnapshot, SnapState, NoTomb
    <2>2. snap' \in [Sessions -> SnapState] /\ tomb' \in [Sessions -> [id : Nat, exp : Nat]]
        BY <1>1, <2>1 DEF CacheInv, TypeOK
    <2> QED
        BY <1>1, <1>2, <2>2 DEF CacheInv, TypeOK
<1>4. \A s \in Sessions :
          /\ (snap'[s] = snap[s] /\ ~(snap[s].exp <= now')) \/ snap'[s] = NoSnapshot
          /\ tomb'[s] = tomb[s] \/ (tomb'[s] = NoTomb /\ tomb[s].exp <= now')
    BY <1>1
<1>5. SnapInv'
    BY <1>1, <1>2, <1>4 DEF CacheInv, TypeOK, SnapState, SnapInv, NoSnapshot
<1>6. IdInv'
    <2>1. Unseen(0)
        BY DEF CacheInv, TypeOK, IdInv, Unseen
    <2>2. ASSUME NEW s \in Sessions PROVE Unseen(tomb'[s].id) /\ Unseen(snap'[s].g)
        BY <1>4, <2>1 DEF CacheInv, IdInv, NoTomb, NoSnapshot
    <2> QED
        BY <1>1, <2>2 DEF CacheInv, IdInv, Unseen
<1>7. EndedInv'
    <2> SUFFICES ASSUME NEW s \in Sessions, ended'[s]
                 PROVE  /\ s \notin row'
                        /\ \/ tomb'[s].id # 0 /\ tomb'[s].exp >= since'[s] + TombTTL
                           \/ now' >= since'[s] + TombTTL
                        /\ snap'[s].kind = "pos" => tomb'[s].id = 0 \/ tomb'[s].id # snap'[s].g
        BY DEF EndedInv, Outdated
    <2>1. /\ ended[s] /\ s \notin row /\ since[s] \in Nat
          /\ tomb[s].exp \in Nat
          /\ \/ tomb[s].id # 0 /\ tomb[s].exp >= since[s] + TombTTL
             \/ now >= since[s] + TombTTL
          /\ snap[s].kind = "pos" => tomb[s].id = 0 \/ tomb[s].id # snap[s].g
        BY <1>1 DEF CacheInv, TypeOK, EndedInv, Outdated
    <2> QED
        BY <1>1, <1>2, <1>4, <2>1 DEF NoTomb, NoSnapshot
<1>8. ASSUME NEW r \in Readers PROVE Fits(reader[r])'
    <2>1. PICK y \in ReaderState : y = reader[r] /\ Fits(y)
        BY DEF CacheInv, TypeOK
    <2>2. Unseen(y.g)'
        BY <1>1, <2>1 DEF Fits, Unseen
    <2>3. ASSUME y.pc # "idle" PROVE Remembers(y)' /\ Knows(y)'
        <3>1. /\ Remembers(y) /\ Knows(y) /\ y.sid \in Sessions /\ y.at \in Nat
              /\ now < y.at + MaxRequest
            BY <1>1, <2>1, <2>3 DEF Fits, Remembers, ReaderState
        <3>2. Remembers(y)'
            BY <1>1, <1>2, <3>1 DEF Remembers
        <3>3. Outdated(y.sid, y.g) => Outdated(y.sid, y.g)'
            BY <1>4, <3>1 DEF Outdated, NoTomb
        <3>4. Knows(y)'
            BY <1>1, <3>1, <3>3 DEF Knows, Storing, Verifying
        <3> QED
            BY <3>2, <3>4
    <2> QED
        BY <1>1, <2>1, <2>2, <2>3 DEF Fits, Unseen, Remembers, Knows, Outdated, Storing, Verifying
<1> QED
    BY <1>3, <1>5, <1>6, <1>7, <1>8 DEF CacheInv

-----------------------------------------------------------------------------
(* The theorems. *)

\* Every step keeps the invariant.
LEMMA StepCache == CacheInv /\ [Next]_vars => CacheInv'
<1> SUFFICES ASSUME CacheInv, [Next]_vars PROVE CacheInv'
    OBVIOUS
<1>1. CASE UNCHANGED vars
    <2>1. TypeOK' /\ SnapInv' /\ IdInv' /\ EndedInv'
        BY <1>1 DEF vars, CacheInv, TypeOK, SnapInv, IdInv, EndedInv, Unseen, Outdated
    <2>2. \A r \in Readers : Fits(reader[r])'
        BY <1>1 DEF vars, CacheInv, Fits, Unseen, Remembers, Knows, Outdated, Storing, Verifying
    <2> QED
        BY <2>1, <2>2 DEF CacheInv
<1>2. ASSUME NEW r \in Readers, Read(r) PROVE CacheInv'
    BY <1>2, LookupStep, CheckVersionStep, CheckTombstoneStep, LoadBeforeStep, LoadRowStep,
       LoadVersionStep, LoadAfterStep, PopulateStep, AnswerStep DEF Read
<1>3. ASSUME NEW d \in Deleters, Delete(d) PROVE CacheInv'
    <2>1. ASSUME NEW s \in Sessions, NEW out \in {"ok", "lost"},
                 Logout(d, s, out) \/ AdminRevoke(d, s, out)
          PROVE  CacheInv'
        <3>1. {s} \in SUBSET Sessions
            OBVIOUS
        <3> QED
            BY <2>1, <3>1, RemoveStep DEF Logout, AdminRevoke
    <2>2. ASSUME NEW out \in {"ok", "lost"}, DeleteUser(d, out) PROVE CacheInv'
        BY <2>2, RemoveStep DEF DeleteUser
    <2> QED
        BY <1>3, <2>1, <2>2, MarkStep, DropStep, BumpStep, CrashStep DEF Delete
<1> QED
    BY <1>1, <1>2, <1>3, CreateStep, TickStep DEF Next

\* CacheInv holds always.
THEOREM CacheSafe == Spec => []CacheInv
BY InitCache, StepCache, PTL DEF Spec

\* However requests, logouts, lost cache calls, crashes and expiry interleave,
\* a request that began after the tombstone of a logout was written never
\* reports the session valid (invalidate_session_entry, session_snapshot_result).
THEOREM LogoutHeeded == Spec => []LogoutIsImmediate
<1>1. CacheInv => LogoutIsImmediate
    BY DEF CacheInv, LogoutIsImmediate, Fits, Knows
<1> QED
    BY <1>1, CacheSafe, PTL

\* A cached answer that contradicts the database is given only within the
\* lifetime of a snapshot and of the request that wrote it, whichever
\* invalidations were lost.
THEOREM AnswersAgeOut == Spec => []StalenessIsBounded
<1>1. CacheInv => StalenessIsBounded
    BY DEF CacheInv, StalenessIsBounded, Fits, Knows
<1> QED
    BY <1>1, CacheSafe, PTL

=============================================================================
