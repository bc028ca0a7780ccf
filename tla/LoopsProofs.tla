----------------------------- MODULE LoopsProofs -----------------------------
(***************************************************************************)
(* The three components of MCLoops, for every value of their constants.    *)
(* The signing keys of a cluster of any size, with any number of admin     *)
(* requests and any lifetime of the bootstrap lock: one boot makes the     *)
(* initial pair, and some key stays active.  The login flows: an attempt   *)
(* that succeeds has passed what its flow requires.  The glob matcher: the *)
(* answer of the loop is what the pattern means.                           *)
(***************************************************************************)
EXTENDS MCLoops, FiniteSetTheorems, SequenceTheorems, WellFoundedInduction, TLAPS

-----------------------------------------------------------------------------
(* SigningKeys: the inductive invariant *)

AlgNames == Algs \cup {MtiAlg, DefaultAlg, "none"}
KeyRow == [kid : Nat, alg : AlgNames, active : BOOLEAN]
BootSteps == {"down", "lock", "list", "create", "createDefault", "relist", "release", "up"}
NodeState == [pc : BootSteps, keys : SUBSET KeyRow, mark : SUBSET KeyRow, read : SUBSET KeyRow,
              reading : BOOLEAN]
AdminState == [pc : {"idle", "create", "demote", "disable"}, alg : AlgNames,
               kid : Nat, rows : SUBSET KeyRow]
LockState == [owner : Nodes \cup {"none"}, exp : Nat]
KeysHist == [made : Nat, generators : Nat, overrun : BOOLEAN, broken : BOOLEAN,
             crossed : BOOLEAN, changes : Nat, crashes : Nat]

\* Every variable has its shape.
KeysTypes ==
    /\ now \in Nat /\ table \in SUBSET KeyRow /\ lock \in LockState
    /\ node \in [Nodes -> NodeState] /\ admin \in [Admins -> AdminState]
    /\ hist \in KeysHist

\* Keys are numbered as they are made, and a number names one row.
RowsInv ==
    /\ \A r \in table : r.kid <= hist.made
    /\ \A r, s \in table : r.kid = s.kid => r = s

\* An active key that no row of this set has the number of.
Spared(kids) == \E r \in table : r.active /\ r.kid \notin kids

\* Between its read and its last write an admin request leaves an active key
\* alone, the one it has made or one it did not name.
AdminInv(x) ==
    /\ x.pc = "create" => \A r \in x.rows : r.kid <= hist.made
    /\ x.pc = "demote" => Spared({r.kid : r \in x.rows})
    /\ x.pc = "disable" => Spared({x.kid})

\* Admin requests come one at a time, and some key is active.
ActiveInv == ~hist.crossed =>
    /\ \A a, b \in Admins : admin[a].pc # "idle" /\ admin[b].pc # "idle" => a = b
    /\ \A a \in Admins : AdminInv(admin[a])
    /\ table # {} => Spared({})

\* A node that has got past "create" has found or made keys.
FoundInv == \A n \in Nodes : node[n].pc \in {"createDefault", "relist", "release", "up"} => table # {}

\* A boot between its lock and its release holds the lock.
LeaseInv == \A n \in Nodes : Keys!Holding(n) => lock.owner = n /\ now < lock.exp

\* Nobody has found the table empty, or one boot has and is at the first key as
\* long as it is.
PairInv ==
    /\ hist.generators = 0 =>
        /\ table = {} /\ hist.changes = 0
        /\ \A n \in Nodes : node[n].pc \in {"down", "lock", "list"}
    /\ hist.generators # 0 =>
        /\ hist.generators = 1
        /\ table = {} => \E n \in Nodes : node[n].pc = "create"

\* What a node that serves or is about to has read is the table.
HasTable(x) ==
    /\ x.pc = "release" => x.read = table
    /\ x.pc = "up" => x.keys = table /\ x.mark = table /\ (x.reading => x.read = table)

\* Before any admin request every node that serves has the table, and nobody
\* serves before the pair is complete.
QuietInv == hist.changes = 0 =>
    /\ \A n \in Nodes : HasTable(node[n])
    /\ \A n, m \in Nodes : node[n].pc \in {"create", "createDefault"} => node[m].pc # "up"

BootInv == ~hist.overrun /\ ~hist.broken => LeaseInv /\ PairInv /\ QuietInv

\* Nobody is at an admin request before the first.
CalmInv == hist.changes = 0 => \A a \in Admins : admin[a].pc = "idle"

ReadInv == \A n \in Nodes : node[n].reading => node[n].pc = "up"

KeysInv == KeysTypes /\ RowsInv /\ FoundInv /\ CalmInv /\ ReadInv /\ ActiveInv /\ BootInv

-----------------------------------------------------------------------------
(* Every variable keeps its shape. *)

\* Rows stay rows, created or demoted.
LEMMA RowTypes ==
    ASSUME KeysTypes
    PROVE  /\ \A alg \in AlgNames : Keys!Created(alg) \in SUBSET KeyRow
           /\ \A kids : Keys!Demoted(table, kids) \in SUBSET KeyRow
<1>1. hist.made + 1 \in Nat
  BY DEF KeysTypes, KeysHist
<1>2. ASSUME NEW alg \in AlgNames PROVE Keys!Created(alg) \in SUBSET KeyRow
  <2>1. [kid |-> hist.made + 1, alg |-> alg, active |-> TRUE] \in KeyRow
    BY <1>1 DEF KeyRow
  <2> QED BY <2>1 DEF KeysTypes, Keys!Created
<1>3. ASSUME NEW kids, NEW r \in table
      PROVE  [r EXCEPT !.active = @ /\ r.kid \notin kids] \in KeyRow
  <2>1. r \in KeyRow
    BY DEF KeysTypes
  <2>2. (r.active /\ r.kid \notin kids) \in BOOLEAN
    OBVIOUS
  <2> QED BY <2>1, <2>2 DEF KeyRow
<1>4. ASSUME NEW kids PROVE Keys!Demoted(table, kids) \in SUBSET KeyRow
  BY <1>3 DEF Keys!Demoted
<1> QED BY <1>2, <1>4

\* A node keeps its shape where its boot moves on, reads the table or ends.
LEMMA NodeTypes ==
    ASSUME KeysTypes, NEW n \in Nodes
    PROVE  /\ node[n] \in NodeState /\ Keys!Down \in NodeState
           /\ \A pc \in BootSteps : [node[n] EXCEPT !.pc = pc] \in NodeState
           /\ [node[n] EXCEPT !.pc = "release", !.read = table] \in NodeState
           /\ [Keys!Down EXCEPT !.pc = "up", !.keys = node[n].read, !.mark = node[n].read] \in NodeState
           /\ [node[n] EXCEPT !.read = table, !.reading = TRUE] \in NodeState
           /\ [node[n] EXCEPT !.keys = Keys!KeyStore(n), !.mark = node[n].read, !.reading = FALSE]
                \in NodeState
           /\ [node[n] EXCEPT !.reading = FALSE] \in NodeState
<1>1. node[n] \in NodeState /\ table \in SUBSET KeyRow
  BY DEF KeysTypes
<1>2. Keys!Down \in NodeState
  BY DEF Keys!Down, NodeState, BootSteps
<1>3. node[n].read \in SUBSET KeyRow /\ node[n].keys \in SUBSET KeyRow
  BY <1>1 DEF NodeState
<1>4. Keys!KeyStore(n) \in SUBSET KeyRow
  BY <1>3 DEF Keys!KeyStore
<1>5. \A pc \in BootSteps : [node[n] EXCEPT !.pc = pc] \in NodeState
  BY <1>1 DEF NodeState
<1>6. [node[n] EXCEPT !.pc = "release", !.read = table] \in NodeState
  BY <1>1 DEF NodeState, BootSteps
<1>7. [Keys!Down EXCEPT !.pc = "up", !.keys = node[n].read, !.mark = node[n].read] \in NodeState
  BY <1>2, <1>3 DEF NodeState, BootSteps
<1>8. [node[n] EXCEPT !.read = table, !.reading = TRUE] \in NodeState
  BY <1>1 DEF NodeState
<1>9. [node[n] EXCEPT !.keys = Keys!KeyStore(n), !.mark = node[n].read, !.reading = FALSE] \in NodeState
  BY <1>1, <1>3, <1>4 DEF NodeState
<1>10. [node[n] EXCEPT !.reading = FALSE] \in NodeState
  BY <1>1 DEF NodeState
<1> QED BY <1>1, <1>2, <1>5, <1>6, <1>7, <1>8, <1>9, <1>10

\* The history keeps its shape where it counts or notes something.
LEMMA HistTypes ==
    ASSUME KeysTypes
    PROVE  /\ [hist EXCEPT !.generators = @ + 1] \in KeysHist
           /\ [hist EXCEPT !.made = @ + 1] \in KeysHist
           /\ [hist EXCEPT !.crashes = @ + 1] \in KeysHist
           /\ [hist EXCEPT !.crashes = @ + 1, !.broken = TRUE] \in KeysHist
           /\ \A b \in BOOLEAN : /\ [hist EXCEPT !.overrun = @ \/ b] \in KeysHist
                                 /\ [hist EXCEPT !.changes = @ + 1, !.crossed = @ \/ b] \in KeysHist
                                 /\ [hist EXCEPT !.crashes = @ + 1, !.broken = @ \/ b] \in KeysHist
<1>1. hist \in KeysHist
  BY DEF KeysTypes
<1>2. /\ hist.generators + 1 \in Nat /\ hist.made + 1 \in Nat /\ hist.crashes + 1 \in Nat
      /\ hist.changes + 1 \in Nat
      /\ \A b \in BOOLEAN : /\ (hist.overrun \/ b) \in BOOLEAN /\ (hist.crossed \/ b) \in BOOLEAN
                            /\ (hist.broken \/ b) \in BOOLEAN
  BY <1>1 DEF KeysHist
<1> QED BY <1>1, <1>2 DEF KeysHist

\* Every step keeps the shapes.
LEMMA KeysTypesStep ==
    ASSUME KeysTypes, Keys!Next
    PROVE  KeysTypes'
<1>1. ASSUME NEW n \in Nodes, NEW x \in NodeState, node' = [node EXCEPT ![n] = x]
      PROVE  node' \in [Nodes -> NodeState]
  BY <1>1 DEF KeysTypes
<1>2. ASSUME NEW a \in Admins, NEW x \in AdminState, admin' = [admin EXCEPT ![a] = x]
      PROVE  admin' \in [Admins -> AdminState]
  BY <1>2 DEF KeysTypes
<1>3. Keys!NoLock \in LockState /\ Keys!IdleAdmin \in AdminState
  BY DEF Keys!NoLock, LockState, Keys!IdleAdmin, AdminState, AlgNames
<1>4. ASSUME NEW n \in Nodes, NEW pc \in BootSteps, Keys!AtNode(n, pc)
      PROVE  node' \in [Nodes -> NodeState]
  BY <1>1, <1>4, NodeTypes DEF Keys!AtNode
<1>5. /\ now \in Nat /\ table \in SUBSET KeyRow /\ lock \in LockState
      /\ node \in [Nodes -> NodeState] /\ admin \in [Admins -> AdminState] /\ hist \in KeysHist
  BY DEF KeysTypes
<1>6. ASSUME NEW n \in Nodes, Keys!Start(n) PROVE KeysTypes'
  <2>1. node' \in [Nodes -> NodeState]
    BY <1>4, <1>6 DEF Keys!Start, BootSteps
  <2> QED BY <1>5, <1>6, <2>1 DEF Keys!Start, KeysTypes
<1>7. ASSUME NEW n \in Nodes, Keys!Acquire(n) PROVE KeysTypes'
  <2>1. node' \in [Nodes -> NodeState]
    BY <1>4, <1>7 DEF Keys!Acquire, BootSteps
  <2>2. lock' \in LockState
    BY <1>5, <1>7, KeysAssumption DEF Keys!Acquire, LockState, KeysAssumption
  <2> QED BY <1>5, <1>7, <2>1, <2>2 DEF Keys!Acquire, KeysTypes
<1>8. ASSUME NEW n \in Nodes, Keys!ListKeys(n) PROVE KeysTypes'
  <2>1. node' \in [Nodes -> NodeState]
    BY <1>1, <1>4, <1>8, NodeTypes DEF Keys!ListKeys, BootSteps
  <2>2. hist' \in KeysHist
    BY <1>5, <1>8, HistTypes DEF Keys!ListKeys
  <2> QED BY <1>5, <1>8, <2>1, <2>2 DEF Keys!ListKeys, KeysTypes
<1>9. ASSUME NEW n \in Nodes, Keys!CreateKey(n) PROVE KeysTypes'
  <2>1. node' \in [Nodes -> NodeState]
    BY <1>4, <1>9 DEF Keys!CreateKey, BootSteps
  <2>2. table' \in SUBSET KeyRow
    BY <1>9, RowTypes DEF Keys!CreateKey, AlgNames
  <2>3. hist' \in KeysHist
    BY <1>9, HistTypes DEF Keys!CreateKey
  <2> QED BY <1>5, <1>9, <2>1, <2>2, <2>3 DEF Keys!CreateKey, KeysTypes
<1>10. ASSUME NEW n \in Nodes, Keys!Relist(n) PROVE KeysTypes'
  <2>1. node' \in [Nodes -> NodeState]
    BY <1>1, <1>10, NodeTypes DEF Keys!Relist
  <2> QED BY <1>5, <1>10, <2>1 DEF Keys!Relist, KeysTypes
<1>11. ASSUME NEW n \in Nodes, Keys!Release(n) PROVE KeysTypes'
  <2>1. node' \in [Nodes -> NodeState]
    BY <1>1, <1>11, NodeTypes DEF Keys!Release
  <2> QED BY <1>3, <1>5, <1>11, <2>1 DEF Keys!Release, KeysTypes
<1>12. ASSUME NEW n \in Nodes, Keys!BootFails(n) PROVE KeysTypes'
  <2>1. node' \in [Nodes -> NodeState]
    BY <1>1, <1>12, NodeTypes DEF Keys!BootFails
  <2>2. hist' \in KeysHist
    BY <1>12, HistTypes DEF Keys!BootFails
  <2> QED BY <1>3, <1>5, <1>12, <2>1, <2>2 DEF Keys!BootFails, KeysTypes
<1>13. ASSUME NEW n \in Nodes, Keys!Crash(n) PROVE KeysTypes'
  <2>1. node' \in [Nodes -> NodeState]
    BY <1>1, <1>13, NodeTypes DEF Keys!Crash
  <2>2. hist' \in KeysHist
    BY <1>13, HistTypes DEF Keys!Crash
  <2> QED BY <1>5, <1>13, <2>1, <2>2 DEF Keys!Crash, KeysTypes
<1>14. ASSUME NEW n \in Nodes, Keys!Refresh(n) PROVE KeysTypes'
  <2>1. node' \in [Nodes -> NodeState]
    BY <1>1, <1>14, NodeTypes DEF Keys!Refresh, Keys!RefreshRead, Keys!RefreshApply
  <2> QED BY <1>5, <1>14, <2>1 DEF Keys!Refresh, Keys!RefreshRead, Keys!RefreshApply, KeysTypes
<1>15. ASSUME NEW a \in Admins, Keys!RotateRead(a) PROVE KeysTypes'
  <2>1. PICK alg \in Algs : admin' = [admin EXCEPT ![a] =
            [Keys!IdleAdmin EXCEPT !.pc = "create", !.alg = alg, !.rows = table]]
    BY <1>15 DEF Keys!RotateRead
  <2>2. [Keys!IdleAdmin EXCEPT !.pc = "create", !.alg = alg, !.rows = table] \in AdminState
    BY <1>3, <1>5 DEF AdminState, AlgNames
  <2>3. admin' \in [Admins -> AdminState]
    BY <1>2, <2>1, <2>2
  <2>4. hist' \in KeysHist
    BY <1>15, HistTypes DEF Keys!RotateRead, Keys!Overlaps
  <2> QED BY <1>5, <1>15, <2>3, <2>4 DEF Keys!RotateRead, KeysTypes
<1>16. ASSUME NEW a \in Admins, Keys!RotateCreate(a) PROVE KeysTypes'
  <2>1. admin[a] \in AdminState /\ admin[a].alg \in AlgNames
    BY <1>5 DEF AdminState
  <2>2. admin' \in [Admins -> AdminState]
    BY <1>5, <1>16, <2>1 DEF Keys!RotateCreate, AdminState
  <2>3. hist' \in KeysHist
    BY <1>16, HistTypes DEF Keys!RotateCreate
  <2>4. table' \in SUBSET KeyRow
    BY <1>16, <2>1, RowTypes DEF Keys!RotateCreate
  <2> QED BY <1>5, <1>16, <2>2, <2>3, <2>4 DEF Keys!RotateCreate, KeysTypes
<1>17. ASSUME NEW a \in Admins, Keys!RotateDemote(a) PROVE KeysTypes'
  <2>1. admin' \in [Admins -> AdminState]
    BY <1>2, <1>3, <1>17 DEF Keys!RotateDemote
  <2>2. table' \in SUBSET KeyRow
    BY <1>17, RowTypes DEF Keys!RotateDemote
  <2> QED BY <1>5, <1>17, <2>1, <2>2 DEF Keys!RotateDemote, KeysTypes
<1>18. ASSUME NEW a \in Admins, Keys!DisableRead(a) PROVE KeysTypes'
  <2>1. PICK r \in table : admin' = [admin EXCEPT ![a] =
            [Keys!IdleAdmin EXCEPT !.pc = "disable", !.kid = r.kid]]
    BY <1>18 DEF Keys!DisableRead
  <2>2. r.kid \in Nat
    BY <1>5 DEF KeyRow
  <2>3. [Keys!IdleAdmin EXCEPT !.pc = "disable", !.kid = r.kid] \in AdminState
    BY <1>3, <2>2 DEF AdminState
  <2>4. admin' \in [Admins -> AdminState]
    BY <1>2, <2>1, <2>3
  <2>5. hist' \in KeysHist
    BY <1>18, HistTypes DEF Keys!DisableRead, Keys!Overlaps
  <2> QED BY <1>5, <1>18, <2>4, <2>5 DEF Keys!DisableRead, KeysTypes
<1>19. ASSUME NEW a \in Admins, Keys!DisableUpdate(a) PROVE KeysTypes'
  <2>1. admin' \in [Admins -> AdminState]
    BY <1>2, <1>3, <1>19 DEF Keys!DisableUpdate
  <2>2. table' \in SUBSET KeyRow
    BY <1>19, RowTypes DEF Keys!DisableUpdate
  <2> QED BY <1>5, <1>19, <2>1, <2>2 DEF Keys!DisableUpdate, KeysTypes
<1>20. ASSUME NEW a \in Admins, Keys!AdminLost(a) PROVE KeysTypes'
  <2>1. admin' \in [Admins -> AdminState]
    BY <1>2, <1>3, <1>20 DEF Keys!AdminLost
  <2>2. hist' \in KeysHist
    BY <1>20, HistTypes DEF Keys!AdminLost
  <2> QED BY <1>5, <1>20, <2>1, <2>2 DEF Keys!AdminLost, KeysTypes
<1>21. ASSUME Keys!Tick PROVE KeysTypes'
  <2>1. hist' \in KeysHist
    BY <1>21, HistTypes DEF Keys!Tick
  <2> QED BY <1>5, <1>21, <2>1 DEF Keys!Tick, KeysTypes
<1> QED BY <1>6, <1>7, <1>8, <1>9, <1>10, <1>11, <1>12, <1>13, <1>14, <1>15, <1>16, <1>17, <1>18,
           <1>19, <1>20, <1>21 DEF Keys!Next

-----------------------------------------------------------------------------
(* The table: rows are added and demoted. *)

\* What a step does to the table and to the number of keys made.
LEMMA TableStep ==
    ASSUME KeysTypes, Keys!Next
    PROVE  \/ \E alg \in AlgNames : /\ table' = Keys!Created(alg)
                                    /\ hist' = [hist EXCEPT !.made = @ + 1]
           \/ \E kids : table' = Keys!Demoted(table, kids) /\ hist' = hist
           \/ table' = table /\ hist'.made = hist.made
<1>1. ASSUME NEW n \in Nodes, \/ Keys!Start(n) \/ Keys!Acquire(n) \/ Keys!Relist(n)
                              \/ Keys!Release(n) \/ Keys!Refresh(n)
      PROVE  table' = table /\ hist'.made = hist.made
  BY <1>1 DEF Keys!Start, Keys!Acquire, Keys!Relist, Keys!Release, Keys!Refresh,
              Keys!RefreshRead, Keys!RefreshApply
<1>2. ASSUME NEW n \in Nodes, Keys!ListKeys(n) \/ Keys!BootFails(n) \/ Keys!Crash(n)
      PROVE  table' = table /\ hist'.made = hist.made
  BY <1>2 DEF Keys!ListKeys, Keys!BootFails, Keys!Crash, KeysTypes, KeysHist
<1>3. ASSUME NEW n \in Nodes, Keys!CreateKey(n)
      PROVE  \E alg \in AlgNames : /\ table' = Keys!Created(alg)
                                   /\ hist' = [hist EXCEPT !.made = @ + 1]
  BY <1>3 DEF Keys!CreateKey, AlgNames
<1>4. ASSUME NEW a \in Admins, Keys!RotateCreate(a)
      PROVE  \E alg \in AlgNames : /\ table' = Keys!Created(alg)
                                   /\ hist' = [hist EXCEPT !.made = @ + 1]
  <2>1. admin[a].alg \in AlgNames
    BY DEF KeysTypes, AdminState
  <2> QED BY <1>4, <2>1 DEF Keys!RotateCreate
<1>5. ASSUME NEW a \in Admins, Keys!RotateDemote(a) \/ Keys!DisableUpdate(a)
      PROVE  \E kids : table' = Keys!Demoted(table, kids) /\ hist' = hist
  BY <1>5 DEF Keys!RotateDemote, Keys!DisableUpdate
<1>6. ASSUME NEW a \in Admins, Keys!RotateRead(a) \/ Keys!DisableRead(a) \/ Keys!AdminLost(a)
      PROVE  table' = table /\ hist'.made = hist.made
  BY <1>6 DEF Keys!RotateRead, Keys!DisableRead, Keys!AdminLost, KeysTypes, KeysHist
<1>7. ASSUME Keys!Tick PROVE table' = table /\ hist'.made = hist.made
  BY <1>7 DEF Keys!Tick, KeysTypes, KeysHist
<1> QED BY <1>1, <1>2, <1>3, <1>4, <1>5, <1>6, <1>7 DEF Keys!Next

\* Demoting keeps the number of a row, and the row of a number it does not name.
LEMMA DemotedRow ==
    ASSUME KeysTypes, NEW kids
    PROVE  /\ \A s \in Keys!Demoted(table, kids) : \E r \in table :
                  s.kid = r.kid /\ s = [r EXCEPT !.active = @ /\ r.kid \notin kids]
           /\ \A r \in table : \E s \in Keys!Demoted(table, kids) :
                  s.kid = r.kid /\ (r.active /\ r.kid \notin kids => s.active)
<1>1. ASSUME NEW r \in table
      PROVE  /\ [r EXCEPT !.active = @ /\ r.kid \notin kids].kid = r.kid
             /\ r.active /\ r.kid \notin kids => [r EXCEPT !.active = @ /\ r.kid \notin kids].active
  BY DEF KeysTypes, KeyRow
<1> QED BY <1>1 DEF Keys!Demoted

\* The row a new key gets.
LEMMA CreatedRow ==
    ASSUME KeysTypes, NEW alg
    PROVE  \E s : /\ s.kid = hist.made + 1 /\ s.active
                  /\ Keys!Created(alg) = table \cup {s}
  BY DEF Keys!Created

\* The numbers of the rows stay what they should be.
LEMMA RowsStep ==
    ASSUME KeysTypes, RowsInv, Keys!Next
    PROVE  RowsInv'
<1>0. hist.made \in Nat /\ \A r \in table : r.kid \in Nat
  BY DEF KeysTypes, KeysHist, KeyRow
<1>1. ASSUME NEW alg \in AlgNames, table' = Keys!Created(alg), hist' = [hist EXCEPT !.made = @ + 1]
      PROVE  RowsInv'
  <2>1. PICK s : s.kid = hist.made + 1 /\ table' = table \cup {s}
    BY <1>1, CreatedRow
  <2>2. hist'.made = hist.made + 1
    BY <1>1 DEF KeysTypes, KeysHist
  <2> QED BY <1>0, <2>1, <2>2 DEF RowsInv
<1>2. ASSUME NEW kids, table' = Keys!Demoted(table, kids), hist' = hist
      PROVE  RowsInv'
  <2>1. \A s \in table' : \E r \in table :
            s.kid = r.kid /\ s = [r EXCEPT !.active = @ /\ r.kid \notin kids]
    BY <1>2, DemotedRow
  <2> QED BY <1>2, <2>1 DEF RowsInv
<1>3. ASSUME table' = table, hist'.made = hist.made PROVE RowsInv'
  BY <1>3 DEF RowsInv
<1> QED BY <1>1, <1>2, <1>3, TableStep

-----------------------------------------------------------------------------
(* Where nodes and admin requests can be *)

\* Rows never go.
LEMMA TableStays ==
    ASSUME KeysTypes, Keys!Next, table # {}
    PROVE  table' # {}
<1>1. ASSUME NEW alg, table' = Keys!Created(alg) PROVE table' # {}
  BY <1>1 DEF Keys!Created
<1>2. ASSUME NEW kids, table' = Keys!Demoted(table, kids) PROVE table' # {}
  BY <1>2 DEF Keys!Demoted
<1> QED BY <1>1, <1>2, TableStep

\* A node that reads serves, and one past its first key has found or made keys.
LEMMA FoundStep ==
    ASSUME KeysTypes, FoundInv, ReadInv, Keys!Next
    PROVE  FoundInv' /\ ReadInv'
<1>0. node \in [Nodes -> NodeState]
  BY DEF KeysTypes
<1>1. ASSUME NEW n \in Nodes, Keys!Start(n) \/ Keys!Acquire(n)
      PROVE  FoundInv' /\ ReadInv'
  <2>1. table' = table /\ \E pc \in {"lock", "list"} : node' = [node EXCEPT ![n] = [@ EXCEPT !.pc = pc]]
    BY <1>1 DEF Keys!Start, Keys!Acquire, Keys!AtNode
  <2>2. node[n].pc # "up"
    BY <1>1 DEF Keys!Start, Keys!Acquire
  <2> QED BY <1>0, <2>1, <2>2 DEF FoundInv, ReadInv, NodeState
<1>2. ASSUME NEW n \in Nodes, Keys!ListKeys(n) PROVE FoundInv' /\ ReadInv'
  <2>1. /\ table' = table /\ node[n].pc = "list"
        /\ \/ node' = [node EXCEPT ![n] = [node[n] EXCEPT !.pc = "create"]]
           \/ table # {} /\ node' = [node EXCEPT ![n] = [node[n] EXCEPT !.pc = "release", !.read = table]]
    BY <1>2 DEF Keys!ListKeys, Keys!AtNode
  <2>2. node[n] \in NodeState /\ ~node[n].reading
    BY <1>0, <2>1 DEF ReadInv
  <2>3. PICK x : /\ node' = [node EXCEPT ![n] = x]
                 /\ \/ x = [node[n] EXCEPT !.pc = "create"]
                    \/ table # {} /\ x = [node[n] EXCEPT !.pc = "release", !.read = table]
    BY <2>1
  <2>4. ~x.reading /\ x.pc \in {"create", "release"} /\ (x.pc = "release" => table # {})
    BY <2>2, <2>3 DEF NodeState
  <2> QED BY <1>0, <2>1, <2>3, <2>4 DEF FoundInv, ReadInv
<1>3. ASSUME NEW n \in Nodes, Keys!CreateKey(n) PROVE FoundInv' /\ ReadInv'
  <2>1. table' # {}
    BY <1>3 DEF Keys!CreateKey, Keys!Created
  <2> QED BY <1>0, <1>3, <2>1 DEF Keys!CreateKey, Keys!AtNode, FoundInv, ReadInv, NodeState
<1>4. ASSUME NEW n \in Nodes, Keys!Relist(n) \/ Keys!Release(n)
      PROVE FoundInv' /\ ReadInv'
  BY <1>0, <1>4 DEF Keys!Relist, Keys!Release, Keys!Down, FoundInv, ReadInv, NodeState
<1>5. ASSUME NEW n \in Nodes, Keys!BootFails(n) \/ Keys!Crash(n)
      PROVE FoundInv' /\ ReadInv'
  <2>1. table' = table /\ node' = [node EXCEPT ![n] = Keys!Down]
    BY <1>5 DEF Keys!BootFails, Keys!Crash
  <2> QED BY <1>0, <2>1 DEF Keys!Down, FoundInv, ReadInv, NodeState
<1>6. ASSUME NEW n \in Nodes, Keys!Refresh(n)
      PROVE FoundInv' /\ ReadInv'
  <2>1. CASE Keys!RefreshRead(n)
    BY <1>0, <2>1 DEF Keys!RefreshRead, FoundInv, ReadInv, NodeState
  <2>2. CASE Keys!RefreshApply(n)
    BY <1>0, <2>2 DEF Keys!RefreshApply, FoundInv, ReadInv, NodeState
  <2> QED BY <1>6, <2>1, <2>2 DEF Keys!Refresh
<1>7. ASSUME node' = node PROVE FoundInv' /\ ReadInv'
  BY <1>7, TableStays DEF FoundInv, ReadInv
<1>8. ASSUME NEW a \in Admins, \/ Keys!RotateRead(a) \/ Keys!RotateCreate(a) \/ Keys!RotateDemote(a)
                               \/ Keys!DisableRead(a) \/ Keys!DisableUpdate(a) \/ Keys!AdminLost(a)
      PROVE  node' = node
  BY <1>8 DEF Keys!RotateRead, Keys!RotateCreate, Keys!RotateDemote, Keys!DisableRead,
              Keys!DisableUpdate, Keys!AdminLost
<1>9. ASSUME Keys!Tick PROVE node' = node
  BY <1>9 DEF Keys!Tick
<1> QED BY <1>1, <1>2, <1>3, <1>4, <1>5, <1>6, <1>7, <1>8, <1>9 DEF Keys!Next

\* A node's step is not an admin request's.
LEMMA AdminStays ==
    ASSUME KeysTypes,
           \/ Keys!Tick
           \/ \E n \in Nodes : \/ Keys!Start(n) \/ Keys!Acquire(n) \/ Keys!ListKeys(n)
                               \/ Keys!CreateKey(n) \/ Keys!Relist(n) \/ Keys!Release(n)
                               \/ Keys!BootFails(n) \/ Keys!Crash(n) \/ Keys!Refresh(n)
    PROVE  admin' = admin /\ hist'.crossed = hist.crossed /\ hist'.changes = hist.changes
<1>0. hist \in KeysHist
  BY DEF KeysTypes
<1>1. CASE Keys!Tick
  BY <1>0, <1>1 DEF Keys!Tick, KeysHist
<1>2. ASSUME NEW n \in Nodes, \/ Keys!Start(n) \/ Keys!Acquire(n) \/ Keys!Relist(n)
                              \/ Keys!Release(n) \/ Keys!Refresh(n)
      PROVE  admin' = admin /\ hist' = hist
  BY <1>2 DEF Keys!Start, Keys!Acquire, Keys!Relist, Keys!Release, Keys!Refresh,
              Keys!RefreshRead, Keys!RefreshApply
<1>3. ASSUME NEW n \in Nodes, \/ Keys!ListKeys(n) \/ Keys!CreateKey(n) \/ Keys!BootFails(n)
                              \/ Keys!Crash(n)
      PROVE  admin' = admin /\ hist'.crossed = hist.crossed /\ hist'.changes = hist.changes
  BY <1>0, <1>3 DEF Keys!ListKeys, Keys!CreateKey, Keys!BootFails, Keys!Crash, KeysHist
<1> QED BY <1>1, <1>2, <1>3

\* The first admin request is counted before it does anything.
LEMMA CalmStep ==
    ASSUME KeysTypes, CalmInv, Keys!Next
    PROVE  CalmInv'
<1>0. hist \in KeysHist /\ admin \in [Admins -> AdminState]
  BY DEF KeysTypes
<1>1. ASSUME NEW a \in Admins, Keys!RotateRead(a) \/ Keys!DisableRead(a) PROVE hist'.changes # 0
  <2>1. PICK b : hist' = [hist EXCEPT !.changes = @ + 1, !.crossed = b]
    BY <1>1 DEF Keys!RotateRead, Keys!DisableRead
  <2>2. hist'.changes = hist.changes + 1 /\ hist.changes \in Nat
    BY <1>0, <2>1 DEF KeysHist
  <2> QED BY <2>2
<1>2. ASSUME NEW a \in Admins, \/ Keys!RotateCreate(a) \/ Keys!RotateDemote(a)
                               \/ Keys!DisableUpdate(a) \/ Keys!AdminLost(a)
      PROVE  hist'.changes # 0
  <2>1. admin[a].pc # "idle" /\ hist'.changes = hist.changes
    BY <1>0, <1>2 DEF Keys!RotateCreate, Keys!RotateDemote, Keys!DisableUpdate, Keys!AdminLost, KeysHist
  <2> QED BY <2>1 DEF CalmInv
<1>3. ASSUME admin' = admin, hist'.changes = hist.changes PROVE CalmInv'
  BY <1>3 DEF CalmInv
<1> QED BY <1>1, <1>2, <1>3, AdminStays DEF Keys!Next, CalmInv

-----------------------------------------------------------------------------
(* Some key is active *)

\* A new key leaves active keys alone.
LEMMA CreatedSpares ==
    ASSUME NEW alg, table' = Keys!Created(alg), NEW kids, Spared(kids)
    PROVE  Spared(kids)'
  BY DEF Keys!Created, Spared

\* Demoting leaves alone what it does not name.
LEMMA DemotedSpares ==
    ASSUME KeysTypes, NEW kids, table' = Keys!Demoted(table, kids), Spared(kids)
    PROVE  Spared({})'
<1>1. PICK r \in table : r.active /\ r.kid \notin kids
  BY DEF Spared
<1>2. PICK s \in Keys!Demoted(table, kids) : s.active
  BY <1>1, DemotedRow
<1> QED BY <1>2 DEF Spared

\* An admin request's step: its own state is all that changes of them.
LEMMA OneAdmin ==
    ASSUME KeysTypes, NEW a \in Admins, NEW x \in AdminState, admin' = [admin EXCEPT ![a] = x],
           \A b \in Admins : b # a => admin[b].pc = "idle",
           AdminInv(x)', (table # {} => Spared({}))', ~hist'.crossed
    PROVE  ActiveInv'
<1>1. admin'[a] = x /\ \A b \in Admins : b # a => admin'[b].pc = "idle"
  BY DEF KeysTypes
<1>2. \A b, c \in Admins : admin'[b].pc # "idle" /\ admin'[c].pc # "idle" => b = c
  BY <1>1
<1>3. ASSUME NEW b \in Admins PROVE AdminInv(admin[b])'
  <2>1. CASE b = a
    BY <1>1, <2>1 DEF AdminInv, Spared
  <2>2. CASE b # a
    <3>1. admin'[b].pc = "idle"
      BY <1>1, <2>2
    <3> QED BY <3>1 DEF AdminInv
  <2> QED BY <2>1, <2>2
<1> QED BY <1>2, <1>3 DEF ActiveInv

\* The other steps: admin requests stay where they are, and rows are only added.
LEMMA NoAdmin ==
    ASSUME KeysTypes, ActiveInv, admin' = admin, hist'.crossed = hist.crossed,
           \/ table' = table /\ hist'.made = hist.made
           \/ \E alg : table' = Keys!Created(alg) /\ hist'.made = hist.made + 1
    PROVE  ActiveInv'
<1> SUFFICES ASSUME ~hist'.crossed PROVE ActiveInv'
  BY DEF ActiveInv
<1>1. ~hist.crossed
  OBVIOUS
<1>2. ASSUME NEW kids, Spared(kids) PROVE Spared(kids)'
  <2>1. CASE table' = table
    BY <1>2, <2>1 DEF Spared
  <2>2. ASSUME NEW alg, table' = Keys!Created(alg) PROVE Spared(kids)'
    BY <1>2, <2>2, CreatedSpares
  <2> QED BY <2>1, <2>2
<1>3. hist.made \in Nat /\ hist'.made \in Nat /\ hist.made <= hist'.made
  BY DEF KeysTypes, KeysHist
<1>4. ASSUME NEW b \in Admins PROVE AdminInv(admin[b])'
  <2>1. PICK x : x = admin[b]
    OBVIOUS
  <2>2. AdminInv(x)
    BY <1>1, <2>1 DEF ActiveInv
  <2>3. x.pc = "create" => \A r \in x.rows : r.kid <= hist'.made
    <3>1. \A r \in x.rows : r.kid \in Nat
      BY <2>1 DEF KeysTypes, AdminState, KeyRow
    <3> QED BY <1>3, <2>2, <3>1 DEF AdminInv
  <2>4. x.pc = "demote" => Spared({r.kid : r \in x.rows})'
    BY <1>2, <2>2 DEF AdminInv
  <2>5. x.pc = "disable" => Spared({x.kid})'
    BY <1>2, <2>2 DEF AdminInv
  <2>6. AdminInv(x)'
    BY <2>3, <2>4, <2>5 DEF AdminInv
  <2> QED BY <2>1, <2>6 DEF AdminInv, Spared
<1>5. (table # {} => Spared({}))'
  <2>1. CASE table' = table
    BY <1>1, <2>1 DEF ActiveInv, Spared
  <2>2. ASSUME NEW alg, table' = Keys!Created(alg) PROVE Spared({})'
    <3>1. PICK s : s.active /\ table' = table \cup {s}
      BY <2>2, CreatedRow
    <3> QED BY <3>1 DEF Spared
  <2> QED BY <2>1, <2>2
<1>6. \A b, c \in Admins : admin'[b].pc # "idle" /\ admin'[c].pc # "idle" => b = c
  BY <1>1 DEF ActiveInv
<1> QED BY <1>4, <1>5, <1>6 DEF ActiveInv

\* The last active key is neither demoted nor disabled, as long as admin
\* requests do not overlap.
LEMMA ActiveStep ==
    ASSUME KeysTypes, KeysTypes', RowsInv, ActiveInv, Keys!Next
    PROVE  ActiveInv'
<1>0. /\ hist \in KeysHist /\ admin \in [Admins -> AdminState] /\ table \in SUBSET KeyRow
      /\ hist' \in KeysHist /\ admin' \in [Admins -> AdminState]
  BY DEF KeysTypes
<1>1. ASSUME NEW a \in Admins, NEW x, admin' = [admin EXCEPT ![a] = x] PROVE x \in AdminState
  <2>1. admin'[a] = x
    BY <1>0, <1>1
  <2> QED BY <1>0, <2>1
<1>2. ASSUME NEW a \in Admins, Keys!RotateRead(a), ~hist'.crossed PROVE ActiveInv'
  <2>1. PICK alg, x : /\ x = [Keys!IdleAdmin EXCEPT !.pc = "create", !.alg = alg, !.rows = table]
                      /\ admin' = [admin EXCEPT ![a] = x]
    BY <1>2 DEF Keys!RotateRead
  <2>2. x.pc = "create" /\ x.rows = table
    BY <2>1 DEF Keys!IdleAdmin
  <2>3. ~hist.crossed /\ ~Keys!Overlaps /\ hist'.made = hist.made /\ table' = table
    BY <1>0, <1>2 DEF Keys!RotateRead, KeysHist
  <2>4. \A b \in Admins : b # a => admin[b].pc = "idle"
    BY <2>3 DEF Keys!Overlaps
  <2>5. AdminInv(x)'
    BY <2>2, <2>3 DEF AdminInv, RowsInv
  <2>6. (table # {} => Spared({}))'
    BY <2>3 DEF ActiveInv, Spared
  <2>7. x \in AdminState
    BY <1>1, <2>1
  <2> QED BY <1>2, <2>1, <2>4, <2>5, <2>6, <2>7, OneAdmin
<1>3. ASSUME NEW a \in Admins, Keys!RotateCreate(a), ~hist'.crossed PROVE ActiveInv'
  <2>1. /\ admin[a].pc = "create" /\ table' = Keys!Created(admin[a].alg)
        /\ admin' = [admin EXCEPT ![a] = [admin[a] EXCEPT !.pc = "demote"]]
        /\ ~hist.crossed
    BY <1>0, <1>3 DEF Keys!RotateCreate, KeysHist
  <2>2. PICK x : x = [admin[a] EXCEPT !.pc = "demote"]
    OBVIOUS
  <2>3. x.pc = "demote" /\ x.rows = admin[a].rows
    BY <1>0, <2>2 DEF AdminState
  <2>4. PICK s : s.kid = hist.made + 1 /\ s.active /\ table' = table \cup {s}
    BY <2>1, CreatedRow
  <2>5. \A r \in x.rows : r.kid \in Nat /\ r.kid <= hist.made
    <3>1. AdminInv(admin[a]) /\ admin[a] \in AdminState
      BY <1>0, <2>1 DEF ActiveInv
    <3> QED BY <2>1, <2>3, <3>1 DEF AdminInv, AdminState, KeyRow
  <2>6. s.kid \notin {r.kid : r \in x.rows}
    <3>1. hist.made \in Nat
      BY <1>0 DEF KeysHist
    <3> QED BY <2>4, <2>5, <3>1
  <2>7. AdminInv(x)' /\ Spared({})'
    BY <2>3, <2>4, <2>6 DEF AdminInv, Spared
  <2>8. \A b \in Admins : b # a => admin[b].pc = "idle"
    BY <2>1 DEF ActiveInv
  <2>9. x \in AdminState /\ admin' = [admin EXCEPT ![a] = x]
    BY <1>1, <2>1, <2>2
  <2> QED BY <1>3, <2>7, <2>8, <2>9, OneAdmin
<1>4. ASSUME NEW a \in Admins, Keys!RotateDemote(a), ~hist'.crossed PROVE ActiveInv'
  <2>1. PICK kids : /\ kids = {r.kid : r \in {q \in Keys!Active(admin[a].rows) : q.alg = admin[a].alg}}
                    /\ table' = Keys!Demoted(table, kids)
    BY <1>4 DEF Keys!RotateDemote
  <2>2. /\ admin[a].pc = "demote" /\ admin' = [admin EXCEPT ![a] = Keys!IdleAdmin] /\ ~hist.crossed
    BY <1>4 DEF Keys!RotateDemote
  <2>3. Spared({r.kid : r \in admin[a].rows})
    BY <2>2 DEF ActiveInv, AdminInv
  <2>4. Spared(kids)
    BY <2>1, <2>3 DEF Spared, Keys!Active
  <2>5. Spared({})'
    BY <2>1, <2>4, DemotedSpares
  <2>6. \A b \in Admins : b # a => admin[b].pc = "idle"
    BY <2>2 DEF ActiveInv
  <2>7. PICK x : x = Keys!IdleAdmin
    OBVIOUS
  <2>8. AdminInv(x)'
    BY <2>7 DEF Keys!IdleAdmin, AdminInv
  <2>9. x \in AdminState /\ admin' = [admin EXCEPT ![a] = x]
    BY <1>1, <2>2, <2>7
  <2> QED BY <1>4, <2>5, <2>6, <2>8, <2>9, OneAdmin
<1>5. ASSUME NEW a \in Admins, Keys!DisableRead(a), ~hist'.crossed PROVE ActiveInv'
  <2>1. PICK d \in table : /\ Keys!MayDisable(d)
                           /\ admin' = [admin EXCEPT ![a] =
                                 [Keys!IdleAdmin EXCEPT !.pc = "disable", !.kid = d.kid]]
    BY <1>5 DEF Keys!DisableRead
  <2>2. PICK x : x = [Keys!IdleAdmin EXCEPT !.pc = "disable", !.kid = d.kid]
    OBVIOUS
  <2>3. x.pc = "disable" /\ x.kid = d.kid
    BY <2>2 DEF Keys!IdleAdmin
  <2>4. ~hist.crossed /\ ~Keys!Overlaps /\ hist'.made = hist.made /\ table' = table
    BY <1>0, <1>5 DEF Keys!DisableRead, KeysHist
  <2>5. \A b \in Admins : b # a => admin[b].pc = "idle"
    BY <2>4 DEF Keys!Overlaps
  <2>6. PICK r \in table : r.active /\ r # d
    <3>1. CASE d.active
      <4>1. Cardinality(Keys!Active(table)) > 1
        BY <2>1, <3>1 DEF Keys!MayDisable, Keys!Cardinality, Cardinality
      <4>2. Keys!Active(table) # {d}
        BY <4>1, FS_Singleton
      <4>3. d \in Keys!Active(table)
        BY <2>1, <3>1 DEF Keys!Active
      <4> QED BY <4>2, <4>3 DEF Keys!Active
    <3>2. CASE ~d.active
      BY <2>1, <2>4, <3>2 DEF ActiveInv, Spared
    <3> QED BY <3>1, <3>2
  <2>7. r.kid # d.kid
    BY <2>1, <2>6 DEF RowsInv
  <2>8. AdminInv(x)' /\ Spared({})'
    BY <2>3, <2>4, <2>6, <2>7 DEF AdminInv, Spared
  <2>9. x \in AdminState /\ admin' = [admin EXCEPT ![a] = x]
    BY <1>1, <2>1, <2>2
  <2> QED BY <1>5, <2>5, <2>8, <2>9, OneAdmin
<1>6. ASSUME NEW a \in Admins, Keys!DisableUpdate(a), ~hist'.crossed PROVE ActiveInv'
  <2>1. PICK kids : kids = {admin[a].kid} /\ table' = Keys!Demoted(table, kids)
    BY <1>6 DEF Keys!DisableUpdate
  <2>2. /\ admin[a].pc = "disable" /\ admin' = [admin EXCEPT ![a] = Keys!IdleAdmin] /\ ~hist.crossed
    BY <1>6 DEF Keys!DisableUpdate
  <2>3. Spared(kids)
    BY <2>1, <2>2 DEF ActiveInv, AdminInv
  <2>4. Spared({})'
    BY <2>1, <2>3, DemotedSpares
  <2>5. \A b \in Admins : b # a => admin[b].pc = "idle"
    BY <2>2 DEF ActiveInv
  <2>6. PICK x : x = Keys!IdleAdmin
    OBVIOUS
  <2>7. AdminInv(x)'
    BY <2>6 DEF Keys!IdleAdmin, AdminInv
  <2>8. x \in AdminState /\ admin' = [admin EXCEPT ![a] = x]
    BY <1>1, <2>2, <2>6
  <2> QED BY <1>6, <2>4, <2>5, <2>7, <2>8, OneAdmin
<1>7. ASSUME NEW a \in Admins, Keys!AdminLost(a), ~hist'.crossed PROVE ActiveInv'
  <2>1. /\ admin[a].pc # "idle" /\ admin' = [admin EXCEPT ![a] = Keys!IdleAdmin] /\ ~hist.crossed
        /\ table' = table
    BY <1>0, <1>7 DEF Keys!AdminLost, KeysHist
  <2>2. \A b \in Admins : b # a => admin[b].pc = "idle"
    BY <2>1 DEF ActiveInv
  <2>3. PICK x : x = Keys!IdleAdmin
    OBVIOUS
  <2>4. AdminInv(x)'
    BY <2>3 DEF Keys!IdleAdmin, AdminInv
  <2>5. (table # {} => Spared({}))'
    BY <2>1 DEF ActiveInv, Spared
  <2>6. x \in AdminState /\ admin' = [admin EXCEPT ![a] = x]
    BY <1>1, <2>1, <2>3
  <2> QED BY <1>7, <2>2, <2>4, <2>5, <2>6, OneAdmin
<1>8. ASSUME NEW n \in Nodes, Keys!CreateKey(n) PROVE ActiveInv'
  <2>1. \E alg : table' = Keys!Created(alg) /\ hist'.made = hist.made + 1
    BY <1>0, <1>8 DEF Keys!CreateKey, KeysHist
  <2> QED BY <1>8, <2>1, AdminStays, NoAdmin
<1>9. ASSUME NEW n \in Nodes, \/ Keys!Start(n) \/ Keys!Acquire(n) \/ Keys!ListKeys(n)
                              \/ Keys!Relist(n) \/ Keys!Release(n) \/ Keys!BootFails(n)
                              \/ Keys!Crash(n) \/ Keys!Refresh(n)
      PROVE  ActiveInv'
  <2>1. table' = table /\ hist'.made = hist.made
    BY <1>0, <1>9 DEF Keys!Start, Keys!Acquire, Keys!ListKeys, Keys!Relist, Keys!Release,
          Keys!BootFails, Keys!Crash, Keys!Refresh, Keys!RefreshRead, Keys!RefreshApply, KeysHist
  <2> QED BY <1>9, <2>1, AdminStays, NoAdmin
<1>10. ASSUME Keys!Tick PROVE ActiveInv'
  <2>1. table' = table /\ hist'.made = hist.made
    BY <1>0, <1>10 DEF Keys!Tick, KeysHist
  <2> QED BY <1>10, <2>1, AdminStays, NoAdmin
<1>11. hist'.crossed => ActiveInv'
  BY DEF ActiveInv
<1> QED BY <1>2, <1>3, <1>4, <1>5, <1>6, <1>7, <1>8, <1>9, <1>10, <1>11 DEF Keys!Next

-----------------------------------------------------------------------------
(* The boot *)

\* Where a step of a node takes its boot.
LEMMA BootStep ==
    ASSUME KeysTypes, ReadInv, NEW n \in Nodes
    PROVE  /\ Keys!Start(n) => node' = [node EXCEPT ![n] = [node[n] EXCEPT !.pc = "lock"]]
           /\ Keys!Acquire(n) => node' = [node EXCEPT ![n] = [node[n] EXCEPT !.pc = "list"]]
           /\ Keys!ListKeys(n) =>
                 \/ table = {} /\ node' = [node EXCEPT ![n] = [node[n] EXCEPT !.pc = "create"]]
                 \/ table # {} /\ node' = [node EXCEPT ![n] =
                                              [node[n] EXCEPT !.pc = "release", !.read = table]]
           /\ Keys!CreateKey(n) =>
                 \/ node[n].pc = "create" /\ node' = [node EXCEPT ![n] =
                                                        [node[n] EXCEPT !.pc = "createDefault"]]
                 \/ /\ node[n].pc = "createDefault"
                    /\ node' = [node EXCEPT ![n] = [node[n] EXCEPT !.pc = "relist"]]
           /\ Keys!Refresh(n) => /\ node[n].pc = "up"
                                 /\ \E x : node' = [node EXCEPT ![n] = x] /\ x.pc = "up"
<1>0. node \in [Nodes -> NodeState] /\ node[n] \in NodeState
  BY DEF KeysTypes
<1>1. Keys!Start(n) => node' = [node EXCEPT ![n] = [node[n] EXCEPT !.pc = "lock"]]
  BY DEF Keys!Start, Keys!AtNode
<1>2. Keys!Acquire(n) => node' = [node EXCEPT ![n] = [node[n] EXCEPT !.pc = "list"]]
  BY DEF Keys!Acquire, Keys!AtNode
<1>3. Keys!ListKeys(n) =>
         \/ table = {} /\ node' = [node EXCEPT ![n] = [node[n] EXCEPT !.pc = "create"]]
         \/ table # {} /\ node' = [node EXCEPT ![n] = [node[n] EXCEPT !.pc = "release", !.read = table]]
  BY DEF Keys!ListKeys, Keys!AtNode
<1>4. Keys!CreateKey(n) =>
         \/ node[n].pc = "create" /\ node' = [node EXCEPT ![n] = [node[n] EXCEPT !.pc = "createDefault"]]
         \/ /\ node[n].pc = "createDefault"
            /\ node' = [node EXCEPT ![n] = [node[n] EXCEPT !.pc = "relist"]]
  BY DEF Keys!CreateKey, Keys!AtNode
<1>5. ASSUME Keys!Refresh(n)
      PROVE  node[n].pc = "up" /\ \E x : node' = [node EXCEPT ![n] = x] /\ x.pc = "up"
  <2>1. node[n].pc = "up"
    BY <1>5 DEF Keys!Refresh, Keys!RefreshRead, Keys!RefreshApply, ReadInv
  <2>2. PICK x : /\ node' = [node EXCEPT ![n] = x]
                 /\ \/ x = [node[n] EXCEPT !.read = table, !.reading = TRUE]
                    \/ x = [node[n] EXCEPT !.keys = Keys!KeyStore(n), !.mark = node[n].read,
                                           !.reading = FALSE]
                    \/ x = [node[n] EXCEPT !.reading = FALSE]
    BY <1>5 DEF Keys!Refresh, Keys!RefreshRead, Keys!RefreshApply
  <2>3. x.pc = "up"
    BY <1>0, <2>1, <2>2 DEF NodeState
  <2> QED BY <2>1, <2>2, <2>3
<1> QED BY <1>1, <1>2, <1>3, <1>4, <1>5

\* A boot gets the lock when nobody boots under it, and gives it back itself.
LEMMA LeaseStep ==
    ASSUME KeysTypes, ReadInv, LeaseInv, Keys!Next, ~hist'.overrun, ~hist'.broken
    PROVE  LeaseInv'
<1>0. /\ node \in [Nodes -> NodeState] /\ now \in Nat /\ lock \in LockState /\ hist \in KeysHist
      /\ lock.exp \in Nat
  BY DEF KeysTypes, LockState
<1>1. ASSUME now' = now, lock' = lock,
             \A m \in Nodes : node'[m].pc \in {"list", "create", "createDefault", "relist", "release"}
                                => Keys!Holding(m)
      PROVE  LeaseInv'
  BY <1>1 DEF LeaseInv, Keys!Holding
<1>2. ASSUME NEW n \in Nodes, Keys!Start(n) PROVE LeaseInv'
  <2>0. PICK x : x = [node[n] EXCEPT !.pc = "lock"] /\ node' = [node EXCEPT ![n] = x]
    BY <1>2, BootStep
  <2>1. \A m \in Nodes : node'[m] = node[m] \/ node'[m].pc = "lock"
    BY <1>0, <2>0 DEF NodeState
  <2> QED BY <1>1, <1>2, <2>1 DEF Keys!Start, Keys!Holding
<1>3. ASSUME NEW n \in Nodes, Keys!Acquire(n) PROVE LeaseInv'
  <2>1. lock.exp <= now /\ now' = now /\ lock' = [owner |-> n, exp |-> now + LockTTL]
    BY <1>3 DEF Keys!Acquire, Keys!Acquires
  <2>2. \A m \in Nodes : ~Keys!Holding(m)
    BY <1>0, <2>1 DEF LeaseInv
  <2>3. \A m \in Nodes : m # n => node'[m] = node[m]
    BY <1>0, <1>3, BootStep
  <2>4. lock'.owner = n /\ now' < lock'.exp
    BY <1>0, <2>1, KeysAssumption DEF KeysAssumption
  <2> QED BY <2>2, <2>3, <2>4 DEF LeaseInv, Keys!Holding
<1>4. ASSUME NEW n \in Nodes, Keys!ListKeys(n) \/ Keys!CreateKey(n) \/ Keys!Relist(n) PROVE LeaseInv'
  <2>1. Keys!Holding(n)
    BY <1>4 DEF Keys!ListKeys, Keys!CreateKey, Keys!Relist, Keys!Holding
  <2>2. PICK x : node' = [node EXCEPT ![n] = x]
    BY <1>4, BootStep DEF Keys!Relist
  <2>3. \A m \in Nodes : m # n => node'[m] = node[m]
    BY <1>0, <2>2
  <2> QED BY <1>1, <1>4, <2>1, <2>3 DEF Keys!ListKeys, Keys!CreateKey, Keys!Relist, Keys!Holding
<1>5. ASSUME NEW n \in Nodes, Keys!Release(n) PROVE LeaseInv'
  <2>1. Keys!Holding(n)
    BY <1>5 DEF Keys!Release, Keys!Holding
  <2>2. \A m \in Nodes : Keys!Holding(m) => m = n
    BY <2>1 DEF LeaseInv
  <2>3. PICK x : x = [Keys!Down EXCEPT !.pc = "up", !.keys = node[n].read, !.mark = node[n].read]
    OBVIOUS
  <2>4. x.pc = "up" /\ node' = [node EXCEPT ![n] = x]
    BY <1>5, <2>3 DEF Keys!Release, Keys!Down
  <2>5. \A m \in Nodes : ~Keys!Holding(m)'
    BY <1>0, <2>2, <2>4 DEF Keys!Holding
  <2> QED BY <2>5 DEF LeaseInv
<1>6. ASSUME NEW n \in Nodes, Keys!BootFails(n) PROVE LeaseInv'
  <2>1. hist'.broken
    BY <1>0, <1>6 DEF Keys!BootFails, KeysHist
  <2> QED BY <2>1
<1>7. ASSUME NEW n \in Nodes, Keys!Crash(n) PROVE LeaseInv'
  <2>1. \A m \in Nodes : node'[m] = node[m] \/ node'[m].pc = "down"
    BY <1>0, <1>7 DEF Keys!Crash, Keys!Down
  <2> QED BY <1>1, <1>7, <2>1 DEF Keys!Crash, Keys!Holding
<1>8. ASSUME NEW n \in Nodes, Keys!Refresh(n) PROVE LeaseInv'
  <2>1. \A m \in Nodes : node'[m] = node[m] \/ node'[m].pc = "up"
    BY <1>0, <1>8, BootStep
  <2> QED BY <1>1, <1>8, <2>1 DEF Keys!Refresh, Keys!RefreshRead, Keys!RefreshApply, Keys!Holding
<1>9. ASSUME NEW a \in Admins, \/ Keys!RotateRead(a) \/ Keys!RotateCreate(a) \/ Keys!RotateDemote(a)
                               \/ Keys!DisableRead(a) \/ Keys!DisableUpdate(a) \/ Keys!AdminLost(a)
      PROVE  LeaseInv'
  <2>1. node' = node /\ lock' = lock /\ now' = now
    BY <1>9 DEF Keys!RotateRead, Keys!RotateCreate, Keys!RotateDemote, Keys!DisableRead,
                Keys!DisableUpdate, Keys!AdminLost
  <2> QED BY <1>1, <2>1 DEF Keys!Holding
<1>10. ASSUME Keys!Tick PROVE LeaseInv'
  <2>1. node' = node /\ lock' = lock /\ now' = now + 1
    BY <1>10 DEF Keys!Tick
  <2>2. ~(lock.exp = now + 1 /\ \E n \in Nodes : lock.owner = n /\ Keys!Holding(n))
    BY <1>0, <1>10 DEF Keys!Tick, KeysHist
  <2>3. ASSUME NEW n \in Nodes, Keys!Holding(n) PROVE lock.owner = n /\ now + 1 < lock.exp
    <3>1. lock.owner = n /\ now < lock.exp /\ lock.exp # now + 1
      BY <2>2, <2>3 DEF LeaseInv
    <3> QED BY <1>0, <3>1
  <2> QED BY <2>1, <2>3 DEF LeaseInv, Keys!Holding
<1> QED BY <1>2, <1>3, <1>4, <1>5, <1>6, <1>7, <1>8, <1>9, <1>10 DEF Keys!Next

\* The table is found empty once.
LEMMA PairStep ==
    ASSUME KeysTypes, ReadInv, FoundInv, CalmInv, LeaseInv, PairInv, Keys!Next, ~hist'.broken
    PROVE  PairInv'
<1>0. /\ node \in [Nodes -> NodeState] /\ hist \in KeysHist /\ hist.generators \in Nat
  BY DEF KeysTypes, KeysHist
<1>1. ASSUME hist'.generators = hist.generators, hist.generators # 0,
             table = {} /\ table' = {} => node' = node
      PROVE  PairInv'
  BY <1>1, TableStays DEF PairInv
<1>2. ASSUME NEW n \in Nodes, Keys!Start(n) \/ Keys!Acquire(n) PROVE PairInv'
  <2>1. PICK pc, x : /\ pc \in {"lock", "list"} /\ x = [node[n] EXCEPT !.pc = pc]
                     /\ node' = [node EXCEPT ![n] = x]
    BY <1>2, BootStep
  <2>2. x.pc \in {"lock", "list"}
    BY <1>0, <2>1 DEF NodeState
  <2>3. node[n].pc # "create" /\ table' = table /\ hist' = hist
    BY <1>2 DEF Keys!Start, Keys!Acquire
  <2> QED BY <1>0, <2>1, <2>2, <2>3 DEF PairInv
<1>3. ASSUME NEW n \in Nodes, Keys!ListKeys(n) PROVE PairInv'
  <2>0. node[n].pc = "list" /\ table' = table
    BY <1>3 DEF Keys!ListKeys
  <2>1. CASE table = {}
    <3>1. hist.generators = 0
      <4>1. SUFFICES ASSUME hist.generators # 0 PROVE FALSE
        OBVIOUS
      <4>2. PICK m \in Nodes : node[m].pc = "create"
        BY <2>1, <4>1 DEF PairInv
      <4>3. Keys!Holding(m) /\ Keys!Holding(n)
        BY <2>0, <4>2 DEF Keys!Holding
      <4>4. m = n
        BY <4>3 DEF LeaseInv
      <4> QED BY <2>0, <4>2, <4>4
    <3>2. PICK x : x = [node[n] EXCEPT !.pc = "create"] /\ node' = [node EXCEPT ![n] = x]
      BY <1>3, <2>1, BootStep
    <3>3. node'[n].pc = "create"
      BY <1>0, <3>2 DEF NodeState
    <3>4. hist' = [hist EXCEPT !.generators = hist.generators + 1]
      BY <1>3, <2>1 DEF Keys!ListKeys
    <3>5. hist'.generators = 1
      BY <1>0, <3>1, <3>4 DEF KeysHist
    <3> QED BY <3>3, <3>5 DEF PairInv
  <2>2. CASE table # {}
    <3>1. hist.generators # 0
      BY <2>2 DEF PairInv
    <3>2. hist' = hist
      BY <1>3, <2>2 DEF Keys!ListKeys
    <3> QED BY <1>1, <2>2, <3>1, <3>2
  <2> QED BY <2>1, <2>2
<1>4. ASSUME NEW n \in Nodes, Keys!CreateKey(n) PROVE PairInv'
  <2>1. hist.generators # 0
    BY <1>4 DEF Keys!CreateKey, PairInv
  <2>2. table' # {}
    BY <1>4 DEF Keys!CreateKey, Keys!Created
  <2>3. hist'.generators = hist.generators
    BY <1>0, <1>4 DEF Keys!CreateKey, KeysHist
  <2> QED BY <1>1, <2>1, <2>2, <2>3
<1>5. ASSUME NEW n \in Nodes, node[n].pc \in {"relist", "release", "up"},
             hist'.generators = hist.generators
      PROVE  PairInv'
  <2>1. hist.generators # 0
    BY <1>5 DEF PairInv
  <2>2. table # {}
    BY <1>5 DEF FoundInv
  <2> QED BY <1>1, <1>5, <2>1, <2>2
<1>6. ASSUME NEW n \in Nodes, Keys!Relist(n) \/ Keys!Release(n) PROVE PairInv'
  BY <1>5, <1>6 DEF Keys!Relist, Keys!Release
<1>7. ASSUME NEW n \in Nodes, Keys!BootFails(n) PROVE PairInv'
  <2>1. hist'.broken
    BY <1>0, <1>7 DEF Keys!BootFails, KeysHist
  <2> QED BY <2>1
<1>8. ASSUME NEW n \in Nodes, Keys!Crash(n) PROVE PairInv'
  <2>1. node[n].pc = "up" /\ hist'.generators = hist.generators
    BY <1>0, <1>8 DEF Keys!Crash, KeysHist
  <2> QED BY <1>5, <2>1
<1>9. ASSUME NEW n \in Nodes, Keys!Refresh(n) PROVE PairInv'
  <2>1. hist' = hist
    BY <1>9 DEF Keys!Refresh, Keys!RefreshRead, Keys!RefreshApply
  <2> QED BY <1>5, <1>9, <2>1, BootStep
<1>10. ASSUME NEW a \in Admins, Keys!RotateRead(a) \/ Keys!DisableRead(a) PROVE PairInv'
  <2>1. PICK n \in Nodes : node[n].pc = "up"
    BY <1>10 DEF Keys!RotateRead, Keys!DisableRead, Keys!Serving
  <2>2. hist'.generators = hist.generators
    BY <1>0, <1>10 DEF Keys!RotateRead, Keys!DisableRead, KeysHist
  <2> QED BY <1>5, <2>1, <2>2
<1>11. ASSUME NEW a \in Admins, \/ Keys!RotateCreate(a) \/ Keys!RotateDemote(a)
                                \/ Keys!DisableUpdate(a) \/ Keys!AdminLost(a)
       PROVE  PairInv'
  <2>1. admin[a].pc # "idle" /\ node' = node /\ hist'.generators = hist.generators
    BY <1>0, <1>11 DEF Keys!RotateCreate, Keys!RotateDemote, Keys!DisableUpdate, Keys!AdminLost, KeysHist
  <2>2. hist.generators # 0
    BY <2>1 DEF CalmInv, PairInv
  <2> QED BY <1>1, <2>1, <2>2
<1>12. ASSUME Keys!Tick PROVE PairInv'
  <2>1. /\ node' = node /\ table' = table /\ hist'.generators = hist.generators
        /\ hist'.changes = hist.changes
    BY <1>0, <1>12 DEF Keys!Tick, KeysHist
  <2> QED BY <2>1 DEF PairInv
<1> QED BY <1>2, <1>3, <1>4, <1>6, <1>7, <1>8, <1>9, <1>10, <1>11, <1>12 DEF Keys!Next

\* Until an admin changes something, a node that serves has the whole table.
LEMMA QuietStep ==
    ASSUME KeysTypes, ReadInv, FoundInv, CalmInv, LeaseInv, QuietInv, Keys!Next, ~hist'.broken
    PROVE  QuietInv'
<1>0. /\ node \in [Nodes -> NodeState] /\ hist \in KeysHist /\ hist.changes \in Nat
  BY DEF KeysTypes, KeysHist
<1>1. ASSUME NEW a \in Admins, Keys!RotateRead(a) \/ Keys!DisableRead(a) PROVE hist'.changes # 0
  <2>1. PICK b : hist' = [hist EXCEPT !.changes = @ + 1, !.crossed = b]
    BY <1>1 DEF Keys!RotateRead, Keys!DisableRead
  <2>2. hist'.changes = hist.changes + 1
    BY <1>0, <2>1 DEF KeysHist
  <2> QED BY <1>0, <2>2
<1>2. ASSUME NEW a \in Admins, \/ Keys!RotateCreate(a) \/ Keys!RotateDemote(a)
                               \/ Keys!DisableUpdate(a) \/ Keys!AdminLost(a)
      PROVE  hist'.changes # 0
  <2>1. admin[a].pc # "idle" /\ hist'.changes = hist.changes
    BY <1>0, <1>2 DEF Keys!RotateCreate, Keys!RotateDemote, Keys!DisableUpdate, Keys!AdminLost, KeysHist
  <2> QED BY <2>1 DEF CalmInv
<1>3. SUFFICES ASSUME hist'.changes = 0, hist.changes = 0,
                      \/ Keys!Tick
                      \/ \E n \in Nodes : \/ Keys!Start(n) \/ Keys!Acquire(n) \/ Keys!ListKeys(n)
                                          \/ Keys!CreateKey(n) \/ Keys!Relist(n) \/ Keys!Release(n)
                                          \/ Keys!BootFails(n) \/ Keys!Crash(n) \/ Keys!Refresh(n)
               PROVE  QuietInv'
  BY <1>1, <1>2, AdminStays DEF Keys!Next, QuietInv
<1>4. /\ \A m \in Nodes : HasTable(node[m])
      /\ \A c, m \in Nodes : node[c].pc \in {"create", "createDefault"} => node[m].pc # "up"
  BY <1>3 DEF QuietInv
<1>5. ASSUME NEW n \in Nodes, NEW x, node' = [node EXCEPT ![n] = x], table' = table,
             HasTable(x), x.pc \in {"create", "createDefault"} => \A m \in Nodes : node[m].pc # "up",
             x.pc = "up" => \A m \in Nodes : m # n => node[m].pc \notin {"create", "createDefault"}
      PROVE  QuietInv'
  <2>1. node'[n] = x /\ \A m \in Nodes : m # n => node'[m] = node[m]
    BY <1>0, <1>5
  <2>2. ASSUME NEW m \in Nodes PROVE HasTable(node[m])'
    <3>1. CASE m = n
      BY <1>5, <2>1, <3>1 DEF HasTable
    <3>2. CASE m # n
      BY <1>4, <1>5, <2>1, <3>2 DEF HasTable
    <3> QED BY <3>1, <3>2
  <2>3. \A c, m \in Nodes : node'[c].pc \in {"create", "createDefault"} => node'[m].pc # "up"
    BY <1>4, <1>5, <2>1
  <2> QED BY <2>2, <2>3 DEF QuietInv
<1>6. ASSUME NEW n \in Nodes, Keys!Start(n) \/ Keys!Acquire(n) PROVE QuietInv'
  <2>1. PICK pc, x : /\ pc \in {"lock", "list"} /\ x = [node[n] EXCEPT !.pc = pc]
                     /\ node' = [node EXCEPT ![n] = x]
    BY <1>6, BootStep
  <2>2. x.pc \in {"lock", "list"} /\ table' = table
    BY <1>0, <1>6, <2>1 DEF NodeState, Keys!Start, Keys!Acquire
  <2>3. HasTable(x)
    BY <2>2 DEF HasTable
  <2> QED BY <1>5, <2>1, <2>2, <2>3
<1>7. ASSUME NEW n \in Nodes, Keys!ListKeys(n) PROVE QuietInv'
  <2>0. table' = table
    BY <1>7 DEF Keys!ListKeys
  <2>1. CASE table = {}
    <3>1. PICK x : x = [node[n] EXCEPT !.pc = "create"] /\ node' = [node EXCEPT ![n] = x]
      BY <1>7, <2>1, BootStep
    <3>2. x.pc = "create"
      BY <1>0, <3>1 DEF NodeState
    <3>3. HasTable(x) /\ \A m \in Nodes : node[m].pc # "up"
      BY <2>1, <3>2 DEF HasTable, FoundInv
    <3> QED BY <1>5, <2>0, <3>1, <3>2, <3>3
  <2>2. CASE table # {}
    <3>1. PICK x : /\ x = [node[n] EXCEPT !.pc = "release", !.read = table]
                   /\ node' = [node EXCEPT ![n] = x]
      BY <1>7, <2>2, BootStep
    <3>2. x.pc = "release" /\ x.read = table
      BY <1>0, <3>1 DEF NodeState
    <3>3. HasTable(x)
      BY <3>2 DEF HasTable
    <3> QED BY <1>5, <2>0, <3>1, <3>2, <3>3
  <2> QED BY <2>1, <2>2
<1>8. ASSUME NEW n \in Nodes, Keys!Holding(n) PROVE \A m \in Nodes : Keys!Holding(m) => m = n
  BY <1>8 DEF LeaseInv
<1>9. ASSUME NEW n \in Nodes, Keys!CreateKey(n) PROVE QuietInv'
  <2>1. node[n].pc \in {"create", "createDefault"}
    BY <1>9 DEF Keys!CreateKey
  <2>2. \A m \in Nodes : m # n => node[m].pc \notin {"release", "up"}
    BY <1>4, <1>8, <2>1 DEF Keys!Holding
  <2>3. PICK pc, x : /\ pc \in {"createDefault", "relist"} /\ x = [node[n] EXCEPT !.pc = pc]
                     /\ node' = [node EXCEPT ![n] = x]
    BY <1>9, BootStep
  <2>4. x.pc \in {"createDefault", "relist"}
    BY <1>0, <2>3 DEF NodeState
  <2>5. \A m \in Nodes : node'[m].pc \notin {"release", "up"}
    BY <1>0, <2>2, <2>3, <2>4
  <2> QED BY <2>5 DEF QuietInv, HasTable
<1>10. ASSUME NEW n \in Nodes, Keys!Relist(n) PROVE QuietInv'
  <2>1. PICK x : /\ x = [node[n] EXCEPT !.pc = "release", !.read = table]
                 /\ node' = [node EXCEPT ![n] = x] /\ table' = table
    BY <1>10 DEF Keys!Relist
  <2>2. x.pc = "release" /\ x.read = table
    BY <1>0, <2>1 DEF NodeState
  <2>3. HasTable(x)
    BY <2>2 DEF HasTable
  <2> QED BY <1>5, <2>1, <2>2, <2>3
<1>11. ASSUME NEW n \in Nodes, Keys!Release(n) PROVE QuietInv'
  <2>1. PICK x : /\ x = [Keys!Down EXCEPT !.pc = "up", !.keys = node[n].read, !.mark = node[n].read]
                 /\ node' = [node EXCEPT ![n] = x] /\ table' = table /\ node[n].pc = "release"
    BY <1>11 DEF Keys!Release
  <2>2. x.pc = "up" /\ x.keys = node[n].read /\ x.mark = node[n].read /\ ~x.reading
    BY <2>1 DEF Keys!Down
  <2>3. node[n].read = table
    BY <1>4, <2>1 DEF HasTable
  <2>4. HasTable(x)
    BY <2>2, <2>3 DEF HasTable
  <2>5. \A m \in Nodes : m # n => node[m].pc \notin {"create", "createDefault"}
    BY <1>8, <2>1 DEF Keys!Holding
  <2> QED BY <1>5, <2>1, <2>2, <2>4, <2>5
<1>12. ASSUME NEW n \in Nodes, Keys!BootFails(n) PROVE QuietInv'
  <2>1. hist'.broken
    BY <1>0, <1>12 DEF Keys!BootFails, KeysHist
  <2> QED BY <2>1
<1>13. ASSUME NEW n \in Nodes, Keys!Crash(n) PROVE QuietInv'
  <2>1. PICK x : x = Keys!Down /\ node' = [node EXCEPT ![n] = x] /\ table' = table
    BY <1>13 DEF Keys!Crash
  <2>2. HasTable(x) /\ x.pc = "down"
    BY <2>1 DEF Keys!Down, HasTable
  <2> QED BY <1>5, <2>1, <2>2
<1>14. ASSUME NEW n \in Nodes, Keys!Refresh(n) PROVE QuietInv'
  <2>1. node[n].pc = "up"
    BY <1>14, BootStep
  <2>2. node[n].keys = table /\ node[n].mark = table /\ (node[n].reading => node[n].read = table)
    BY <1>4, <2>1 DEF HasTable
  <2>3. Keys!RefreshApply(n) => node[n].read = table /\ Keys!KeyStore(n) = table
    BY <2>2 DEF Keys!RefreshApply, Keys!KeyStore
  <2>4. PICK x : /\ node' = [node EXCEPT ![n] = x]
                 /\ \/ x = [node[n] EXCEPT !.read = table, !.reading = TRUE]
                    \/ x = [node[n] EXCEPT !.keys = table, !.mark = table, !.reading = FALSE]
                    \/ x = [node[n] EXCEPT !.reading = FALSE]
    BY <1>14, <2>3 DEF Keys!Refresh, Keys!RefreshRead, Keys!RefreshApply
  <2>5. x.pc = "up" /\ x.keys = table /\ x.mark = table /\ (x.reading => x.read = table)
    BY <1>0, <2>1, <2>2, <2>4 DEF NodeState
  <2>6. HasTable(x)
    BY <2>5 DEF HasTable
  <2>7. table' = table
    BY <1>14 DEF Keys!Refresh, Keys!RefreshRead, Keys!RefreshApply
  <2> QED BY <1>4, <1>5, <2>1, <2>4, <2>5, <2>6, <2>7
<1>15. ASSUME Keys!Tick PROVE QuietInv'
  <2>1. node' = node /\ table' = table
    BY <1>15 DEF Keys!Tick
  <2> QED BY <1>3, <2>1 DEF QuietInv, HasTable
<1> QED BY <1>3, <1>6, <1>7, <1>9, <1>10, <1>11, <1>12, <1>13, <1>14, <1>15

\* A boot that outlived its lock or broke off stays on record.
LEMMA NotedStays ==
    ASSUME KeysTypes, Keys!Next
    PROVE  /\ ~hist'.overrun => ~hist.overrun
           /\ ~hist'.broken => ~hist.broken
<1>0. hist \in KeysHist
  BY DEF KeysTypes
<1>1. ASSUME NEW n \in Nodes, \/ Keys!Start(n) \/ Keys!Acquire(n) \/ Keys!Relist(n)
                              \/ Keys!Release(n) \/ Keys!Refresh(n)
      PROVE  hist' = hist
  BY <1>1 DEF Keys!Start, Keys!Acquire, Keys!Relist, Keys!Release, Keys!Refresh,
              Keys!RefreshRead, Keys!RefreshApply
<1>2. ASSUME NEW n \in Nodes, \/ Keys!ListKeys(n) \/ Keys!CreateKey(n) \/ Keys!BootFails(n)
                              \/ Keys!Crash(n)
      PROVE  (~hist'.overrun => ~hist.overrun) /\ (~hist'.broken => ~hist.broken)
  BY <1>0, <1>2 DEF Keys!ListKeys, Keys!CreateKey, Keys!BootFails, Keys!Crash, KeysHist
<1>3. ASSUME NEW a \in Admins, \/ Keys!RotateRead(a) \/ Keys!RotateCreate(a) \/ Keys!RotateDemote(a)
                               \/ Keys!DisableRead(a) \/ Keys!DisableUpdate(a) \/ Keys!AdminLost(a)
      PROVE  (~hist'.overrun => ~hist.overrun) /\ (~hist'.broken => ~hist.broken)
  BY <1>0, <1>3 DEF Keys!RotateRead, Keys!RotateCreate, Keys!RotateDemote, Keys!DisableRead,
                    Keys!DisableUpdate, Keys!AdminLost, KeysHist
<1>4. ASSUME Keys!Tick PROVE (~hist'.overrun => ~hist.overrun) /\ (~hist'.broken => ~hist.broken)
  BY <1>0, <1>4 DEF Keys!Tick, KeysHist
<1> QED BY <1>1, <1>2, <1>3, <1>4 DEF Keys!Next

\* The cluster starts with the invariant.
LEMMA KeysStart ==
    ASSUME Keys!Init
    PROVE  KeysInv
<1>1. KeysTypes
  BY DEF Keys!Init, Keys!InitHist, Keys!NoLock, Keys!Down, Keys!IdleAdmin, KeysTypes, KeyRow, LockState,
         NodeState, BootSteps, AdminState, AlgNames, KeysHist
<1>2. table = {} /\ hist.changes = 0 /\ hist.generators = 0
  BY DEF Keys!Init, Keys!InitHist
<1>3. \A n \in Nodes : node[n].pc = "down" /\ ~node[n].reading
  BY DEF Keys!Init, Keys!Down
<1>4. \A a \in Admins : admin[a].pc = "idle"
  BY DEF Keys!Init, Keys!IdleAdmin
<1>5. RowsInv /\ FoundInv /\ CalmInv /\ ReadInv
  BY <1>2, <1>3, <1>4 DEF RowsInv, FoundInv, CalmInv, ReadInv
<1>6. ActiveInv
  BY <1>2, <1>4 DEF ActiveInv, AdminInv
<1>7. BootInv
  BY <1>2, <1>3 DEF BootInv, LeaseInv, PairInv, QuietInv, HasTable, Keys!Holding
<1> QED BY <1>1, <1>5, <1>6, <1>7 DEF KeysInv

\* Every step keeps the invariant.
LEMMA KeysStep ==
    ASSUME KeysInv, Keys!Next
    PROVE  KeysInv'
<1>1. KeysTypes'
  BY KeysTypesStep DEF KeysInv
<1>2. RowsInv' /\ FoundInv' /\ ReadInv' /\ CalmInv'
  BY RowsStep, FoundStep, CalmStep DEF KeysInv
<1>3. ActiveInv'
  BY <1>1, ActiveStep DEF KeysInv
<1>4. ASSUME ~hist'.overrun, ~hist'.broken PROVE LeaseInv' /\ PairInv' /\ QuietInv'
  <2>1. LeaseInv /\ PairInv /\ QuietInv
    BY <1>4, NotedStays DEF KeysInv, BootInv
  <2> QED BY <1>4, <2>1, LeaseStep, PairStep, QuietStep DEF KeysInv
<1>5. BootInv'
  BY <1>4 DEF BootInv
<1> QED BY <1>1, <1>2, <1>3, <1>5 DEF KeysInv

\* The invariant of the signing keys, for any cluster.
THEOREM KeysSafe == MCSpec => [](on = "keys" => KeysInv)
<1>1. MCInit => (on = "keys" => KeysInv)
  BY KeysStart DEF MCInit
<1>2. (on = "keys" => KeysInv) /\ [GlobNext \/ FlowNext \/ KeysNext]_allVars => (on = "keys" => KeysInv)'
  <2> SUFFICES ASSUME on = "keys" => KeysInv, [GlobNext \/ FlowNext \/ KeysNext]_allVars, (on = "keys")'
               PROVE  KeysInv'
    OBVIOUS
  <2>1. CASE GlobNext \/ FlowNext \/ KeysNext
    <3>1. on = "keys" /\ Keys!Next
      BY <2>1 DEF GlobNext, FlowNext, KeysNext
    <3> QED BY <3>1, KeysStep
  <2>2. CASE UNCHANGED allVars
    <3>1. KeysInv /\ UNCHANGED <<now, table, lock, node, admin, hist>>
      BY <2>2 DEF allVars, keysVars
    <3> QED BY <3>1 DEF KeysInv, KeysTypes, RowsInv, FoundInv, CalmInv, ReadInv, ActiveInv, AdminInv,
                        Spared, BootInv, LeaseInv, Keys!Holding, PairInv, QuietInv, HasTable
  <2> QED BY <2>1, <2>2
<1> QED BY <1>1, <1>2, PTL DEF MCSpec

\* One boot makes the initial pair, and until an admin changes them every node
\* that serves has all the keys there are, unless a boot outlived its lock or
\* broke off (load_or_create_signing_keys under the bootstrap lock).
THEOREM PairOnce == MCSpec => []OneInitialPair
<1>1. ASSUME KeysInv PROVE Keys!OneInitialPair
  <2> SUFFICES ASSUME ~hist.overrun, ~hist.broken
               PROVE  /\ hist.generators <= 1
                      /\ hist.changes = 0 => \A n \in Nodes : node[n].pc = "up" => node[n].keys = table
    BY DEF Keys!OneInitialPair
  <2>1. hist.generators = 0 \/ hist.generators = 1
    BY <1>1 DEF KeysInv, BootInv, PairInv
  <2>2. hist.changes = 0 => \A n \in Nodes : node[n].pc = "up" => node[n].keys = table
    BY <1>1 DEF KeysInv, BootInv, QuietInv, HasTable
  <2> QED BY <2>1, <2>2
<1>2. (on = "keys" => KeysInv) => OneInitialPair
  BY <1>1 DEF OneInitialPair
<1> QED BY <1>2, KeysSafe, PTL

\* As long as admin requests do not overlap, rotating and disabling leave some
\* key active (rotate_keys, disable_key).
THEOREM KeyStaysActive == MCSpec => []SomeKeyActive
<1>1. KeysInv => Keys!SomeKeyActive
  BY DEF KeysInv, ActiveInv, Spared, Keys!SomeKeyActive, Keys!Active
<1>2. (on = "keys" => KeysInv) => SomeKeyActive
  BY <1>1 DEF SomeKeyActive
<1> QED BY <1>2, KeysSafe, PTL

-----------------------------------------------------------------------------
(* FlowExecutor: the inductive invariant *)

Marks   == Ids \cup Generated
Endings == {"none", "denied", "operational"}
FrameState == [flow : Aliases, i : Nat, alt : BOOLEAN, err : Endings, skip : BOOLEAN,
               resumed : BOOLEAN, ret : Endings \cup {"success"}, done : SUBSET Marks,
               excused : SUBSET Marks]
PendingState == [flow : Aliases \cup {"none"}, id : Marks \cup {"none"}, user : BOOLEAN, tries : Nat,
                 done : SUBSET Marks, excused : SUBSET Marks]
FlowHist == [missed : SUBSET Marks, disabled : BOOLEAN, broken : BOOLEAN, edits : Nat]

\* The flows of a realm.
FlowSet(fs) ==
    /\ fs \in [DOMAIN fs -> Seq(StageType)] /\ "main" \in DOMAIN fs /\ DOMAIN fs \subseteq Aliases
    /\ UniqueIds(fs)

\* Every variable has its shape.
FlowTypes ==
    /\ FlowSet(flows)
    /\ stack \in Seq(FrameState) /\ user \in BOOLEAN
    /\ pending \in PendingState
    /\ hist \in FlowHist

\* What must be passed before stage i was passed, or is excused; the group that
\* stage i is one of may still be open.
Behind(seq, i, done, excused, open) ==
    \A m \in 1 .. i - 1 :
        Flow!Met(seq, m, done) \/ seq[m].id \in excused \/ (open /\ Flow!Together(seq, m, i))

\* A call has what it must have behind it; it tries alternatives only at one,
\* and does not resume at a disabled stage.
FrameInv(fr) ==
    /\ fr.flow \in DOMAIN flows /\ fr.i \in 1 .. Len(flows[fr.flow]) + 1
    /\ fr.alt \/ fr.resumed => fr.i <= Len(flows[fr.flow])
    /\ fr.alt => flows[fr.flow][fr.i].req = "Alternative"
    /\ fr.resumed => ~fr.alt /\ flows[fr.flow][fr.i].req # "Disabled"
    /\ Behind(flows[fr.flow], fr.i, fr.done, fr.excused, fr.alt \/ fr.resumed)

\* A call that waits for a sub-flow is at a stage.
CallerInv(fr) == fr.ret = "none" /\ ~fr.resumed /\ fr.i <= Len(flows[fr.flow])

StackInv ==
    /\ \A j \in 1 .. Len(stack) : FrameInv(stack[j])
    /\ \A j \in 1 .. Len(stack) - 1 : CallerInv(stack[j])

\* Calls are on the stack as long as a request runs; after a failure that no
\* alternative stands in for, every call returns it.
BrokenInv ==
    /\ result = "running" => Len(stack) > 0
    /\ result # "running" => stack = <<>>
    /\ result = "running" /\ hist.broken =>
        /\ stack[Len(stack)].ret = "operational"
        /\ \A j \in 1 .. Len(stack) - 1 : ~Flow!InGroup(stack[j])
    /\ result = "success" => ~hist.broken

\* Wherever the stage a login waits at stands now, what the login must have
\* passed before it was passed or is excused.
Awaits(seq, x, done, excused) ==
    \A q \in 1 .. Len(seq) : seq[q].id = x => Behind(seq, q, done, excused, TRUE)

PendingInv ==
    pending.flow = "main" => Awaits(flows["main"], pending.id, pending.done, pending.excused)

FlowInv == FlowTypes /\ StackInv /\ BrokenInv /\ PendingInv /\ hist.missed = {} /\ ~hist.disabled

-----------------------------------------------------------------------------
(* Groups of alternatives *)

\* A set of natural numbers has a least one.
LEMMA LeastNat ==
    ASSUME NEW T \in SUBSET Nat, T # {}
    PROVE  \E x \in T : \A y \in T : x <= y
<1>1. PICK R : R = OpToRel(<, Nat)
  OBVIOUS
<1>2. R = {ss \in Nat \X Nat : ss[1] < ss[2]}
  BY <1>1 DEF OpToRel
<1>3. IsWellFoundedOn(R, Nat)
  BY <1>1, NatLessThanWellFounded
<1>4. PICK x \in T : \A y \in T : ~(<<y, x>> \in R)
  BY <1>3, WFMin
<1>5. ASSUME NEW y \in T PROVE x <= y
  <2>1. x \in Nat /\ y \in Nat /\ <<y, x>> \in Nat \X Nat
    OBVIOUS
  <2>2. ~(<<y, x>>[1] < <<y, x>>[2])
    BY <1>2, <1>4, <2>1
  <2> QED BY <2>1, <2>2
<1> QED BY <1>5

\* The stages of a flow.
LEMMA StageTypes ==
    ASSUME FlowTypes, NEW f \in DOMAIN flows
    PROVE  /\ flows[f] \in Seq(StageType) /\ Len(flows[f]) \in Nat
           /\ DOMAIN flows[f] = 1 .. Len(flows[f])
           /\ \A m \in 1 .. Len(flows[f]) : flows[f][m] \in StageType /\ flows[f][m].id \in Marks
<1>1. /\ flows[f] \in Seq(StageType) /\ Len(flows[f]) \in Nat
      /\ DOMAIN flows[f] = 1 .. Len(flows[f])
      /\ \A m \in 1 .. Len(flows[f]) : flows[f][m] \in StageType
  BY DEF FlowTypes, FlowSet
<1>2. ASSUME NEW x \in StageType PROVE x.id \in Marks
  BY DEF StageType, Marks
<1> QED BY <1>1, <1>2

\* A group has an end.
LEMMA GroupEnds ==
    ASSUME FlowTypes, NEW fr, fr.flow \in DOMAIN flows, fr.i \in 1 .. Len(flows[fr.flow])
    PROVE  /\ Flow!GroupEnd(fr) \in fr.i .. Len(flows[fr.flow]) + 1
           /\ \A m \in fr.i .. Flow!GroupEnd(fr) - 1 : flows[fr.flow][m].req = "Alternative"
           /\ Flow!GroupEnd(fr) <= Len(flows[fr.flow]) =>
                 flows[fr.flow][Flow!GroupEnd(fr)].req # "Alternative"
<1>0. fr.i \in Nat /\ Len(flows[fr.flow]) \in Nat /\ fr.i <= Len(flows[fr.flow])
  BY StageTypes
<1>1. PICK T : T = {j \in Nat : /\ fr.i <= j /\ j <= Len(flows[fr.flow]) + 1
                                /\ j = Len(flows[fr.flow]) + 1 \/ flows[fr.flow][j].req # "Alternative"}
  OBVIOUS
<1>2. T \in SUBSET Nat /\ Len(flows[fr.flow]) + 1 \in T
  BY <1>0, <1>1
<1>3. PICK e \in T : \A y \in T : e <= y
  BY <1>2, LeastNat
<1>4. e \in fr.i .. Len(flows[fr.flow]) + 1
  BY <1>0, <1>1, <1>3
<1>5. ASSUME NEW m \in fr.i .. e - 1 PROVE flows[fr.flow][m].req = "Alternative"
  BY <1>0, <1>1, <1>3, <1>4
<1>6. e <= Len(flows[fr.flow]) => flows[fr.flow][e].req # "Alternative"
  BY <1>0, <1>1, <1>3
<1>7. \E j \in fr.i .. Len(flows[fr.flow]) + 1 :
          /\ \A m \in fr.i .. j - 1 : flows[fr.flow][m].req = "Alternative"
          /\ j <= Len(flows[fr.flow]) => flows[fr.flow][j].req # "Alternative"
  BY <1>4, <1>5, <1>6
<1>8. Flow!GroupEnd(fr) = CHOOSE j \in fr.i .. Len(flows[fr.flow]) + 1 :
          /\ \A m \in fr.i .. j - 1 : flows[fr.flow][m].req = "Alternative"
          /\ j <= Len(flows[fr.flow]) => flows[fr.flow][j].req # "Alternative"
  BY DEF Flow!GroupEnd, Flow!Stages
<1> QED BY <1>7, <1>8

\* What it takes to have passed what stage m asks for.
LEMMA MetFacts ==
    ASSUME NEW seq \in Seq(StageType), NEW m \in 1 .. Len(seq), NEW done
    PROVE  /\ seq[m].req \notin {"Required", "Alternative"} => Flow!Met(seq, m, done)
           /\ seq[m].id \in done => Flow!Met(seq, m, done)
           /\ \A j \in 1 .. Len(seq) : Flow!Together(seq, m, j) /\ seq[j].id \in done => Flow!Met(seq, m, done)
           /\ \A more : done \subseteq more /\ Flow!Met(seq, m, done) => Flow!Met(seq, m, more)
<1>0. m \in Nat /\ Len(seq) \in Nat /\ DOMAIN seq = 1 .. Len(seq) /\ m \in DOMAIN seq
  OBVIOUS
<1>1. ASSUME seq[m].req \notin {"Required", "Alternative"} PROVE Flow!Met(seq, m, done)
  <2>1. \A j \in DOMAIN seq : ~Flow!Together(seq, m, j)
    BY <1>0, <1>1 DEF Flow!Together
  <2> QED BY <1>1, <2>1 DEF Flow!Met, Flow!Duty
<1>2. ASSUME NEW j \in 1 .. Len(seq), Flow!Together(seq, m, j), seq[j].id \in done
      PROVE  Flow!Met(seq, m, done)
  <2>1. seq[m].req = "Alternative"
    BY <1>0, <1>2 DEF Flow!Together
  <2>2. seq[j].id \in Flow!Duty(seq, m)
    BY <1>0, <1>2, <2>1 DEF Flow!Duty
  <2> QED BY <1>2, <2>2 DEF Flow!Met
<1>3. ASSUME seq[m].id \in done PROVE Flow!Met(seq, m, done)
  <2>1. CASE seq[m].req = "Required"
    <3>1. seq[m].id \in Flow!Duty(seq, m)
      BY <1>0, <2>1 DEF Flow!Duty
    <3> QED BY <1>3, <3>1 DEF Flow!Met
  <2>2. CASE seq[m].req = "Alternative"
    <3>1. Flow!Together(seq, m, m)
      BY <1>0, <2>2 DEF Flow!Together
    <3> QED BY <1>2, <1>3, <3>1
  <2> QED BY <1>1, <2>1, <2>2
<1>4. ASSUME NEW more, done \subseteq more, Flow!Met(seq, m, done) PROVE Flow!Met(seq, m, more)
  BY <1>4 DEF Flow!Met
<1> QED BY <1>1, <1>2, <1>3, <1>4

\* A passed stage is behind the call, with the group it is in if that was open.
LEMMA BehindPassed ==
    ASSUME NEW seq \in Seq(StageType), NEW i \in 1 .. Len(seq), NEW done, NEW excused,
           NEW open \in BOOLEAN, Behind(seq, i, done, excused, open)
    PROVE  Behind(seq, i + 1, done \cup {seq[i].id}, excused, FALSE)
<1>0. i \in Nat /\ Len(seq) \in Nat
  OBVIOUS
<1>1. PICK more : more = done \cup {seq[i].id}
  OBVIOUS
<1> SUFFICES ASSUME NEW m \in 1 .. (i + 1) - 1, seq[m].id \notin excused
             PROVE  Flow!Met(seq, m, more)
  BY <1>1 DEF Behind
<1>2. m \in 1 .. Len(seq) /\ (m = i \/ m \in 1 .. i - 1)
  BY <1>0
<1>3. CASE m = i
  BY <1>1, <1>2, <1>3, MetFacts
<1>4. CASE m \in 1 .. i - 1
  <2>1. CASE Flow!Met(seq, m, done)
    BY <1>1, <1>2, <2>1, MetFacts
  <2>2. CASE Flow!Together(seq, m, i)
    BY <1>1, <1>2, <2>2, MetFacts
  <2> QED BY <1>4, <2>1, <2>2 DEF Behind
<1> QED BY <1>2, <1>3, <1>4

\* So is the rest of its group.
LEMMA BehindGroup ==
    ASSUME NEW seq \in Seq(StageType), NEW i \in 1 .. Len(seq), NEW done, NEW excused,
           NEW e \in i + 1 .. Len(seq) + 1,
           \A m \in i .. e - 1 : seq[m].req = "Alternative",
           Behind(seq, i + 1, done, excused, FALSE), seq[i].id \in done
    PROVE  Behind(seq, e, done, excused, FALSE)
<1>0. i \in Nat /\ Len(seq) \in Nat /\ e \in Nat
  OBVIOUS
<1> SUFFICES ASSUME NEW m \in 1 .. e - 1, seq[m].id \notin excused
             PROVE  Flow!Met(seq, m, done)
  BY DEF Behind
<1>1. CASE m <= i
  <2>1. m \in 1 .. (i + 1) - 1
    BY <1>0, <1>1
  <2> QED BY <2>1 DEF Behind
<1>2. CASE i < m
  <2>1. m \in 1 .. Len(seq)
    BY <1>0
  <2>2. Flow!Together(seq, m, i)
    BY <1>0, <1>2, <2>1 DEF Flow!Together
  <2> QED BY <2>1, <2>2, MetFacts
<1> QED BY <1>0, <1>1, <1>2

\* From one alternative to the next the group stays open.
LEMMA BehindNext ==
    ASSUME NEW seq \in Seq(StageType), NEW i \in 1 .. Len(seq), NEW done, NEW excused,
           NEW open \in BOOLEAN, Behind(seq, i, done, excused, open),
           seq[i].req = "Alternative", seq[i + 1].req = "Alternative"
    PROVE  Behind(seq, i + 1, done, excused, TRUE)
<1>0. i \in Nat /\ Len(seq) \in Nat
  OBVIOUS
<1> SUFFICES ASSUME NEW m \in 1 .. (i + 1) - 1, seq[m].id \notin excused, ~Flow!Met(seq, m, done)
             PROVE  Flow!Together(seq, m, i + 1)
  BY DEF Behind
<1>1. m = i \/ m \in 1 .. i - 1
  BY <1>0
<1>2. m \in Nat /\ m <= i /\ (m = i \/ Flow!Together(seq, m, i))
  BY <1>0, <1>1 DEF Behind
<1> QED BY <1>0, <1>2 DEF Flow!Together

\* A stage that need not be passed may be left behind.
LEMMA BehindSkipped ==
    ASSUME NEW seq \in Seq(StageType), NEW i \in 1 .. Len(seq), NEW done, NEW excused,
           NEW open \in BOOLEAN, Behind(seq, i, done, excused, open),
           seq[i].req \notin {"Required", "Alternative"}
    PROVE  Behind(seq, i + 1, done, excused, FALSE)
<1>0. i \in Nat /\ Len(seq) \in Nat
  OBVIOUS
<1> SUFFICES ASSUME NEW m \in 1 .. (i + 1) - 1, seq[m].id \notin excused
             PROVE  Flow!Met(seq, m, done)
  BY DEF Behind
<1>1. m \in 1 .. Len(seq) /\ (m = i \/ m \in 1 .. i - 1)
  BY <1>0
<1>2. CASE m = i
  BY <1>1, <1>2, MetFacts
<1>3. CASE m \in 1 .. i - 1
  <2>1. ~Flow!Together(seq, m, i)
    BY <1>0, <1>3 DEF Flow!Together
  <2> QED BY <1>3, <2>1 DEF Behind
<1> QED BY <1>1, <1>2, <1>3

-----------------------------------------------------------------------------
(* What an outcome does to a call *)

Outcomes == {"success", "attempted", "denied", "operational"}

\* The call at the next stage keeps its shape.
LEMMA AdvanceTypes ==
    ASSUME NEW fr \in FrameState
    PROVE  /\ Flow!Advance(fr) \in FrameState
           /\ Flow!Advance(fr).flow = fr.flow /\ Flow!Advance(fr).i = fr.i + 1
           /\ Flow!Advance(fr).alt = fr.alt /\ Flow!Advance(fr).ret = fr.ret
           /\ Flow!Advance(fr).resumed = FALSE /\ Flow!Advance(fr).done = fr.done
           /\ Flow!Advance(fr).excused = fr.excused
<1>0. fr.i \in Nat /\ fr.i + 1 \in Nat
  BY DEF FrameState
<1> QED BY <1>0 DEF FrameState, Flow!Advance

\* A call that returns what it has failed with keeps what it has behind it.
LEMMA ReturnTypes ==
    ASSUME NEW fr \in FrameState, FrameInv(fr), NEW e \in {"success", "denied", "operational"}
    PROVE  \E y \in FrameState : y = [fr EXCEPT !.ret = e] /\ FrameInv(y) /\ y.ret = e
<1>1. PICK y : y = [fr EXCEPT !.ret = e]
  OBVIOUS
<1>2. /\ y \in FrameState /\ y.ret = e /\ y.flow = fr.flow /\ y.i = fr.i /\ y.alt = fr.alt
      /\ y.resumed = fr.resumed /\ y.done = fr.done /\ y.excused = fr.excused
  BY <1>1 DEF FrameState, Endings
<1>3. FrameInv(y)
  BY <1>2 DEF FrameInv
<1> QED BY <1>1, <1>2, <1>3

\* A call outside a group that has its next stage ahead and all else behind.
LEMMA AdvancedInv ==
    ASSUME FlowTypes, NEW fr \in FrameState, FrameInv(fr), fr.i <= Len(flows[fr.flow]), NEW y,
           y.flow = fr.flow, y.i = fr.i + 1, ~y.alt, ~y.resumed, y.excused = fr.excused,
           Behind(flows[fr.flow], fr.i + 1, y.done, fr.excused, FALSE)
    PROVE  FrameInv(y)
<1>1. fr.flow \in DOMAIN flows /\ fr.i \in Nat /\ 1 <= fr.i /\ Len(flows[fr.flow]) \in Nat
  BY StageTypes DEF FrameInv
<1>2. y.i \in 1 .. Len(flows[y.flow]) + 1
  BY <1>1
<1>3. Behind(flows[y.flow], y.i, y.done, y.excused, y.alt \/ y.resumed)
  BY DEF Behind
<1> QED BY <1>1, <1>2, <1>3 DEF FrameInv

\* The group of a failed alternative: the next one, or the end.
LEMMA NextAlternativeInv ==
    ASSUME FlowTypes, NEW fr \in FrameState, FrameInv(fr), ~fr.resumed, fr.ret = "none",
           fr.i <= Len(flows[fr.flow]), flows[fr.flow][fr.i].req = "Alternative",
           NEW e \in Endings
    PROVE  Flow!NextAlternative(fr, e) \in FrameState /\ FrameInv(Flow!NextAlternative(fr, e))
<1>0. /\ fr.flow \in DOMAIN flows /\ fr.i \in Nat /\ 1 <= fr.i /\ Len(flows[fr.flow]) \in Nat
      /\ fr.i \in 1 .. Len(flows[fr.flow]) /\ fr.alt \in BOOLEAN
      /\ flows[fr.flow] \in Seq(StageType)
  BY StageTypes DEF FrameInv, FrameState
<1>1. CASE fr.i + 1 < Flow!GroupEnd(fr)
  <2>1. PICK x : x = Flow!Advance(fr)
    OBVIOUS
  <2>2. x = [fr EXCEPT !.i = fr.i + 1, !.resumed = FALSE]
    BY <2>1 DEF Flow!Advance
  <2>3. /\ x \in FrameState /\ x.flow = fr.flow /\ x.i = fr.i + 1 /\ x.done = fr.done /\ x.resumed = FALSE
        /\ x.excused = fr.excused
    <3>1. fr.i + 1 \in Nat
      BY <1>0
    <3> QED BY <2>2, <3>1 DEF FrameState
  <2>4. PICK y : y = [x EXCEPT !.alt = TRUE, !.err = e]
    OBVIOUS
  <2>5. /\ y \in FrameState /\ y.flow = x.flow /\ y.i = x.i /\ y.done = x.done /\ y.resumed = x.resumed
        /\ y.alt = TRUE /\ y.excused = x.excused
    BY <2>3, <2>4 DEF FrameState
  <2>6. y = Flow!NextAlternative(fr, e)
    BY <1>1, <2>1, <2>4 DEF Flow!NextAlternative
  <2>7. /\ Flow!GroupEnd(fr) \in fr.i .. Len(flows[fr.flow]) + 1
        /\ \A m \in fr.i .. Flow!GroupEnd(fr) - 1 : flows[fr.flow][m].req = "Alternative"
    BY <1>0, GroupEnds
  <2>8. fr.i + 1 <= Len(flows[fr.flow]) /\ flows[fr.flow][fr.i + 1].req = "Alternative"
    BY <1>0, <1>1, <2>7
  <2>9. Behind(flows[fr.flow], fr.i, fr.done, fr.excused, fr.alt)
    BY <1>0 DEF FrameInv, Behind
  <2>10. Behind(flows[fr.flow], fr.i + 1, fr.done, fr.excused, TRUE)
    BY <1>0, <2>8, <2>9, BehindNext
  <2>11. Behind(flows[y.flow], y.i, y.done, y.excused, y.alt \/ y.resumed)
    BY <2>3, <2>5, <2>10 DEF Behind
  <2>12. FrameInv(y)
    BY <1>0, <2>3, <2>5, <2>8, <2>11 DEF FrameInv
  <2> QED BY <2>5, <2>6, <2>12
<1>2. CASE ~(fr.i + 1 < Flow!GroupEnd(fr))
  <2>1. PICK d \in {"denied", "operational"} : d = IF e = "none" THEN "denied" ELSE e
    BY DEF Endings
  <2>2. Flow!NextAlternative(fr, e) = [fr EXCEPT !.ret = d]
    BY <1>2, <2>1 DEF Flow!NextAlternative, Flow!None
  <2>3. PICK y \in FrameState : y = [fr EXCEPT !.ret = d] /\ FrameInv(y)
    BY ReturnTypes
  <2>4. y = Flow!NextAlternative(fr, e)
    BY <2>2, <2>3
  <2> QED BY <2>3, <2>4, Zenon
<1> QED BY <1>1, <1>2

\* A call in a group is at an alternative.
LEMMA InGroupReq ==
    ASSUME FlowTypes, NEW fr \in FrameState, FrameInv(fr), Flow!InGroup(fr)
    PROVE  flows[fr.flow][fr.i].req = "Alternative"
  BY DEF FrameInv, Flow!InGroup, Flow!Stage, Flow!Stages

\* What a stage's outcome makes of the call: all it must have passed is behind
\* it, and outside a group a failure that is not about the user is its answer.
LEMMA AppliedInv ==
    ASSUME FlowTypes, NEW fr \in FrameState, FrameInv(fr), ~fr.resumed, fr.ret = "none",
           fr.i <= Len(flows[fr.flow]), NEW v \in Outcomes,
           v = "attempted" => flows[fr.flow][fr.i].sub = "none"
    PROVE  /\ Flow!Applied(fr, v) \in FrameState
           /\ FrameInv(Flow!Applied(fr, v))
           /\ v = "operational" /\ ~Flow!InGroup(fr) => Flow!Applied(fr, v).ret = "operational"
<1>0. /\ fr.flow \in DOMAIN flows /\ fr.i \in Nat /\ 1 <= fr.i /\ Len(flows[fr.flow]) \in Nat
      /\ fr.i \in 1 .. Len(flows[fr.flow]) /\ fr.done \in SUBSET Marks /\ fr.alt \in BOOLEAN
      /\ flows[fr.flow][fr.i] \in StageType /\ flows[fr.flow][fr.i].id \in Marks
      /\ flows[fr.flow] \in Seq(StageType)
  BY StageTypes DEF FrameInv, FrameState
<1>1. PICK req \in Flow!Requirements : req = flows[fr.flow][fr.i].req
  BY <1>0 DEF StageType, Flow!Requirements
<1>2. PICK x : x = Flow!Advance(fr)
  OBVIOUS
<1>2a. /\ x \in FrameState /\ x.flow = fr.flow /\ x.i = fr.i + 1 /\ x.alt = fr.alt
       /\ x.resumed = FALSE /\ x.done = fr.done /\ x.excused = fr.excused
  BY <1>2, AdvanceTypes
<1>2b. PICK y : y = [x EXCEPT !.skip = req = "Conditional" /\ v # "success"]
  OBVIOUS
<1>2c. /\ y \in FrameState /\ y.flow = x.flow /\ y.i = x.i /\ y.alt = x.alt
       /\ y.resumed = x.resumed /\ y.done = x.done /\ y.excused = x.excused
  BY <1>2a, <1>2b DEF FrameState
<1>3. Behind(flows[fr.flow], fr.i, fr.done, fr.excused, fr.alt)
  BY <1>0 DEF FrameInv, Behind
<1>4. Flow!Stage(fr).req = req /\ Flow!Stage(fr).id = flows[fr.flow][fr.i].id
  BY <1>1 DEF Flow!Stage, Flow!Stages
<1>5. CASE v = "success" /\ Flow!InGroup(fr)
  <2>1. PICK e : e = Flow!GroupEnd(fr)
    OBVIOUS
  <2>2. req = "Alternative"
    BY <1>1, <1>5, InGroupReq
  <2>3. /\ e \in fr.i .. Len(flows[fr.flow]) + 1
        /\ \A m \in fr.i .. e - 1 : flows[fr.flow][m].req = "Alternative"
        /\ e <= Len(flows[fr.flow]) => flows[fr.flow][e].req # "Alternative"
    BY <1>0, <2>1, GroupEnds
  <2>4. e \in fr.i + 1 .. Len(flows[fr.flow]) + 1 /\ e \in Nat
    <3>1. e # fr.i
      BY <1>0, <1>1, <2>2, <2>3
    <3> QED BY <1>0, <2>3, <3>1
  <2>5. PICK z : z = [fr EXCEPT !.i = e, !.alt = FALSE, !.err = "none", !.skip = FALSE,
                                !.done = fr.done \cup {flows[fr.flow][fr.i].id}]
    OBVIOUS
  <2>6. /\ z \in FrameState /\ z.flow = fr.flow /\ z.i = e /\ z.alt = FALSE /\ z.resumed = fr.resumed
        /\ z.done = fr.done \cup {flows[fr.flow][fr.i].id} /\ z.excused = fr.excused
    <3>1. fr.done \cup {flows[fr.flow][fr.i].id} \in SUBSET Marks
      BY <1>0
    <3> QED BY <2>4, <2>5, <3>1 DEF FrameState, Endings
  <2>7. z = Flow!Applied(fr, v)
    BY <1>4, <1>5, <2>1, <2>5 DEF Flow!Applied, Flow!None
  <2>8. Behind(flows[fr.flow], fr.i + 1, fr.done \cup {flows[fr.flow][fr.i].id}, fr.excused, FALSE)
    BY <1>0, <1>3, BehindPassed
  <2>9. Behind(flows[fr.flow], e, fr.done \cup {flows[fr.flow][fr.i].id}, fr.excused, FALSE)
    <3>1. PICK done \in SUBSET Marks : done = fr.done \cup {flows[fr.flow][fr.i].id}
      BY <1>0
    <3>2. Behind(flows[fr.flow], fr.i + 1, done, fr.excused, FALSE) /\ flows[fr.flow][fr.i].id \in done
      BY <2>8, <3>1
    <3>3. Behind(flows[fr.flow], e, done, fr.excused, FALSE)
      BY <1>0, <2>3, <2>4, <3>2, BehindGroup
    <3> QED BY <3>1, <3>3
  <2>10. Behind(flows[z.flow], z.i, z.done, z.excused, z.alt \/ z.resumed)
    BY <2>6, <2>9 DEF Behind
  <2>11. FrameInv(z)
    BY <1>0, <2>4, <2>6, <2>10 DEF FrameInv
  <2> QED BY <1>5, <2>6, <2>7, <2>11
<1>6. CASE v # "success" /\ Flow!InGroup(fr)
  <2>1. PICK e \in Endings : e = IF v = "attempted" THEN fr.err ELSE v
    BY <1>6 DEF Outcomes, Endings, FrameState
  <2>2. Flow!Applied(fr, v) = Flow!NextAlternative(fr, e)
    BY <1>6, <2>1 DEF Flow!Applied
  <2>3. flows[fr.flow][fr.i].req = "Alternative"
    BY <1>6, InGroupReq
  <2>4. Flow!NextAlternative(fr, e) \in FrameState /\ FrameInv(Flow!NextAlternative(fr, e))
    BY <2>3, NextAlternativeInv
  <2> QED BY <1>6, <2>2, <2>4
<1>7. CASE v = "success" /\ ~Flow!InGroup(fr)
  <2>1. ~fr.alt
    BY <1>7 DEF Flow!InGroup
  <2>2. PICK done \in SUBSET Marks : done = fr.done \cup {flows[fr.flow][fr.i].id}
    BY <1>0
  <2>3. PICK z : z = [y EXCEPT !.done = done]
    OBVIOUS
  <2>4. /\ z \in FrameState /\ z.flow = y.flow /\ z.i = y.i /\ z.alt = y.alt
        /\ z.resumed = y.resumed /\ z.done = done /\ z.excused = y.excused
    BY <1>2c, <2>3 DEF FrameState
  <2>5. z = Flow!Applied(fr, v)
    BY <1>2, <1>2a, <1>2b, <1>2c, <1>4, <1>7, <2>2, <2>3 DEF Flow!Applied
  <2>6. Behind(flows[fr.flow], fr.i + 1, fr.done \cup {flows[fr.flow][fr.i].id}, fr.excused, FALSE)
    BY <1>0, <1>3, BehindPassed
  <2>7. FrameInv(z)
    BY <1>0, <1>2a, <1>2c, <2>1, <2>2, <2>4, <2>6, AdvancedInv
  <2> QED BY <1>7, <2>4, <2>5, <2>7
<1>8. ASSUME ~Flow!InGroup(fr), req \notin {"Required", "Alternative"}, Flow!Applied(fr, v) = y
      PROVE  Flow!Applied(fr, v) \in FrameState /\ FrameInv(Flow!Applied(fr, v))
  <2>1. ~fr.alt
    BY <1>8 DEF Flow!InGroup
  <2>2. Behind(flows[fr.flow], fr.i + 1, fr.done, fr.excused, FALSE)
    BY <1>0, <1>1, <1>3, <1>8, BehindSkipped
  <2>3. FrameInv(y)
    BY <1>0, <1>2a, <1>2c, <2>1, <2>2, AdvancedInv
  <2> QED BY <1>2c, <1>8, <2>3
<1>9. ASSUME NEW e \in {"denied", "operational"}, Flow!Applied(fr, v) = [fr EXCEPT !.ret = e]
      PROVE  /\ Flow!Applied(fr, v) \in FrameState /\ FrameInv(Flow!Applied(fr, v))
             /\ Flow!Applied(fr, v).ret = e
  <2>0. e \in {"success", "denied", "operational"}
    OBVIOUS
  <2>1. PICK z \in FrameState : z = [fr EXCEPT !.ret = e] /\ FrameInv(z) /\ z.ret = e
    BY <2>0, ReturnTypes, Zenon
  <2>2. z = Flow!Applied(fr, v)
    BY <1>9, <2>1
  <2> QED BY <2>1, <2>2, Zenon
<1>10. CASE v = "attempted" /\ ~Flow!InGroup(fr)
  <2>1. Flow!Applied(fr, v) = IF req = "Required" THEN [fr EXCEPT !.ret = "denied"]
                              ELSE y
    BY <1>2, <1>2b, <1>4, <1>10 DEF Flow!Applied
  <2>2. req # "Alternative"
    BY <1>1, <1>10 DEF Flow!InGroup, Flow!Stage, Flow!Stages, Flow!None
  <2>3. CASE req = "Required"
    BY <1>9, <1>10, <2>1, <2>3
  <2>4. CASE req # "Required"
    BY <1>8, <1>10, <2>1, <2>2, <2>4
  <2> QED BY <2>3, <2>4
<1>11. CASE v \in {"denied", "operational"} /\ ~Flow!InGroup(fr)
  <2>1. Flow!Applied(fr, v) = IF Flow!Ends(req, v) THEN [fr EXCEPT !.ret = v]
                              ELSE y
    BY <1>2, <1>2b, <1>4, <1>11 DEF Flow!Applied
  <2>2. CASE Flow!Ends(req, v)
    BY <1>9, <1>11, <2>1, <2>2
  <2>3. CASE ~Flow!Ends(req, v)
    <3>1. req \notin {"Required", "Alternative"} /\ v # "operational"
      BY <2>3 DEF Flow!Ends
    <3> QED BY <1>8, <1>11, <2>1, <2>3, <3>1
  <2> QED BY <2>2, <2>3
<1> QED BY <1>5, <1>6, <1>7, <1>10, <1>11 DEF Outcomes

\* The same of a stage a login resumes at.
LEMMA AppliedResumedInv ==
    ASSUME FlowTypes, NEW fr \in FrameState, FrameInv(fr), fr.resumed, fr.ret = "none", ~fr.alt,
           NEW v \in Outcomes
    PROVE  /\ Flow!AppliedResumed(fr, v) \in FrameState
           /\ FrameInv(Flow!AppliedResumed(fr, v))
           /\ v = "operational" => Flow!AppliedResumed(fr, v).ret = "operational"
<1>0. /\ fr.flow \in DOMAIN flows /\ fr.i \in Nat /\ 1 <= fr.i /\ Len(flows[fr.flow]) \in Nat
      /\ fr.i \in 1 .. Len(flows[fr.flow]) /\ fr.done \in SUBSET Marks /\ fr.i <= Len(flows[fr.flow])
      /\ flows[fr.flow][fr.i] \in StageType /\ flows[fr.flow][fr.i].id \in Marks
      /\ flows[fr.flow] \in Seq(StageType)
  BY StageTypes DEF FrameInv, FrameState
<1>1. PICK req \in Flow!Requirements : req = flows[fr.flow][fr.i].req
  BY <1>0 DEF StageType, Flow!Requirements
<1>2. Flow!Stage(fr).req = req /\ Flow!Stage(fr).id = flows[fr.flow][fr.i].id
  BY <1>1 DEF Flow!Stage, Flow!Stages
<1>3. PICK x : x = Flow!Advance(fr)
  OBVIOUS
<1>4. /\ x \in FrameState /\ x.flow = fr.flow /\ x.i = fr.i + 1 /\ x.alt = fr.alt
      /\ x.resumed = FALSE /\ x.done = fr.done /\ x.excused = fr.excused
  BY <1>3, AdvanceTypes
<1>5. Behind(flows[fr.flow], fr.i, fr.done, fr.excused, TRUE)
  BY DEF FrameInv, Behind
<1>6. CASE v = "success"
  <2>1. PICK done \in SUBSET Marks : done = fr.done \cup {flows[fr.flow][fr.i].id}
    BY <1>0
  <2>2. PICK z : z = [x EXCEPT !.done = done]
    OBVIOUS
  <2>3. /\ z \in FrameState /\ z.flow = x.flow /\ z.i = x.i /\ z.alt = x.alt
        /\ z.resumed = x.resumed /\ z.done = done /\ z.excused = x.excused
    BY <1>4, <2>2 DEF FrameState
  <2>4. z = Flow!AppliedResumed(fr, v)
    BY <1>2, <1>3, <1>4, <1>6, <2>1, <2>2 DEF Flow!AppliedResumed
  <2>5. Behind(flows[fr.flow], fr.i + 1, fr.done \cup {flows[fr.flow][fr.i].id}, fr.excused, FALSE)
    BY <1>0, <1>5, BehindPassed
  <2>6. FrameInv(z)
    BY <1>0, <1>4, <2>1, <2>3, <2>5, AdvancedInv
  <2> QED BY <1>6, <2>3, <2>4, <2>6
<1>7. ASSUME NEW e \in {"denied", "operational"}, Flow!AppliedResumed(fr, v) = [fr EXCEPT !.ret = e]
      PROVE  /\ Flow!AppliedResumed(fr, v) \in FrameState /\ FrameInv(Flow!AppliedResumed(fr, v))
             /\ Flow!AppliedResumed(fr, v).ret = e
  <2>1. e \in {"success", "denied", "operational"}
    OBVIOUS
  <2>2. PICK z \in FrameState : z = [fr EXCEPT !.ret = e] /\ FrameInv(z) /\ z.ret = e
    BY <2>1, ReturnTypes, Zenon
  <2>3. z = Flow!AppliedResumed(fr, v)
    BY <1>7, <2>2
  <2> QED BY <2>2, <2>3, Zenon
<1>8. CASE v # "success" /\ req # "Optional"
  <2>1. PICK e \in {"denied", "operational"} : e = IF v = "attempted" THEN "denied" ELSE v
    BY <1>8 DEF Outcomes
  <2>2. Flow!AppliedResumed(fr, v) = [fr EXCEPT !.ret = e]
    BY <1>2, <1>8, <2>1 DEF Flow!AppliedResumed
  <2> QED BY <1>7, <2>1, <2>2
<1>9. CASE v # "success" /\ req = "Optional"
  <2>1. Flow!AppliedResumed(fr, v) = IF v = "operational" THEN [fr EXCEPT !.ret = v] ELSE x
    BY <1>2, <1>3, <1>9 DEF Flow!AppliedResumed
  <2>2. CASE v = "operational"
    BY <1>7, <2>1, <2>2
  <2>3. CASE v # "operational"
    <3>1. Behind(flows[fr.flow], fr.i + 1, fr.done, fr.excused, FALSE)
      BY <1>0, <1>1, <1>5, <1>9, BehindSkipped
    <3>2. FrameInv(x)
      BY <1>0, <1>4, <3>1, AdvancedInv
    <3> QED BY <1>4, <2>1, <2>3, <3>2
  <2> QED BY <2>2, <2>3
<1> QED BY <1>6, <1>8, <1>9

-----------------------------------------------------------------------------
(* The stack of calls *)

\* While a request runs nobody changes a flow, so what is behind stays behind.
LEMMA FrameStays ==
    ASSUME flows' = flows, NEW fr
    PROVE  /\ FrameInv(fr) => FrameInv(fr)'
           /\ CallerInv(fr) => CallerInv(fr)'
           /\ ~Flow!InGroup(fr) => ~Flow!InGroup(fr)'
<1>1. FrameInv(fr) => FrameInv(fr)'
  BY DEF FrameInv
<1>2. CallerInv(fr) => CallerInv(fr)'
  BY DEF CallerInv
<1>3. ~Flow!InGroup(fr) => ~Flow!InGroup(fr)'
  BY DEF Flow!InGroup, Flow!Stage, Flow!Stages
<1> QED BY <1>1, <1>2, <1>3

\* So is what was behind a login that waits.
LEMMA PendingStays ==
    ASSUME PendingInv, flows' = flows, pending' = pending
    PROVE  PendingInv'
  BY DEF PendingInv

\* The call on top is replaced.
LEMMA TopReplaced ==
    ASSUME FlowTypes, StackInv, Len(stack) > 0, flows' = flows,
           NEW x \in FrameState, FrameInv(x), stack' = [stack EXCEPT ![Len(stack)] = x]
    PROVE  /\ stack' \in Seq(FrameState) /\ StackInv'
           /\ Len(stack') = Len(stack) /\ stack'[Len(stack)] = x
           /\ \A j \in 1 .. Len(stack) - 1 : stack'[j] = stack[j]
<1>0. stack \in Seq(FrameState) /\ Len(stack) \in 1 .. Len(stack) /\ Len(stack) \in Nat
  BY DEF FlowTypes
<1>1. /\ stack' \in Seq(FrameState) /\ Len(stack') = Len(stack)
      /\ \A j \in 1 .. Len(stack) : stack'[j] = IF j = Len(stack) THEN x ELSE stack[j]
  BY <1>0, ExceptSeq
<1>2a. stack'[Len(stack)] = x
  BY <1>0, <1>1
<1>2b. ASSUME NEW j \in 1 .. Len(stack) - 1 PROVE stack'[j] = stack[j]
  <2>1. j \in 1 .. Len(stack) /\ j # Len(stack)
    BY <1>0
  <2> QED BY <1>1, <2>1
<1>2. stack'[Len(stack)] = x /\ \A j \in 1 .. Len(stack) - 1 : stack'[j] = stack[j]
  BY <1>2a, <1>2b
<1>3. ASSUME NEW j \in 1 .. Len(stack) PROVE FrameInv(stack[j])'
  <2>1. PICK y : y = stack'[j]
    OBVIOUS
  <2>2. FrameInv(y)
    BY <1>1, <2>1 DEF StackInv
  <2>3. FrameInv(y)'
    BY <2>2, FrameStays
  <2> QED BY <2>1, <2>3 DEF FrameInv
<1>4. ASSUME NEW j \in 1 .. Len(stack) - 1 PROVE CallerInv(stack[j])'
  BY <1>2 DEF StackInv, CallerInv
<1> QED BY <1>1, <1>2, <1>3, <1>4 DEF StackInv

\* What the call on top is like when it is at a stage.
LEMMA TopFacts ==
    ASSUME FlowTypes, StackInv, BrokenInv, result = "running"
    PROVE  /\ Len(stack) \in Nat /\ Len(stack) > 0 /\ Len(stack) \in 1 .. Len(stack)
           /\ Flow!Top = stack[Len(stack)] /\ Flow!Top \in FrameState /\ FrameInv(Flow!Top)
           /\ Flow!Top.flow \in DOMAIN flows
           /\ Flow!Top.ret = "none" => ~hist.broken
           /\ hist.broken => Flow!Top.ret = "operational"
<1>1. Len(stack) \in Nat /\ Len(stack) > 0 /\ Len(stack) \in 1 .. Len(stack)
  BY DEF FlowTypes, BrokenInv
<1>2. Flow!Top = stack[Len(stack)]
  BY DEF Flow!Top
<1>3. Flow!Top \in FrameState /\ FrameInv(Flow!Top)
  BY <1>1, <1>2 DEF FlowTypes, StackInv
<1>4. Flow!Top.flow \in DOMAIN flows
  BY <1>3 DEF FrameInv
<1>5. hist.broken => Flow!Top.ret = "operational"
  BY <1>2 DEF BrokenInv
<1> QED BY <1>1, <1>2, <1>3, <1>4, <1>5

\* A step that replaces the call on top and says nothing is broken.
LEMMA TopStep ==
    ASSUME FlowInv, result = "running", UNCHANGED <<flows, pending, result>>, hist' = hist,
           user' \in BOOLEAN, Flow!Top.ret = "none",
           NEW x \in FrameState, FrameInv(x), Flow!SetTop(x)
    PROVE  FlowInv'
<1>1. stack' = [stack EXCEPT ![Len(stack)] = x] /\ ~hist.broken /\ Len(stack) > 0
  BY TopFacts DEF Flow!SetTop, FlowInv
<1>2. /\ stack' \in Seq(FrameState) /\ StackInv' /\ Len(stack') = Len(stack)
  BY <1>1, TopReplaced DEF FlowInv
<1>3. FlowTypes'
  BY <1>2 DEF FlowInv, FlowTypes
<1>4. BrokenInv'
  BY <1>1, <1>2 DEF FlowInv, BrokenInv
<1>5. PendingInv'
  BY PendingStays DEF FlowInv
<1> QED BY <1>2, <1>3, <1>4, <1>5 DEF FlowInv

-----------------------------------------------------------------------------
(* The steps of a request *)

\* SkipStage.
LEMMA SkipStep == ASSUME FlowInv, Flow!SkipStage PROVE FlowInv'
<1>0. /\ result = "running" /\ Flow!Top.ret = "none" /\ Flow!Top.i <= Len(flows[Flow!Top.flow])
      /\ ~Flow!Top.alt /\ ~Flow!Top.resumed
      /\ flows[Flow!Top.flow][Flow!Top.i].req \in {"Disabled", "Conditional"}
      /\ Flow!SetTop(Flow!Advance(Flow!Top)) /\ UNCHANGED <<flows, user, pending, result, hist>>
  BY DEF Flow!SkipStage, Flow!Reading, Flow!Skips, Flow!Stage, Flow!Stages, Flow!None
<1>1. PICK fr \in FrameState : fr = Flow!Top /\ FrameInv(fr)
  BY <1>0, TopFacts DEF FlowInv
<1>2. PICK x \in FrameState : /\ x = Flow!Advance(fr) /\ x.flow = fr.flow /\ x.i = fr.i + 1
                              /\ x.alt = fr.alt /\ x.resumed = FALSE /\ x.done = fr.done
                              /\ x.excused = fr.excused
  BY AdvanceTypes
<1>3. /\ fr.flow \in DOMAIN flows /\ fr.i \in 1 .. Len(flows[fr.flow])
      /\ flows[fr.flow] \in Seq(StageType) /\ Behind(flows[fr.flow], fr.i, fr.done, fr.excused, FALSE)
  <2>1. fr.flow \in DOMAIN flows /\ Len(flows[fr.flow]) \in Nat /\ flows[fr.flow] \in Seq(StageType)
    BY <1>1, StageTypes DEF FlowInv, FrameInv
  <2> QED BY <1>0, <1>1, <2>1 DEF FrameInv, FrameState, Behind
<1>4. Behind(flows[fr.flow], fr.i + 1, fr.done, fr.excused, FALSE)
  BY <1>0, <1>1, <1>3, BehindSkipped DEF FlowInv
<1>5. FrameInv(x)
  BY <1>0, <1>1, <1>2, <1>3, <1>4, AdvancedInv DEF FlowInv
<1>6. Flow!SetTop(x) /\ user' \in BOOLEAN
  BY <1>0, <1>1, <1>2 DEF FlowInv, FlowTypes
<1> QED BY <1>0, <1>5, <1>6, TopStep

\* What ExecuteStage and Challenge find on top.
LEMMA ExecutingFacts ==
    ASSUME FlowInv, Flow!Executing
    PROVE  /\ result = "running" /\ Flow!Top.ret = "none" /\ ~hist.broken
           /\ Flow!Top \in FrameState /\ FrameInv(Flow!Top)
           /\ Flow!Top.flow \in DOMAIN flows /\ Flow!Top.i \in 1 .. Len(flows[Flow!Top.flow])
           /\ flows[Flow!Top.flow][Flow!Top.i].req # "Disabled"
           /\ ~Flow!Top.resumed => flows[Flow!Top.flow][Flow!Top.i].sub = "none"
           /\ Flow!Top.resumed => ~Flow!Top.alt
<1>1. result = "running" /\ Flow!Top.ret = "none" /\ Flow!Top.i <= Len(flows[Flow!Top.flow])
  BY DEF Flow!Executing, Flow!Reading, Flow!Stages, Flow!None
<1>2. /\ Flow!Top \in FrameState /\ FrameInv(Flow!Top) /\ Flow!Top.flow \in DOMAIN flows
      /\ ~hist.broken
  BY <1>1, TopFacts DEF FlowInv
<1>3. Flow!Top.i \in 1 .. Len(flows[Flow!Top.flow])
  <2>1. Len(flows[Flow!Top.flow]) \in Nat
    BY <1>2, StageTypes DEF FlowInv
  <2> QED BY <1>1, <1>2, <2>1 DEF FrameInv
<1>4. Flow!Top.resumed => flows[Flow!Top.flow][Flow!Top.i].req # "Disabled" /\ ~Flow!Top.alt
  BY <1>2 DEF FrameInv
<1>5. ~Flow!Top.resumed => /\ flows[Flow!Top.flow][Flow!Top.i].req # "Disabled"
                           /\ flows[Flow!Top.flow][Flow!Top.i].sub = "none"
  BY DEF Flow!Executing, Flow!Skips, Flow!Stage, Flow!Stages, Flow!None
<1> QED BY <1>1, <1>2, <1>3, <1>4, <1>5

\* The history after a stage was run.
LEMMA RanFacts ==
    ASSUME FlowInv, Flow!Executing, NEW b \in BOOLEAN, hist' = Flow!Ran(b)
    PROVE  /\ hist' \in FlowHist /\ hist'.missed = hist.missed
           /\ ~hist'.disabled /\ hist'.broken = b
<1>1. PICK d \in BOOLEAN : d = (hist.disabled \/ Flow!Stage(Flow!Top).req = "Disabled")
  OBVIOUS
<1>2. ~d /\ ~hist.broken /\ ~hist.disabled
  BY <1>1, ExecutingFacts DEF FlowInv, Flow!Stage, Flow!Stages
<1>3. hist' = [hist EXCEPT !.disabled = d, !.broken = b]
  BY <1>1, <1>2 DEF Flow!Ran
<1>4. hist \in FlowHist
  BY DEF FlowInv, FlowTypes
<1> QED BY <1>2, <1>3, <1>4 DEF FlowHist

\* ExecuteStage.
LEMMA ExecuteStep == ASSUME FlowInv, Flow!ExecuteStage PROVE FlowInv'
<1>0. /\ Flow!Executing /\ flows' = flows /\ pending' = pending /\ result' = result
  BY DEF Flow!ExecuteStage
<1>1. PICK v \in Outcomes :
         /\ Flow!SetTop(IF Flow!Top.resumed THEN Flow!AppliedResumed(Flow!Top, v)
                        ELSE Flow!Applied(Flow!Top, v))
         /\ user' \in IF v = "success" THEN {TRUE, user} ELSE {user}
         /\ hist' = Flow!Ran(v = "operational" /\ \A j \in DOMAIN stack : ~Flow!InGroup(stack[j]))
  BY DEF Flow!ExecuteStage, Flow!Failures, Outcomes
<1>2. PICK fr \in FrameState : fr = Flow!Top
  BY <1>0, ExecutingFacts
<1>3. /\ FrameInv(fr) /\ fr.ret = "none" /\ fr.i <= Len(flows[fr.flow]) /\ fr.flow \in DOMAIN flows
      /\ ~fr.resumed => flows[fr.flow][fr.i].sub = "none"
      /\ fr.resumed => ~fr.alt
      /\ result = "running" /\ ~hist.broken
  <2>1. fr.flow \in DOMAIN flows /\ Len(flows[fr.flow]) \in Nat /\ fr.i \in 1 .. Len(flows[fr.flow])
    BY <1>0, <1>2, ExecutingFacts, StageTypes DEF FlowInv
  <2>2. fr.i <= Len(flows[fr.flow])
    BY <2>1
  <2> QED BY <1>0, <1>2, <2>1, <2>2, ExecutingFacts
<1>4. PICK x : x = IF fr.resumed THEN Flow!AppliedResumed(fr, v) ELSE Flow!Applied(fr, v)
  OBVIOUS
<1>5. x \in FrameState /\ FrameInv(x) /\ (v = "operational" /\ ~Flow!InGroup(fr) => x.ret = "operational")
  <2>1. CASE fr.resumed
    BY <1>3, <1>4, <2>1, AppliedResumedInv DEF FlowInv
  <2>2. CASE ~fr.resumed
    BY <1>3, <1>4, <2>2, AppliedInv DEF FlowInv
  <2> QED BY <2>1, <2>2
<1>6. PICK b \in BOOLEAN : b = (v = "operational" /\ \A j \in DOMAIN stack : ~Flow!InGroup(stack[j]))
  OBVIOUS
<1>7. /\ hist' \in FlowHist /\ hist'.missed = hist.missed
      /\ ~hist'.disabled /\ hist'.broken = b
  BY <1>0, <1>1, <1>6, RanFacts
<1>8. /\ stack \in Seq(FrameState) /\ Len(stack) \in Nat /\ Len(stack) > 0
      /\ fr = stack[Len(stack)] /\ Len(stack) \in 1 .. Len(stack) /\ DOMAIN stack = 1 .. Len(stack)
  <2>1. Len(stack) > 0 /\ fr = stack[Len(stack)]
    BY <1>2, <1>3, TopFacts DEF FlowInv
  <2>2. stack \in Seq(FrameState)
    BY DEF FlowInv, FlowTypes
  <2> QED BY <2>1, <2>2
<1>9. stack' = [stack EXCEPT ![Len(stack)] = x]
  BY <1>1, <1>2, <1>4 DEF Flow!SetTop
<1>10. /\ stack' \in Seq(FrameState) /\ StackInv'
       /\ Len(stack') = Len(stack) /\ stack'[Len(stack)] = x
       /\ \A j \in 1 .. Len(stack) - 1 : stack'[j] = stack[j]
  BY <1>0, <1>5, <1>7, <1>8, <1>9, TopReplaced DEF FlowInv
<1>11. FlowTypes'
  BY <1>0, <1>1, <1>7, <1>10 DEF FlowInv, FlowTypes
<1>12. BrokenInv'
  <2>1. ASSUME b PROVE x.ret = "operational" /\ \A j \in 1 .. Len(stack) - 1 : ~Flow!InGroup(stack[j])
    <3>1. v = "operational" /\ \A j \in 1 .. Len(stack) : ~Flow!InGroup(stack[j])
      BY <1>6, <1>8, <2>1
    <3>2. x.ret = "operational"
      BY <1>5, <1>8, <3>1
    <3>3. ASSUME NEW j \in 1 .. Len(stack) - 1 PROVE ~Flow!InGroup(stack[j])
      <4>1. j \in 1 .. Len(stack)
        BY <1>8
      <4> QED BY <3>1, <4>1
    <3> QED BY <3>2, <3>3
  <2>2. ASSUME b, NEW j \in 1 .. Len(stack) - 1 PROVE ~Flow!InGroup(stack[j])'
    <3>1. PICK y : y = stack[j]
      OBVIOUS
    <3>2. ~Flow!InGroup(y)' /\ y = stack'[j]
      BY <1>0, <1>7, <1>10, <2>1, <2>2, <3>1, FrameStays
    <3> QED BY <3>2 DEF Flow!InGroup, Flow!Stage, Flow!Stages
  <2> QED BY <1>0, <1>3, <1>7, <1>8, <1>10, <2>1, <2>2 DEF BrokenInv
<1>13. PendingInv'
  BY <1>0, <1>7, PendingStays DEF FlowInv
<1> QED BY <1>7, <1>10, <1>11, <1>12, <1>13 DEF FlowInv

\* Nobody is on the stack.
LEMMA EmptyStack ==
    ASSUME FlowInv, stack' = <<>>
    PROVE  stack' \in Seq(FrameState) /\ StackInv'
<1>1. Len(stack') = 0 /\ stack' \in Seq(FrameState)
  OBVIOUS
<1> QED BY <1>1 DEF StackInv

\* What may be behind a call or is in its open group.
LEMMA BehindOpen ==
    ASSUME NEW seq, NEW i, NEW done, NEW excused, NEW open, Behind(seq, i, done, excused, open)
    PROVE  Behind(seq, i, done, excused, TRUE)
  BY DEF Behind

\* Challenge: the stage is where its id is.
LEMMA ChallengeStep == ASSUME FlowInv, Flow!Challenge PROVE FlowInv'
<1>0. /\ Flow!Executing /\ flows' = flows /\ user' = user /\ stack' = <<>> /\ result' = "challenge"
      /\ hist' = Flow!Ran(FALSE)
      /\ pending' = [flow |-> Flow!Top.flow, id |-> Flow!Stage(Flow!Top).id, user |-> user,
                     tries |-> pending.tries, done |-> Flow!Top.done, excused |-> Flow!Top.excused]
  BY DEF Flow!Challenge
<1>1. /\ hist' \in FlowHist /\ hist'.missed = hist.missed
      /\ ~hist'.disabled /\ hist'.broken = FALSE
  BY <1>0, RanFacts
<1>2. PICK fr \in FrameState : fr = Flow!Top
  BY <1>0, ExecutingFacts
<1>3. FrameInv(fr) /\ fr.flow \in DOMAIN flows /\ fr.i \in 1 .. Len(flows[fr.flow])
  BY <1>0, <1>2, ExecutingFacts
<1>4. PICK x \in Marks : x = flows[fr.flow][fr.i].id /\ x = Flow!Stage(Flow!Top).id
  <2>1. flows[fr.flow][fr.i].id \in Marks
    BY <1>3, StageTypes DEF FlowInv
  <2> QED BY <1>2, <2>1 DEF Flow!Stage, Flow!Stages
<1>5. pending' \in PendingState /\ user' \in BOOLEAN
  <2>1. fr.flow \in Aliases /\ fr.done \in SUBSET Marks /\ fr.excused \in SUBSET Marks
    BY DEF FrameState
  <2>2. user \in BOOLEAN /\ pending.tries \in Nat
    BY DEF FlowInv, FlowTypes, PendingState
  <2> QED BY <1>0, <1>2, <1>4, <2>1, <2>2 DEF PendingState
<1>6. Behind(flows[fr.flow], fr.i, fr.done, fr.excused, TRUE)
  BY <1>3, BehindOpen DEF FrameInv
<1>7. PendingInv'
  <2>1. pending'.flow = fr.flow /\ pending'.id = x /\ pending'.done = fr.done /\ pending'.excused = fr.excused
    BY <1>0, <1>2, <1>4
  <2>2. PICK seq : seq = flows[fr.flow] /\ DOMAIN seq = 1 .. Len(seq)
    BY <1>3, StageTypes DEF FlowInv
  <2>3. ASSUME NEW q \in 1 .. Len(seq), seq[q].id = x PROVE q = fr.i
    BY <1>3, <1>4, <2>2, <2>3 DEF FlowInv, FlowTypes, FlowSet, UniqueIds
  <2>4. Awaits(seq, x, fr.done, fr.excused)
    BY <1>6, <2>2, <2>3 DEF Awaits
  <2>5. fr.flow = "main" => flows'["main"] = seq
    BY <1>0, <2>2
  <2> HIDE <1>0
  <2> QED BY <2>1, <2>4, <2>5 DEF PendingInv
<1>8. FlowTypes' /\ StackInv' /\ BrokenInv'
  BY <1>0, <1>1, <1>5, EmptyStack DEF FlowInv, FlowTypes, FlowSet, UniqueIds, BrokenInv
<1> QED BY <1>1, <1>7, <1>8 DEF FlowInv

\* A call of a sub-flow.
LEMMA CallInv ==
    ASSUME FlowTypes, NEW f \in DOMAIN flows, NEW y, y.flow = f, y.i = 1, y.alt = FALSE,
           y.resumed = FALSE, y.done = {}, y.excused = {}
    PROVE  FrameInv(y)
<1>1. Len(flows[f]) \in Nat
  BY StageTypes
<1>2. 1 \in 1 .. Len(flows[f]) + 1
  BY <1>1
<1>3. Behind(flows[f], 1, {}, {}, FALSE)
  BY DEF Behind
<1> QED BY <1>2, <1>3 DEF FrameInv, Behind

\* EnterSubflow.
LEMMA EnterStep == ASSUME FlowInv, Flow!EnterSubflow PROVE FlowInv'
<1>0. /\ result = "running" /\ Flow!Top.ret = "none" /\ Flow!Top.i <= Len(flows[Flow!Top.flow])
      /\ ~Flow!Top.resumed
      /\ flows' = flows /\ user' = user /\ pending' = pending /\ hist' = hist
  BY DEF Flow!EnterSubflow, Flow!Reading, Flow!Stages, Flow!None
<1>1. PICK fr \in FrameState : fr = Flow!Top /\ FrameInv(fr) /\ fr.flow \in DOMAIN flows
  BY <1>0, TopFacts DEF FlowInv
<1>2. PICK sub : sub = flows[fr.flow][fr.i].sub
  OBVIOUS
<1>3. sub \in Aliases \cup {"none"}
  <2>1. Len(flows[fr.flow]) \in Nat /\ \A m \in 1 .. Len(flows[fr.flow]) : flows[fr.flow][m] \in StageType
    BY <1>1, StageTypes DEF FlowInv
  <2>2. fr.i \in 1 .. Len(flows[fr.flow])
    BY <1>0, <1>1, <2>1 DEF FrameInv
  <2> QED BY <1>2, <2>1, <2>2 DEF StageType
<1>4. ~hist.broken /\ fr = stack[Len(stack)] /\ Len(stack) > 0 /\ Len(stack) \in Nat
  BY <1>0, <1>1, TopFacts DEF FlowInv
<1>5. PendingInv' /\ user' \in BOOLEAN
  BY <1>0, PendingStays DEF FlowInv, FlowTypes
<1>6. CASE sub \notin DOMAIN flows
  <2>1. result' = "error" /\ stack' = <<>>
    BY <1>1, <1>2, <1>6 DEF Flow!EnterSubflow, Flow!Stage, Flow!Stages
  <2>2. StackInv' /\ stack' \in Seq(FrameState)
    BY <2>1, EmptyStack
  <2>4. FlowTypes' /\ BrokenInv'
    BY <1>0, <1>4, <2>1, <2>2 DEF FlowInv, FlowTypes, FlowSet, UniqueIds, BrokenInv
  <2> QED BY <1>0, <1>5, <2>2, <2>4 DEF FlowInv
<1>7. CASE sub \in DOMAIN flows
  <2>0. PICK call : call = Flow!Frame(sub, 1, {}, {})
    OBVIOUS
  <2>1. /\ call \in FrameState /\ call.flow = sub /\ call.i = 1 /\ call.alt = FALSE
        /\ call.resumed = FALSE /\ call.ret = "none" /\ call.done = {} /\ call.excused = {}
    <3>1. sub \in Aliases
      BY <1>7 DEF FlowInv, FlowTypes, FlowSet
    <3> QED BY <2>0, <3>1 DEF Flow!Frame, Flow!None, FrameState, Endings
  <2>2. FrameInv(call)
    BY <1>7, <2>1, CallInv DEF FlowInv
  <2>3. PICK y \in FrameState : y = [call EXCEPT !.ret = "operational"] /\ FrameInv(y)
    BY <2>1, <2>2, ReturnTypes
  <2>4. PICK x \in FrameState : FrameInv(x) /\ stack' = Append(stack, x) /\ result' = result
    <3>1. /\ result' = result
          /\ stack' = Append(stack, IF Len(stack) > MaxDepth THEN [call EXCEPT !.ret = "operational"]
                                    ELSE call)
      BY <1>1, <1>2, <1>7, <2>0 DEF Flow!EnterSubflow, Flow!Stage, Flow!Stages
    <3> QED BY <2>1, <2>2, <2>3, <3>1
  <2>5. /\ stack' \in Seq(FrameState) /\ Len(stack') = Len(stack) + 1
        /\ \A j \in 1 .. Len(stack) : stack'[j] = stack[j]
        /\ stack'[Len(stack) + 1] = x
    BY <2>4, AppendProperties DEF FlowInv, FlowTypes
  <2>6. ASSUME NEW j \in 1 .. Len(stack) + 1 PROVE FrameInv(stack[j])'
    <3>1. PICK z : z = stack'[j]
      OBVIOUS
    <3>2. FrameInv(z)
      <4>1. CASE j = Len(stack) + 1
        BY <2>4, <2>5, <3>1, <4>1
      <4>2. CASE j # Len(stack) + 1
        <5>1. j \in 1 .. Len(stack)
          BY <1>4, <4>2
        <5> QED BY <2>5, <3>1, <5>1 DEF FlowInv, StackInv
      <4> QED BY <4>1, <4>2
    <3>3. FrameInv(z)'
      BY <1>0, <3>2, FrameStays
    <3> QED BY <3>1, <3>3 DEF FrameInv
  <2>7. ASSUME NEW j \in 1 .. Len(stack) PROVE CallerInv(stack[j])'
    <3>1. CallerInv(stack[j])
      <4>1. CASE j = Len(stack)
        BY <1>0, <1>1, <1>4, <4>1 DEF CallerInv
      <4>2. CASE j # Len(stack)
        <5>1. j \in 1 .. Len(stack) - 1
          BY <1>4, <4>2
        <5> QED BY <5>1 DEF FlowInv, StackInv
      <4> QED BY <4>1, <4>2
    <3> QED BY <1>0, <2>5, <3>1 DEF CallerInv
  <2>8. StackInv'
    <3>1. Len(stack') - 1 = Len(stack)
      BY <1>4, <2>5
    <3> QED BY <2>5, <2>6, <2>7, <3>1 DEF StackInv
  <2>10. FlowTypes' /\ BrokenInv'
    <3>1. Len(stack') > 0
      BY <1>4, <2>5
    <3> QED BY <1>0, <1>4, <2>4, <2>5, <3>1 DEF FlowInv, FlowTypes, FlowSet, UniqueIds, BrokenInv
  <2> QED BY <1>0, <1>5, <2>8, <2>10 DEF FlowInv
<1> QED BY <1>6, <1>7

\* EndStages: at the end of a flow no group is open.
LEMMA EndStep == ASSUME FlowInv, Flow!EndStages PROVE FlowInv'
<1>0. /\ result = "running" /\ Flow!Top.ret = "none" /\ Flow!Top.i > Len(flows[Flow!Top.flow])
      /\ flows' = flows /\ user' = user /\ pending' = pending /\ result' = result
  BY DEF Flow!EndStages, Flow!Stages, Flow!None
<1>1. PICK fr \in FrameState : fr = Flow!Top /\ FrameInv(fr) /\ fr.flow \in DOMAIN flows
  BY <1>0, TopFacts DEF FlowInv
<1>2. PICK e \in {"success", "denied", "operational"} : e = IF user THEN "success" ELSE "denied"
  OBVIOUS
<1>3. PICK x \in FrameState : x = [fr EXCEPT !.ret = e] /\ FrameInv(x) /\ x.ret = e
  BY <1>1, ReturnTypes
<1>4. /\ ~hist.broken /\ Len(stack) > 0 /\ Len(stack) \in Nat
      /\ stack' = [stack EXCEPT ![Len(stack)] = x]
  BY <1>0, <1>1, <1>2, <1>3, TopFacts DEF FlowInv, Flow!EndStages, Flow!SetTop
<1>5. Flow!Missed(fr) = {}
  <2>1. /\ Len(flows[fr.flow]) \in Nat /\ DOMAIN flows[fr.flow] = 1 .. Len(flows[fr.flow])
        /\ fr.i = Len(flows[fr.flow]) + 1 /\ ~fr.alt /\ ~fr.resumed
    <3>1. Len(flows[fr.flow]) \in Nat /\ DOMAIN flows[fr.flow] = 1 .. Len(flows[fr.flow])
      BY <1>1, StageTypes DEF FlowInv
    <3> QED BY <1>0, <1>1, <3>1 DEF FrameInv
  <2>2. ASSUME NEW m \in DOMAIN flows[fr.flow]
        PROVE  Flow!Met(flows[fr.flow], m, fr.done) \/ flows[fr.flow][m].id \in fr.excused
    <3>1. m \in 1 .. fr.i - 1
      BY <2>1
    <3> QED BY <1>1, <2>1, <3>1 DEF FrameInv, Behind
  <2> QED BY <2>2 DEF Flow!Missed, Flow!Stages
<1>6. hist' = hist
  <2>1. hist \in FlowHist /\ hist.missed = {}
    BY DEF FlowInv, FlowTypes
  <2>2. CASE user
    <3>1. hist' = [hist EXCEPT !.missed = {}]
      BY <1>1, <1>5, <2>1, <2>2 DEF Flow!EndStages
    <3> QED BY <2>1, <3>1 DEF FlowHist
  <2>3. CASE ~user
    BY <2>3 DEF Flow!EndStages
  <2> QED BY <2>2, <2>3
<1>7. stack' \in Seq(FrameState) /\ StackInv' /\ Len(stack') = Len(stack)
  BY <1>0, <1>3, <1>4, TopReplaced DEF FlowInv
<1>8. PendingInv'
  BY <1>0, PendingStays DEF FlowInv
<1>9. FlowTypes' /\ BrokenInv'
  BY <1>0, <1>4, <1>6, <1>7 DEF FlowInv, FlowTypes, FlowSet, UniqueIds, BrokenInv
<1> QED BY <1>6, <1>7, <1>8, <1>9 DEF FlowInv

\* ReturnFromSubflow: the caller's stage came out as the sub-flow did.
LEMMA ReturnStep == ASSUME FlowInv, Flow!ReturnFromSubflow PROVE FlowInv'
<1>0. /\ result = "running" /\ Len(stack) > 1 /\ Flow!Top.ret # "none"
      /\ flows' = flows /\ user' = user /\ pending' = pending /\ result' = result /\ hist' = hist
      /\ stack' = [j \in 1 .. Len(stack) - 1 |->
                     IF j = Len(stack) - 1 THEN Flow!Applied(Flow!Caller, Flow!Top.ret) ELSE stack[j]]
  BY DEF Flow!ReturnFromSubflow, Flow!None
<1>1. PICK n \in Nat : n = Len(stack) - 1 /\ Len(stack) = n + 1 /\ n > 0
  <2>1. Len(stack) \in Nat
    BY DEF FlowInv, FlowTypes
  <2>2. Len(stack) - 1 \in Nat /\ Len(stack) = (Len(stack) - 1) + 1 /\ Len(stack) - 1 > 0
    BY <1>0, <2>1
  <2> QED BY <2>2
<1>2. n \in 1 .. n /\ n \in 1 .. Len(stack) /\ n + 1 \in 1 .. Len(stack)
  BY <1>1
<1>3. PICK v \in Outcomes : v = Flow!Top.ret /\ v # "attempted"
  <2>1. Flow!Top \in FrameState
    BY <1>0, TopFacts DEF FlowInv
  <2> QED BY <1>0, <2>1 DEF FrameState, Endings, Outcomes
<1>4. PICK fr \in FrameState : fr = stack[n]
  BY <1>2 DEF FlowInv, FlowTypes
<1>5. FrameInv(fr) /\ CallerInv(fr)
  BY <1>1, <1>2, <1>4 DEF FlowInv, StackInv
<1>6. PICK x : x = Flow!Applied(fr, v)
  OBVIOUS
<1>7. x \in FrameState /\ FrameInv(x) /\ (v = "operational" /\ ~Flow!InGroup(fr) => x.ret = "operational")
  BY <1>3, <1>5, <1>6, AppliedInv DEF FlowInv, CallerInv
<1>8. stack' = [j \in 1 .. n |-> IF j = n THEN x ELSE stack[j]]
  BY <1>0, <1>1, <1>3, <1>4, <1>6 DEF Flow!Caller
<1>9. stack' \in Seq(FrameState) /\ Len(stack') = n
  <2>1. ASSUME NEW j \in 1 .. n PROVE (IF j = n THEN x ELSE stack[j]) \in FrameState
    <3>1. j \in 1 .. Len(stack)
      BY <1>1
    <3> QED BY <1>7, <3>1 DEF FlowInv, FlowTypes
  <2>2. stack' \in [1 .. n -> FrameState]
    BY <1>8, <2>1
  <2> QED BY <2>2
<1>10. stack'[n] = x /\ \A j \in 1 .. n - 1 : stack'[j] = stack[j]
  <2>1. stack'[n] = x
    BY <1>2, <1>8
  <2>2. ASSUME NEW j \in 1 .. n - 1 PROVE stack'[j] = stack[j]
    <3>1. j \in 1 .. n /\ j # n
      BY <1>1
    <3> QED BY <1>8, <3>1
  <2> QED BY <2>1, <2>2
<1>11. ASSUME NEW j \in 1 .. n PROVE FrameInv(stack[j])'
  <2>1. PICK z : z = stack'[j]
    OBVIOUS
  <2>2. FrameInv(z)
    <3>1. CASE j = n
      BY <1>7, <1>10, <2>1, <3>1
    <3>2. CASE j # n
      <4>1. j \in 1 .. n - 1 /\ j \in 1 .. Len(stack)
        BY <1>1, <3>2
      <4> QED BY <1>10, <2>1, <4>1 DEF FlowInv, StackInv
    <3> QED BY <3>1, <3>2
  <2>3. FrameInv(z)'
    BY <1>0, <2>2, FrameStays
  <2> QED BY <2>1, <2>3 DEF FrameInv
<1>12. ASSUME NEW j \in 1 .. n - 1 PROVE CallerInv(stack[j])'
  <2>1. j \in 1 .. Len(stack) - 1
    BY <1>1
  <2>2. CallerInv(stack[j])
    BY <2>1 DEF FlowInv, StackInv
  <2> QED BY <1>0, <1>10, <2>2 DEF CallerInv
<1>13. StackInv'
  BY <1>9, <1>11, <1>12 DEF StackInv
<1>14. BrokenInv'
  <2>1. ASSUME hist.broken PROVE x.ret = "operational"
    <3>1. v = "operational" /\ ~Flow!InGroup(fr)
      BY <1>0, <1>1, <1>2, <1>3, <1>4, <2>1 DEF FlowInv, BrokenInv, Flow!Top
    <3> QED BY <1>7, <3>1
  <2>2. ASSUME hist.broken, NEW j \in 1 .. n - 1 PROVE ~Flow!InGroup(stack[j])'
    <3>1. j \in 1 .. Len(stack) - 1
      BY <1>1
    <3>2. PICK z : z = stack[j]
      OBVIOUS
    <3>3. ~Flow!InGroup(z)
      BY <1>0, <2>2, <3>1, <3>2 DEF FlowInv, BrokenInv
    <3>4. ~Flow!InGroup(z)' /\ z = stack'[j]
      BY <1>0, <1>10, <3>2, <3>3, FrameStays
    <3> QED BY <3>4 DEF Flow!InGroup, Flow!Stage, Flow!Stages
  <2> QED BY <1>0, <1>1, <1>9, <1>10, <2>1, <2>2 DEF BrokenInv
<1>15. FlowTypes' /\ PendingInv'
  BY <1>0, <1>9, PendingStays DEF FlowInv, FlowTypes
<1> QED BY <1>0, <1>13, <1>14, <1>15 DEF FlowInv

\* FinishSuccess: nothing is broken when the flow succeeded.
LEMMA SuccessStep == ASSUME FlowInv, Flow!FinishSuccess PROVE FlowInv'
<1>0. /\ result = "running" /\ Flow!Top.ret = "success" /\ result' \in {"success", "error"}
      /\ stack' = <<>> /\ flows' = flows /\ user' = user /\ pending' = pending /\ hist' = hist
  BY DEF Flow!FinishSuccess
<1>1. ~hist.broken
  BY <1>0, TopFacts DEF FlowInv
<1>2. StackInv' /\ stack' \in Seq(FrameState)
  BY <1>0, EmptyStack
<1>3. PendingInv'
  BY <1>0, PendingStays DEF FlowInv
<1>4. FlowTypes' /\ BrokenInv'
  BY <1>0, <1>1, <1>2 DEF FlowInv, FlowTypes, FlowSet, UniqueIds, BrokenInv
<1> QED BY <1>0, <1>2, <1>3, <1>4 DEF FlowInv

\* FinishFailure: the login waits where it waited.
LEMMA FailureStep == ASSUME FlowInv, Flow!FinishFailure PROVE FlowInv'
<1>0. /\ result = "running" /\ Flow!Top.ret \in {"denied", "operational"} /\ stack' = <<>>
      /\ flows' = flows /\ user' = user /\ hist' = hist
  BY DEF Flow!FinishFailure, Flow!Failures
<1>1. StackInv' /\ stack' \in Seq(FrameState)
  BY <1>0, EmptyStack
<1>2. CASE result' = Flow!Top.ret /\ pending' = pending
  <2>1. PendingInv'
    BY <1>0, <1>2, PendingStays DEF FlowInv
  <2>2. FlowTypes' /\ BrokenInv'
    BY <1>0, <1>1, <1>2 DEF FlowInv, FlowTypes, FlowSet, UniqueIds, BrokenInv
  <2> QED BY <1>0, <1>1, <2>1, <2>2 DEF FlowInv
<1>3. CASE /\ pending.flow # "none" /\ pending' = [pending EXCEPT !.tries = @ + 1]
           /\ result' = "challenge"
  <2>1. pending.tries + 1 \in Nat /\ pending \in PendingState
    BY DEF FlowInv, FlowTypes, PendingState
  <2>2. /\ pending' \in PendingState /\ pending'.flow = pending.flow /\ pending'.id = pending.id
        /\ pending'.done = pending.done /\ pending'.excused = pending.excused
    BY <1>3, <2>1 DEF PendingState
  <2>5. PendingInv'
    BY <1>0, <2>2 DEF FlowInv, PendingInv
  <2>6. FlowTypes' /\ BrokenInv'
    BY <1>0, <1>1, <1>3, <2>2 DEF FlowInv, FlowTypes, FlowSet, UniqueIds, BrokenInv
  <2> QED BY <1>0, <1>1, <2>5, <2>6 DEF FlowInv
<1> QED BY <1>2, <1>3 DEF Flow!FinishFailure, Flow!None

\* Continue: the login resumes with all it has behind it.
LEMMA ContinueStep == ASSUME FlowInv, Flow!Continue PROVE FlowInv'
<1>0. /\ result = "challenge" /\ stack = <<>> /\ flows' = flows /\ pending' = pending
      /\ user' = pending.user /\ hist' = [hist EXCEPT !.broken = FALSE]
  BY DEF Flow!Continue, FlowInv, BrokenInv
<1>1. /\ hist' \in FlowHist /\ hist'.missed = hist.missed
      /\ hist'.disabled = hist.disabled /\ hist'.broken = FALSE
  <2>1. hist \in FlowHist
    BY DEF FlowInv, FlowTypes
  <2> QED BY <1>0, <2>1 DEF FlowHist
<1>2. pending \in PendingState /\ user' \in BOOLEAN
  BY <1>0 DEF FlowInv, FlowTypes, PendingState
<1>3. PendingInv'
  BY <1>0, PendingStays DEF FlowInv
<1>4. CASE result' = "error" /\ stack' = stack
  <2>1. StackInv' /\ stack' \in Seq(FrameState)
    BY <1>0, <1>4, EmptyStack
  <2>2. FlowTypes' /\ BrokenInv'
    BY <1>0, <1>1, <1>2, <1>4, <2>1 DEF FlowInv, FlowTypes, FlowSet, UniqueIds, BrokenInv
  <2> QED BY <1>1, <1>3, <2>1, <2>2 DEF FlowInv
<1>5. ASSUME result' = "running", NEW i \in DOMAIN flows["main"], flows["main"][i].id = pending.id,
             stack' = <<Flow!ResumesAt(i)>>
      PROVE  FlowInv'
  <2>1. PICK seq : seq = flows["main"]
    OBVIOUS
  <2>2. /\ "main" \in DOMAIN flows /\ "main" \in Aliases /\ seq \in Seq(StageType) /\ Len(seq) \in Nat
        /\ i \in 1 .. Len(seq) /\ i \in Nat /\ i + 1 \in Nat
        /\ \A m \in 1 .. Len(seq) : seq[m].id \in Marks
    BY <1>5, <2>1, StageTypes DEF FlowInv, FlowTypes, FlowSet
  <2>3. PICK done \in SUBSET Marks, excused \in SUBSET Marks :
            /\ done = IF pending.flow = "main" THEN pending.done ELSE {}
            /\ excused = IF pending.flow = "main" THEN pending.excused ELSE {seq[m].id : m \in 1 .. i - 1}
    <3>1. pending.done \in SUBSET Marks /\ pending.excused \in SUBSET Marks
      BY <1>2 DEF PendingState
    <3>2. {seq[m].id : m \in 1 .. i - 1} \in SUBSET Marks
      BY <2>2
    <3> QED BY <3>1, <3>2
  <2>4. Behind(seq, i, done, excused, TRUE)
    <3>1. CASE pending.flow = "main"
      BY <1>5, <2>1, <2>2, <2>3, <3>1 DEF FlowInv, PendingInv, Awaits
    <3>2. CASE pending.flow # "main"
      BY <2>3, <3>2 DEF Behind
    <3> QED BY <3>1, <3>2
  <2>5. PICK y : y = Flow!Frame("main", i, done, excused)
    OBVIOUS
  <2>6. /\ y \in FrameState /\ y.flow = "main" /\ y.i = i /\ y.alt = FALSE /\ y.resumed = FALSE
        /\ y.ret = "none" /\ y.done = done /\ y.excused = excused
    BY <2>2, <2>5 DEF Flow!Frame, Flow!None, FrameState, Endings
  <2>7. Flow!ResumesAt(i) = IF seq[i].req = "Disabled" THEN Flow!Advance(y)
                            ELSE [y EXCEPT !.resumed = TRUE]
    BY <2>1, <2>3, <2>5 DEF Flow!ResumesAt
  <2>8. PICK x \in FrameState : FrameInv(x) /\ x = Flow!ResumesAt(i)
    <3>1. CASE seq[i].req = "Disabled"
      <4>1. PICK x \in FrameState :
                /\ x = Flow!Advance(y) /\ x.flow = "main" /\ x.i = i + 1 /\ x.alt = FALSE
                /\ x.resumed = FALSE /\ x.done = done /\ x.excused = excused
        <5>1. PICK x : x = Flow!Advance(y)
          OBVIOUS
        <5>2. /\ x \in FrameState /\ x.flow = y.flow /\ x.i = y.i + 1 /\ x.alt = y.alt
              /\ x.resumed = FALSE /\ x.done = y.done /\ x.excused = y.excused
          BY <2>6, <5>1, AdvanceTypes, Zenon
        <5> QED BY <2>6, <5>1, <5>2
      <4>2. Behind(seq, i + 1, done, excused, FALSE)
        BY <2>2, <2>4, <3>1, BehindSkipped
      <4>3. i + 1 \in 1 .. Len(seq) + 1
        BY <2>2
      <4>4. FrameInv(x)
        BY <2>1, <2>2, <4>1, <4>2, <4>3 DEF FrameInv, Behind
      <4> QED BY <2>7, <3>1, <4>1, <4>4
    <3>2. CASE seq[i].req # "Disabled"
      <4>1. PICK x : x = [y EXCEPT !.resumed = TRUE]
        OBVIOUS
      <4>2. /\ x \in FrameState /\ x.flow = "main" /\ x.i = i /\ x.alt = FALSE /\ x.resumed = TRUE
            /\ x.done = done /\ x.excused = excused
        BY <2>6, <4>1 DEF FrameState
      <4>3. i \in 1 .. Len(seq) + 1 /\ i <= Len(seq)
        BY <2>2
      <4>4. FrameInv(x)
        BY <2>1, <2>2, <2>4, <3>2, <4>2, <4>3 DEF FrameInv, Behind
      <4> QED BY <2>7, <3>2, <4>1, <4>2, <4>4
    <3> QED BY <3>1, <3>2
  <2>9. stack' \in Seq(FrameState) /\ Len(stack') = 1 /\ stack'[1] = x
    BY <1>5, <2>8
  <2>10. FrameInv(x)'
    BY <1>0, <2>8, FrameStays
  <2>11. StackInv'
    <3>1. ASSUME NEW j \in 1 .. 1 PROVE FrameInv(stack[j])'
      <4>1. j = 1
        OBVIOUS
      <4> QED BY <2>9, <2>10, <4>1 DEF FrameInv
    <3>2. ASSUME NEW j \in 1 .. 1 - 1 PROVE CallerInv(stack[j])'
      OBVIOUS
    <3> QED BY <2>9, <3>1, <3>2 DEF StackInv
  <2>12. FlowTypes' /\ BrokenInv'
    BY <1>0, <1>1, <1>2, <1>5, <2>9 DEF FlowInv, FlowTypes, FlowSet, UniqueIds, BrokenInv
  <2> QED BY <1>1, <1>3, <2>11, <2>12 DEF FlowInv
<1> QED BY <1>4, <1>5 DEF Flow!Continue

-----------------------------------------------------------------------------
(* Edits *)

\* What was behind a login that waits at x and is still asked for is still
\* behind it, and all else that stands before x now is excused.
LEMMA AwaitsStays ==
    ASSUME NEW old \in Seq(StageType), NEW new \in Seq(StageType), NEW x, NEW done, NEW excused,
           \A i, j \in 1 .. Len(new) : new[i].id = new[j].id => i = j,
           Awaits(old, x, done, excused)
    PROVE  Awaits(new, x, done, excused \cup Flow!Imposed(old, new, x))
<1>0. DOMAIN old = 1 .. Len(old) /\ DOMAIN new = 1 .. Len(new) /\ Len(old) \in Nat /\ Len(new) \in Nat
  OBVIOUS
<1>1. PICK I : I = Flow!Imposed(old, new, x)
  OBVIOUS
<1> SUFFICES ASSUME NEW p2 \in 1 .. Len(new), new[p2].id = x, NEW m \in 1 .. p2 - 1,
                    new[m].id \notin excused \cup I, ~Flow!Met(new, m, done)
             PROVE  Flow!Together(new, m, p2)
  BY <1>1 DEF Awaits, Behind
<1>2. m \in 1 .. Len(new) /\ m < p2 /\ m # p2
  BY <1>0
<1>3. PICK l \in 1 .. Len(old), q \in 1 .. Len(old) :
          /\ l < q /\ old[q].id = x /\ old[l].id = new[m].id
          /\ Flow!Duty(old, l) # {} /\ Flow!Duty(old, l) \subseteq Flow!Duty(new, m)
  BY <1>0, <1>1, <1>2 DEF Flow!Imposed
<1>4. l \in 1 .. q - 1
  BY <1>0, <1>3
<1>5. Flow!Met(old, l, done) \/ Flow!Together(old, l, q)
  BY <1>3, <1>4 DEF Awaits, Behind
<1>6. ~Flow!Met(old, l, done)
  BY <1>3 DEF Flow!Met
<1>7. old[l].req = "Alternative"
  BY <1>0, <1>3, <1>5, <1>6 DEF Flow!Together
<1>8. x \in Flow!Duty(old, l)
  BY <1>0, <1>3, <1>5, <1>6, <1>7 DEF Flow!Duty
<1>9. PICK j \in 1 .. Len(new) :
          new[j].id = x /\ (IF new[m].req = "Required" THEN j = m ELSE Flow!Together(new, m, j))
  BY <1>0, <1>3, <1>8 DEF Flow!Duty
<1>10. j = p2
  BY <1>9
<1> QED BY <1>2, <1>9, <1>10

\* The flows an edit leaves have their shape, and a login that waits has what it
\* must have behind it.
LEMMA SaveStep ==
    ASSUME FlowInv, NEW fs, fs \in [DOMAIN fs -> Seq(StageType)], "main" \in DOMAIN fs,
           DOMAIN fs \subseteq Aliases, Flow!Save(fs)
    PROVE  FlowInv'
<1>0. /\ result = "challenge" /\ stack = <<>> /\ stack' = <<>> /\ result' = result /\ user' = user
      /\ flows' = fs /\ Flow!Valid(fs) /\ hist' = [hist EXCEPT !.edits = @ + 1]
      /\ pending' = [pending EXCEPT !.excused = @ \cup Flow!Imposed(flows["main"], fs["main"], pending.id)]
  BY DEF Flow!Save, FlowInv, BrokenInv
<1>1. FlowSet(fs)
  BY <1>0 DEF Flow!Valid, FlowSet, UniqueIds
<1>2. /\ hist' \in FlowHist /\ hist'.missed = hist.missed /\ hist'.disabled = hist.disabled
      /\ hist'.broken = hist.broken
  <2>1. hist \in FlowHist /\ hist.edits + 1 \in Nat
    BY DEF FlowInv, FlowTypes, FlowHist
  <2> QED BY <1>0, <2>1 DEF FlowHist
<1>3. PICK old, new : /\ old = flows["main"] /\ new = fs["main"] /\ old \in Seq(StageType)
                      /\ new \in Seq(StageType) /\ DOMAIN new = 1 .. Len(new)
  BY StageTypes DEF FlowInv, FlowTypes, FlowSet
<1>4. PICK I \in SUBSET Marks : I = Flow!Imposed(old, new, pending.id)
  <2>1. \A m \in DOMAIN new : new[m].id \in Marks
    <3>1. \A m \in DOMAIN new : new[m] \in StageType
      BY <1>3
    <3>2. ASSUME NEW x \in StageType PROVE x.id \in Marks
      BY DEF StageType, Marks
    <3> QED BY <3>1, <3>2
  <2>2. Flow!Imposed(old, new, pending.id) \in SUBSET Marks
    BY <2>1 DEF Flow!Imposed
  <2> QED BY <2>2
<1>5. PICK ex \in SUBSET Marks : ex = pending.excused \cup I
  <2>1. pending.excused \in SUBSET Marks
    BY DEF FlowInv, FlowTypes, PendingState
  <2> QED BY <2>1
<1>6. /\ pending' \in PendingState /\ pending'.flow = pending.flow /\ pending'.id = pending.id
      /\ pending'.done = pending.done /\ pending'.excused = ex
  <2>1. pending \in PendingState
    BY DEF FlowInv, FlowTypes
  <2>2. pending' = [pending EXCEPT !.excused = ex]
    BY <1>0, <1>3, <1>4, <1>5
  <2> QED BY <2>1, <2>2 DEF PendingState
<1>7. PendingInv'
  <2>1. ASSUME pending.flow = "main" PROVE Awaits(new, pending.id, pending.done, ex)
    <3>1. Awaits(old, pending.id, pending.done, pending.excused)
      BY <1>3, <2>1 DEF FlowInv, PendingInv
    <3>2. \A i, j \in 1 .. Len(new) : new[i].id = new[j].id => i = j
      BY <1>1, <1>3 DEF FlowSet, UniqueIds
    <3>3. Awaits(new, pending.id, pending.done, pending.excused \cup Flow!Imposed(old, new, pending.id))
      BY <1>3, <3>1, <3>2, AwaitsStays
    <3> QED BY <1>4, <1>5, <3>3
  <2>2. flows'["main"] = new
    BY <1>0, <1>3
  <2> HIDE <1>0
  <2> QED BY <1>6, <2>1, <2>2 DEF PendingInv
<1>8. StackInv' /\ stack' \in Seq(FrameState)
  BY <1>0, EmptyStack
<1>9. FlowTypes' /\ BrokenInv'
  BY <1>0, <1>1, <1>2, <1>6, <1>8 DEF FlowInv, FlowTypes, FlowSet, UniqueIds, BrokenInv
<1> QED BY <1>2, <1>7, <1>8, <1>9 DEF FlowInv

\* The stages of one flow are replaced.
LEMMA ReplaceStep ==
    ASSUME FlowInv, NEW f \in DOMAIN flows, NEW seq \in Seq(StageType),
           Flow!Save([flows EXCEPT ![f] = seq])
    PROVE  FlowInv'
<1>1. PICK fs : fs = [flows EXCEPT ![f] = seq]
  OBVIOUS
<1>2. FlowSet(flows)
  BY DEF FlowInv, FlowTypes
<1>3. /\ fs \in [DOMAIN fs -> Seq(StageType)] /\ DOMAIN fs = DOMAIN flows
  BY <1>1, <1>2 DEF FlowSet
<1>4. Flow!Save(fs)
  BY <1>1
<1> QED BY <1>2, <1>3, <1>4, SaveStep DEF FlowSet

\* A stage added at the end.
LEMMA AddedStage ==
    ASSUME FlowTypes, NEW f \in DOMAIN flows, NEW id \in Flow!Unused, NEW req \in Flow!Requirements,
           NEW sub \in Aliases \cup {"none"}
    PROVE  Append(flows[f], [id |-> id, req |-> req, sub |-> sub]) \in Seq(StageType)
<1>1. id \in Generated
  BY DEF Flow!Unused
<1>2. [id |-> id, req |-> req, sub |-> sub] \in StageType
  BY <1>1 DEF StageType, Flow!Requirements
<1> QED BY <1>2, StageTypes, AppendProperties

\* UpdateExecution, DeleteExecution, AddExecution, AddFlowExecution, UpdateFlow.
LEMMA EditStep == ASSUME FlowInv, Flow!Edit PROVE FlowInv'
<1>0. FlowTypes /\ FlowSet(flows)
  BY DEF FlowInv, FlowTypes
<1>1. CASE Flow!UpdateExecution
  <2>0. PICK f \in DOMAIN flows : \E i \in DOMAIN flows[f], req \in Flow!Requirements :
            Flow!Save([flows EXCEPT ![f][i].req = req])
    BY <1>1 DEF Flow!UpdateExecution
  <2>1. PICK i \in DOMAIN flows[f], req \in Flow!Requirements :
            Flow!Save([flows EXCEPT ![f][i].req = req])
    BY <2>0
  <2>2. /\ flows[f] \in Seq(StageType) /\ flows[f][i] \in StageType /\ i \in 1 .. Len(flows[f])
    BY <1>0, StageTypes
  <2>3. PICK y \in StageType : y = [flows[f][i] EXCEPT !.req = req]
    <3>1. PICK y : y = [flows[f][i] EXCEPT !.req = req]
      OBVIOUS
    <3>2. y \in StageType
      BY <2>2, <3>1 DEF StageType, Flow!Requirements
    <3> QED BY <3>1, <3>2
  <2>4. PICK seq \in Seq(StageType) : seq = [flows[f] EXCEPT ![i] = y]
    <3>1. PICK seq : seq = [flows[f] EXCEPT ![i] = y]
      OBVIOUS
    <3>2. seq \in Seq(StageType)
      BY <2>2, <2>3, <3>1, ExceptSeq
    <3> QED BY <3>1, <3>2
  <2>5. [flows EXCEPT ![f][i].req = req] = [flows EXCEPT ![f] = seq]
    BY <2>3, <2>4
  <2>6. Flow!Save([flows EXCEPT ![f] = seq])
    BY <2>1, <2>5
  <2> QED BY <2>6, ReplaceStep
<1>2. CASE Flow!DeleteExecution
  <2>0. PICK f \in DOMAIN flows : \E i \in DOMAIN flows[f] :
            Flow!Save([flows EXCEPT ![f] = SubSeq(@, 1, i - 1) \o SubSeq(@, i + 1, Len(@))])
    BY <1>2 DEF Flow!DeleteExecution
  <2>1. PICK i \in DOMAIN flows[f] :
            Flow!Save([flows EXCEPT ![f] = SubSeq(@, 1, i - 1) \o SubSeq(@, i + 1, Len(@))])
    BY <2>0
  <2>2. PICK seq : seq = SubSeq(flows[f], 1, i - 1) \o SubSeq(flows[f], i + 1, Len(flows[f]))
    OBVIOUS
  <2>3. seq \in Seq(StageType)
    <3>1. flows[f] \in Seq(StageType) /\ i \in 1 .. Len(flows[f]) /\ Len(flows[f]) \in Nat
      BY <1>0, StageTypes
    <3>2. SubSeq(flows[f], 1, i - 1) \in Seq(StageType)
      BY <3>1
    <3>3. SubSeq(flows[f], i + 1, Len(flows[f])) \in Seq(StageType)
      BY <3>1
    <3> QED BY <2>2, <3>2, <3>3, ConcatProperties
  <2>4. Flow!Save([flows EXCEPT ![f] = seq])
    BY <2>1, <2>2
  <2> QED BY <2>3, <2>4, ReplaceStep
<1>3. CASE Flow!AddExecution
  <2>1. PICK f \in DOMAIN flows, id \in Flow!Unused, req \in Flow!Requirements :
            Flow!Save([flows EXCEPT ![f] = Append(@, [id |-> id, req |-> req, sub |-> "none"])])
    BY <1>3 DEF Flow!AddExecution, Flow!None
  <2>2. PICK seq \in Seq(StageType) : seq = Append(flows[f], [id |-> id, req |-> req, sub |-> "none"])
    BY <1>0, AddedStage
  <2>3. Flow!Save([flows EXCEPT ![f] = seq])
    BY <2>1, <2>2
  <2> QED BY <2>3, ReplaceStep
<1>4. CASE Flow!AddFlowExecution
  <2>1. PICK f \in DOMAIN flows, a \in Aliases \ DOMAIN flows, id \in Flow!Unused,
             req \in Flow!Requirements :
            Flow!Save([g \in DOMAIN flows \cup {a} |->
                        IF g = a THEN <<>>
                        ELSE IF g = f THEN Append(flows[f], [id |-> id, req |-> req, sub |-> a])
                        ELSE flows[g]])
    BY <1>4 DEF Flow!AddFlowExecution
  <2>2. PICK seq \in Seq(StageType) : seq = Append(flows[f], [id |-> id, req |-> req, sub |-> a])
    BY <1>0, AddedStage
  <2>3. PICK fs : fs = [g \in DOMAIN flows \cup {a} |->
                          IF g = a THEN <<>> ELSE IF g = f THEN seq ELSE flows[g]]
    OBVIOUS
  <2>4. Flow!Save(fs)
    BY <2>1, <2>2, <2>3
  <2>5. /\ fs \in [DOMAIN fs -> Seq(StageType)] /\ "main" \in DOMAIN fs /\ DOMAIN fs \subseteq Aliases
    <3>1. DOMAIN fs = DOMAIN flows \cup {a} /\ <<>> \in Seq(StageType)
      BY <2>3
    <3>2. \A g \in DOMAIN flows : flows[g] \in Seq(StageType)
      BY <1>0, StageTypes
    <3> QED BY <1>0, <2>3, <3>1, <3>2 DEF FlowSet
  <2> QED BY <2>4, <2>5, SaveStep
<1>5. CASE Flow!UpdateFlow
  <2>1. PICK f \in DOMAIN flows, seq \in Lists : Flow!Save([flows EXCEPT ![f] = seq])
    BY <1>5 DEF Flow!UpdateFlow
  <2>2. seq \in Seq(StageType)
    BY FlowAssumption
  <2> QED BY <2>1, <2>2, ReplaceStep
<1> QED BY <1>1, <1>2, <1>3, <1>4, <1>5 DEF Flow!Edit

\* A login starts with nothing behind it.
LEMMA FlowStart == ASSUME Flow!Init PROVE FlowInv
<1>0. /\ flows \in Trees /\ stack = <<Flow!Frame("main", 1, {}, {})>> /\ user = FALSE
      /\ pending = Flow!NoPending /\ result = "running" /\ hist = Flow!InitHist
  BY DEF Flow!Init
<1>1. FlowSet(flows) /\ "main" \in DOMAIN flows /\ "main" \in Aliases
  BY <1>0, FlowAssumption DEF FlowSet
<1>2. pending \in PendingState /\ pending.flow = "none"
  BY <1>0 DEF Flow!NoPending, Flow!None, PendingState
<1>3. hist \in FlowHist /\ hist.missed = {} /\ ~hist.disabled /\ ~hist.broken
  BY <1>0 DEF Flow!InitHist, FlowHist
<1>4. PICK x : x = Flow!Frame("main", 1, {}, {})
  OBVIOUS
<1>5. /\ x \in FrameState /\ x.flow = "main" /\ x.i = 1 /\ x.alt = FALSE
      /\ x.resumed = FALSE /\ x.ret = "none" /\ x.done = {} /\ x.excused = {}
  BY <1>1, <1>4 DEF Flow!Frame, Flow!None, FrameState, Endings
<1>6. stack = <<x>> /\ stack \in Seq(FrameState) /\ Len(stack) = 1 /\ stack[1] = x
  BY <1>0, <1>4, <1>5
<1>7. FlowTypes
  BY <1>0, <1>1, <1>2, <1>3, <1>6 DEF FlowTypes
<1>8. FrameInv(x)
  BY <1>1, <1>5, <1>7, CallInv
<1>9. StackInv
  <2>1. ASSUME NEW j \in 1 .. 1 PROVE FrameInv(stack[j])
    <3>1. j = 1
      OBVIOUS
    <3> QED BY <1>6, <1>8, <3>1
  <2>2. ASSUME NEW j \in 1 .. 1 - 1 PROVE CallerInv(stack[j])
    OBVIOUS
  <2> QED BY <1>6, <2>1, <2>2 DEF StackInv
<1>10. BrokenInv /\ PendingInv
  BY <1>0, <1>2, <1>3, <1>6 DEF BrokenInv, PendingInv
<1> QED BY <1>3, <1>7, <1>9, <1>10 DEF FlowInv

\* Every step of a login keeps the invariant.
LEMMA FlowStep == ASSUME FlowInv, Flow!Next PROVE FlowInv'
  BY SkipStep, ExecuteStep, ChallengeStep, EnterStep, EndStep, ReturnStep, SuccessStep, FailureStep,
     ContinueStep, EditStep DEF Flow!Next, Flow!Execution

\* The invariant of a login, for all flows.
THEOREM FlowSafe == MCSpec => [](on = "flow" => FlowInv)
<1>1. MCInit => (on = "flow" => FlowInv)
  BY FlowStart DEF MCInit
<1>2. (on = "flow" => FlowInv) /\ [GlobNext \/ FlowNext \/ KeysNext]_allVars => (on = "flow" => FlowInv)'
  <2> SUFFICES ASSUME on = "flow" => FlowInv, [GlobNext \/ FlowNext \/ KeysNext]_allVars, (on = "flow")'
               PROVE  FlowInv'
    OBVIOUS
  <2>1. CASE GlobNext \/ FlowNext \/ KeysNext
    <3>1. on = "flow" /\ Flow!Next
      BY <2>1 DEF GlobNext, FlowNext, KeysNext
    <3> QED BY <3>1, FlowStep
  <2>2. CASE UNCHANGED allVars
    <3>1. FlowInv /\ UNCHANGED <<flows, stack, user, pending, result, hist>>
      BY <2>2 DEF allVars, flowVars
    <3>2. FlowTypes'
      BY <3>1 DEF FlowInv, FlowTypes, FlowSet, UniqueIds
    <3>3. StackInv'
      <4>1. ASSUME NEW j \in 1 .. Len(stack) PROVE FrameInv(stack[j])'
        <5>1. FrameInv(stack[j])
          BY <3>1 DEF FlowInv, StackInv
        <5> QED BY <3>1, <5>1 DEF FrameInv
      <4>2. ASSUME NEW j \in 1 .. Len(stack) - 1 PROVE CallerInv(stack[j])'
        BY <3>1 DEF FlowInv, StackInv, CallerInv
      <4> QED BY <3>1, <4>1, <4>2 DEF StackInv
    <3>4. BrokenInv'
      BY <3>1 DEF FlowInv, BrokenInv, Flow!InGroup, Flow!Stage, Flow!Stages
    <3>5. PendingInv'
      BY <3>1, PendingStays DEF FlowInv
    <3> QED BY <3>1, <3>2, <3>3, <3>4, <3>5 DEF FlowInv
  <2> QED BY <2>1, <2>2
<1> QED BY <1>1, <1>2, PTL DEF MCSpec

\* A flow that succeeds passed every required stage and one of every group of
\* alternatives, in whatever requests and whatever admins do to the flows in
\* between, except what an edit came to ask for behind the stage the login
\* waited at; a disabled stage never runs; and a request in which a stage failed
\* for a reason that is not about the user does not log in (execute_stages,
\* continue_flow, is_operational_failure).
THEOREM FlowPasses == MCSpec => []FlowHonoured
<1>1. ASSUME FlowInv PROVE Flow!FlowHonoured
  BY <1>1 DEF FlowInv, BrokenInv, Flow!FlowHonoured
<1>2. (on = "flow" => FlowInv) => FlowHonoured
  BY <1>1 DEF FlowHonoured
<1> QED BY <1>2, FlowSafe, PTL

-----------------------------------------------------------------------------
(* GlobMatch: what a pattern means *)

\* Induction over the natural numbers, for a set.
LEMMA NatSet ==
    ASSUME NEW T \in SUBSET Nat, 0 \in T, \A n \in T : n + 1 \in T
    PROVE  T = Nat
<1> SUFFICES ASSUME T # Nat PROVE FALSE
  OBVIOUS
<1>1. PICK U \in SUBSET Nat : U = Nat \ T
  OBVIOUS
<1>2. U # {}
  BY <1>1
<1>3. PICK x \in U : \A y \in U : x <= y
  BY <1>2, LeastNat
<1>4. x \in Nat /\ x # 0 /\ x - 1 \in Nat /\ (x - 1) + 1 = x
  BY <1>1
<1>5. x - 1 \in T
  BY <1>1, <1>3, <1>4
<1> QED BY <1>1, <1>4, <1>5

\* The positions from[i] of Matches, out of those of the bytes after i.
Spell(q, s, f, i) ==
    IF i > Len(q) THEN {Len(s) + 1}
    ELSE IF q[i] = Star THEN {j \in 1 .. Len(s) + 1 : \E m \in f[i + 1] : j <= m}
    ELSE IF q[i] = Slash /\ i < Len(q)
         THEN {j \in 1 .. Len(s) : s[j] = q[i + 1] /\ j + 1 \in f[i + 2]}
    ELSE {j \in 1 .. Len(s) : s[j] = q[i] /\ j + 1 \in f[i + 1]}

From(q, s) == CHOOSE f : f = [i \in 1 .. Len(q) + 1 |-> Spell(q, s, f, i)]

\* Matches says what From says.
LEMMA MatchesFrom == ASSUME NEW q, NEW s PROVE Matches(q, s) = (1 \in From(q, s)[1])
  BY Zenon DEF Matches, From, Spell

\* A set of positions.
LEMMA SpellTypes ==
    ASSUME NEW q \in Seq(Bytes), NEW s \in Seq(Bytes), NEW f, NEW i \in 1 .. Len(q) + 1
    PROVE  Spell(q, s, f, i) \in SUBSET (1 .. Len(s) + 1)
<1>1. Len(s) \in Nat
  OBVIOUS
<1>2. Len(s) + 1 \in 1 .. Len(s) + 1 /\ 1 .. Len(s) \subseteq 1 .. Len(s) + 1
  BY <1>1
<1> QED BY <1>2 DEF Spell

\* The positions of a byte depend on those after it only.
LEMMA SpellLater ==
    ASSUME NEW q, NEW s, NEW i, NEW f, NEW g, f[i + 1] = g[i + 1], f[i + 2] = g[i + 2]
    PROVE  Spell(q, s, f, i) = Spell(q, s, g, i)
  BY DEF Spell

\* There are such positions: they are found from the end of the pattern on.
LEMMA FromExists ==
    ASSUME NEW q \in Seq(Bytes), NEW s \in Seq(Bytes)
    PROVE  \E f \in [1 .. Len(q) + 1 -> SUBSET (1 .. Len(s) + 1)] :
              f = [i \in 1 .. Len(q) + 1 |-> Spell(q, s, f, i)]
<1> DEFINE Positions == [1 .. Len(q) + 1 -> SUBSET (1 .. Len(s) + 1)]
           T == {n \in Nat : \E f \in Positions : \A i \in 1 .. Len(q) + 1 :
                                i + n > Len(q) + 1 => f[i] = Spell(q, s, f, i)}
<1>0. Len(q) \in Nat
  OBVIOUS
<1>1. 0 \in T
  <2>1. PICK f : f = [i \in 1 .. Len(q) + 1 |-> {}]
    OBVIOUS
  <2>2. f \in Positions
    BY <2>1
  <2>3. \A i \in 1 .. Len(q) + 1 : i + 0 > Len(q) + 1 => f[i] = Spell(q, s, f, i)
    BY <1>0
  <2> QED BY <2>2, <2>3
<1>2. ASSUME NEW n \in T PROVE n + 1 \in T
  <2>0. n \in Nat /\ n + 1 \in Nat
    OBVIOUS
  <2>1. PICK f \in Positions : \A i \in 1 .. Len(q) + 1 :
                                  i + n > Len(q) + 1 => f[i] = Spell(q, s, f, i)
    OBVIOUS
  <2>2. PICK g : g = [i \in 1 .. Len(q) + 1 |-> IF i + n = Len(q) + 1 THEN Spell(q, s, f, i) ELSE f[i]]
    OBVIOUS
  <2>3. g \in Positions
    BY <2>2, SpellTypes
  <2>4. ASSUME NEW i \in 1 .. Len(q) + 1, i + (n + 1) > Len(q) + 1 PROVE g[i] = Spell(q, s, g, i)
    <3>0. i \in Nat
      BY <1>0
    <3>1. CASE i = Len(q) + 1
      <4>1. Spell(q, s, g, i) = {Len(s) + 1} /\ Spell(q, s, f, i) = {Len(s) + 1}
        BY <1>0, <3>1 DEF Spell
      <4>2. CASE i + n = Len(q) + 1
        BY <2>2, <4>1, <4>2
      <4>3. CASE i + n # Len(q) + 1
        <5>1. i + n > Len(q) + 1
          BY <1>0, <2>0, <2>4, <3>0, <4>3
        <5> QED BY <2>1, <2>2, <4>1, <4>3, <5>1
      <4> QED BY <4>2, <4>3
    <3>2. CASE i = Len(q)
      <4>1. i + 1 \in 1 .. Len(q) + 1
        BY <1>0, <3>2
      <4>2. g[i + 1] = f[i + 1]
        <5>1. (i + 1) + n # Len(q) + 1 \/ f[i + 1] = Spell(q, s, f, i + 1)
          BY <1>0, <2>0, <2>1, <2>4, <3>0, <4>1
        <5> QED BY <2>2, <4>1, <5>1
      <4>3. Spell(q, s, g, i) = Spell(q, s, f, i)
        BY <1>0, <3>2, <4>2 DEF Spell
      <4>4. CASE i + n = Len(q) + 1
        BY <2>2, <4>3, <4>4
      <4>5. CASE i + n # Len(q) + 1
        <5>1. i + n > Len(q) + 1
          BY <1>0, <2>0, <2>4, <3>0, <4>5
        <5> QED BY <2>1, <2>2, <4>3, <4>5, <5>1
      <4> QED BY <4>4, <4>5
    <3>3. CASE i < Len(q)
      <4>1. i + 1 \in 1 .. Len(q) + 1 /\ i + 2 \in 1 .. Len(q) + 1
        BY <1>0, <3>0, <3>3
      <4>2. (i + 1) + n # Len(q) + 1 /\ (i + 2) + n # Len(q) + 1
        BY <1>0, <2>0, <2>4, <3>0
      <4>3. g[i + 1] = f[i + 1] /\ g[i + 2] = f[i + 2]
        BY <2>2, <4>1, <4>2
      <4>4. Spell(q, s, g, i) = Spell(q, s, f, i)
        BY <4>3, SpellLater
      <4>5. CASE i + n = Len(q) + 1
        BY <2>2, <4>4, <4>5
      <4>6. CASE i + n # Len(q) + 1
        <5>1. i + n > Len(q) + 1
          BY <1>0, <2>0, <2>4, <3>0, <4>6
        <5> QED BY <2>1, <2>2, <4>4, <4>6, <5>1
      <4> QED BY <4>5, <4>6
    <3> QED BY <1>0, <3>0, <3>1, <3>2, <3>3
  <2> QED BY <2>0, <2>3, <2>4
<1>3. T = Nat
  <2>1. T \in SUBSET Nat
    OBVIOUS
  <2> HIDE DEF T
  <2> QED BY <1>1, <1>2, <2>1, NatSet
<1>4. Len(q) + 1 \in T
  <2>1. Len(q) + 1 \in Nat
    BY <1>0
  <2> HIDE DEF T
  <2> QED BY <1>3, <2>1
<1>5. PICK f \in Positions : \A i \in 1 .. Len(q) + 1 :
                                i + (Len(q) + 1) > Len(q) + 1 => f[i] = Spell(q, s, f, i)
  BY <1>4
<1>6. \A i \in 1 .. Len(q) + 1 : f[i] = Spell(q, s, f, i)
  BY <1>0, <1>5
<1>7. f = [i \in 1 .. Len(q) + 1 |-> Spell(q, s, f, i)]
  BY <1>6
<1> QED BY <1>7

\* So From is one of them, byte by byte.
LEMMA FromSpells ==
    ASSUME NEW q \in Seq(Bytes), NEW s \in Seq(Bytes)
    PROVE  \A i \in 1 .. Len(q) + 1 :
              /\ From(q, s)[i] = Spell(q, s, From(q, s), i)
              /\ From(q, s)[i] \in SUBSET (1 .. Len(s) + 1)
<1>1. \E f : f = [i \in 1 .. Len(q) + 1 |-> Spell(q, s, f, i)]
  BY FromExists
<1>2. From(q, s) = [i \in 1 .. Len(q) + 1 |-> Spell(q, s, From(q, s), i)]
  BY <1>1, Zenon DEF From
<1>3. ASSUME NEW i \in 1 .. Len(q) + 1 PROVE From(q, s)[i] = Spell(q, s, From(q, s), i)
  BY <1>2, Zenon
<1> QED BY <1>3, SpellTypes

-----------------------------------------------------------------------------
(* GlobMatch: the loop *)

\* The loop's positions, and the star it may go back to.
GlobTypes ==
    /\ p \in Seq(Bytes) /\ k \in Seq(Bytes)
    /\ pi \in 1 .. Len(p) + 1 /\ ki \in 1 .. Len(k) + 1
    /\ star \in Nat \X Nat
    /\ star[1] > 0 => star[1] \in 1 .. Len(p) /\ star[2] \in 1 .. ki

\* As long as there was no star, the pattern spells the key if the rest of it
\* spells the rest.  Then it does if what follows the star does so from where the
\* star is retried, or from a later byte on; the loop tries the first of these;
\* and wherever what follows the star spells the rest, what the loop has not
\* read of the pattern does, as far behind as the loop has come.
LoopInv(f) ==
    /\ star[1] = 0 => (1 \in f[1] <=> ki \in f[pi])
    /\ star[1] > 0 =>
        /\ 1 \in f[1] <=> \E m \in f[star[1] + 1] : star[2] <= m
        /\ ki \in f[pi] <=> star[2] \in f[star[1] + 1]
        /\ \A m \in f[star[1] + 1] : star[2] <= m => m + (ki - star[2]) \in f[pi]

GlobInv ==
    /\ GlobTypes
    /\ result = "running" => LoopInv(From(p, k))
    /\ result # "running" => (result = "yes" <=> 1 \in From(p, k)[1])

\* A star absorbs any number of bytes.
LEMMA AtStarFacts ==
    ASSUME GlobTypes, AtStar, NEW f, f[pi] = Spell(p, k, f, pi)
    PROVE  /\ pi \in 1 .. Len(p) /\ pi + 1 \in 1 .. Len(p) + 1
           /\ f[pi] = {j \in 1 .. Len(k) + 1 : \E m \in f[pi + 1] : j <= m}
<1>1. Len(p) \in Nat /\ pi \in 1 .. Len(p) /\ pi + 1 \in 1 .. Len(p) + 1
  BY DEF GlobTypes, AtStar
<1>2. ~(pi > Len(p)) /\ p[pi] = Star
  BY <1>1 DEF AtStar
<1> QED BY <1>1, <1>2 DEF Spell

\* A literal matches one byte.
LEMMA LiteralFacts ==
    ASSUME GlobTypes, ~AtStar, ki <= Len(k), NEW f, f[pi] = Spell(p, k, f, pi)
    PROVE  /\ Width \in {0, 1, 2}
           /\ Width > 0 => /\ pi + Width \in 1 .. Len(p) + 1
                           /\ ki \in f[pi] <=> ki + 1 \in f[pi + Width]
                           /\ \A m \in f[pi] : m + 1 \in f[pi + Width]
           /\ Width = 0 => ki \notin f[pi]
<1>0. Len(p) \in Nat /\ pi \in Nat /\ pi >= 1 /\ Len(k) \in Nat /\ ki \in 1 .. Len(k)
  BY DEF GlobTypes
<1>1. CASE pi > Len(p)
  <2>1. Width = 0
    BY <1>1 DEF Width
  <2>2. f[pi] = {Len(k) + 1}
    BY <1>1 DEF Spell
  <2> QED BY <1>0, <2>1, <2>2
<1>2. CASE pi <= Len(p)
  <2>0. ~(pi > Len(p)) /\ p[pi] # Star
    BY <1>0, <1>2 DEF AtStar
  <2>1. CASE p[pi] = Slash /\ pi < Len(p)
    <3>1. Width = IF p[pi + 1] = k[ki] THEN 2 ELSE 0
      BY <2>0, <2>1 DEF Width, AtStar
    <3>2. f[pi] = {j \in 1 .. Len(k) : k[j] = p[pi + 1] /\ j + 1 \in f[pi + 2]}
      BY <2>0, <2>1 DEF Spell
    <3> QED BY <1>0, <2>1, <3>1, <3>2
  <2>2. CASE ~(p[pi] = Slash /\ pi < Len(p))
    <3>1. Width = IF p[pi] = k[ki] THEN 1 ELSE 0
      BY <2>0, <2>2 DEF Width, AtStar
    <3>2. f[pi] = {j \in 1 .. Len(k) : k[j] = p[pi] /\ j + 1 \in f[pi + 1]}
      BY <2>0, <2>2 DEF Spell
    <3> QED BY <1>0, <1>2, <3>1, <3>2
  <2> QED BY <2>1, <2>2
<1> QED BY <1>0, <1>1, <1>2

\* The patterns and keys of an instance are sequences of bytes.
LEMMA UpToSeq == ASSUME NEW n \in Nat, NEW s \in UpTo(n) PROVE s \in Seq(Bytes)
<1>1. PICK m \in 0 .. n : s \in [1 .. m -> Bytes]
  BY DEF UpTo
<1>2. m \in Nat
  OBVIOUS
<1> QED BY <1>1, <1>2

\* The loop starts with the whole of both.
LEMMA GlobStart == ASSUME Init PROVE GlobInv
<1>1. p \in Seq(Bytes) /\ k \in Seq(Bytes)
  BY UpToSeq, GlobAssumption DEF Init
<1>2. pi = 1 /\ ki = 1 /\ star = <<0, 0>> /\ result = "running"
  BY DEF Init
<1>3. Len(p) \in Nat /\ Len(k) \in Nat /\ 1 \in 1 .. Len(p) + 1 /\ 1 \in 1 .. Len(k) + 1
  BY <1>1
<1>4. star \in Nat \X Nat /\ star[1] = 0
  BY <1>2
<1> QED BY <1>1, <1>2, <1>3, <1>4 DEF GlobInv, GlobTypes, LoopInv

\* What the loop reads stays.
LEMMA FromStays == ASSUME p' = p, k' = k, NEW f, f = From(p, k) PROVE f = From(p, k)'
  BY Zenon

\* Every step of the loop keeps the invariant.
LEMMA GlobStep == ASSUME GlobInv, Next PROVE GlobInv'
<1>0. p' = p /\ k' = k /\ result = "running"
  BY DEF Next, TakeStar, TakeLiteral, Backtrack, Mismatch, SkipStar, Finish, Scanning
<1>1. PICK f : f = From(p, k)
  OBVIOUS
<1>2. /\ \A i \in 1 .. Len(p) + 1 : f[i] = Spell(p, k, f, i) /\ f[i] \in SUBSET (1 .. Len(k) + 1)
      /\ LoopInv(f) /\ f = From(p, k)'
  BY <1>0, <1>1, FromSpells, FromStays DEF GlobInv, GlobTypes
<1>3. PICK a, b : star = <<a, b>> /\ a = star[1] /\ b = star[2] /\ a \in Nat /\ b \in Nat
  BY DEF GlobInv, GlobTypes
<1>4. /\ Len(p) \in Nat /\ Len(k) \in Nat /\ pi \in Nat /\ ki \in Nat /\ pi >= 1 /\ ki >= 1
      /\ pi <= Len(p) + 1 /\ ki <= Len(k) + 1 /\ pi \in 1 .. Len(p) + 1
      /\ a > 0 => a \in 1 .. Len(p) /\ b <= ki /\ b >= 1 /\ a + 1 \in 1 .. Len(p) + 1
  BY <1>3 DEF GlobInv, GlobTypes
<1>5. f[pi] = Spell(p, k, f, pi) /\ f[pi] \in SUBSET (1 .. Len(k) + 1)
  BY <1>2, <1>4
<1>6. /\ a = 0 => (1 \in f[1] <=> ki \in f[pi])
      /\ a > 0 => /\ 1 \in f[1] <=> \E m \in f[a + 1] : b <= m
                  /\ ki \in f[pi] <=> b \in f[a + 1]
                  /\ \A m \in f[a + 1] : b <= m => m + (ki - b) \in f[pi]
                  /\ f[a + 1] \in SUBSET (1 .. Len(k) + 1)
  BY <1>2, <1>3, <1>4 DEF LoopInv
<1>7. p \in Seq(Bytes) /\ k \in Seq(Bytes) /\ star \in Nat \X Nat
  BY DEF GlobInv, GlobTypes
<1>8. CASE TakeStar
  <2>1. star' = <<pi, ki>> /\ pi' = pi + 1 /\ ki' = ki /\ result' = "running" /\ AtStar
    BY <1>0, <1>8 DEF TakeStar
  <2>2. /\ pi \in 1 .. Len(p) /\ pi + 1 \in 1 .. Len(p) + 1
        /\ f[pi] = {j \in 1 .. Len(k) + 1 : \E m \in f[pi + 1] : j <= m}
        /\ f[pi + 1] \in SUBSET (1 .. Len(k) + 1)
    BY <1>2, <1>5, <2>1, AtStarFacts DEF GlobInv
  <2>3. ki \in f[pi] <=> \E m \in f[pi + 1] : ki <= m
    BY <1>4, <2>2
  <2>4. 1 \in f[1] <=> ki \in f[pi]
    <3>1. CASE a = 0
      BY <1>6, <3>1
    <3>2. CASE a > 0
      <4>1. ASSUME NEW m \in f[a + 1], b <= m PROVE ki \in f[pi]
        <5>0. m \in Nat /\ b \in Nat /\ ki - b \in Nat
          BY <1>3, <1>4, <1>6, <3>2, <4>1
        <5>1. m + (ki - b) \in f[pi]
          BY <1>6, <3>2, <4>1
        <5>2. PICK x \in f[pi + 1] : m + (ki - b) <= x
          BY <2>2, <5>1
        <5>3. ki <= x /\ x \in Nat
          BY <1>3, <1>4, <2>2, <4>1, <5>0, <5>2
        <5> QED BY <2>3, <5>3
      <4>2. ki \in f[pi] => 1 \in f[1]
        BY <1>3, <1>6, <3>2
      <4> QED BY <1>6, <3>2, <4>1, <4>2
    <3> QED BY <1>3, <3>1, <3>2
  <2>5. LoopInv(f)'
    <3>1. star'[1] = pi /\ star'[2] = ki /\ pi > 0
      BY <1>4, <2>1
    <3>2. ASSUME NEW m \in f[pi + 1] PROVE m + (ki - ki) = m
      BY <1>4, <2>2
    <3> QED BY <2>1, <2>3, <2>4, <3>1, <3>2 DEF LoopInv
  <2>6. GlobTypes'
    <3>1. star'[1] = pi /\ star'[2] = ki /\ star' \in Nat \X Nat /\ ki \in 1 .. ki
      BY <1>4, <2>1
    <3> QED BY <1>0, <1>4, <1>7, <2>1, <2>2, <3>1 DEF GlobTypes
  <2> QED BY <1>2, <2>1, <2>5, <2>6 DEF GlobInv, LoopInv
<1>9. CASE TakeLiteral
  <2>1. /\ star' = star /\ pi' = pi + Width /\ ki' = ki + 1 /\ result' = "running"
        /\ ~AtStar /\ ki <= Len(k) /\ Width > 0
    BY <1>0, <1>9 DEF TakeLiteral, Scanning
  <2>2. PICK w : w = Width
    OBVIOUS
  <2>3. /\ w \in {1, 2} /\ pi + w \in 1 .. Len(p) + 1
        /\ ki \in f[pi] <=> ki + 1 \in f[pi + w]
        /\ \A m \in f[pi] : m + 1 \in f[pi + w]
    <3>1. w \in {0, 1, 2} /\ w > 0
      BY <1>5, <2>1, <2>2, LiteralFacts DEF GlobInv
    <3>2. w \in {1, 2}
      BY <3>1
    <3>3. /\ pi + w \in 1 .. Len(p) + 1
          /\ ki \in f[pi] <=> ki + 1 \in f[pi + w]
          /\ \A m \in f[pi] : m + 1 \in f[pi + w]
      BY <1>5, <2>1, <2>2, LiteralFacts DEF GlobInv
    <3> QED BY <3>2, <3>3
  <2>4. ASSUME a > 0, NEW m \in f[a + 1], b <= m PROVE m + ((ki + 1) - b) \in f[pi + w]
    <3>0. m \in Nat
      BY <1>6, <2>4
    <3>1. m + (ki - b) \in f[pi]
      BY <1>6, <2>4
    <3>2. (m + (ki - b)) + 1 \in f[pi + w]
      BY <2>3, <3>1
    <3>3. (m + (ki - b)) + 1 = m + ((ki + 1) - b)
      BY <1>3, <1>4, <3>0
    <3> QED BY <3>2, <3>3
  <2>5. pi' = pi + w
    BY <2>1, <2>2
  <2>6. LoopInv(f)'
    BY <1>3, <1>6, <2>1, <2>3, <2>4, <2>5 DEF LoopInv
  <2>7. GlobTypes'
    <3>1. ki + 1 \in 1 .. Len(k) + 1 /\ (a > 0 => b \in 1 .. ki + 1)
      BY <1>3, <1>4, <2>1
    <3> QED BY <1>0, <1>3, <1>4, <1>7, <2>1, <2>3, <2>5, <3>1 DEF GlobTypes
  <2> QED BY <1>2, <2>1, <2>6, <2>7 DEF GlobInv, LoopInv
<1>10. CASE Backtrack
  <2>1. /\ star' = <<a, b + 1>> /\ pi' = a + 1 /\ ki' = b + 1 /\ result' = "running"
        /\ ~AtStar /\ ki <= Len(k) /\ Width = 0 /\ a > 0
    BY <1>0, <1>3, <1>10 DEF Backtrack, Retry, Scanning
  <2>2. b \notin f[a + 1]
    BY <1>5, <1>6, <2>1, LiteralFacts DEF GlobInv
  <2>3. 1 \in f[1] <=> \E m \in f[a + 1] : b + 1 <= m
    <3>1. ASSUME NEW m \in f[a + 1] PROVE b <= m <=> b + 1 <= m
      <4>1. m \in Nat /\ m # b
        BY <1>6, <2>1, <2>2
      <4> QED BY <1>3, <4>1
    <3> QED BY <1>6, <2>1, <3>1
  <2>4. star'[1] = a /\ star'[2] = b + 1 /\ star' \in Nat \X Nat
    BY <1>3, <2>1
  <2>5. ASSUME NEW m \in f[a + 1] PROVE m + ((b + 1) - (b + 1)) = m
    <3>1. m \in Nat
      BY <1>6, <2>1
    <3> QED BY <1>3, <3>1
  <2>6. LoopInv(f)'
    BY <2>1, <2>3, <2>4, <2>5 DEF LoopInv
  <2>7. GlobTypes'
    <3>1. b + 1 \in 1 .. Len(k) + 1 /\ b + 1 \in 1 .. b + 1
      BY <1>3, <1>4, <2>1
    <3> QED BY <1>0, <1>4, <1>7, <2>1, <2>4, <3>1 DEF GlobTypes
  <2> QED BY <1>2, <2>1, <2>6, <2>7 DEF GlobInv, LoopInv
<1>11. CASE Mismatch
  <2>1. /\ star' = star /\ pi' = pi /\ ki' = ki /\ result' = "no"
        /\ ~AtStar /\ ki <= Len(k) /\ Width = 0 /\ a = 0
    BY <1>0, <1>3, <1>11 DEF Mismatch, Scanning
  <2>2. 1 \notin f[1]
    BY <1>5, <1>6, <2>1, LiteralFacts DEF GlobInv
  <2>3. GlobTypes'
    BY <1>0, <2>1 DEF GlobInv, GlobTypes
  <2> QED BY <1>2, <2>1, <2>2, <2>3 DEF GlobInv
<1>12. ASSUME ki > Len(k), a > 0
       PROVE  1 \in f[1] <=> ki \in f[pi]
  <2>1. ASSUME NEW m \in f[a + 1], b <= m PROVE b \in f[a + 1]
    <3>1. m + (ki - b) \in f[pi] /\ m \in Nat
      BY <1>6, <1>12, <2>1
    <3>2. m + (ki - b) <= Len(k) + 1
      BY <1>4, <1>5, <3>1
    <3>3. m = b
      BY <1>3, <1>4, <1>12, <2>1, <3>1, <3>2
    <3> QED BY <3>3
  <2>2. b <= b
    BY <1>3
  <2> QED BY <1>6, <1>12, <2>1, <2>2
<1>13. CASE SkipStar
  <2>1. /\ star' = star /\ pi' = pi + 1 /\ ki' = ki /\ result' = "running" /\ AtStar /\ ki > Len(k)
    BY <1>0, <1>13 DEF SkipStar
  <2>2. /\ pi \in 1 .. Len(p) /\ pi + 1 \in 1 .. Len(p) + 1
        /\ f[pi] = {j \in 1 .. Len(k) + 1 : \E m \in f[pi + 1] : j <= m}
        /\ f[pi + 1] \in SUBSET (1 .. Len(k) + 1)
    BY <1>2, <1>5, <2>1, AtStarFacts DEF GlobInv
  <2>3. ki = Len(k) + 1
    BY <1>4, <2>1
  <2>4. ki \in f[pi] <=> ki \in f[pi + 1]
    <3>1. ASSUME NEW m \in f[pi + 1], ki <= m PROVE m = ki
      BY <1>4, <2>2, <2>3, <3>1
    <3>2. ki \in 1 .. Len(k) + 1 /\ ki <= ki
      BY <1>4, <2>3
    <3> QED BY <2>2, <3>1, <3>2
  <2>5. ASSUME a > 0, NEW m \in f[a + 1], b <= m PROVE m + (ki - b) \in f[pi + 1]
    <3>1. m + (ki - b) \in f[pi] /\ m \in Nat
      BY <1>6, <2>5
    <3>2. m + (ki - b) <= Len(k) + 1
      BY <1>4, <1>5, <3>1
    <3>3. m + (ki - b) = ki
      BY <1>3, <1>4, <2>3, <2>5, <3>1, <3>2
    <3> QED BY <2>4, <3>1, <3>3
  <2>6. LoopInv(f)'
    BY <1>3, <1>6, <2>1, <2>4, <2>5 DEF LoopInv
  <2>7. GlobTypes'
    BY <1>0, <2>1, <2>2 DEF GlobInv, GlobTypes
  <2> QED BY <1>2, <2>1, <2>6, <2>7 DEF GlobInv, LoopInv
<1>14. CASE Finish
  <2>1. /\ star' = star /\ pi' = pi /\ ki' = ki /\ result' = IF pi > Len(p) THEN "yes" ELSE "no"
        /\ ~AtStar /\ ki > Len(k)
    BY <1>14 DEF Finish
  <2>2. 1 \in f[1] <=> ki \in f[pi]
    BY <1>3, <1>6, <1>12, <2>1
  <2>3. ki = Len(k) + 1
    BY <1>4, <2>1
  <2>4. ki \in f[pi] <=> pi > Len(p)
    <3>1. CASE pi > Len(p)
      BY <1>5, <2>3, <3>1 DEF Spell
    <3>2. CASE pi <= Len(p)
      <4>1. ~(pi > Len(p)) /\ p[pi] # Star
        BY <1>4, <2>1, <3>2 DEF AtStar
      <4>2. f[pi] \subseteq 1 .. Len(k)
        BY <1>5, <4>1 DEF Spell
      <4> QED BY <1>4, <2>3, <4>1, <4>2
    <3> QED BY <1>4, <3>1, <3>2
  <2>5. GlobTypes'
    BY <1>0, <2>1 DEF GlobInv, GlobTypes
  <2>6. result' # "running" /\ (result' = "yes" <=> 1 \in f[1])
    BY <2>1, <2>2, <2>4
  <2> QED BY <1>2, <2>5, <2>6 DEF GlobInv
<1> QED BY <1>8, <1>9, <1>10, <1>11, <1>13, <1>14 DEF Next

-----------------------------------------------------------------------------
(* GlobMatch: the escaped spelling of a name *)

\* upTo[n] of Escape, out of what comes before.
Bite(s, f, n) ==
    IF n = 0 THEN <<>>
    ELSE f[n - 1] \o IF s[n] \in Metacharacters THEN <<Slash, s[n]>> ELSE <<s[n]>>

Spelling(s) == CHOOSE f : f = [n \in 0 .. Len(s) |-> Bite(s, f, n)]

\* Escape says what Spelling says.
LEMMA EscapeSpelling == ASSUME NEW s PROVE Escape(s) = Spelling(s)[Len(s)]
  BY Zenon DEF Escape, Spelling, Bite

\* A byte takes one byte or two.
LEMMA BiteTypes ==
    ASSUME NEW s \in Seq(Bytes), NEW n \in 1 .. Len(s), NEW f, f[n - 1] \in Seq(Bytes)
    PROVE  /\ Bite(s, f, n) \in Seq(Bytes)
           /\ \A x \in 1 .. Len(f[n - 1]) : Bite(s, f, n)[x] = f[n - 1][x]
           /\ s[n] \in Metacharacters => /\ Len(Bite(s, f, n)) = Len(f[n - 1]) + 2
                                         /\ Bite(s, f, n)[Len(f[n - 1]) + 1] = Slash
                                         /\ Bite(s, f, n)[Len(f[n - 1]) + 2] = s[n]
           /\ s[n] \notin Metacharacters => /\ Len(Bite(s, f, n)) = Len(f[n - 1]) + 1
                                            /\ Bite(s, f, n)[Len(f[n - 1]) + 1] = s[n]
<1>0. n \in Nat /\ n # 0 /\ s[n] \in Bytes /\ Slash \in Bytes
  BY DEF Bytes
<1>1. PICK t : t = f[n - 1]
  OBVIOUS
<1>2. t \in Seq(Bytes) /\ Len(t) \in Nat
  BY <1>1
<1>3. CASE s[n] \in Metacharacters
  <2>1. Bite(s, f, n) = t \o <<Slash, s[n]>>
    BY <1>0, <1>1, <1>3 DEF Bite
  <2>2. PICK u : u = <<Slash, s[n]>>
    OBVIOUS
  <2>3. u \in Seq(Bytes) /\ Len(u) = 2 /\ u[1] = Slash /\ u[2] = s[n]
    BY <1>0, <2>2
  <2>4. /\ t \o u \in Seq(Bytes) /\ Len(t \o u) = Len(t) + 2
        /\ \A x \in 1 .. Len(t) : (t \o u)[x] = t[x]
        /\ (t \o u)[Len(t) + 1] = u[1] /\ (t \o u)[Len(t) + 2] = u[2]
    <3>1. /\ t \o u \in Seq(Bytes) /\ Len(t \o u) = Len(t) + Len(u)
          /\ \A x \in 1 .. Len(t) + Len(u) : (t \o u)[x] = IF x <= Len(t) THEN t[x] ELSE u[x - Len(t)]
      BY <1>2, <2>3, ConcatProperties
    <3>2. ASSUME NEW x \in 1 .. Len(t) PROVE (t \o u)[x] = t[x]
      <4>1. x \in 1 .. Len(t) + Len(u) /\ x <= Len(t)
        BY <1>2, <2>3
      <4> QED BY <3>1, <4>1
    <3>3. Len(t) + 1 \in 1 .. Len(t) + Len(u) /\ ~(Len(t) + 1 <= Len(t)) /\ (Len(t) + 1) - Len(t) = 1
      BY <1>2, <2>3
    <3>4. (t \o u)[Len(t) + 1] = u[1]
      BY <3>1, <3>3
    <3>5. Len(t) + 2 \in 1 .. Len(t) + Len(u) /\ ~(Len(t) + 2 <= Len(t)) /\ (Len(t) + 2) - Len(t) = 2
      BY <1>2, <2>3
    <3>6. (t \o u)[Len(t) + 2] = u[2]
      BY <3>1, <3>5
    <3> QED BY <2>3, <3>1, <3>2, <3>4, <3>6
  <2> QED BY <1>1, <1>3, <2>1, <2>2, <2>3, <2>4
<1>4. CASE s[n] \notin Metacharacters
  <2>1. Bite(s, f, n) = t \o <<s[n]>>
    BY <1>0, <1>1, <1>4 DEF Bite
  <2>2. PICK u : u = <<s[n]>>
    OBVIOUS
  <2>3. u \in Seq(Bytes) /\ Len(u) = 1 /\ u[1] = s[n]
    BY <1>0, <2>2
  <2>4. /\ t \o u \in Seq(Bytes) /\ Len(t \o u) = Len(t) + 1
        /\ \A x \in 1 .. Len(t) : (t \o u)[x] = t[x]
        /\ (t \o u)[Len(t) + 1] = u[1]
    <3>1. /\ t \o u \in Seq(Bytes) /\ Len(t \o u) = Len(t) + Len(u)
          /\ \A x \in 1 .. Len(t) + Len(u) : (t \o u)[x] = IF x <= Len(t) THEN t[x] ELSE u[x - Len(t)]
      BY <1>2, <2>3, ConcatProperties
    <3>2. ASSUME NEW x \in 1 .. Len(t) PROVE (t \o u)[x] = t[x]
      <4>1. x \in 1 .. Len(t) + Len(u) /\ x <= Len(t)
        BY <1>2, <2>3
      <4> QED BY <3>1, <4>1
    <3>3. Len(t) + 1 \in 1 .. Len(t) + Len(u) /\ ~(Len(t) + 1 <= Len(t)) /\ (Len(t) + 1) - Len(t) = 1
      BY <1>2, <2>3
    <3>4. (t \o u)[Len(t) + 1] = u[1]
      BY <3>1, <3>3
    <3> QED BY <2>3, <3>1, <3>2, <3>4
  <2> QED BY <1>1, <1>4, <2>1, <2>2, <2>3, <2>4
<1> QED BY <1>3, <1>4

\* There are such spellings: they are found from the start of the name on.
LEMMA SpellingExists ==
    ASSUME NEW s \in Seq(Bytes)
    PROVE  \E f \in [0 .. Len(s) -> Seq(Bytes)] : f = [n \in 0 .. Len(s) |-> Bite(s, f, n)]
<1> DEFINE Spellings == [0 .. Len(s) -> Seq(Bytes)]
           T == {n \in Nat : \E f \in Spellings : \A i \in 0 .. Len(s) : i <= n => f[i] = Bite(s, f, i)}
<1>0. Len(s) \in Nat
  OBVIOUS
<1>1. 0 \in T
  <2>1. PICK f : f = [i \in 0 .. Len(s) |-> <<>>]
    OBVIOUS
  <2>2. f \in Spellings
    BY <2>1
  <2>3. ASSUME NEW i \in 0 .. Len(s), i <= 0 PROVE f[i] = Bite(s, f, i)
    <3>1. i = 0
      BY <1>0, <2>3
    <3> QED BY <2>1, <3>1 DEF Bite
  <2> QED BY <2>2, <2>3
<1>2. ASSUME NEW n \in T PROVE n + 1 \in T
  <2>0. n \in Nat /\ n + 1 \in Nat
    OBVIOUS
  <2>1. PICK f \in Spellings : \A i \in 0 .. Len(s) : i <= n => f[i] = Bite(s, f, i)
    OBVIOUS
  <2>2. PICK g : g = [i \in 0 .. Len(s) |-> IF i = n + 1 THEN Bite(s, f, i) ELSE f[i]]
    OBVIOUS
  <2>3. g \in Spellings
    <3>1. ASSUME NEW i \in 0 .. Len(s), i = n + 1 PROVE Bite(s, f, i) \in Seq(Bytes)
      <4>1. i \in 1 .. Len(s) /\ i - 1 \in 0 .. Len(s)
        BY <1>0, <2>0, <3>1
      <4>2. f[i - 1] \in Seq(Bytes)
        BY <4>1
      <4> QED BY <4>1, <4>2, BiteTypes
    <3> QED BY <2>2, <3>1
  <2>4. ASSUME NEW i \in 0 .. Len(s), i <= n + 1 PROVE g[i] = Bite(s, g, i)
    <3>0. i \in Nat
      BY <1>0
    <3>1. CASE i = 0
      <4>1. g[i] = f[i] /\ f[i] = Bite(s, f, i)
        BY <2>0, <2>1, <2>2, <3>1
      <4> QED BY <3>1, <4>1 DEF Bite
    <3>2. CASE i # 0
      <4>1. i - 1 \in 0 .. Len(s) /\ i - 1 # n + 1 /\ i - 1 <= n
        BY <1>0, <2>0, <2>4, <3>0, <3>2
      <4>2. g[i - 1] = f[i - 1]
        BY <2>2, <4>1
      <4>3. Bite(s, g, i) = Bite(s, f, i)
        BY <4>2 DEF Bite
      <4>4. CASE i = n + 1
        BY <2>2, <4>3, <4>4
      <4>5. CASE i # n + 1
        <5>1. i <= n
          BY <2>0, <2>4, <3>0, <4>5
        <5> QED BY <2>1, <2>2, <4>3, <4>5, <5>1
      <4> QED BY <4>4, <4>5
    <3> QED BY <3>1, <3>2
  <2> QED BY <2>0, <2>3, <2>4
<1>3. T = Nat
  <2>1. T \in SUBSET Nat
    OBVIOUS
  <2> HIDE DEF T
  <2> QED BY <1>1, <1>2, <2>1, NatSet
<1>4. Len(s) \in T
  <2> HIDE DEF T
  <2> QED BY <1>0, <1>3
<1>5. PICK f \in Spellings : \A i \in 0 .. Len(s) : i <= Len(s) => f[i] = Bite(s, f, i)
  BY <1>4
<1>6. \A i \in 0 .. Len(s) : f[i] = Bite(s, f, i)
  BY <1>0, <1>5
<1>7. f = [i \in 0 .. Len(s) |-> Bite(s, f, i)]
  BY <1>6
<1> QED BY <1>7

\* So Spelling is one of them, byte by byte.
LEMMA SpellingBites ==
    ASSUME NEW s \in Seq(Bytes)
    PROVE  \A n \in 0 .. Len(s) : /\ Spelling(s)[n] = Bite(s, Spelling(s), n)
                                  /\ Spelling(s)[n] \in Seq(Bytes)
<1>1. PICK f \in [0 .. Len(s) -> Seq(Bytes)] : f = [n \in 0 .. Len(s) |-> Bite(s, f, n)]
  BY SpellingExists
<1>2. \E g : g = [n \in 0 .. Len(s) |-> Bite(s, g, n)]
  BY <1>1, Zenon
<1>3. Spelling(s) = [n \in 0 .. Len(s) |-> Bite(s, Spelling(s), n)]
  BY <1>2, Zenon DEF Spelling
<1>4. ASSUME NEW n \in 0 .. Len(s) PROVE Spelling(s)[n] = Bite(s, Spelling(s), n)
  BY <1>3, Zenon
<1> DEFINE U == Spelling(s)
           T == {n \in Nat : n <= Len(s) => U[n] \in Seq(Bytes)}
<1>5. Len(s) \in Nat
  OBVIOUS
<1>6. 0 \in T
  <2>1. 0 \in 0 .. Len(s) /\ 0 \in Nat
    BY <1>5
  <2>2. U[0] = <<>>
    BY <1>4, <2>1 DEF Bite
  <2>3. U[0] \in Seq(Bytes)
    BY <2>2
  <2> HIDE DEF U
  <2> QED BY <2>1, <2>3
<1>7. ASSUME NEW n \in T PROVE n + 1 \in T
  <2>0. n \in Nat /\ n + 1 \in Nat
    OBVIOUS
  <2>1. ASSUME n + 1 <= Len(s) PROVE U[n + 1] \in Seq(Bytes)
    <3>1. /\ n + 1 \in 1 .. Len(s) /\ n + 1 \in 0 .. Len(s) /\ (n + 1) - 1 = n /\ n <= Len(s)
      BY <1>5, <2>0, <2>1
    <3>2. U[n + 1] = Bite(s, U, n + 1)
      BY <1>4, <3>1
    <3>3. U[(n + 1) - 1] \in Seq(Bytes)
      BY <3>1
    <3> HIDE DEF U
    <3> QED BY <3>1, <3>2, <3>3, BiteTypes
  <2> QED BY <2>0, <2>1
<1>8. T = Nat
  <2>1. T \in SUBSET Nat
    OBVIOUS
  <2> HIDE DEF T
  <2> QED BY <1>6, <1>7, <2>1, NatSet
<1>9. ASSUME NEW n \in 0 .. Len(s) PROVE Spelling(s)[n] \in Seq(Bytes)
  <2>1. n \in Nat /\ n <= Len(s)
    BY <1>5
  <2>2. n \in T
    <3> HIDE DEF T
    <3> QED BY <1>8, <2>1
  <2> QED BY <2>1, <2>2
<1> QED BY <1>4, <1>9

\* What is spelt of a name stays as it is, and the next byte follows.
LEMMA SpellingGrows ==
    ASSUME NEW s \in Seq(Bytes), NEW U, U = Spelling(s)
    PROVE  \A n \in 0 .. Len(s) :
              /\ U[n] \in Seq(Bytes) /\ Len(U[n]) \in Nat /\ Len(U[n]) <= Len(U[Len(s)])
              /\ \A x \in 1 .. Len(U[n]) : U[Len(s)][x] = U[n][x]
<1> DEFINE Prefix(n) == /\ Len(U[n]) <= Len(U[Len(s)])
                        /\ \A x \in 1 .. Len(U[n]) : U[Len(s)][x] = U[n][x]
           T == {d \in Nat : d <= Len(s) => Prefix(Len(s) - d)}
<1>0. Len(s) \in Nat
  OBVIOUS
<1>1. \A n \in 0 .. Len(s) : U[n] \in Seq(Bytes) /\ Len(U[n]) \in Nat /\ U[n] = Bite(s, U, n)
  <2>1. \A n \in 0 .. Len(s) : U[n] \in Seq(Bytes) /\ U[n] = Bite(s, U, n)
    BY SpellingBites
  <2> QED BY <2>1
<1>2. 0 \in T
  <2>1. Len(s) - 0 = Len(s) /\ Len(s) \in 0 .. Len(s)
    BY <1>0
  <2>2. Prefix(Len(s))
    BY <1>1, <2>1
  <2> HIDE DEF Prefix
  <2> QED BY <2>1, <2>2
<1>3. ASSUME NEW d \in T PROVE d + 1 \in T
  <2>0. d \in Nat /\ d + 1 \in Nat
    OBVIOUS
  <2>1. ASSUME d + 1 <= Len(s) PROVE Prefix(Len(s) - (d + 1))
    <3>1. PICK n \in Nat : n = Len(s) - d
      BY <1>0, <2>0, <2>1
    <3>2. /\ n \in 1 .. Len(s) /\ n \in 0 .. Len(s) /\ n - 1 \in 0 .. Len(s)
          /\ Len(s) - (d + 1) = n - 1 /\ d <= Len(s)
      BY <1>0, <2>0, <2>1, <3>1
    <3>3. Prefix(n)
      BY <3>1, <3>2
    <3>4. U[n - 1] \in Seq(Bytes) /\ Len(U[n - 1]) \in Nat /\ U[n] = Bite(s, U, n) /\ Len(U[n]) \in Nat
      BY <1>1, <3>2
    <3>5. /\ \A x \in 1 .. Len(U[n - 1]) : U[n][x] = U[n - 1][x]
          /\ Len(U[n]) = Len(U[n - 1]) + 2 \/ Len(U[n]) = Len(U[n - 1]) + 1
      <4> HIDE DEF T, Prefix
      <4>1. CASE s[n] \in Metacharacters
        BY <3>2, <3>4, <4>1, BiteTypes
      <4>2. CASE s[n] \notin Metacharacters
        BY <3>2, <3>4, <4>2, BiteTypes
      <4> QED BY <4>1, <4>2
    <3>6. Len(U[Len(s)]) \in Nat
      <4>1. Len(s) \in 0 .. Len(s)
        BY <1>0
      <4> QED BY <1>1, <4>1
    <3>7. Len(U[n - 1]) <= Len(U[Len(s)])
      BY <3>3, <3>4, <3>5, <3>6
    <3>8. ASSUME NEW x \in 1 .. Len(U[n - 1]) PROVE U[Len(s)][x] = U[n - 1][x]
      <4>1. x \in 1 .. Len(U[n])
        BY <3>4, <3>5
      <4> QED BY <3>3, <3>5, <4>1
    <3>9. Prefix(n - 1)
      BY <3>7, <3>8
    <3> HIDE DEF Prefix
    <3> QED BY <3>2, <3>9
  <2> HIDE DEF Prefix
  <2> QED BY <2>0, <2>1
<1>4. T = Nat
  <2>1. T \in SUBSET Nat
    OBVIOUS
  <2> HIDE DEF T
  <2> QED BY <1>2, <1>3, <2>1, NatSet
<1>5. ASSUME NEW n \in 0 .. Len(s) PROVE Prefix(n)
  <2>1. PICK d \in Nat : d = Len(s) - n /\ d <= Len(s) /\ Len(s) - d = n
    BY <1>0
  <2>2. d \in T
    <3> HIDE DEF T
    <3> QED BY <1>4
  <2> HIDE DEF Prefix
  <2> QED BY <2>1, <2>2
<1> QED BY <1>1, <1>5

\* Where the spelling of a name's byte is read, that byte is expected.
LEMMA EscapedByte ==
    ASSUME NEW s \in Seq(Bytes), NEW c \in Seq(Bytes), NEW U, U = Spelling(s), NEW q, q = Escape(s),
           NEW f, f = From(q, c), NEW n \in 1 .. Len(s)
    PROVE  \A j : j \in f[Len(U[n - 1]) + 1] <=>
                    j \in 1 .. Len(c) /\ c[j] = s[n] /\ j + 1 \in f[Len(U[n]) + 1]
<1>0. /\ Len(s) \in Nat /\ n \in Nat /\ n \in 0 .. Len(s) /\ n - 1 \in 0 .. Len(s)
      /\ Len(s) \in 0 .. Len(s)
  OBVIOUS
<1>1. q = U[Len(s)] /\ q \in Seq(Bytes) /\ Len(q) \in Nat
  <2>1. q = U[Len(s)]
    BY EscapeSpelling
  <2>2. U[Len(s)] \in Seq(Bytes)
    BY <1>0, SpellingGrows
  <2>3. q \in Seq(Bytes)
    BY <2>1, <2>2, Zenon
  <2>4. Len(q) \in Nat
    BY <2>3
  <2> QED BY <2>1, <2>3, <2>4, Zenon
<1>2. PICK a \in Nat : a = Len(U[n - 1]) + 1
  BY <1>0, SpellingGrows
<1>3. /\ U[n - 1] \in Seq(Bytes) /\ Len(U[n - 1]) \in Nat /\ U[n] = Bite(s, U, n)
      /\ Len(U[n]) \in Nat /\ Len(U[n]) <= Len(q)
      /\ \A x \in 1 .. Len(U[n]) : q[x] = U[n][x]
  <2>1. U[n - 1] \in Seq(Bytes) /\ Len(U[n - 1]) \in Nat
    BY <1>0, SpellingGrows
  <2>2. /\ Len(U[n]) \in Nat /\ Len(U[n]) <= Len(U[Len(s)])
        /\ \A x \in 1 .. Len(U[n]) : U[Len(s)][x] = U[n][x]
    BY <1>0, SpellingGrows, Zenon
  <2>3. U[n] = Bite(s, U, n)
    BY <1>0, SpellingBites
  <2> QED BY <1>1, <2>1, <2>2, <2>3
<1>5. \A i \in 1 .. Len(q) + 1 : f[i] = Spell(q, c, f, i)
  BY <1>1, FromSpells
<1>6. CASE s[n] \in Metacharacters
  <2>1. /\ Len(U[n]) = Len(U[n - 1]) + 2 /\ U[n][Len(U[n - 1]) + 1] = Slash
        /\ U[n][Len(U[n - 1]) + 2] = s[n]
    BY <1>3, <1>6, BiteTypes
  <2>2. /\ a \in 1 .. Len(U[n]) /\ a + 1 \in 1 .. Len(U[n]) /\ a < Len(q) /\ a \in 1 .. Len(q) + 1
        /\ a \in 1 .. Len(q) /\ ~(a > Len(q)) /\ a + 1 = Len(U[n - 1]) + 2 /\ a + 2 = Len(U[n]) + 1
    <3>1. PICK l \in Nat, m \in Nat, w \in Nat : l = Len(U[n - 1]) /\ m = Len(U[n]) /\ w = Len(q)
      BY <1>1, <1>3
    <3>2. a = l + 1 /\ m = l + 2 /\ m <= w
      BY <1>2, <1>3, <2>1, <3>1
    <3>3. /\ a \in 1 .. m /\ a + 1 \in 1 .. m /\ a < w /\ a \in 1 .. w + 1
          /\ a \in 1 .. w /\ ~(a > w) /\ a + 1 = l + 2 /\ a + 2 = m + 1
      BY <3>2
    <3> QED BY <3>1, <3>3
  <2>3. q[a] = Slash /\ q[a + 1] = s[n]
    BY <1>2, <1>3, <2>1, <2>2
  <2>4. Slash # Star
    BY DEF Slash, Star
  <2>5. f[a] = {j \in 1 .. Len(c) : c[j] = q[a + 1] /\ j + 1 \in f[a + 2]}
    BY <1>5, <2>2, <2>3, <2>4 DEF Spell
  <2> QED BY <1>2, <2>2, <2>3, <2>5
<1>7. CASE s[n] \notin Metacharacters
  <2>1. Len(U[n]) = Len(U[n - 1]) + 1 /\ U[n][Len(U[n - 1]) + 1] = s[n]
    BY <1>3, <1>7, BiteTypes
  <2>2. /\ a \in 1 .. Len(U[n]) /\ a \in 1 .. Len(q) + 1
        /\ a \in 1 .. Len(q) /\ ~(a > Len(q)) /\ a + 1 = Len(U[n]) + 1
    BY <1>1, <1>2, <1>3, <2>1
  <2>3. q[a] = s[n] /\ q[a] # Slash /\ q[a] # Star
    BY <1>2, <1>3, <1>7, <2>1, <2>2 DEF Metacharacters
  <2>4. f[a] = {j \in 1 .. Len(c) : c[j] = q[a] /\ j + 1 \in f[a + 1]}
    BY <1>5, <2>2, <2>3 DEF Spell
  <2> QED BY <1>2, <2>2, <2>3, <2>4
<1> QED BY <1>6, <1>7

\* The escaped spelling of a name matches the name and nothing else.
LEMMA EscapedMatches ==
    ASSUME NEW s \in Seq(Bytes), NEW c \in Seq(Bytes)
    PROVE  1 \in From(Escape(s), c)[1] <=> c = s
<1>1. PICK U, q, f : U = Spelling(s) /\ q = Escape(s) /\ f = From(q, c)
  OBVIOUS
<1> DEFINE Rest(n) == {j \in 1 .. Len(c) + 1 : /\ Len(c) - j = Len(s) - n
                                               /\ \A y \in n .. Len(s) : s[y] = c[y + (j - n)]}
           T == {d \in Nat : d <= Len(s) => f[Len(U[Len(s) - d]) + 1] = Rest((Len(s) - d) + 1)}
<1>0. Len(s) \in Nat /\ Len(c) \in Nat /\ Len(s) \in 0 .. Len(s) /\ 0 \in 0 .. Len(s)
  OBVIOUS
<1>2. q = U[Len(s)] /\ q \in Seq(Bytes) /\ Len(q) \in Nat
  <2>1. q = U[Len(s)]
    BY <1>1, EscapeSpelling
  <2> QED BY <1>0, <1>1, <2>1, SpellingGrows
<1>3. 0 \in T
  <2>1. f[Len(q) + 1] = {Len(c) + 1}
    <3>1. Len(q) + 1 \in 1 .. Len(q) + 1 /\ Len(q) + 1 > Len(q)
      BY <1>2
    <3>2. f[Len(q) + 1] = Spell(q, c, f, Len(q) + 1)
      BY <1>1, <1>2, <3>1, FromSpells
    <3> QED BY <3>1, <3>2 DEF Spell
  <2>2. Rest(Len(s) + 1) = {Len(c) + 1}
    BY <1>0
  <2>3. Len(s) - 0 = Len(s)
    BY <1>0
  <2> HIDE DEF Rest
  <2> QED BY <1>2, <2>1, <2>2, <2>3
<1>4. ASSUME NEW d \in T PROVE d + 1 \in T
  <2>0. d \in Nat /\ d + 1 \in Nat
    OBVIOUS
  <2>1. ASSUME d + 1 <= Len(s) PROVE f[Len(U[Len(s) - (d + 1)]) + 1] = Rest((Len(s) - (d + 1)) + 1)
    <3>1. PICK n \in Nat : n = Len(s) - d
      BY <1>0, <2>0, <2>1
    <3>2. /\ n \in 1 .. Len(s) /\ n - 1 = Len(s) - (d + 1) /\ (n - 1) + 1 = n /\ d <= Len(s)
          /\ Len(s) - d = n
      BY <1>0, <2>0, <2>1, <3>1
    <3>3. f[Len(U[n]) + 1] = Rest(n + 1)
      BY <3>1, <3>2
    <3>4. \A j : j \in f[Len(U[n - 1]) + 1] <=>
                   j \in 1 .. Len(c) /\ c[j] = s[n] /\ j + 1 \in f[Len(U[n]) + 1]
      <4>1. n \in 1 .. Len(s)
        BY <3>2
      <4> HIDE DEF T, Rest
      <4>2. U = Spelling(s)
        BY <1>1
      <4>3. q = Escape(s)
        BY <1>1
      <4>4. f = From(q, c)
        BY <1>1
      <4> QED BY ONLY EscapedByte, <4>1, <4>2, <4>3, <4>4, s \in Seq(Bytes), c \in Seq(Bytes)
    <3>5. ASSUME NEW j \in 1 .. Len(c) PROVE (c[j] = s[n] /\ j + 1 \in Rest(n + 1)) <=> j \in Rest(n)
      <4>0. j \in Nat /\ j + 1 \in 1 .. Len(c) + 1 /\ j \in 1 .. Len(c) + 1
        BY <1>0
      <4>1. Len(c) - (j + 1) = Len(s) - (n + 1) <=> Len(c) - j = Len(s) - n
        BY <1>0, <3>1, <4>0
      <4>2. ASSUME NEW y \in Nat PROVE y + ((j + 1) - (n + 1)) = y + (j - n)
        BY <3>1, <4>0
      <4>3. n + (j - n) = j
        BY <3>1, <4>0
      <4>4. \A y \in n .. Len(s) : y = n \/ y \in n + 1 .. Len(s)
        BY <1>0, <3>1
      <4>5. \A y \in n + 1 .. Len(s) : y \in n .. Len(s) /\ y \in Nat
        BY <1>0, <3>1
      <4>6. n \in n .. Len(s)
        BY <1>0, <3>1, <3>2
      <4>7. j + 1 \in Rest(n + 1) <=> /\ Len(c) - j = Len(s) - n
                                      /\ \A y \in n + 1 .. Len(s) : s[y] = c[y + (j - n)]
        BY <4>0, <4>1, <4>2, <4>5
      <4>8. j \in Rest(n) <=> /\ Len(c) - j = Len(s) - n
                              /\ \A y \in n .. Len(s) : s[y] = c[y + (j - n)]
        BY <4>0
      <4> HIDE DEF Rest
      <4> QED BY <4>3, <4>4, <4>5, <4>6, <4>7, <4>8
    <3>6. ASSUME NEW j \in Rest(n) PROVE j \in 1 .. Len(c)
      BY <1>0, <3>1, <3>2
    <3>7. f[Len(U[n - 1]) + 1] = Rest(n)
      <4> HIDE DEF Rest
      <4> QED BY <3>3, <3>4, <3>5, <3>6
    <3> HIDE DEF Rest
    <3> QED BY <3>2, <3>7
  <2> HIDE DEF Rest
  <2> QED BY <2>0, <2>1
<1>5. T = Nat
  <2>1. T \in SUBSET Nat
    OBVIOUS
  <2> HIDE DEF T
  <2> QED BY <1>3, <1>4, <2>1, NatSet
<1>6. f[Len(U[0]) + 1] = Rest(1)
  <2>1. Len(s) \in T
    <3> HIDE DEF T
    <3> QED BY <1>0, <1>5
  <2>2. Len(s) - Len(s) = 0 /\ 0 + 1 = 1
    BY <1>0
  <2> HIDE DEF Rest
  <2> QED BY <1>0, <2>1, <2>2
<1>7. Len(U[0]) + 1 = 1
  <2>1. U[0] = Bite(s, U, 0)
    BY <1>0, <1>1, SpellingBites
  <2> QED BY <2>1 DEF Bite
<1>8. 1 \in Rest(1) <=> c = s
  <2>1. 1 \in Rest(1) <=> Len(c) = Len(s) /\ \A y \in 1 .. Len(s) : s[y] = c[y]
    <3>1. ASSUME NEW y \in 1 .. Len(s) PROVE y + (1 - 1) = y
      BY <1>0
    <3>2. Len(c) - 1 = Len(s) - 1 <=> Len(c) = Len(s)
      BY <1>0
    <3>3. 1 \in 1 .. Len(c) + 1
      BY <1>0
    <3> QED BY <3>1, <3>2, <3>3
  <2>2. Len(c) = Len(s) /\ (\A y \in 1 .. Len(s) : s[y] = c[y]) => c = s
    BY SeqEqual
  <2> HIDE DEF Rest
  <2> QED BY <2>1, <2>2
<1> QED BY <1>1, <1>6, <1>7, <1>8

\* The invariant of the matcher, for all patterns and keys.
THEOREM GlobSafe == MCSpec => [](on = "glob" => GlobInv)
<1>1. MCInit => (on = "glob" => GlobInv)
  BY GlobStart DEF MCInit
<1>2. (on = "glob" => GlobInv) /\ [GlobNext \/ FlowNext \/ KeysNext]_allVars => (on = "glob" => GlobInv)'
  <2> SUFFICES ASSUME on = "glob" => GlobInv, [GlobNext \/ FlowNext \/ KeysNext]_allVars, (on = "glob")'
               PROVE  GlobInv'
    OBVIOUS
  <2>1. CASE GlobNext \/ FlowNext \/ KeysNext
    <3>1. on = "glob" /\ Next
      BY <2>1 DEF GlobNext, FlowNext, KeysNext
    <3> QED BY <3>1, GlobStep
  <2>2. CASE UNCHANGED allVars
    <3>1. GlobInv /\ p' = p /\ k' = k /\ UNCHANGED <<pi, ki, star, result>>
      BY <2>2 DEF allVars, globVars
    <3>2. PICK f : f = From(p, k)
      OBVIOUS
    <3>3. f = From(p, k)'
      BY <3>1, <3>2, FromStays
    <3>4. /\ result' = "running" => LoopInv(f)'
          /\ result' # "running" => (result' = "yes" <=> 1 \in f[1])
      BY <3>1, <3>2 DEF GlobInv, LoopInv
    <3>5. GlobTypes'
      BY <3>1 DEF GlobInv, GlobTypes
    <3> QED BY <3>3, <3>4, <3>5 DEF GlobInv, LoopInv
  <2> QED BY <2>1, <2>2
<1> QED BY <1>1, <1>2, PTL DEF MCSpec

\* The loop, which goes back to the last star only, decides what the pattern
\* means, and an escaped name matches that name and no other key (glob_match,
\* escape_scan_pattern).
THEOREM GlobDecides == MCSpec => []PatternsMatch
<1>1. ASSUME GlobInv PROVE MatchesMeaning
  BY <1>1, MatchesFrom DEF GlobInv, MatchesMeaning
<1>2. ASSUME GlobInv PROVE EscapeIsLiteral
  <2> SUFFICES ASSUME result # "running", NEW e \in Escaped, e[1] = p
               PROVE  result = "yes" <=> k = e[2]
    BY DEF EscapeIsLiteral
  <2>1. PICK n \in UpTo(MaxKey) : e = <<Escape(n), n>>
    BY DEF Escaped
  <2>2. n \in Seq(Bytes) /\ k \in Seq(Bytes) /\ p = Escape(n) /\ e[2] = n
    BY <1>2, <2>1, UpToSeq, GlobAssumption DEF GlobInv, GlobTypes
  <2>3. 1 \in From(Escape(n), k)[1] <=> k = n
    BY <2>2, EscapedMatches
  <2>4. result = "yes" <=> 1 \in From(p, k)[1]
    BY <1>2 DEF GlobInv
  <2> QED BY <2>2, <2>3, <2>4
<1>3. (on = "glob" => GlobInv) => PatternsMatch
  BY <1>1, <1>2 DEF PatternsMatch
<1> QED BY <1>3, GlobSafe, PTL
=============================================================================
