--------------------------- MODULE FederationSync ----------------------------
(***************************************************************************)
(* Users and group memberships taken over from a directory: the full sync  *)
(* of a provider (issuerd-federation/src/sync.rs), the import of a user at *)
(* the first login (issuerd-auth-flow/src/built_in.rs) and the             *)
(* reconciliation of memberships that both end with                        *)
(* (issuerd-core/src/roles.rs), while administrators change users, groups  *)
(* and role mappings.                                                      *)
(*                                                                         *)
(* A user name has at most one row and a group name too (unique keys); an  *)
(* id is a name and how often its row was created.  Of a user's data only  *)
(* the link to the directory is kept: the rest is overwritten on every     *)
(* sync.  Of a group's only the marker: role mappings are no part of any   *)
(* decision here.  Every call of Storage is a step.                        *)
(***************************************************************************)
EXTENDS Naturals

CONSTANTS
    Users,        \* user names
    Groups,       \* group names
    Syncs,        \* full syncs at a time
    Logins,       \* first logins at a time
    MaxRuns,      \* bound on syncs and logins
    MaxEvents     \* bound on changes by administrators and the directory and
                  \* on storage calls that fail, together

VARIABLES
    dir,          \* the directory: what it reports of each user name
    row,          \* users: [gen, here, link]
    group,        \* groups: [gen, here, marked]
    members,      \* user_groups, whose rows go with their user and their group
    task,         \* syncs and logins under way
    admin,        \* a change of a role mapping under way
    hist          \* history: see InitHist

vars == <<dir, row, group, members, task, admin, hist>>

Tasks == Syncs \cup Logins
None  == "none"

\* FederatedUser.groups: not reporting groups is not reporting none.  Whether a
\* provider reports them is a matter of its configuration.
Absent  == [kind |-> "absent", groups |-> {}]
Silent  == [kind |-> "silent", groups |-> {}]
Lists   == [kind : {"lists"}, groups : SUBSET Groups]

NoRow    == [gen |-> 0, here |-> FALSE, link |-> FALSE]
NoGroup  == [gen |-> 0, here |-> FALSE, marked |-> FALSE]
NoIndex  == [g \in Groups |-> NoGroup]

\* What a sync or a login has in its hands.  fed: the users as the directory
\* reported them; snap: the rows as they were loaded; add, upd: names still to
\* be created and updated; synced: ids whose groups are still to be reconciled
\* (each in the order of the directory, which can be any);
\* index: GroupIndex; user: the id at hand, want: its groups still to be
\* joined, cur: those it was found in, g: the one at hand, as it was found.
IdleTask == [pc |-> "idle", fed |-> [n \in Users |-> Absent], snap |-> [n \in Users |-> NoRow],
             add |-> {}, upd |-> {}, synced |-> {}, index |-> NoIndex,
             user |-> [name |-> None, gen |-> 0], want |-> {}, cur |-> {},
             g |-> None, found |-> NoGroup]
IdleAdmin == [pc |-> "idle", g |-> None, copy |-> NoGroup]

\* dirty: since the sync began something else was written, another sync was under
\* way, a call failed or a group was adopted; before: the memberships when it began; runs, events: how
\* much of each bound is used up.
InitHist == [dirty |-> TRUE, before |-> {}, runs |-> 0, events |-> 0]

\* Rows that earlier syncs, logins and administrators have left behind.
Init ==
    /\ dir \in [Users -> {Absent, Silent}] \cup [Users -> {Absent} \cup Lists]
    /\ row \in [Users -> {NoRow} \cup [gen : {1}, here : {TRUE}, link : BOOLEAN]]
    /\ group \in [Groups -> {NoGroup} \cup [gen : {1}, here : {TRUE}, marked : BOOLEAN]]
    /\ members \in SUBSET {m \in Users \X Groups : row[m[1]].here /\ group[m[2]].here}
    /\ task = [t \in Tasks |-> IdleTask]
    /\ admin = IdleAdmin
    /\ hist = InitHist

-----------------------------------------------------------------------------
(* Storage *)

\* INSERT: the row of the next generation.
Created(r) == [r EXCEPT !.gen = @ + 1, !.here = TRUE]

\* A foreign key of user_groups: both rows are there, with these ids.
Refers(user, g, gen) ==
    /\ row[user.name].here /\ row[user.name].gen = user.gen
    /\ group[g].here /\ group[g].gen = gen

Works == UNCHANGED hist
Fault == hist.events < MaxEvents /\ hist' = [hist EXCEPT !.events = @ + 1, !.dirty = TRUE]
\* A login's write disturbs a sync, a sync's own does not.
Writes(t) == hist' = [hist EXCEPT !.dirty = @ \/ t \in Logins]

Set(t, r) == task' = [task EXCEPT ![t] = r]
Id(n, r)  == [name |-> n, gen |-> r.gen]

-----------------------------------------------------------------------------
(* The full sync *)

\* Every user of the directory.
Stream(t) ==
    /\ t \in Syncs /\ task[t].pc = "idle" /\ hist.runs < MaxRuns
    /\ Set(t, [IdleTask EXCEPT !.pc = "load", !.fed = dir, !.add = {n \in Users : dir[n] # Absent}])
    /\ hist' = [hist EXCEPT !.runs = @ + 1, !.before = members,
                            !.dirty = \E s \in Syncs : task[s].pc # "idle"]
    /\ UNCHANGED <<dir, row, group, members, admin>>

\* The users whose groups the directory reports, of those to be reconciled.
Listed(r) == {u \in r.synced : r.fed[u.name].kind = "lists"}

\* The bulk insert of no user is not sent, nor an update of none: where a sync
\* goes on to when it has r in its hands.
Onward(r) ==
    IF r.add # {} /\ r.pc = "load" THEN [r EXCEPT !.pc = "bulk"]
    ELSE IF r.add # {} /\ r.pc = "create" THEN r
    ELSE IF r.upd # {} THEN [r EXCEPT !.pc = "update"]
    ELSE IF Listed(r) # {} THEN [r EXCEPT !.pc = "index"]
    ELSE [r EXCEPT !.pc = "end"]

\* load_existing_users: names without a row are to be created, rows linked to
\* this provider to be updated, and other accounts are left alone.
LoadExistingUsers(t) ==
    LET r == task[t]
    IN  /\ r.pc = "load"
        /\ \/ /\ Works
              /\ Set(t, Onward([r EXCEPT !.snap = row,
                    !.add = {n \in r.add : ~row[n].here},
                    !.upd = {n \in r.add : row[n].here /\ row[n].link}]))
           \/ Fault /\ Set(t, IdleTask)
        /\ UNCHANGED <<dir, row, group, members, admin>>

\* bulk_create_users: one statement, all of the batch or nothing of it; nothing
\* leads to an insert of each.
BulkCreateUsers(t) ==
    LET r == task[t]
        new == [n \in Users |-> IF n \in r.add THEN [Created(row[n]) EXCEPT !.link = TRUE] ELSE row[n]]
        free == \A n \in r.add : ~row[n].here
    IN  /\ r.pc = "bulk"
        /\ \/ /\ free /\ Writes(t) /\ row' = new
              /\ Set(t, Onward([r EXCEPT !.add = {}, !.synced = {Id(n, new[n]) : n \in r.add}]))
           \/ /\ IF free THEN Fault ELSE Works
              /\ UNCHANGED row
              /\ Set(t, [r EXCEPT !.pc = "create"])
        /\ UNCHANGED <<dir, group, members, admin>>

\* create_user, of the next user of a batch or of the one who logs in.  A name
\* that is taken by now is not created: the sync goes on, the login fails.
CreateUser(t) ==
    /\ task[t].pc = "create"
    /\ \E n \in task[t].add :
        LET r == [task[t] EXCEPT !.add = @ \ {n}]
            new == [Created(row[n]) EXCEPT !.link = TRUE]
            done == [r EXCEPT !.synced = @ \cup {Id(n, new)}]
        IN  \/ /\ ~row[n].here /\ Writes(t)
               /\ row' = [row EXCEPT ![n] = new]
               /\ Set(t, IF t \in Syncs THEN Onward(done)
                         ELSE IF r.fed[n].kind = "lists" THEN [done EXCEPT !.pc = "next"]
                         ELSE IdleTask)
            \/ /\ IF row[n].here THEN Works ELSE Fault
               /\ UNCHANGED row
               /\ Set(t, IF t \in Syncs THEN Onward(r) ELSE IdleTask)
    /\ UNCHANGED <<dir, group, members, admin>>

\* The row of that name.
BugSameRow(n, copy) == row[n].here

\* WHERE id = ..., of the row that was loaded.
SameRow(n, copy) == row[n].here /\ row[n].gen = copy.gen

\* update_user writes the whole row as it was loaded, with the directory's data.
UpdateUser(t) ==
    /\ task[t].pc = "update"
    /\ \E n \in task[t].upd :
        LET r == [task[t] EXCEPT !.upd = @ \ {n}]
        IN  \/ /\ SameRow(n, r.snap[n]) /\ Writes(t)
               /\ row' = [row EXCEPT ![n].link = r.snap[n].link]
               /\ Set(t, Onward([r EXCEPT !.synced = @ \cup {Id(n, r.snap[n])}]))
            \/ /\ IF SameRow(n, r.snap[n]) THEN Fault ELSE Works
               /\ UNCHANGED row
               /\ Set(t, Onward(r))
    /\ UNCHANGED <<dir, group, members, admin>>

\* GroupIndex::load, or no index at all.
LoadIndex(t) ==
    /\ task[t].pc = "index"
    /\ \/ Works /\ Set(t, [task[t] EXCEPT !.pc = "next", !.index = group])
       \/ Fault /\ Set(t, [task[t] EXCEPT !.pc = "next"])
    /\ UNCHANGED <<dir, row, group, members, admin>>

-----------------------------------------------------------------------------
(* Reconciliation of one user's memberships *)

\* The user is done, or given up on: the next one, if any.
NextUser(t, r) ==
    Set(t, IF Listed(r) # {} THEN [r EXCEPT !.pc = "next", !.want = {}, !.cur = {}, !.g = None,
                                            !.found = NoGroup]
           ELSE IF t \in Syncs THEN [IdleTask EXCEPT !.pc = "end", !.fed = r.fed]
           ELSE IdleTask)

\* list_user_groups of the next user whose groups the directory reports.
ListUserGroups(t) ==
    /\ task[t].pc = "next"
    /\ \E u \in Listed(task[t]) :
        LET r == [task[t] EXCEPT !.synced = @ \ {u}]
            mine == {g \in Groups : <<u.name, g>> \in members /\ Refers(u, g, group[g].gen)}
        IN  \/ /\ Works
               /\ Set(t, [r EXCEPT !.pc = "groups", !.user = u, !.want = r.fed[u.name].groups,
                                   !.cur = {Id(g, group[g]) : g \in mine}])
            \/ Fault /\ NextUser(t, r)
    /\ UNCHANGED <<dir, row, group, members, admin>>

\* Whether the group that was found still has to be joined.
Join(r, g, found) ==
    IF Id(g, found) \in r.cur THEN [r EXCEPT !.pc = "groups", !.g = None, !.found = NoGroup]
    ELSE [r EXCEPT !.pc = "add", !.g = g, !.found = found]

\* resolve_group_by_name: the index, or else the table, which fills the index.
ResolveGroupByName(t) ==
    LET r == task[t]
    IN  /\ r.pc = "groups"
        /\ \E g \in r.want :
            LET hit == r.index[g].here
                f == IF hit THEN r.index[g] ELSE group[g]
                seen == [r EXCEPT !.want = @ \ {g}, !.index[g] = IF f.here THEN f ELSE @]
            IN  \/ /\ Works
                   /\ Set(t, IF ~f.here THEN [seen EXCEPT !.pc = "make", !.g = g]
                             ELSE IF ~f.marked THEN [seen EXCEPT !.pc = "adopt", !.g = g, !.found = f]
                             ELSE Join(seen, g, f))
                \/ ~hit /\ Fault /\ NextUser(t, r)
        /\ UNCHANGED <<dir, row, group, members, admin>>

\* A group that exists is adopted: its row is written as it was found, marked.
Adopt(t) ==
    LET r == task[t]
        own == [r.found EXCEPT !.marked = TRUE]
        there == group[r.g].here /\ group[r.g].gen = r.found.gen
    IN  /\ r.pc = "adopt"
        /\ \/ /\ there
              /\ group' = [group EXCEPT ![r.g] = own]
              /\ hist' = [hist EXCEPT !.dirty = TRUE]
              /\ Set(t, Join([r EXCEPT !.index[r.g] = own], r.g, own))
           \/ /\ IF there THEN Fault ELSE Works
              /\ UNCHANGED group
              /\ NextUser(t, r)
        /\ UNCHANGED <<dir, row, members, admin>>

\* create_sync_group: a new group, marked, or a conflict with one that was
\* created meanwhile.
CreateSyncGroup(t) ==
    LET r == task[t]
        new == [Created(group[r.g]) EXCEPT !.marked = TRUE]
    IN  /\ r.pc = "make"
        /\ \/ /\ ~group[r.g].here
              /\ group' = [group EXCEPT ![r.g] = new]
              /\ Writes(t)
              /\ Set(t, Join([r EXCEPT !.index[r.g] = new], r.g, new))
           \/ group[r.g].here /\ Works /\ UNCHANGED group /\ Set(t, [r EXCEPT !.pc = "lookup"])
           \/ Fault /\ UNCHANGED group /\ NextUser(t, r)
        /\ UNCHANGED <<dir, row, members, admin>>

\* The winner's row, which is not adopted; gone again, it is an error.
LookupWinner(t) ==
    LET r == task[t]
        f == group[r.g]
    IN  /\ r.pc = "lookup"
        /\ \/ f.here /\ Works /\ Set(t, Join([r EXCEPT !.index[r.g] = f], r.g, f))
           \/ (IF f.here THEN Fault ELSE Works) /\ NextUser(t, r)
        /\ UNCHANGED <<dir, row, group, members, admin>>

\* add_user_group; a user or a group that is gone is an error.
AddUserGroup(t) ==
    LET r == task[t]
        fits == Refers(r.user, r.g, r.found.gen)
    IN  /\ r.pc = "add"
        /\ \/ /\ fits /\ Writes(t)
              /\ members' = members \cup {<<r.user.name, r.g>>}
              /\ Set(t, [r EXCEPT !.pc = "groups", !.g = None, !.found = NoGroup])
           \/ (IF fits THEN Fault ELSE Works) /\ UNCHANGED members /\ NextUser(t, r)
        /\ UNCHANGED <<dir, row, group, admin>>

\* Every membership is sync's.
BugIsSyncManaged(g) == TRUE

IsSyncManaged(g) == g.marked

\* The groups the user was found in, one by one, as the index has them or else
\* as they are: managed and not reported any more, the membership goes.
CheckGroup(t) ==
    LET r == task[t]
    IN  /\ r.pc = "groups" /\ r.want = {}
        /\ IF r.cur = {} THEN Works /\ NextUser(t, r)
           ELSE \E c \in r.cur :
             LET hit == r.index[c.name].here /\ r.index[c.name].gen = c.gen
                 f == IF hit THEN r.index[c.name] ELSE group[c.name]
                 goes == /\ f.here /\ f.gen = c.gen /\ IsSyncManaged(f)
                         /\ c.name \notin r.fed[r.user.name].groups
             IN  \/ /\ Works
                    /\ Set(t, IF goes THEN [r EXCEPT !.pc = "drop", !.g = c.name, !.found = f]
                              ELSE [r EXCEPT !.cur = @ \ {c}])
                 \/ ~hit /\ Fault /\ NextUser(t, r)
        /\ UNCHANGED <<dir, row, group, members, admin>>

RemoveUserGroup(t) ==
    LET r == task[t]
        c == Id(r.g, r.found)
    IN  /\ r.pc = "drop"
        /\ \/ /\ Writes(t)
              /\ members' = IF Refers(r.user, r.g, c.gen) THEN members \ {<<r.user.name, r.g>>}
                            ELSE members
              /\ Set(t, [r EXCEPT !.pc = "groups", !.cur = @ \ {c}, !.g = None, !.found = NoGroup])
           \/ Fault /\ UNCHANGED members /\ NextUser(t, r)
        /\ UNCHANGED <<dir, row, group, admin>>

\* The sync is reported; the epoch of the claims is bumped (ReadCaches).
Finish(t) ==
    /\ task[t].pc = "end"
    /\ Set(t, IdleTask)
    /\ UNCHANGED <<dir, row, group, members, admin, hist>>

-----------------------------------------------------------------------------
(* The first login of a directory user *)

\* No local row; the directory knows the user and accepts the password.
FindUser(t) ==
    /\ t \in Logins /\ task[t].pc = "idle" /\ hist.runs < MaxRuns
    /\ \E n \in Users :
          /\ ~row[n].here /\ dir[n] # Absent
          /\ Set(t, [IdleTask EXCEPT !.pc = "create", !.fed = dir, !.add = {n}])
    /\ hist' = [hist EXCEPT !.runs = @ + 1]
    /\ UNCHANGED <<dir, row, group, members, admin>>

-----------------------------------------------------------------------------
(* Administrators and the directory *)

\* An edit disturbs a sync as a failed call does, and uses up the same bound.
Edit == Fault

\* A user is deleted, one is created who is not of the directory, or one after
\* the other.
EditUser(n) ==
    /\ Edit
    /\ \/ row[n].here /\ row' = [row EXCEPT ![n].here = FALSE]
       \/ row' = [row EXCEPT ![n] = [Created(@) EXCEPT !.link = FALSE]]
    /\ members' = {m \in members : m[1] # n}
    /\ UNCHANGED <<dir, group, task, admin>>

\* A group is deleted, or created without the marker.
EditGroup(g) ==
    /\ Edit
    /\ \/ /\ group[g].here
          /\ group' = [group EXCEPT ![g].here = FALSE]
          /\ members' = {m \in members : m[2] # g}
       \/ /\ ~group[g].here
          /\ group' = [group EXCEPT ![g] = [Created(@) EXCEPT !.marked = FALSE]]
          /\ UNCHANGED members
    /\ UNCHANGED <<dir, row, task, admin>>

\* A user joins or leaves a group by hand.
EditMembers(n, g) ==
    /\ Edit
    /\ row[n].here /\ group[g].here
    /\ members' \in {members \cup {<<n, g>>}, members \ {<<n, g>>}}
    /\ UNCHANGED <<dir, row, group, task, admin>>

\* add_group_realm_roles: the group is read ...
LoadGroup(g) ==
    /\ admin.pc = "idle" /\ hist.events < MaxEvents /\ group[g].here
    /\ admin' = [pc |-> "write", g |-> g, copy |-> group[g]]
    /\ hist' = [hist EXCEPT !.events = @ + 1]
    /\ UNCHANGED <<dir, row, group, members, task>>

\* ... and written back with the role; the marker is as it was read.
AddGroupRealmRoles ==
    LET g == admin.g
        there == group[g].here /\ group[g].gen = admin.copy.gen
    IN  /\ admin.pc = "write"
        /\ group' = IF there THEN [group EXCEPT ![g] = admin.copy] ELSE group
        /\ hist' = [hist EXCEPT !.dirty = TRUE]
        /\ admin' = IdleAdmin
        /\ UNCHANGED <<dir, row, members, task>>

\* The directory changes what it reports.
EditDirectory(n) ==
    /\ Edit
    /\ \E d \in {Absent} \cup Lists :
          /\ d # dir[n] /\ \A m \in Users : dir[m] # Silent
          /\ dir' = [dir EXCEPT ![n] = d]
    /\ UNCHANGED <<row, group, members, task, admin>>

-----------------------------------------------------------------------------

Next ==
    \/ \E t \in Tasks :
          \/ Stream(t) \/ LoadExistingUsers(t) \/ BulkCreateUsers(t) \/ CreateUser(t) \/ UpdateUser(t)
          \/ LoadIndex(t) \/ ListUserGroups(t) \/ ResolveGroupByName(t) \/ Adopt(t)
          \/ CreateSyncGroup(t) \/ LookupWinner(t) \/ AddUserGroup(t) \/ CheckGroup(t)
          \/ RemoveUserGroup(t) \/ Finish(t) \/ FindUser(t)
    \/ \E n \in Users : EditUser(n) \/ EditDirectory(n)
    \/ \E g \in Groups : EditGroup(g) \/ LoadGroup(g)
    \/ \E n \in Users, g \in Groups : EditMembers(n, g)
    \/ AddGroupRealmRoles

Spec == Init /\ [][Next]_vars

-----------------------------------------------------------------------------
(* Properties *)

\* A sync during which nothing else was written, no call failed and no group was
\* adopted leaves every linked user in exactly the marked groups the directory
\* reports, and every membership of other groups and other users as it was:
\* whatever copies of groups its index gathered, and whatever earlier syncs,
\* logins and edits crossed (reconcile_group_memberships_indexed).
QuietSyncIsExact ==
    \A t \in Syncs : task[t].pc = "end" /\ ~hist.dirty =>
        \A n \in Users, g \in Groups :
            LET reported == row[n].here /\ row[n].link /\ dir[n].kind = "lists"
            IN  IF reported /\ (group[g].marked \/ g \in dir[n].groups)
                THEN <<n, g>> \in members <=> g \in dir[n].groups
                ELSE <<n, g>> \in members <=> <<n, g>> \in hist.before

\* An account the directory did not bring is never linked to it, although a
\* sync decides from rows it loaded before ("a directory user whose username
\* matches a local, non-federated user is not touched"), and a row never
\* changes hands.
LinksKept ==
    \A n \in Users : row[n].here /\ row'[n].here /\ row[n].gen = row'[n].gen
                        => row[n].link = row'[n].link

LocalAccountsKept == [][LinksKept]_vars

=============================================================================
