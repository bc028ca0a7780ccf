----------------------------- MODULE Brokering -------------------------------
(***************************************************************************)
(* Logins through an external identity provider                            *)
(* (issuerd-server/src/routes/broker.rs): the round trip to the provider,  *)
(* the decision at the first login (issuerd-core/src/broker.rs), the pages *)
(* that ask for a password or a profile, the links of external identities  *)
(* to accounts, and the roles mappers grant and revoke.                    *)
(*                                                                         *)
(* One provider, one mapped role, not the realm's default, and one e-mail  *)
(* address that identities and accounts may have; any other address is as  *)
(* good as none.  The record of granted roles is the account's attribute   *)
(* idp_mapped_roles.  A disabled account ends a request as a missing one.  *)
(* Every call of Storage or of the cache that others could tell apart is a *)
(* step.  Entries that expire are entries nobody uses again.               *)
(***************************************************************************)
EXTENDS Naturals

CONSTANTS
    Subjects,      \* external identities
    Locals,        \* accounts that have a password
    News,          \* ids of accounts the broker creates
    Flows,         \* browser flows that wait for a login
    Tasks,         \* requests at a time
    MaxFailures,   \* max_login_failures, at least 1
    MaxTrips,      \* bound on round trips
    MaxSubmits,    \* bound on submitted forms
    MaxEvents      \* bound on changes by administrators and account owners
                   \* and on calls that fail or handlers that die, together

VARIABLES
    idp,       \* the provider's settings: [trust, force]
    acc,       \* accounts: [here, role, rec, mail]
    link,      \* identity_provider_links: the account of a subject
    pending,   \* flows whose pending entry is in the cache
    entry,     \* first-login entries
    task,      \* requests under way
    hist       \* history: see InitHist

vars == <<idp, acc, link, pending, entry, task, hist>>

Accounts == Locals \cup News
None     == "none"
Mails    == {"none", "claimed", "verified"}

NoAccount == [here |-> FALSE, role |-> FALSE, rec |-> FALSE, mail |-> "none"]
\* BrokeredIdentity: who it is, the e-mail address, and whether the claims match
\* the role mapper.
NoId      == [subj |-> None, mail |-> "none", match |-> FALSE]
NoEntry   == [here |-> FALSE, id |-> NoId, user |-> None, tries |-> 0]

\* What a request has in its hands.  user, rec: the account at hand and the
\* record in its copy; held: the roles as listed; pass: "create", the three
\* values of MapperPass, or "attach" for linking from the account console.
IdleTask == [pc |-> "idle", flow |-> None, id |-> NoId, user |-> None, rec |-> FALSE,
             held |-> "unknown", pass |-> "skip", tries |-> 0]

\* logins, wrong: logins and wrong passwords of each flow; made: accounts the
\* broker created; linked, entered: accounts a link was made for and that were
\* logged in to; crossed: accounts someone else linked before their creator;
\* stranded: accounts whose creator died or could not delete them; removed:
\* accounts deleted by administrators; local: accounts that hold the role
\* although no mapper granted it; trips, submits, events: how much of each
\* bound is used up.
InitHist == [logins |-> [f \in Flows |-> 0], wrong |-> [f \in Flows |-> 0],
             made |-> {}, linked |-> {}, entered |-> {}, crossed |-> {}, stranded |-> {}, removed |-> {},
             local |-> {a \in Accounts : acc[a].role /\ ~acc[a].rec},
             trips |-> 0, submits |-> 0, events |-> 0]

\* Local accounts, with what earlier logins have left; a link is what brings a
\* record.
Init ==
    /\ idp \in [trust : BOOLEAN, force : BOOLEAN]
    /\ link \in {l \in [Subjects -> Locals \cup {None}] :
                    \A s, u \in Subjects : l[s] = l[u] /\ l[s] # None => s = u}
    /\ \E old \in [Locals -> [here : {TRUE}, role : BOOLEAN, rec : BOOLEAN, mail : Mails]] :
          /\ \A a \in Locals : old[a].rec => old[a].role /\ \E s \in Subjects : link[s] = a
          /\ acc = [a \in Accounts |-> IF a \in Locals THEN old[a] ELSE NoAccount]
    /\ pending = [f \in Flows |-> TRUE]
    /\ entry = [f \in Flows |-> NoEntry]
    /\ task = [t \in Tasks |-> IdleTask]
    /\ hist = InitHist

-----------------------------------------------------------------------------

Set(t, r) == task' = [task EXCEPT ![t] = r]
Done(t)   == Set(t, IdleTask)

Works == UNCHANGED hist
Fault == hist.events < MaxEvents /\ hist' = [hist EXCEPT !.events = @ + 1]

Linked(a) == \E s \in Subjects : link[s] = a
Unlinked(a) == [s \in Subjects |-> IF link[s] = a THEN None ELSE link[s]]

\* A request has a copy of the account's row, or is about to write it.
Copies(t, a) == task[t].user = a /\ task[t].pc \in {"password", "bind", "revoke", "held", "grant", "save"}

\* The mapper pass is over: the flow and the account are left to log in with.
ToLogin(r) == [IdleTask EXCEPT !.pc = "login", !.flow = r.flow, !.user = r.user]

-----------------------------------------------------------------------------
(* The round trip *)

\* broker_login_handler stores a state for a flow that was pending then, or for
\* the holder of a linking token, which may be used again; endpoint_inner takes
\* it, whatever the provider answers.  Nobody else knows the state: the two are
\* one step.  On success some identity is known.  Linking needs the session of
\* its user.
RoundTrip(t) ==
    /\ task[t].pc = "idle" /\ hist.trips < MaxTrips
    /\ \E i \in [subj : Subjects, mail : {"none"}, match : BOOLEAN] :
          \/ \E f \in Flows : Set(t, [IdleTask EXCEPT !.pc = "flow", !.flow = f, !.id = i])
          \/ \E a \in Locals \cup hist.entered :
                Set(t, [IdleTask EXCEPT !.pc = "find", !.user = a, !.id = i, !.pass = "attach"])
    /\ hist' = [hist EXCEPT !.trips = @ + 1]
    /\ UNCHANGED <<idp, acc, link, pending, entry>>

\* finish_login: the pending flow is taken.
TakePending(t) ==
    LET r == task[t]
    IN  /\ r.pc = "flow"
        /\ IF pending[r.flow] THEN Set(t, [r EXCEPT !.pc = "find"]) ELSE Done(t)
        /\ pending' = [pending EXCEPT ![r.flow] = FALSE]
        /\ UNCHANGED <<idp, acc, link, entry, hist>>

\* get_identity_provider_link, for a login and in finish_linking.
FindLink(t) ==
    LET r == task[t]
        a == link[r.id.subj]
    IN  /\ r.pc = "find"
        /\ \/ /\ Works
              /\ IF r.pass = "attach"
                 THEN IF a = None THEN Set(t, [r EXCEPT !.pc = "bind"]) ELSE Done(t)
                 ELSE Set(t, IF a = None THEN [r EXCEPT !.pc = "email"]
                             ELSE [r EXCEPT !.pc = "load", !.user = a])
           \/ Fault /\ Done(t)
        /\ UNCHANGED <<idp, acc, link, pending, entry>>

\* revoke_mapped_roles has something to do, else list_user_realm_roles is next.
Mapping(r) == IF r.pass = "force" /\ ~r.id.match /\ r.rec THEN [r EXCEPT !.pc = "revoke"]
              ELSE [r EXCEPT !.pc = "held"]

\* A known link: its account, unless that is gone or disabled, is mapped again
\* (syncMode=force) or logged in to.
LoadUser(t) ==
    LET r == task[t]
    IN  /\ r.pc = "load"
        /\ \/ /\ acc[r.user].here
              /\ Set(t, IF idp.force THEN Mapping([r EXCEPT !.pass = "force", !.rec = acc[r.user].rec])
                        ELSE ToLogin(r))
           \/ Done(t)
        /\ UNCHANGED <<idp, acc, link, pending, entry, hist>>

-----------------------------------------------------------------------------
(* The first login *)

Owners(mail) == IF mail = "none" THEN {} ELSE {a \in Accounts : acc[a].here /\ acc[a].mail # "none"}

\* decide_first_broker_login: account a has the identity's address m, or none has.
Decide(m, a) ==
    IF a = None THEN IF idp.trust THEN "AutoCreate" ELSE "ReviewProfile"
    ELSE IF idp.trust /\ m = "verified" /\ acc[a].mail = "verified" THEN "AutoLink"
    ELSE "LinkOrCreate"

\* No link: an account with the address of the identity is linked or offered
\* for linking, without one an account is created or a profile shown.  A page
\* takes the pending flow along.  Here the identity's address is first looked at.
FirstLogin(t) ==
    LET r == task[t]
        Page(a, m) == /\ entry' = [entry EXCEPT ![r.flow] =
                            [here |-> TRUE, id |-> [r.id EXCEPT !.mail = m], user |-> a, tries |-> 0]]
                      /\ Done(t)
    IN  /\ r.pc = "email"
        /\ \/ /\ Works
              /\ \E m \in Mails, a \in Accounts \cup {None} :
                    /\ IF Owners(m) = {} THEN a = None ELSE a \in Owners(m)
                    /\ CASE Decide(m, a) = "AutoLink" ->
                              /\ \/ Set(t, [r EXCEPT !.pc = "bind", !.pass = "link", !.user = a,
                                                     !.rec = acc[a].rec])
                                 \/ Done(t)                               \* disabled
                              /\ UNCHANGED entry
                         [] Decide(m, a) = "AutoCreate" ->
                              /\ Set(t, [r EXCEPT !.pc = "create", !.pass = "create", !.id.mail = m])
                              /\ UNCHANGED entry
                         [] OTHER -> Page(a, m)
           \/ Fault /\ Done(t) /\ UNCHANGED entry
        /\ UNCHANGED <<idp, acc, link, pending>>

\* The entry is read only.
BugLeft(e) == e

\* get_and_delete leaves no entry.
Left(e) == NoEntry

\* A form of the page is submitted: the entry is taken.
Submit(t) ==
    /\ task[t].pc = "idle" /\ hist.submits < MaxSubmits
    /\ \E f \in Flows :
          LET e == entry[f]
          IN  /\ e.here
              /\ entry' = [entry EXCEPT ![f] = Left(e)]
              /\ Set(t, [IdleTask EXCEPT !.pc = "form", !.flow = f, !.id = e.id, !.user = e.user,
                                         !.tries = e.tries])
    /\ hist' = [hist EXCEPT !.submits = @ + 1]
    /\ UNCHANGED <<idp, acc, link, pending>>

\* store_first_login_entry: another try.
Retry(t, n) ==
    LET r == task[t]
    IN  /\ entry' = [entry EXCEPT ![r.flow] =
                        [here |-> TRUE, id |-> r.id, user |-> r.user, tries |-> n]]
        /\ Done(t)

\* first_broker_login_submit, with an edited address that is nobody else's or
\* none.  Whether the realm allows duplicate addresses is left open.
Form(t) ==
    LET r == task[t]
        Review(mail) == Set(t, [r EXCEPT !.pc = "create", !.pass = "create", !.user = None,
                                         !.tries = 0, !.id.mail = mail])
    IN  /\ r.pc = "form"
        /\ \/ Done(t) /\ UNCHANGED entry                              \* provider disabled
           \/ Retry(t, r.tries)                                       \* a field is refused
           \/ \E m \in {r.id.mail, "none"} : Review(m) /\ UNCHANGED entry
           \/ /\ r.user # None /\ acc[r.user].here /\ UNCHANGED entry
              /\ Set(t, [r EXCEPT !.pc = "password", !.rec = acc[r.user].rec])
        /\ UNCHANGED <<idp, acc, link, pending, hist>>

\* link_via_password_submit: locked out; wrong, for the last time or recorded in
\* vain; right.
Password(t) ==
    LET r == task[t]
        n == r.tries + 1
    IN  /\ r.pc = "password"
        /\ \/ Retry(t, r.tries) /\ Works
           \/ /\ hist' = [hist EXCEPT !.wrong[r.flow] = @ + 1]
              /\ \/ n < MaxFailures /\ Retry(t, n)
                 \/ Done(t) /\ UNCHANGED entry
           \/ /\ r.user \in Locals /\ Works /\ UNCHANGED entry
              /\ Set(t, [r EXCEPT !.pc = "bind", !.pass = "link", !.tries = 0])
        /\ UNCHANGED <<idp, acc, link, pending>>

\* create_brokered_user, the row, unless its name is taken by now or the call
\* fails; the roles of the mappers follow.
CreateUser(t) ==
    LET r == task[t]
        fresh == News \ hist.made
    IN  /\ r.pc = "create"
        /\ \/ /\ fresh # {}
              /\ LET a == CHOOSE x \in fresh : TRUE
                 IN  /\ acc' = [acc EXCEPT ![a] = [NoAccount EXCEPT !.here = TRUE, !.mail = r.id.mail]]
                     /\ hist' = [hist EXCEPT !.made = @ \cup {a}]
                     /\ Set(t, Mapping([r EXCEPT !.user = a, !.id.mail = "none"]))
           \/ Done(t) /\ UNCHANGED <<acc, hist>>
        /\ UNCHANGED <<idp, link, pending, entry>>

\* A link that cannot be made leaves the account where it is.
BugUndoes(r) == FALSE

\* create_link_for_new_user undoes what create_brokered_user did.
Undoes(r) == r.pass = "create"

\* create_identity_provider_link: one link per subject and one per account,
\* which must exist.
CreateLink(t) ==
    LET r == task[t]
        free == link[r.id.subj] = None /\ ~Linked(r.user) /\ acc[r.user].here
    IN  /\ r.pc = "bind"
        /\ \/ /\ free
              /\ link' = [link EXCEPT ![r.id.subj] = r.user]
              /\ hist' = [hist EXCEPT !.linked = @ \cup {r.user},
                             !.crossed = IF r.pass # "create" /\ r.user \in News \ hist.linked
                                         THEN @ \cup {r.user} ELSE @]
              /\ CASE r.pass = "attach" -> Done(t)
                   [] r.pass = "link"   -> Set(t, Mapping(r))
                   [] r.pass = "create" -> Set(t, ToLogin(r))
           \/ /\ IF free THEN Fault ELSE Works
              /\ IF Undoes(r) THEN Set(t, [r EXCEPT !.pc = "undo"]) ELSE Done(t)
              /\ UNCHANGED link
        /\ UNCHANGED <<idp, acc, pending, entry>>

\* The new account is deleted again, with its rows; a failure is ignored.
DeleteUser(t) ==
    LET a == task[t].user
    IN  /\ task[t].pc = "undo"
        /\ \/ /\ acc' = [acc EXCEPT ![a] = NoAccount]
              /\ link' = Unlinked(a)
              /\ hist' = [hist EXCEPT !.local = @ \ {a}]
           \/ /\ hist.events < MaxEvents
              /\ hist' = [hist EXCEPT !.events = @ + 1, !.stranded = @ \cup {a}]
              /\ UNCHANGED <<acc, link>>
        /\ Done(t)
        /\ UNCHANGED <<idp, pending, entry>>

-----------------------------------------------------------------------------
(* Mapped roles, and the end of the login *)

\* The record is written with the row, for a new account only if there is one.
AfterRoles(r) ==
    [r EXCEPT !.pc = IF r.pass = "create" /\ ~r.rec THEN "bind" ELSE "save", !.held = "unknown"]

\* revoke_mapped_roles: the recorded role whose claim no longer matches.
RevokeMappedRoles(t) ==
    LET r == task[t]
    IN  /\ r.pc = "revoke"
        /\ \/ /\ Works
              /\ acc' = [acc EXCEPT ![r.user].role = FALSE]
              /\ Set(t, [r EXCEPT !.pc = "held", !.rec = FALSE])
           \/ Fault /\ UNCHANGED acc /\ Set(t, [r EXCEPT !.pc = "held"])
        /\ UNCHANGED <<idp, link, pending, entry>>

\* The roles that are held already are granted too.
BugGrants(r) == r.id.match

\* A matching role is granted unless it is known to be held.
Grants(r) == r.id.match /\ r.held # "yes"

\* list_user_realm_roles, which may fail.
ListHeld(t) ==
    LET r == task[t]
        Next1(h) == LET q == [r EXCEPT !.held = h]
                    IN  Set(t, IF Grants(q) THEN [q EXCEPT !.pc = "grant"] ELSE AfterRoles(q))
    IN  /\ r.pc = "held"
        /\ \/ Works /\ Next1(IF acc[r.user].role THEN "yes" ELSE "no")
           \/ Fault /\ Next1("unknown")
        /\ UNCHANGED <<idp, acc, link, pending, entry>>

\* add_user_realm_role, recorded if the roles held before are known.
GrantRole(t) ==
    LET r == task[t]
    IN  /\ r.pc = "grant"
        /\ \/ /\ acc[r.user].here /\ Works
              /\ acc' = [acc EXCEPT ![r.user].role = TRUE]
              /\ Set(t, AfterRoles([r EXCEPT !.rec = @ \/ r.held # "unknown"]))
           \/ (IF acc[r.user].here THEN Fault ELSE Works) /\ UNCHANGED acc /\ Set(t, AfterRoles(r))
        /\ UNCHANGED <<idp, link, pending, entry>>

\* update_user writes the whole row; a failure is only logged.
SaveUser(t) ==
    LET r == task[t]
    IN  /\ r.pc = "save"
        /\ \/ /\ acc[r.user].here /\ Works
              /\ acc' = [acc EXCEPT ![r.user].rec = r.rec]
           \/ (IF acc[r.user].here THEN Fault ELSE Works) /\ UNCHANGED acc
        /\ Set(t, IF r.pass = "create" THEN [r EXCEPT !.pc = "bind"] ELSE ToLogin(r))
        /\ UNCHANGED <<idp, link, pending, entry>>

\* complete_login_with_method, whose other checks may refuse.
Login(t) ==
    LET r == task[t]
    IN  /\ r.pc = "login"
        /\ \/ /\ acc[r.user].here
              /\ hist' = [hist EXCEPT !.logins[r.flow] = @ + 1, !.entered = @ \cup {r.user}]
           \/ UNCHANGED hist
        /\ Done(t)
        /\ UNCHANGED <<idp, acc, link, pending, entry>>

-----------------------------------------------------------------------------
(* Account owners, administrators and faults *)

\* account_unlink_identity_with_guard, which counts as an event: the only link
\* goes if there is a password ...
Unlink(t) ==
    /\ task[t].pc = "idle" /\ Fault
    /\ \E a \in Locals : Linked(a) /\ Set(t, [IdleTask EXCEPT !.pc = "unlink", !.user = a])
    /\ UNCHANGED <<idp, acc, link, pending, entry>>

\* ... whichever it is by then.
DeleteLink(t) ==
    /\ task[t].pc = "unlink"
    /\ link' = Unlinked(task[t].user)
    /\ Done(t)
    /\ UNCHANGED <<idp, acc, pending, entry, hist>>

\* The role is assigned by hand: nothing says that a mapper granted it, and no
\* pass is under way that could come to say so.
AssignRole(a) ==
    /\ acc[a].here /\ hist.events < MaxEvents
    /\ acc' = [acc EXCEPT ![a].role = TRUE]
    /\ hist' = [hist EXCEPT !.events = @ + 1,
                            !.local = IF ~acc[a].rec /\ \A t \in Tasks : ~Copies(t, a)
                                      THEN @ \cup {a} ELSE @]
    /\ UNCHANGED <<idp, link, pending, entry, task>>

RemoveRole(a) ==
    /\ acc[a].role /\ hist.events < MaxEvents
    /\ acc' = [acc EXCEPT ![a].role = FALSE]
    /\ hist' = [hist EXCEPT !.events = @ + 1, !.local = @ \ {a}]
    /\ UNCHANGED <<idp, link, pending, entry, task>>

RemoveUser(a) ==
    /\ acc[a].here /\ hist.events < MaxEvents
    /\ acc' = [acc EXCEPT ![a] = NoAccount]
    /\ link' = Unlinked(a)
    /\ hist' = [hist EXCEPT !.events = @ + 1, !.local = @ \ {a}, !.removed = @ \cup {a}]
    /\ UNCHANGED <<idp, pending, entry, task>>

\* A handler dies, or its client goes away.
Die(t) ==
    LET r == task[t]
    IN  /\ r.pc # "idle" /\ hist.events < MaxEvents
        /\ hist' = [hist EXCEPT !.events = @ + 1,
                      !.stranded = IF r.pass = "create" /\ r.user \in News THEN @ \cup {r.user} ELSE @]
        /\ Done(t)
        /\ UNCHANGED <<idp, acc, link, pending, entry>>

-----------------------------------------------------------------------------

Next ==
    \/ \E t \in Tasks :
          \/ RoundTrip(t) \/ TakePending(t) \/ FindLink(t) \/ LoadUser(t) \/ FirstLogin(t)
          \/ Submit(t) \/ Form(t) \/ Password(t) \/ CreateUser(t) \/ CreateLink(t) \/ DeleteUser(t)
          \/ RevokeMappedRoles(t) \/ ListHeld(t) \/ GrantRole(t) \/ SaveUser(t) \/ Login(t)
          \/ Unlink(t) \/ DeleteLink(t) \/ Die(t)
    \/ \E a \in Accounts : AssignRole(a) \/ RemoveRole(a) \/ RemoveUser(a)

Spec == Init /\ [][Next]_vars

-----------------------------------------------------------------------------
(* Properties *)

\* An account the broker created, and that nobody is working on, has been linked
\* or is deleted again, also when another login of the same identity was first
\* or the link could not be written: only a handler that dies or whose deletion
\* fails leaves one behind.  And an account that was logged in to is deleted by
\* administrators only, unless another login linked it by its e-mail address
\* before its creator did (create_link_for_new_user).
BrokeredAccountsExact ==
    \A a \in News :
        /\ acc[a].here /\ (\A t \in Tasks : task[t].user # a)
              => a \in hist.linked \cup hist.stranded
        /\ a \in hist.entered /\ ~acc[a].here => a \in hist.removed \cup hist.crossed

\* A pending flow gives one login, and takes at most MaxFailures wrong passwords,
\* however many round trips and forms race for it and although a failed form
\* stores its entry again ("each first-login entry accepts at most the realm's
\* max_login_failures wrong passwords before it is invalidated").
FlowSpentOnce == \A f \in Flows : hist.logins[f] <= 1 /\ hist.wrong[f] <= MaxFailures

\* A role the account held, or was assigned, while no mapper's record and no
\* login under way claimed it, is not revoked by any later login ("A role the
\* user already held when the mapper matched ... is never revoked").
LocalRolesKept == \A a \in hist.local : acc[a].role

=============================================================================
