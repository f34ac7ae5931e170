------------------------------- MODULE Estate -------------------------------
(***************************************************************************)
(* The people, mailboxes, groups and stores of an installation, and the    *)
(* requests that change them.  A table is a function on the ids of its     *)
(* rows; ids (uuids) are never given twice.                                *)
(*                                                                         *)
(* The coroutines of the event loop run to their next await without being  *)
(* interleaved, and most handlers await once: they read the session's user *)
(* and check his rights, await the form, and then act.  Between the two a  *)
(* request is a record of `waiting`, with the role it has read; what the   *)
(* handler looks up after the await is current.  A handler that has been   *)
(* refused, or whose form does not come, leaves with no effect (Refused).  *)
(* Wording, passwords, audit rows nobody reads and the Maildirs of the     *)
(* mailboxes are left out; Dovecot homes are in.                           *)
(***************************************************************************)
EXTENDS Naturals, FiniteSets, Functions

CONSTANTS
  Users, Accounts, Groups, Stores,  \* bound: the ids ever given
  Names,       \* usernames
  Reserved,    \* those that start with "_restore_"
  AdminName,   \* "admin"
  Fold,        \* the directory a username folds to
  AdminGroup,  \* oidc_admin_group is configured
  MaxWaiting,  \* bound: handlers that await their form at a time
  None

ASSUME EstateAssumption ==
  /\ Reserved \subseteq Names /\ AdminName \in Names \ Reserved
  /\ DOMAIN Fold = Names
  /\ AdminGroup \in BOOLEAN /\ MaxWaiting \in Nat
  /\ None \notin Users \cup Accounts \cup Groups \cup Stores \cup Names

VARIABLES
  user,     \* users
  account,  \* accounts
  group,    \* groups
  store,    \* mail_stores
  owners,   \* account_owners, pairs <<account, user>>
  members,  \* group_members, pairs <<group, user>>
  shared,   \* account_groups, pairs <<account, group>>
  allowed,  \* user_allowed_stores, pairs <<user, store>>
  home,     \* Dovecot homes on disk, pairs <<store, directory>>
  waiting,  \* handlers that await their form
  used      \* ids ever given

rights == <<owners, members, shared, allowed>>
evars == <<user, account, group, store, rights, home, waiting, used>>

User == [name : Names, admin : BOOLEAN, enabled : BOOLEAN, sso : BOOLEAN,
         store : Stores, migrating : BOOLEAN]
Account == [enabled : BOOLEAN, suspended : BOOLEAN, store : Stores,
            oauth : BOOLEAN, cred : BOOLEAN]
Group == [owner : Users, sso : BOOLEAN]
MailStore == [enabled : BOOLEAN, default : BOOLEAN, boot : BOOLEAN]

\* What a handler has checked before it awaits its form.
Gates == {"signed", "admin", "group", "view", "settled", "store"}
Request == [by : Users, admin : BOOLEAN, gate : Gates,
            on : Groups \cup Accounts \cup Stores \cup {None}]

\* A table with one more row.
WithRow(f, id, row) ==
  [x \in DOMAIN f \cup {id} |-> IF x \in DOMAIN f THEN f[x] ELSE row]

IsTable(f, S, R) == DOMAIN f \subseteq S /\ \A x \in DOMAIN f : f[x] \in R

\* The tables hold rows of their types and every reference leads to a row.
EstateTypeOK ==
  /\ IsTable(user, Users, User) /\ IsTable(account, Accounts, Account)
  /\ IsTable(group, Groups, Group) /\ IsTable(store, Stores, MailStore)
  /\ owners \subseteq (DOMAIN account) \X (DOMAIN user)
  /\ members \subseteq (DOMAIN group) \X (DOMAIN user)
  /\ shared \subseteq (DOMAIN account) \X (DOMAIN group)
  /\ allowed \subseteq (DOMAIN user) \X (DOMAIN store)
  /\ \A g \in DOMAIN group : group[g].owner \in DOMAIN user
  /\ home \subseteq Stores \X Range(Fold)
  /\ waiting \subseteq Request
  /\ used \subseteq Users \cup Accounts \cup Groups \cup Stores

-----------------------------------------------------------------------------
(* Requests.                                                               *)

\* The session's user, read again at every request.
get_session_user(u) == u \in DOMAIN user /\ user[u].enabled
get_current_user(u) == u \in DOMAIN user /\ user[u].enabled
require_admin(u) == get_current_user(u) /\ user[u].admin

is_account_owner(u, a) == <<a, u>> \in owners
InGroup(u, a) ==
  \E g \in DOMAIN group : <<a, g>> \in shared /\ <<g, u>> \in members

get_account(u, adm, a) ==
  a \in DOMAIN account /\ (adm \/ is_account_owner(u, a) \/ InGroup(u, a))

get_account_for_modify(u, adm, a) ==
  a \in DOMAIN account /\ (adm \/ is_account_owner(u, a))

can_manage_group(u, g) == user[u].admin \/ group[g].owner = u

\* API create: the store is read and checked before the remote host is tried.
StoreChecked(u, s) ==
  /\ s \in DOMAIN store /\ store[s].enabled
  /\ user[u].admin \/ <<u, s>> \in allowed

Passes(u, gate, on) ==
  CASE gate = "signed" -> on = None
    [] gate = "admin" -> on = None /\ user[u].admin
    [] gate = "group" -> on \in DOMAIN group /\ can_manage_group(u, on)
    [] gate = "view" -> on \in Accounts /\ get_account(u, user[u].admin, on)
    [] gate = "settled" -> on = None /\ ~user[u].migrating
    [] gate = "store" ->
         on \in Stores /\ (on = user[u].store \/ StoreChecked(u, on))

\* A handler has read its user, passed its checks and awaits its form.
Opens(u, gate, on) ==
  /\ get_session_user(u) /\ Passes(u, gate, on)
  /\ Cardinality(waiting) < MaxWaiting
  /\ waiting' = waiting \cup {[by |-> u, admin |-> user[u].admin, gate |-> gate,
                               on |-> on]}
  /\ UNCHANGED <<user, account, group, store, rights, home, used>>

Resumes(w, gate) == w \in waiting /\ w.gate = gate /\ waiting' = waiting \ {w}

Refused(w) ==
  /\ w \in waiting /\ waiting' = waiting \ {w}
  /\ UNCHANGED <<user, account, group, store, rights, home, used>>

-----------------------------------------------------------------------------
(* Stores.                                                                 *)

get_default_store == {s \in DOMAIN store : store[s].default}

\* The default store is s and the table becomes st: a store at the bootstrap
\* path is adopted when none is flagged, and created when there is none.
ensure_default_store(s, st) ==
  \/ s \in get_default_store /\ st = store
  \/ /\ get_default_store = {}
     /\ s \in DOMAIN store /\ store[s].boot
     /\ st = [store EXCEPT ![s].default = TRUE]
  \/ /\ get_default_store = {} /\ \A x \in DOMAIN store : ~store[x].boot
     /\ s \in Stores \ used
     /\ st = WithRow(store, s, [enabled |-> TRUE, default |-> TRUE, boot |-> TRUE])

\* The flags are cleared first: a store that does not exist leaves them so.
set_default_store(s) ==
  [x \in DOMAIN store |-> [store[x] EXCEPT !.default = (x = s)]]

get_store_contents(s) ==
  {a \in DOMAIN account : account[a].store = s}
    \cup {u \in DOMAIN user : user[u].store = s}

\* The row of a store still named in user_allowed_stores cannot be deleted.
delete_store(s) ==
  /\ s \in DOMAIN store /\ get_store_contents(s) = {}
  /\ \A u \in DOMAIN user : <<u, s>> \notin allowed

get_allowed_stores(u, S) ==
  {s \in S \cap DOMAIN store : <<u, s>> \in allowed /\ store[s].enabled}

\* The set S replaces the allowed stores of t, unless his home leaves or he
\* is being migrated.
set_allowed_stores(t, S) ==
  IF t \in DOMAIN user /\ ~user[t].migrating /\ user[t].store \in S
  THEN {p \in allowed : p[1] # t} \cup ({t} \X S)
  ELSE allowed

admin_create_store(w) ==
  /\ Resumes(w, "admin")
  /\ \E s \in Stores \ used :
       /\ store' = WithRow(store, s, [enabled |-> TRUE, default |-> FALSE, boot |-> FALSE])
       /\ used' = used \cup {s}
  /\ UNCHANGED <<user, account, group, rights, home>>

admin_toggle_store(u, s) ==
  /\ get_session_user(u) /\ user[u].admin /\ s \in DOMAIN store
  /\ store' = [store EXCEPT ![s].enabled = ~@]
  /\ UNCHANGED <<user, account, group, rights, home, waiting, used>>

admin_set_default_store(u, s) ==
  /\ get_session_user(u) /\ user[u].admin
  /\ store' = set_default_store(s)
  /\ UNCHANGED <<user, account, group, rights, home, waiting, used>>

admin_delete_store(u, s) ==
  /\ get_session_user(u) /\ user[u].admin /\ delete_store(s)
  /\ store' = Restrict(store, DOMAIN store \ {s})
  /\ UNCHANGED <<user, account, group, rights, home, waiting, used>>

admin_set_allowed_stores(w, t, S) ==
  /\ Resumes(w, "admin") /\ S \subseteq DOMAIN store
  /\ allowed' = set_allowed_stores(t, S)
  /\ UNCHANGED <<user, account, group, store, owners, members, shared, home, used>>

\* The store of one's own home, from /profile.  The check that the user is not
\* being migrated is made before the await and again by update_user.
profile_change_store(w, s) ==
  /\ Resumes(w, "settled") /\ w.by \in DOMAIN user
  /\ s \in get_allowed_stores(w.by, Stores) /\ ~user[w.by].migrating
  /\ user' = [user EXCEPT ![w.by].store = s]
  /\ UNCHANGED <<account, group, store, rights, home, used>>

\* External: a home migration (module StoreMigration) starts, and ends with
\* the user on store s or where he was.
MigrationStarts(t) ==
  /\ t \in DOMAIN user /\ ~user[t].migrating
  /\ user' = [user EXCEPT ![t].migrating = TRUE]
  /\ UNCHANGED <<account, group, store, rights, home, waiting, used>>

MigrationEnds(t, s) ==
  /\ t \in DOMAIN user /\ user[t].migrating /\ s \in DOMAIN store
  /\ user' = [user EXCEPT ![t] = [@ EXCEPT !.migrating = FALSE, !.store = s]]
  /\ UNCHANGED <<account, group, store, rights, home, waiting, used>>

-----------------------------------------------------------------------------
(* People.                                                                 *)

NameFree(n, t) == \A v \in DOMAIN user \ {t} : user[v].name # n
dovecot_home_dir(u) == <<user[u].store, Fold[user[u].name]>>

\* Mutant: the guard compares usernames, which are unique.
RemoveByName(t) == home \ {dovecot_home_dir(t)}

\* The home of a deleted user goes, unless another user on the store folds
\* onto the same directory.
remove_dovecot_home(t) ==
  IF \E v \in DOMAIN user \ {t} : dovecot_home_dir(v) = dovecot_home_dir(t)
  THEN home ELSE home \ {dovecot_home_dir(t)}

\* groups.owner_id has no ON DELETE: the row of a group's owner stays.
CanDelete(t) == \A g \in DOMAIN group : group[g].owner # t

Without(t) ==
  /\ user' = Restrict(user, DOMAIN user \ {t})
  /\ owners' = {p \in owners : p[2] # t}
  /\ members' = {p \in members : p[2] # t}
  /\ allowed' = {p \in allowed : p[1] # t}

\* The home first, and then the row, if the database lets it go.
delete_user(t) ==
  /\ home' = remove_dovecot_home(t)
  /\ IF CanDelete(t) THEN Without(t) ELSE UNCHANGED <<user, owners, members, allowed>>
  /\ UNCHANGED shared

NewUser(n, adm, sso, s) ==
  [name |-> n, admin |-> adm, enabled |-> TRUE, sso |-> sso, store |-> s,
   migrating |-> FALSE]

\* A local user with the welcome mail in his home; reserved names are refused.
create_user(t, n, adm, s) ==
  /\ n \notin Reserved /\ NameFree(n, t)
  /\ user' = WithRow(user, t, NewUser(n, adm, FALSE, s))
  /\ home' = home \cup {<<s, Fold[n]>>}

admin_create_user(w, t, n, adm, s) ==
  /\ Resumes(w, "admin") /\ t \in Users \ used
  /\ \/ s \in DOMAIN store /\ UNCHANGED store
     \/ ensure_default_store(s, store')
  /\ IF n \notin Reserved /\ NameFree(n, t)
     THEN /\ create_user(t, n, adm, s)
          /\ allowed' = allowed \cup {<<t, s>>}
          /\ used' = used \cup {t, s}
     ELSE UNCHANGED <<user, home, allowed>> /\ used' = used \cup {s}
  /\ UNCHANGED <<account, group, owners, members, shared>>

\* A new name, a new role or both; the name is not checked for the prefix.
admin_edit_user(w, t, n, adm) ==
  /\ Resumes(w, "admin") /\ t \in DOMAIN user /\ NameFree(n, t)
  /\ user' = [user EXCEPT ![t] = [@ EXCEPT !.name = n, !.admin = adm]]
  /\ UNCHANGED <<account, group, store, rights, home, used>>

\* Mutant: the role and the self check are made before an await.
ToggleAfterAwait(u, t) ==
  /\ t # u /\ t \in DOMAIN user
  /\ \E w \in waiting : w.by = u /\ w.admin
  /\ user' = [user EXCEPT ![t].enabled = ~@]
  /\ UNCHANGED <<account, group, store, rights, home, waiting, used>>

admin_toggle_user(u, t) ==
  /\ get_session_user(u) /\ user[u].admin /\ t # u /\ t \in DOMAIN user
  /\ user' = [user EXCEPT ![t].enabled = ~@]
  /\ UNCHANGED <<account, group, store, rights, home, waiting, used>>

admin_delete_user(u, t) ==
  /\ get_session_user(u) /\ user[u].admin /\ t # u /\ t \in DOMAIN user
  /\ delete_user(t)
  /\ UNCHANGED <<account, group, store, waiting, used>>

\* Members of the groups the identity provider feeds, by its list G.
sync_sso_groups(t, G) ==
  LET fed == {g \in DOMAIN group : group[g].sso}
  IN (members \ (fed \X {t})) \cup ((fed \cap G) \X {t})

\* A sign-in through the identity provider, whose subject is t: the user is
\* made on the default store, or his role follows the admin group if one is
\* configured; a taken name fails the request after the store was ensured.
oidc_callback(t, n, adm, G) ==
  /\ t \in DOMAIN user => user[t].sso
  /\ adm => AdminGroup
  /\ \/ /\ t \in DOMAIN user
        /\ user' = IF AdminGroup THEN [user EXCEPT ![t].admin = adm] ELSE user
        /\ members' = sync_sso_groups(t, G)
        /\ UNCHANGED <<store, used>>
     \/ \E s \in Stores :
          /\ t \in Users \ used /\ n \notin Reserved
          /\ ensure_default_store(s, store')
          /\ IF NameFree(n, t)
             THEN /\ user' = WithRow(user, t, NewUser(n, adm, TRUE, s))
                  /\ members' = sync_sso_groups(t, G)
                  /\ used' = used \cup {t, s}
             ELSE UNCHANGED <<user, members>> /\ used' = used \cup {s}
  /\ UNCHANGED <<account, group, owners, shared, allowed, home, waiting>>

\* A restore signs in to Dovecot as a user of its own, with a reserved name,
\* on the default store or any, who owns the mailboxes A.
create_temp_imap_user(t, n, A, s) ==
  /\ t \in Users \ used /\ n \in Reserved /\ NameFree(n, t)
  /\ s \in IF get_default_store = {} THEN DOMAIN store ELSE get_default_store
  /\ user' = WithRow(user, t, NewUser(n, FALSE, FALSE, s))
  /\ owners' = owners \cup (A \X {t})
  /\ home' = home \cup {<<s, Fold[n]>>}
  /\ used' = used \cup {t}
  /\ UNCHANGED <<account, group, store, members, shared, allowed, waiting>>

delete_temp_imap_user(t) ==
  /\ t \in DOMAIN user /\ user[t].name \in Reserved /\ delete_user(t)
  /\ UNCHANGED <<account, group, store, waiting, used>>

\* The user table with "admin" in it when no row has the role, enabled or not.
ensure_admin_exists(t, s) ==
  IF \E u \in DOMAIN user : user[u].admin
  THEN user ELSE WithRow(user, t, NewUser(AdminName, TRUE, FALSE, s))

\* Users of table U without an allowed store get the one they live on.
backfill_allowed_stores(U) ==
  allowed \cup {<<u, U[u].store>> : u \in {v \in DOMAIN U :
                  ~U[v].migrating /\ \A x \in Stores : <<v, x>> \notin allowed}}

\* Of the homes H, what is left when the users R with a reserved name, older
\* than an hour, have gone ...
cleanup_temp_imap_users(R, H) ==
  {h \in H : h \in {dovecot_home_dir(u) : u \in R} =>
               h \in {dovecot_home_dir(v) : v \in DOMAIN user \ R}}

\* ... and then the homes with a reserved name that no user has.
sweep_orphaned_restore_homes(R, H) ==
  {h \in H : h[1] \in DOMAIN store /\ h[2] \in {Fold[n] : n \in Reserved} =>
     \E u \in DOMAIN user \ R : user[u].name \in Reserved /\ Fold[user[u].name] = h[2]}

\* The process dies, and the requests that wait are lost.  The boot ensures a
\* default store and an administrator and retires restore users; it fails, and
\* is not a step, when the name "admin" is taken or a row of R cannot go.
lifespan(t, s, R) ==
  /\ waiting' = {}
  /\ ensure_default_store(s, store')
  /\ \/ \E u \in DOMAIN user : user[u].admin
     \/ t \in Users \ used /\ NameFree(AdminName, t)
  /\ R \subseteq {u \in DOMAIN user : user[u].name \in Reserved /\ CanDelete(u)}
  /\ LET U == ensure_admin_exists(t, s)
         H == home \cup {<<s, Fold[AdminName]>> : u \in DOMAIN U \ DOMAIN user}
     IN /\ user' = Restrict(U, DOMAIN U \ R)
        /\ allowed' = {p \in backfill_allowed_stores(U) : p[1] \notin R}
        /\ home' = sweep_orphaned_restore_homes(R, cleanup_temp_imap_users(R, H))
        /\ used' = used \cup DOMAIN U \cup {s}
  /\ owners' = {p \in owners : p[2] \notin R}
  /\ members' = {p \in members : p[2] \notin R}
  /\ UNCHANGED <<account, group, shared>>

-----------------------------------------------------------------------------
(* Mailboxes.                                                              *)

create_account(a, s, oauth, cred) ==
  /\ a \in Accounts \ used /\ s \in DOMAIN store
  /\ account' = WithRow(account, a,
                       [enabled |-> TRUE, suspended |-> FALSE, store |-> s,
                        oauth |-> oauth, cred |-> cred])
  /\ used' = used \cup {a}

assign_owner(a, t) == IF t \in DOMAIN user THEN owners \cup {<<a, t>>} ELSE owners
remove_owner(a, t) == owners \ {<<a, t>>}

\* The wizard: a store override is taken if it is allowed, whether or not it
\* is enabled, and the user's own store otherwise.  A user deleted during the
\* await, whose store the request still knows, leaves a mailbox without owner.
account_form_submit(w, a, s, oauth, cred) ==
  /\ Resumes(w, "signed")
  /\ w.by \in DOMAIN user => <<w.by, s>> \in allowed \/ s = user[w.by].store
  /\ create_account(a, s, oauth, cred)
  /\ owners' = assign_owner(a, w.by)
  /\ UNCHANGED <<user, group, store, members, shared, allowed, home>>

\* POST /api/accounts, in a thread: the row refers to the store checked before
\* the host was tried.
create(w, a, oauth, cred) ==
  /\ Resumes(w, "store")
  /\ create_account(a, w.on, oauth, cred)
  /\ owners' = assign_owner(a, w.by)
  /\ UNCHANGED <<user, group, store, members, shared, allowed, home>>

\* Fields f of a mailbox; the credentials of an OAuth mailbox are not among
\* those a form may set.
update_account(u, adm, a, f) ==
  account' = IF get_account_for_modify(u, adm, a)
             THEN [account EXCEPT ![a] = f] ELSE account

account_edit_submit(w, a) ==
  /\ Resumes(w, "signed") /\ get_account(w.by, w.admin, a)
  /\ update_account(w.by, w.admin, a,
                    [account[a] EXCEPT !.cred = account[a].cred \/ ~account[a].oauth])
  /\ UNCHANGED <<user, group, store, rights, home, used>>

account_toggle_visible(u, a) ==
  /\ get_session_user(u) /\ get_account(u, user[u].admin, a)
  /\ update_account(u, user[u].admin, a, [account[a] EXCEPT !.enabled = ~@])
  /\ UNCHANGED <<user, group, store, rights, home, waiting, used>>

account_toggle_suspend(u, a) ==
  /\ get_session_user(u) /\ get_account(u, user[u].admin, a)
  /\ update_account(u, user[u].admin, a, [account[a] EXCEPT !.suspended = ~@])
  /\ UNCHANGED <<user, group, store, rights, home, waiting, used>>

\* PATCH /api/accounts/{id}: only an administrator sets enabled and suspended.
update(u, a, en, su, cr) ==
  /\ get_current_user(u) /\ get_account_for_modify(u, user[u].admin, a)
  /\ ~user[u].admin => en = account[a].enabled /\ su = account[a].suspended
  /\ update_account(u, user[u].admin, a,
       [account[a] EXCEPT !.enabled = en, !.suspended = su, !.cred = @ \/ cr])
  /\ UNCHANGED <<user, group, store, rights, home, waiting, used>>

delete_account(a) ==
  /\ account' = Restrict(account, DOMAIN account \ {a})
  /\ owners' = {p \in owners : p[1] # a}
  /\ shared' = {p \in shared : p[1] # a}
  /\ UNCHANGED <<members, allowed>>

delete(u, a) ==
  /\ get_current_user(u) /\ get_account_for_modify(u, user[u].admin, a)
  /\ delete_account(a)
  /\ UNCHANGED <<user, group, store, home, waiting, used>>

ChangesOwners(f) ==
  /\ owners' = f
  /\ UNCHANGED <<user, account, group, store, members, shared, allowed, home, used>>

api_assign_owner(u, a, t) ==
  /\ require_admin(u) /\ a \in DOMAIN account /\ UNCHANGED waiting
  /\ ChangesOwners(assign_owner(a, t))

api_remove_owner(u, a, t) ==
  require_admin(u) /\ UNCHANGED waiting /\ ChangesOwners(remove_owner(a, t))

account_add_owner(w, a, t) ==
  /\ Resumes(w, "view") /\ w.on = a /\ w.admin /\ a \in DOMAIN account
  /\ ChangesOwners(assign_owner(a, t))

account_remove_owner(w, a, t) ==
  /\ Resumes(w, "view") /\ w.on = a /\ (w.admin \/ t = w.by)
  /\ ChangesOwners(remove_owner(a, t))

-----------------------------------------------------------------------------
(* Groups.                                                                 *)

create_group(g, t, sso) == WithRow(group, g, [owner |-> t, sso |-> sso])
set_group_accounts(g, A) ==
  {p \in shared : p[2] # g} \cup ((A \cap DOMAIN account) \X {g})

admin_create_group(w, g, t, sso) ==
  /\ Resumes(w, "admin") /\ g \in Groups \ used /\ t \in DOMAIN user
  /\ group' = create_group(g, t, sso) /\ used' = used \cup {g}
  /\ UNCHANGED <<user, account, store, rights, home>>

\* An administrator sets members M, mailboxes A and the feed; an owner adds
\* and takes away mailboxes of his own and leaves the others as they are.
admin_edit_group(w, g, M, A, sso) ==
  /\ Resumes(w, "group") /\ w.on = g /\ g \in DOMAIN group
  /\ LET own == {a \in DOMAIN account : is_account_owner(w.by, a)}
         others == {a \in DOMAIN account : <<a, g>> \in shared} \ own
     IN IF w.admin
        THEN /\ group' = [group EXCEPT ![g].sso = sso]
             /\ members' = {p \in members : p[1] # g}
                             \cup ({g} \X (M \cap DOMAIN user))
             /\ shared' = set_group_accounts(g, A)
        ELSE /\ shared' = set_group_accounts(g, (A \cap own) \cup others)
             /\ UNCHANGED <<group, members>>
  /\ UNCHANGED <<user, account, store, owners, allowed, home, used>>

admin_delete_group_route(u, g) ==
  /\ get_session_user(u) /\ user[u].admin /\ g \in DOMAIN group
  /\ group' = Restrict(group, DOMAIN group \ {g})
  /\ members' = {p \in members : p[1] # g}
  /\ shared' = {p \in shared : p[2] # g}
  /\ UNCHANGED <<user, account, store, owners, allowed, home, waiting, used>>

-----------------------------------------------------------------------------

AdminsLeft(U) == \E u \in DOMAIN U : U[u].admin /\ U[u].enabled

\* Enabled administrators run out only by a change of role, in the edit form or
\* at a sign-in, or when the boot retires one who was renamed to a reserved
\* name: never by a toggle or a deletion, whose requester is an enabled
\* administrator at that moment and not its object (admin_toggle_user,
\* admin_delete_user).
LastAdminLeavesByRole ==
  [][AdminsLeft(user) /\ ~AdminsLeft(user') =>
       \E u \in DOMAIN user :
         /\ user[u].admin
         /\ IF u \in DOMAIN user' THEN ~user'[u].admin ELSE user[u].name \in Reserved]_evars

\* Who has no reserved name, but one that folds onto a reserved directory.
FoldsOntoReserved(v) ==
  user[v].name \notin Reserved /\ Fold[user[v].name] \in {Fold[n] : n \in Reserved}

\* No step takes the Dovecot home of a user who stays, except a deletion of
\* that user himself which the database then refuses (remove_dovecot_home), and
\* a boot, whose sweep of restore homes looks at directories and not at names,
\* and takes that of a "+restore_x" (sweep_orphaned_restore_homes).
BystandersKeepTheirHome ==
  [][\A v \in DOMAIN user \cap DOMAIN user' :
       \/ dovecot_home_dir(v) \in home => dovecot_home_dir(v) \in home'
       \/ delete_temp_imap_user(v) \/ \E u \in Users : admin_delete_user(u, v)
       \/ /\ FoldsOntoReserved(v)
          /\ \E t \in Users, s \in Stores, R \in SUBSET Users : lifespan(t, s, R)]_evars
=============================================================================
