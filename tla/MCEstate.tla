------------------------------ MODULE MCEstate ------------------------------
(***************************************************************************)
(* Five installations, each with the part of the requests that bears on    *)
(* one question: who administers and whose home goes ("people"), where     *)
(* things live ("stores"), what the role of a request may read ("reads"),  *)
(* what a token may ("tokens"), and connecting a mailbox ("oauth").        *)
(***************************************************************************)
EXTENDS Installation, TLC

CONSTANTS Scenes, u1, u2, u3, a1, a2, g1, s1, s2, adm, n1, n2, x1, r1, b1, k1, k2, t1

\* Two usernames fold to one directory, and one onto that of a restore user.
Folding == (adm :> "admin") @@ (n1 :> "n") @@ (n2 :> "n")
             @@ (x1 :> "_restore_r") @@ (r1 :> "_restore_r")

VARIABLE scene

People(f) ==
  /\ user = (u1 :> NewUser(adm, TRUE, FALSE, s1)) @@ (u2 :> NewUser(n1, f, FALSE, s1))
  /\ home = {<<s1, "admin">>, <<s1, "n">>}
  /\ allowed = {<<u1, s1>>, <<u2, s1>>}
Mailbox(cred) ==
  [enabled |-> TRUE, suspended |-> FALSE, store |-> s1, oauth |-> TRUE, cred |-> cred]

MCInit ==
  /\ scene \in Scenes
  /\ People(scene = "people")
  /\ store = s1 :> [enabled |-> TRUE, default |-> TRUE, boot |-> TRUE]
  /\ account = IF scene \in {"people", "stores"} THEN << >>
               ELSE IF scene = "oauth" THEN (a1 :> Mailbox(TRUE)) @@ (a2 :> Mailbox(FALSE))
               ELSE a1 :> Mailbox(TRUE)
  /\ owners = (DOMAIN account) \X {u2}
  /\ group = IF scene \in {"reads", "tokens"} THEN g1 :> [owner |-> u2, sso |-> FALSE]
             ELSE << >>
  /\ members = {} /\ shared = {} /\ waiting = {}
  /\ used = {u1, u2, s1} \cup DOMAIN account \cup DOMAIN group
  /\ ConnectInit /\ SurfacesInit

PeopleStep ==
  \/ \E u \in Users, t \in Users : admin_toggle_user(u, t) \/ admin_delete_user(u, t)
  \/ \E u \in Users : Opens(u, "admin", None)
  \/ \E w \in waiting :
       \/ Refused(w)
       \/ \E t \in Users, f \in BOOLEAN :
            \/ \E n \in Names : admin_create_user(w, t, n, f, s1)
            \/ \E n \in IF t = u1 THEN {adm} ELSE {n1, n2, x1, r1} : admin_edit_user(w, t, n, f)
       \/ \E t \in {u1, u2} : admin_create_group(w, g1, t, TRUE)
  \/ \E u \in Users : admin_delete_group_route(u, g1)
  \/ \E t \in Users, n \in Names, f \in BOOLEAN, G \in SUBSET {g1} :
       oidc_callback(t, n, f, G)
  \/ create_temp_imap_user(u3, r1, {}, s1)
  \/ \E t \in Users : delete_temp_imap_user(t)
  \/ \E t \in Users, R \in SUBSET DOMAIN user : lifespan(t, s1, R)

StoresStep ==
  \/ \E s \in Stores : \/ admin_toggle_store(u1, s) \/ admin_set_default_store(u1, s)
                       \/ admin_delete_store(u1, s)
  \/ Opens(u1, "admin", None) \/ Opens(u2, "signed", None) \/ Opens(u2, "settled", None)
  \/ \E s \in Stores : Opens(u2, "store", s)
  \/ \E w \in waiting :
       \/ Refused(w) \/ admin_create_store(w)
       \/ \E S \in SUBSET DOMAIN store : admin_set_allowed_stores(w, u2, S)
       \/ \E s \in Stores : \/ profile_change_store(w, s)
                            \/ account_form_submit(w, a1, s, FALSE, TRUE)
       \/ create(w, a1, FALSE, TRUE)
  \/ MigrationStarts(u2) \/ \E s \in Stores : MigrationEnds(u2, s)
  \/ \E a \in Accounts : \/ account_toggle_visible(u2, a) \/ account_toggle_suspend(u1, a)
                         \/ delete(u2, a)
  \/ \E t \in Users, s \in Stores : lifespan(t, s, {})

\* Who owns, belongs and shares.
RightsStep ==
  \/ \E u, t \in DOMAIN user : api_assign_owner(u, a1, t) \/ api_remove_owner(u, a1, t)
  \/ \E u \in DOMAIN user : Opens(u, "group", g1)
  \/ \E w \in waiting :
       \/ Refused(w)
       \/ \E M \in SUBSET DOMAIN user, A \in SUBSET {a1} :
            admin_edit_group(w, g1, M, A, FALSE)
  \/ admin_toggle_user(u1, u2)

ReadsStep ==
  /\ \/ RightsStep /\ UNCHANGED svars
     \/ Opens(u1, "admin", None) /\ UNCHANGED svars
     \/ /\ UNCHANGED svars
        /\ \E w \in waiting, f \in BOOLEAN : admin_edit_user(w, u2, n1, f)
     \/ \E u \in DOMAIN user, f \in BOOLEAN :
          \/ api_restore_search(u, f) \/ api_attachments_search(u, f)
          \/ api_restore_preview(u, a1, f) \/ api_attachment_download(u, a1, f)
     \/ \E c \in calls : SearchRuns(c, {a1})

TokensStep ==
  \/ /\ UNCHANGED svars
     /\ \/ RightsStep \/ Opens(u2, "signed", None)
        \/ \E u \in DOMAIN user : Opens(u, "view", a1)
        \/ \E w \in waiting, t \in DOMAIN user :
             account_add_owner(w, a1, t) \/ account_remove_owner(w, a1, t)
        \/ MigrationStarts(u2) \/ MigrationEnds(u2, s1)
        \/ \E f, g, h \in BOOLEAN : update(u1, a1, f, g, h)
  \/ \E w \in waiting, t \in Tokens, S \in {{"imap"}, {"mail:read", "sync:trigger"}} :
       create_access_token(w, t, S)
  \/ \E t \in Tokens :
       \/ revoke_access_token(u2, t) \/ Expires(t) \/ verify_token(t)
       \/ agent_search(t, {a1}) \/ agent_search_attachments(t, {a1})
       \/ agent_get_message(t, a1) \/ agent_download_attachment(t, a1)
  \/ \E c \in calls :
       \/ McpRefused(c) \/ mcp_search_mail(c, {a1}) \/ mcp_search_attachments(c, {a1})
       \/ mcp_get_message(c, a1) \/ mcp_download_attachment(c, a1)
       \/ mcp_get_attachment_text(c, a1)

OauthStep ==
  \/ \E b \in Browsers :
       \/ \E u \in {u1, u2} : login(b, u)
       \/ logout(b) \/ Page(b)
       \/ \E a \in Accounts : oauth_start(b, a)
       \/ \E n \in Nonces \cup {None}, e \in BOOLEAN : oauth_callback(b, n, e)
  \/ \E f \in flight : ExchangeSucceeds(f) \/ ExchangeFails(f) \/ PageAnswers(f)
  \/ /\ UNCHANGED cvars
     /\ \/ admin_toggle_user(u1, u2) \/ Opens(u2, "signed", None)
        \/ \E w \in waiting, a \in Accounts : Refused(w) \/ account_edit_submit(w, a)
        \/ \E a \in Accounts : delete(u2, a)

MCNext ==
  /\ UNCHANGED scene
  /\ \/ scene = "people" /\ PeopleStep /\ UNCHANGED <<cvars, svars>>
     \/ scene = "stores" /\ StoresStep /\ UNCHANGED <<cvars, svars>>
     \/ scene = "reads" /\ ReadsStep /\ UNCHANGED cvars
     \/ scene = "tokens" /\ TokensStep /\ UNCHANGED cvars
     \/ scene = "oauth" /\ OauthStep /\ UNCHANGED svars

MCSpec == MCInit /\ [][MCNext]_<<evars, cvars, svars, scene>>
=============================================================================
