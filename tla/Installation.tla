---------------------------- MODULE Installation ----------------------------
(***************************************************************************)
(* A whole installation: every request of Estate, Connect and Surfaces     *)
(* against the same tables, from the empty database on.  A boot loses the  *)
(* requests of browsers and of worker threads with the process; cookies,   *)
(* which the browsers hold, and the tables stay.                           *)
(***************************************************************************)
EXTENDS Connect, Surfaces

vars == <<evars, cvars, svars>>

\* The tables as the schema migrations leave them, before the first boot.
Init ==
  /\ user = << >> /\ account = << >> /\ group = << >> /\ store = << >>
  /\ owners = {} /\ members = {} /\ shared = {} /\ allowed = {}
  /\ home = {} /\ waiting = {} /\ used = {}
  /\ ConnectInit /\ SurfacesInit

FormRequest ==
  \/ \E u \in Users, gate \in Gates, on \in Groups \cup Accounts \cup Stores \cup {None} :
       Opens(u, gate, on)
  \/ \E w \in waiting : Refused(w)

StoreRequest ==
  \/ \E w \in waiting :
       \/ admin_create_store(w)
       \/ \E t \in Users, S \in SUBSET Stores : admin_set_allowed_stores(w, t, S)
       \/ \E s \in Stores : profile_change_store(w, s)
  \/ \E u \in Users, s \in Stores :
       \/ admin_toggle_store(u, s) \/ admin_set_default_store(u, s)
       \/ admin_delete_store(u, s) \/ MigrationEnds(u, s)
  \/ \E u \in Users : MigrationStarts(u)

PeopleRequest ==
  \/ \E w \in waiting, t \in Users, n \in Names, f \in BOOLEAN :
       \/ admin_edit_user(w, t, n, f)
       \/ \E s \in Stores : admin_create_user(w, t, n, f, s)
  \/ \E u \in Users, t \in Users : admin_toggle_user(u, t) \/ admin_delete_user(u, t)
  \/ \E t \in Users, n \in Names, f \in BOOLEAN, G \in SUBSET Groups :
       oidc_callback(t, n, f, G)
  \/ \E t \in Users, n \in Names, A \in SUBSET DOMAIN account, s \in Stores :
       create_temp_imap_user(t, n, A, s)
  \/ \E t \in Users : delete_temp_imap_user(t)

MailboxRequest ==
  \/ \E w \in waiting, a \in Accounts :
       \/ account_edit_submit(w, a)
       \/ \E f \in BOOLEAN, g \in BOOLEAN :
            \/ create(w, a, f, g)
            \/ \E s \in Stores : account_form_submit(w, a, s, f, g)
       \/ \E t \in Users : account_add_owner(w, a, t) \/ account_remove_owner(w, a, t)
  \/ \E u \in Users, a \in Accounts :
       \/ account_toggle_visible(u, a) \/ account_toggle_suspend(u, a) \/ delete(u, a)
       \/ \E f \in BOOLEAN, g \in BOOLEAN, h \in BOOLEAN : update(u, a, f, g, h)
       \/ \E t \in Users : api_assign_owner(u, a, t) \/ api_remove_owner(u, a, t)

GroupRequest ==
  \/ \E w \in waiting, g \in Groups, f \in BOOLEAN :
       \/ \E t \in Users : admin_create_group(w, g, t, f)
       \/ \E M \in SUBSET Users, A \in SUBSET Accounts : admin_edit_group(w, g, M, A, f)
  \/ \E u \in Users, g \in Groups : admin_delete_group_route(u, g)

Boot ==
  /\ \E t \in Users, s \in Stores, R \in SUBSET Users : lifespan(t, s, R)
  /\ flight' = {} /\ calls' = {}
  /\ UNCHANGED <<cookie, minted, granted, token, foreign, audit>>

BrowserRequest ==
  \/ \E b \in Browsers :
       \/ \E u \in Users : login(b, u)
       \/ logout(b) \/ Page(b)
       \/ \E a \in Accounts : oauth_start(b, a)
       \/ \E n \in Nonces \cup {None}, e \in BOOLEAN : oauth_callback(b, n, e)
  \/ \E f \in flight : ExchangeSucceeds(f) \/ ExchangeFails(f) \/ PageAnswers(f)

TokenRequest ==
  \/ \E w \in waiting, t \in Tokens, S \in SUBSET Scopes : create_access_token(w, t, S)
  \/ \E u \in Users, t \in Tokens : revoke_access_token(u, t)
  \/ \E t \in Tokens : Expires(t) \/ verify_token(t)

ContentRequest ==
  \/ \E t \in Tokens, A \in SUBSET Accounts :
       agent_search(t, A) \/ agent_search_attachments(t, A)
  \/ \E t \in Tokens, a \in Accounts :
       agent_get_message(t, a) \/ agent_download_attachment(t, a)
  \/ \E c \in calls :
       \/ McpRefused(c)
       \/ \E A \in SUBSET Accounts : \/ mcp_search_mail(c, A) \/ SearchRuns(c, A)
                                     \/ mcp_search_attachments(c, A)
       \/ \E a \in Accounts : \/ mcp_get_message(c, a) \/ mcp_download_attachment(c, a)
                              \/ mcp_get_attachment_text(c, a)
  \/ \E u \in Users, all \in BOOLEAN :
       \/ api_restore_search(u, all) \/ api_attachments_search(u, all)
       \/ \E a \in Accounts : \/ api_restore_preview(u, a, all)
                              \/ api_attachment_download(u, a, all)

EstateRequest ==
  \/ FormRequest \/ StoreRequest \/ PeopleRequest \/ MailboxRequest \/ GroupRequest

Next ==
  \/ EstateRequest /\ UNCHANGED <<cvars, svars>>
  \/ Boot
  \/ BrowserRequest /\ UNCHANGED svars
  \/ (TokenRequest \/ ContentRequest) /\ UNCHANGED cvars

Spec == Init /\ [][Next]_vars
=============================================================================
