------------------------------ MODULE Surfaces ------------------------------
(***************************************************************************)
(* What the tables of Estate let a person see, and through which door: the *)
(* pages and the API with a session, the restore workspace, the agent API  *)
(* and the MCP tools with an access token, and IMAP with a token or the    *)
(* password.  Each door asks the tables in its own way.                    *)
(*                                                                         *)
(* An operator with a set for its value says which mailboxes a handler     *)
(* answers about; a handler that serves the content of mail is an action,  *)
(* for what it read is remembered in `foreign` when the mailbox was        *)
(* outside the reader's own reach, and what it logged in `audit`.  A       *)
(* request in a worker thread that stands between two looks at the tables  *)
(* is a record of `calls`.                                                 *)
(***************************************************************************)
EXTENDS Estate

CONSTANTS
  Tokens,   \* bound: access tokens ever made
  MaxCalls  \* bound: calls between two looks at a time

VARIABLES token, calls, foreign, audit

svars == <<token, calls, foreign, audit>>

Scopes == {"imap", "mail:read", "sync:trigger"}
Token == [owner : Users, scopes : (SUBSET Scopes) \ {{}}, active : BOOLEAN]
Call == [by : Users, kind : {"mcp", "search", "attachments"}, scopes : SUBSET Scopes,
         admin : BOOLEAN, all : BOOLEAN]

SurfacesTypeOK ==
  /\ IsTable(token, Tokens, Token) /\ calls \subseteq Call
  /\ foreign \subseteq Users \X Accounts
  /\ audit \subseteq Users \X (Accounts \cup {None})

SurfacesInit ==
  token = << >> /\ calls = {} /\ foreign = {} /\ audit = {}

-----------------------------------------------------------------------------
(* The mailboxes of a person, as each door asks for them.                  *)

owned_account_ids(u) == {p[1] : p \in {q \in owners : q[2] = u}}

get_own_accounts(u) ==
  LET mine == {p[1] : p \in {q \in members : q[2] = u}}
  IN owned_account_ids(u) \cup {p[1] : p \in {q \in shared : q[2] \in mine}}

get_accounts_for_user(u) ==
  IF user[u].admin THEN DOMAIN account ELSE get_own_accounts(u)

can_modify_account(u, a) == user[u].admin \/ a \in owned_account_ids(u)

\* Owner or member of a group, whatever the role.
accessible_account_ids(u) ==
  {a \in DOMAIN account :
     \/ <<a, u>> \in owners
     \/ \E p \in shared, q \in members : p[1] = a /\ p[2] = q[1] /\ q[2] = u}

\* The workspace: the role counts only when the request asks for it.
workspace_account_for_user(u, a, all) ==
  /\ a \in DOMAIN account
  /\ a \in accessible_account_ids(u) \/ (all /\ user[u].admin)

Escalated(u, a) == a \notin accessible_account_ids(u)

\* The mailboxes Dovecot mounts for u at a log-in.
userdb_lookup(u) ==
  IF u \in DOMAIN user /\ user[u].enabled /\ ~user[u].migrating
  THEN {a \in accessible_account_ids(u) : /\ account[a].enabled /\ ~account[a].suspended
                                          /\ store[account[a].store].enabled}
  ELSE {}

-----------------------------------------------------------------------------
(* Access tokens.                                                          *)

create_credential(u, t, S) ==
  WithRow(token, t, [owner |-> u, scopes |-> S, active |-> TRUE])

create_access_token(w, t, S) ==
  /\ Resumes(w, "signed") /\ w.by \in DOMAIN user
  /\ t \in Tokens \ DOMAIN token /\ S \in (SUBSET Scopes) \ {{}}
  /\ token' = create_credential(w.by, t, S)
  /\ UNCHANGED <<user, account, group, store, rights, home, used, calls, foreign, audit>>

revoke_credential(u, t) ==
  IF t \in DOMAIN token /\ token[t].owner = u
  THEN [token EXCEPT ![t].active = FALSE] ELSE token

revoke_access_token(u, t) ==
  /\ get_session_user(u) /\ token' = revoke_credential(u, t)
  /\ UNCHANGED <<evars, calls, foreign, audit>>

\* The days of a token run out.
Expires(t) ==
  /\ t \in DOMAIN token /\ token' = [token EXCEPT ![t].active = FALSE]
  /\ UNCHANGED <<evars, calls, foreign, audit>>

\* Mutant: a user being migrated still passes.
VerifyEnabled(n, t, scope) ==
  IF \/ t \notin DOMAIN token
     \/ token[t].owner \notin DOMAIN user
     \/ n # None /\ user[token[t].owner].name # n
  THEN "unknown"
  ELSE IF \/ ~user[token[t].owner].enabled \/ ~token[t].active
          \/ scope # {} /\ ~(scope \subseteq token[t].scopes)
  THEN "rejected"
  ELSE "ok"

\* The ladder, with the name the caller gives (None: the token is the
\* identity) and the scopes he needs, one or none.
verify_credential(n, t, scope) ==
  IF \/ t \notin DOMAIN token
     \/ token[t].owner \notin DOMAIN user
     \/ n # None /\ user[token[t].owner].name # n
  THEN "unknown"
  ELSE IF \/ ~user[token[t].owner].enabled \/ user[token[t].owner].migrating
          \/ ~token[t].active
          \/ scope # {} /\ ~(scope \subseteq token[t].scopes)
  THEN "rejected"
  ELSE "ok"

\* The status is the protocol: anything unforeseen is 404.
passdb_verify(n, t) ==
  CASE verify_credential(n, t, {"imap"}) = "ok" -> "200"
    [] verify_credential(n, t, {"imap"}) = "rejected" -> "401"
    [] OTHER -> "404"

dovecot_lua_passdb(n, t) ==
  CASE passdb_verify(n, t) = "200" -> "ok"
    [] passdb_verify(n, t) = "401" -> "mismatch"
    [] OTHER -> "next"

\* Whether the string of token t lets name n in over IMAP: the SQL passdb,
\* which comes next, compares it with the password, which no token is.
dovecot_auth_token(n, t) == dovecot_lua_passdb(n, t) = "ok"

\* Whether the right password does.
dovecot_auth_password(n) ==
  \E u \in DOMAIN user : user[u].name = n /\ user[u].enabled /\ ~user[u].migrating

-----------------------------------------------------------------------------
(* The agent API: a bearer token, or a session with every scope.           *)

get_current_principal(t) == verify_credential(None, t, {}) = "ok"

require_scope(t, scope) == get_current_principal(t) /\ scope \in token[t].scopes

agent_account(t, a) ==
  a \in DOMAIN account /\ a \in accessible_account_ids(token[t].owner)

agent_list_mailboxes(t) ==
  IF require_scope(t, "mail:read") THEN accessible_account_ids(token[t].owner) ELSE {}

agent_imap_coords(t) ==
  IF require_scope(t, "mail:read") THEN {a \in Accounts : agent_account(t, a)} ELSE {}

agent_sync_job_status(t) ==
  IF require_scope(t, "sync:trigger") THEN {a \in Accounts : agent_account(t, a)} ELSE {}

\* Content of the mailboxes A reaches reader u; rows R go to the audit log.
Serves(u, A, R) ==
  /\ foreign' = foreign \cup ({u} \X (A \ accessible_account_ids(u)))
  /\ audit' = audit \cup R

\* search_messages and search_attachments: within what is visible, the
\* mailboxes that were asked for.
search_messages(u, adm, all, A) ==
  A \cap IF all /\ adm THEN DOMAIN account ELSE accessible_account_ids(u)

search_attachments(u, adm, all, A) ==
  A \cap IF all /\ adm THEN DOMAIN account ELSE accessible_account_ids(u)

agent_search(t, A) ==
  /\ require_scope(t, "mail:read")
  /\ Serves(token[t].owner, search_messages(token[t].owner, FALSE, FALSE, A), {})
  /\ UNCHANGED <<evars, token, calls>>

agent_search_attachments(t, A) ==
  /\ require_scope(t, "mail:read")
  /\ Serves(token[t].owner, search_attachments(token[t].owner, FALSE, FALSE, A), {})
  /\ UNCHANGED <<evars, token, calls>>

agent_get_message(t, a) ==
  /\ require_scope(t, "mail:read") /\ agent_account(t, a)
  /\ Serves(token[t].owner, {a}, {})
  /\ UNCHANGED <<evars, token, calls>>

agent_download_attachment(t, a) ==
  /\ require_scope(t, "mail:read") /\ agent_account(t, a)
  /\ Serves(token[t].owner, {a}, {<<token[t].owner, a>>})
  /\ UNCHANGED <<evars, token, calls>>

-----------------------------------------------------------------------------
(* MCP: the token is verified when the call comes, and the tool runs later *)
(* in a thread, with the scopes and the user it was verified with.         *)

verify_token(t) ==
  /\ verify_credential(None, t, {}) = "ok" /\ Cardinality(calls) < MaxCalls
  /\ calls' = calls \cup {[by |-> token[t].owner, kind |-> "mcp",
                           scopes |-> token[t].scopes, admin |-> FALSE, all |-> FALSE]}
  /\ UNCHANGED <<evars, token, foreign, audit>>

\* The tool's caller; a tool that is refused ends its call (McpRefused).
mcp_caller(c, scope) ==
  /\ c \in calls /\ c.kind = "mcp" /\ scope \in c.scopes /\ c.by \in DOMAIN user

McpRefused(c) ==
  /\ c \in calls /\ c.kind = "mcp" /\ calls' = calls \ {c}
  /\ UNCHANGED <<evars, token, foreign, audit>>

mcp_account(c, a) == a \in DOMAIN account /\ a \in accessible_account_ids(c.by)

mcp_list_mailboxes(c) ==
  IF mcp_caller(c, "mail:read") THEN accessible_account_ids(c.by) ELSE {}

mcp_imap_coords(c) ==
  IF mcp_caller(c, "mail:read") THEN {a \in Accounts : mcp_account(c, a)} ELSE {}

mcp_sync_status(c) ==
  IF mcp_caller(c, "sync:trigger") THEN {a \in Accounts : mcp_account(c, a)} ELSE {}

McpAnswers(c) == calls' = calls \ {c} /\ UNCHANGED <<evars, token>>

mcp_search_mail(c, A) ==
  /\ mcp_caller(c, "mail:read") /\ McpAnswers(c)
  /\ Serves(c.by, search_messages(c.by, FALSE, FALSE, A), {})

mcp_search_attachments(c, A) ==
  /\ mcp_caller(c, "mail:read") /\ McpAnswers(c)
  /\ Serves(c.by, search_attachments(c.by, FALSE, FALSE, A), {})

mcp_get_message(c, a) ==
  /\ mcp_caller(c, "mail:read") /\ mcp_account(c, a) /\ McpAnswers(c)
  /\ Serves(c.by, {a}, {})

mcp_download_attachment(c, a) ==
  /\ mcp_caller(c, "mail:read") /\ mcp_account(c, a) /\ McpAnswers(c)
  /\ Serves(c.by, {a}, {<<c.by, a>>})

\* Text comes from the index or the part, and leaves no row.
mcp_get_attachment_text(c, a) ==
  /\ mcp_caller(c, "mail:read") /\ mcp_account(c, a) /\ McpAnswers(c)
  /\ Serves(c.by, {a}, {})

-----------------------------------------------------------------------------
(* The restore workspace, with a session.                                  *)

Searches(u, kind, all) ==
  /\ get_current_user(u) /\ Cardinality(calls) < MaxCalls
  /\ audit' = audit \cup IF all /\ user[u].admin THEN {<<u, None>>} ELSE {}
  /\ calls' = calls \cup {[by |-> u, kind |-> kind, scopes |-> {},
                           admin |-> user[u].admin, all |-> all]}
  /\ UNCHANGED <<evars, token, foreign>>

\* The escalation is logged before the search starts.
api_restore_search(u, all) == Searches(u, "search", all)
api_attachments_search(u, all) == Searches(u, "attachments", all)

\* Mutant: the search asks for the role itself.
RoleReadAgain(c) == c.by \in DOMAIN user /\ user[c.by].admin

\* The commit of the audit row makes the search read the user again;
\* without one it goes on with the role of the request.
RoleNow(c) ==
  IF c.all /\ c.admin THEN c.by \in DOMAIN user /\ user[c.by].admin ELSE c.admin

SearchRuns(c, A) ==
  /\ c \in calls /\ c.kind # "mcp" /\ calls' = calls \ {c}
  /\ Serves(c.by, IF c.kind = "search"
                  THEN search_messages(c.by, RoleNow(c), c.all, A)
                  ELSE search_attachments(c.by, RoleNow(c), c.all, A), {})
  /\ UNCHANGED <<evars, token>>

api_restore_preview(u, a, all) ==
  /\ get_current_user(u) /\ workspace_account_for_user(u, a, all)
  /\ Serves(u, {a}, IF Escalated(u, a) THEN {<<u, a>>} ELSE {})
  /\ UNCHANGED <<evars, token, calls>>

api_attachment_download(u, a, all) ==
  /\ get_current_user(u) /\ workspace_account_for_user(u, a, all)
  /\ Serves(u, {a}, {<<u, a>>})
  /\ UNCHANGED <<evars, token, calls>>

\* Folders and UIDs, and the days and number of snapshots: no content.
api_resolve_uids(u, all) ==
  {a \in Accounts : get_current_user(u) /\ workspace_account_for_user(u, a, all)}

workspace_snapshot_dates(u, all) ==
  {a \in Accounts : get_current_user(u) /\ workspace_account_for_user(u, a, all)}

workspace_snapshot_count(u) ==
  {a \in Accounts : get_current_user(u) /\ get_account(u, user[u].admin, a)}

-----------------------------------------------------------------------------

\* The doors agree, whatever the order of toggles, sharing and sign-ins: for a
\* person who is let in, the list and the page of a mailbox, the two forms of
\* "mine", the buttons and the changes they ask for, and the workspace with
\* and without escalation show the same mailboxes; no token, and no IMAP
\* log-in, reaches past what its owner reaches without his role; and who is
\* disabled or being migrated has no IMAP and no agent.
SurfacesAgree ==
  /\ \A u \in DOMAIN user :
       /\ {a \in Accounts : get_account(u, user[u].admin, a)} = get_accounts_for_user(u)
       /\ get_own_accounts(u) = accessible_account_ids(u)
       /\ {a \in Accounts : get_account_for_modify(u, user[u].admin, a)}
            = {a \in get_accounts_for_user(u) : can_modify_account(u, a)}
       /\ get_current_user(u) =>
            /\ api_resolve_uids(u, FALSE) = get_own_accounts(u)
            /\ workspace_snapshot_dates(u, TRUE) = get_accounts_for_user(u)
            /\ workspace_snapshot_count(u) = get_accounts_for_user(u)
       /\ userdb_lookup(u) # {} => dovecot_auth_password(user[u].name)
       /\ userdb_lookup(u) \subseteq get_own_accounts(u)
  /\ \A t \in DOMAIN token :
       LET u == token[t].owner
           seen == agent_list_mailboxes(t) \cup agent_imap_coords(t)
                     \cup agent_sync_job_status(t)
       IN /\ seen # {} => u \in DOMAIN user /\ seen = get_own_accounts(u)
          /\ (u \in DOMAIN user /\ (~user[u].enabled \/ user[u].migrating)) =>
               seen = {} /\ \A n \in Names : ~dovecot_auth_token(n, t)
          /\ \A n \in Names : dovecot_auth_token(n, t) => n = user[u].name
  /\ \A c \in calls : c.by \in DOMAIN user =>
       mcp_list_mailboxes(c) \cup mcp_imap_coords(c) \cup mcp_sync_status(c)
         \subseteq get_own_accounts(c.by)

\* Mail that a search, a preview or a download served from outside the reader's
\* own reach has a row in the audit log, though the role may change while the
\* request runs (api_restore_search, api_restore_preview,
\* api_attachment_download; their comments promise "audited escalation").
ForeignContentIsAudited ==
  \A p \in foreign : p \in audit \/ <<p[1], None>> \in audit
=============================================================================
