------------------------------ MODULE Connect -------------------------------
(***************************************************************************)
(* Sessions, and connecting a mailbox to its provider by OAuth.  A session *)
(* is a signed cookie that the browser holds: a request works on the copy  *)
(* it came with, and its response replaces the browser's cookie as a       *)
(* whole, so a slow response brings an old cookie back.                    *)
(*                                                                         *)
(* Starting a connection puts the mailbox and a fresh nonce in the cookie. *)
(* The provider sends the browser back with the nonce as `state`; so may   *)
(* the user, with the back button, a reload or a second tab, and anyone    *)
(* with a link.  `minted` and `granted` are for the properties: the        *)
(* mailbox a nonce was made for, and the nonce under which a mailbox last  *)
(* got its credentials.  The Google and Microsoft routes are the same.     *)
(***************************************************************************)
EXTENDS Estate

CONSTANTS
  Browsers,
  Nonces,     \* bound: connections ever started
  MaxFlights  \* bound: requests of browsers under way at a time

ASSUME ConnectAssumption == None \notin Nonces /\ MaxFlights \in Nat

VARIABLES cookie, flight, minted, granted

cvars == <<cookie, flight, minted, granted>>

Cookie == [user : Users \cup {None}, acct : Accounts \cup {None},
           nonce : Nonces \cup {None}]
Flight == [b : Browsers, c : Cookie, state : Nonces \cup {None}]

ConnectTypeOK ==
  /\ cookie \in [Browsers -> Cookie] /\ flight \subseteq Flight
  /\ minted \in [Nonces -> Accounts \cup {None}]
  /\ granted \in [Accounts -> Nonces \cup {None}]

ConnectInit ==
  /\ cookie = [b \in Browsers |-> [user |-> None, acct |-> None, nonce |-> None]]
  /\ flight = {}
  /\ minted = [n \in Nonces |-> None] /\ granted = [a \in Accounts |-> None]

Popped(c) == [c EXCEPT !.acct = None, !.nonce = None]
Answers(b, c) == cookie' = [cookie EXCEPT ![b] = c]

\* A local user, enabled, with his password; users of the identity provider
\* have none.
authenticate_user(u) == u \in DOMAIN user /\ user[u].enabled /\ ~user[u].sso

login(b, u) ==
  /\ authenticate_user(u) /\ Answers(b, [cookie[b] EXCEPT !.user = u])
  /\ UNCHANGED <<evars, flight, minted, granted>>

logout(b) ==
  /\ Answers(b, [user |-> None, acct |-> None, nonce |-> None])
  /\ UNCHANGED <<evars, flight, minted, granted>>

verify_oauth_access(c, a) ==
  /\ c.user \in DOMAIN user /\ user[c.user].enabled
  /\ a \in DOMAIN account
  /\ user[c.user].admin \/ is_account_owner(c.user, a)

oauth_start(b, a) ==
  /\ verify_oauth_access(cookie[b], a)
  /\ \E n \in Nonces :
       /\ minted[n] = None
       /\ minted' = [minted EXCEPT ![n] = a]
       /\ Answers(b, [cookie[b] EXCEPT !.acct = a, !.nonce = n])
  /\ UNCHANGED <<evars, flight, granted>>

\* Mutant: any mailbox of the session goes when its connection fails.
FailureDeletes(c) ==
  IF /\ c.acct \in DOMAIN account /\ c.user \in DOMAIN user
     /\ user[c.user].admin \/ is_account_owner(c.user, c.acct)
  THEN delete_account(c.acct)
  ELSE UNCHANGED <<account, rights>>

\* A failed connection takes a mailbox without credentials away, if the
\* session's user, enabled or not, may.
oauth_failure_redirect(c) ==
  IF /\ c.acct \in DOMAIN account /\ ~account[c.acct].cred
     /\ c.user \in DOMAIN user
     /\ user[c.user].admin \/ is_account_owner(c.user, c.acct)
  THEN delete_account(c.acct)
  ELSE UNCHANGED <<account, rights>>

\* Mutant: any state does, as long as the session expects one.
StateGiven(c, n) == n # None /\ c.nonce # None

StateMatches(c, n) == n # None /\ n = c.nonce

\* The callback before the exchange: a wrong state touches nothing, an error
\* fails the connection, a code is exchanged.
oauth_callback(b, n, error) ==
  LET c == cookie[b]
  IN /\ IF ~StateMatches(c, n)
        THEN Answers(b, Popped(c)) /\ UNCHANGED <<account, rights, flight>>
        ELSE IF error
        THEN Answers(b, Popped(c)) /\ oauth_failure_redirect(c) /\ UNCHANGED flight
        ELSE /\ Cardinality(flight) < MaxFlights
             /\ flight' = flight \cup {[b |-> b, c |-> c, state |-> n]}
             /\ UNCHANGED <<account, rights, cookie>>
     /\ UNCHANGED <<user, group, store, home, waiting, used, minted, granted>>

\* The provider answers the exchange: the session that asked is checked again.
\* (_resume_after_reauth, which may start a sync, is module SyncEngine's.)
ExchangeSucceeds(f) ==
  /\ f \in flight /\ f.state # None
  /\ flight' = flight \ {f} /\ Answers(f.b, Popped(f.c))
  /\ IF verify_oauth_access(f.c, f.c.acct)
     THEN /\ account' = [account EXCEPT ![f.c.acct] =
                                       [@ EXCEPT !.cred = TRUE, !.oauth = TRUE]]
          /\ granted' = [granted EXCEPT ![f.c.acct] = f.state]
     ELSE UNCHANGED <<account, granted>>
  /\ UNCHANGED <<user, group, store, rights, home, waiting, used, minted>>

ExchangeFails(f) ==
  /\ f \in flight /\ f.state # None
  /\ flight' = flight \ {f} /\ Answers(f.b, Popped(f.c))
  /\ oauth_failure_redirect(f.c)
  /\ UNCHANGED <<user, group, store, home, waiting, used, minted, granted>>

\* Any other request of a browser: its answer brings back the cookie it had.
Page(b) ==
  /\ Cardinality(flight) < MaxFlights
  /\ flight' = flight \cup {[b |-> b, c |-> cookie[b], state |-> None]}
  /\ UNCHANGED <<evars, cookie, minted, granted>>

PageAnswers(f) ==
  /\ f \in flight /\ f.state = None
  /\ flight' = flight \ {f} /\ Answers(f.b, f.c)
  /\ UNCHANGED <<evars, minted, granted>>

-----------------------------------------------------------------------------

\* The credentials of a mailbox come from a connection that was started for
\* that mailbox, however tabs, reloads and late answers mix (the state check of
\* the callbacks).
CallbackHitsItsAccount ==
  \A a \in Accounts : granted[a] # None => minted[granted[a]] = a

\* A mailbox that holds credentials leaves only by a request to delete it:
\* no failed, repeated or late callback takes it (_oauth_failure_redirect).
ConnectedAccountsStay ==
  [][\A a \in DOMAIN account \ DOMAIN account' :
       account[a].cred =>
         \E u \in Users : delete(u, a) /\ UNCHANGED cvars]_<<evars, cvars>>
=============================================================================
