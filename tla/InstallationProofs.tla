------------------------- MODULE InstallationProofs -------------------------
(***************************************************************************)
(* Theorems about a whole installation, for every set of people,           *)
(* mailboxes, groups, stores, names, browsers and tokens, every way names  *)
(* fold to directories, and any number of requests under way.              *)
(***************************************************************************)
EXTENDS Installation, TLAPS

\* Whoever and whatever lives on a store lives on one that exists.  Without it
\* the references of user_allowed_stores are not kept: a boot adds the store a
\* user lives on.
Housed ==
  /\ \A u \in DOMAIN user : user[u].store \in DOMAIN store
  /\ \A a \in DOMAIN account : account[a].store \in DOMAIN store

EstateInv == EstateTypeOK /\ Housed

\* Every cookie, also one that a slow request will bring back, holds its nonce
\* together with the mailbox the nonce was made for.
Held == {cookie[b] : b \in Browsers} \cup {f.c : f \in flight}
NonceInv ==
  /\ \A c \in Held : c.nonce # None => c.acct # None /\ minted[c.nonce] = c.acct
  /\ \A f \in flight : f.state # None => f.state = f.c.nonce

\* A search that will read with the role has its row in the log.
LoggedInv ==
  \A c \in calls : c.kind # "mcp" /\ c.all /\ c.admin => <<c.by, None>> \in audit

---------------------------------------------------------------------------
(* Connecting a mailbox. *)

Good(c) == c.nonce # None => c.acct # None /\ minted[c.nonce] = c.acct

\* What the theorem on callbacks needs, as one invariant.
ConnectInv == ConnectTypeOK /\ NonceInv /\ CallbackHitsItsAccount

(* The fields of a cookie, and what the handlers make of one. *)
LEMMA CookieParts ==
  ASSUME NEW c \in Cookie
  PROVE  /\ c.user \in Users \cup {None} /\ c.acct \in Accounts \cup {None}
         /\ c.nonce \in Nonces \cup {None}
         /\ Popped(c) \in Cookie /\ Popped(c).nonce = None
         /\ \A u \in Users : /\ [c EXCEPT !.user = u] \in Cookie
                             /\ [c EXCEPT !.user = u].nonce = c.nonce
                             /\ [c EXCEPT !.user = u].acct = c.acct
  BY DEF Cookie, Popped

(* What is under way has been in a browser before. *)
LEMMA FlightParts ==
  ASSUME ConnectInv, NEW f \in flight
  PROVE  /\ f.b \in Browsers /\ f.c \in Cookie /\ f.state \in Nonces \cup {None}
         /\ Good(f.c)
         /\ f.state # None => f.state = f.c.nonce
  BY DEF ConnectInv, ConnectTypeOK, NonceInv, Held, Flight, Good

(* An answer that sets a good cookie, whatever request it is of. *)
LEMMA AnswerStep ==
  ASSUME ConnectInv, NEW b \in Browsers, NEW c \in Cookie, Good(c), Answers(b, c),
         flight' \subseteq flight, minted' = minted, granted' = granted
  PROVE  ConnectInv'
<1>1. /\ cookie \in [Browsers -> Cookie] /\ flight \subseteq Flight
  BY DEF ConnectInv, ConnectTypeOK
<1>2. /\ cookie' \in [Browsers -> Cookie]
      /\ \A x \in Browsers : cookie'[x] = IF x = b THEN c ELSE cookie[x]
  BY <1>1 DEF Answers
<1>3. \A x \in Held' : x = c \/ x \in Held
  BY <1>2 DEF Held
<1>4. ConnectTypeOK'
  BY <1>1, <1>2 DEF ConnectInv, ConnectTypeOK
<1>5. NonceInv'
  BY <1>3 DEF ConnectInv, NonceInv, Good
<1> QED
  BY <1>4, <1>5 DEF ConnectInv, CallbackHitsItsAccount

(* A request goes out with the cookie of its browser. *)
LEMMA DepartStep ==
  ASSUME ConnectInv, NEW b \in Browsers, NEW n \in Nonces \cup {None},
         n # None => n = cookie[b].nonce,
         flight' = flight \cup {[b |-> b, c |-> cookie[b], state |-> n]},
         cookie' = cookie, minted' = minted, granted' = granted
  PROVE  ConnectInv'
<1> DEFINE f == [b |-> b, c |-> cookie[b], state |-> n]
<1>1. /\ cookie \in [Browsers -> Cookie] /\ flight \subseteq Flight
  BY DEF ConnectInv, ConnectTypeOK
<1>2. f \in Flight /\ f.c = cookie[b] /\ f.state = n
  BY <1>1 DEF Flight
<1> HIDE DEF f
<1>3. flight' = flight \cup {f}
  BY DEF f
<1>4. Held' \subseteq Held
  BY <1>1, <1>2, <1>3 DEF Held
<1>5. ConnectTypeOK'
  BY <1>1, <1>2, <1>3 DEF ConnectInv, ConnectTypeOK
<1>6. NonceInv'
  BY <1>2, <1>3, <1>4 DEF ConnectInv, NonceInv
<1> QED
  BY <1>5, <1>6 DEF ConnectInv, CallbackHitsItsAccount

(* A fresh nonce is in no cookie and has granted nothing. *)
LEMMA StartStep ==
  ASSUME ConnectInv, NEW b \in Browsers, NEW a \in Accounts, oauth_start(b, a)
  PROVE  ConnectInv'
<1>1. PICK n \in Nonces : /\ minted[n] = None
                          /\ minted' = [minted EXCEPT ![n] = a]
                          /\ Answers(b, [cookie[b] EXCEPT !.acct = a, !.nonce = n])
  BY DEF oauth_start
<1> DEFINE c == [cookie[b] EXCEPT !.acct = a, !.nonce = n]
<1>2. /\ cookie \in [Browsers -> Cookie] /\ minted \in [Nonces -> Accounts \cup {None}]
      /\ granted \in [Accounts -> Nonces \cup {None}]
  BY DEF ConnectInv, ConnectTypeOK
<1>3. c \in Cookie /\ c.acct = a /\ c.nonce = n
  BY <1>2 DEF Cookie
<1> HIDE DEF c
<1>4. /\ cookie' \in [Browsers -> Cookie]
      /\ \A x \in Browsers : cookie'[x] = IF x = b THEN c ELSE cookie[x]
  BY <1>1, <1>2, <1>3 DEF Answers, c
<1>5. /\ minted' \in [Nonces -> Accounts \cup {None}]
      /\ minted'[n] = a /\ a # None /\ None \notin Nonces
      /\ \A m \in Nonces : m # n => minted'[m] = minted[m]
  BY <1>1, <1>2, EstateAssumption, ConnectAssumption
<1>6. flight' = flight /\ granted' = granted
  BY DEF oauth_start
<1>7. \A x \in Held' : x = c \/ (x \in Held /\ x \in Cookie)
  BY <1>2, <1>4, <1>6, FlightParts DEF Held
<1>8. NonceInv'
  <2>1. \A x \in Held : x \in Cookie /\ x.nonce # None => x.nonce # n
    BY <1>1 DEF ConnectInv, NonceInv
  <2>2. \A x \in Held : x \in Cookie /\ x.nonce # None => minted'[x.nonce] = x.acct /\ x.acct # None
    BY <2>1, <1>5, CookieParts DEF ConnectInv, NonceInv
  <2>3. \A x \in Held' : x.nonce # None => x.acct # None /\ minted'[x.nonce] = x.acct
    BY <1>3, <1>5, <1>7, <2>2
  <2> QED
    BY <2>3, <1>6 DEF ConnectInv, NonceInv
<1>9. CallbackHitsItsAccount'
  <2>1. \A x \in Accounts : granted[x] # None => granted[x] # n
    BY <1>1, EstateAssumption DEF ConnectInv, CallbackHitsItsAccount
  <2> QED
    BY <2>1, <1>2, <1>5, <1>6 DEF ConnectInv, CallbackHitsItsAccount
<1>10. ConnectTypeOK'
  BY <1>4, <1>5, <1>6 DEF ConnectInv, ConnectTypeOK
<1> QED
  BY <1>8, <1>9, <1>10 DEF ConnectInv

(* Credentials are granted under the nonce the session's cookie held. *)
LEMMA GrantStep ==
  ASSUME ConnectInv, NEW f \in flight, ExchangeSucceeds(f)
  PROVE  ConnectInv'
<1>1. /\ f.b \in Browsers /\ f.c \in Cookie /\ f.state \in Nonces
      /\ f.state = f.c.nonce /\ Good(f.c) /\ f.c.acct \in Accounts
      /\ minted[f.state] = f.c.acct
  BY FlightParts, CookieParts, ConnectAssumption DEF ExchangeSucceeds, Good
<1>2. granted \in [Accounts -> Nonces \cup {None}]
  BY DEF ConnectInv, ConnectTypeOK
<1>3. granted' = granted \/ granted' = [granted EXCEPT ![f.c.acct] = f.state]
  BY DEF ExchangeSucceeds
<1>4. granted' \in [Accounts -> Nonces \cup {None}]
  BY <1>1, <1>2, <1>3
<1>5. \A a \in Accounts : granted'[a] # None => minted[granted'[a]] = a
  BY <1>1, <1>2, <1>3 DEF ConnectInv, CallbackHitsItsAccount
<1>6. /\ cookie \in [Browsers -> Cookie] /\ flight \subseteq Flight
      /\ flight' = flight \ {f} /\ minted' = minted /\ Answers(f.b, Popped(f.c))
  BY DEF ConnectInv, ConnectTypeOK, ExchangeSucceeds
<1>7. /\ cookie' \in [Browsers -> Cookie]
      /\ \A x \in Browsers : cookie'[x] = IF x = f.b THEN Popped(f.c) ELSE cookie[x]
  BY <1>1, <1>6, CookieParts DEF Answers
<1>8. \A x \in Held' : x = Popped(f.c) \/ x \in Held
  BY <1>6, <1>7 DEF Held
<1>9. NonceInv'
  BY <1>1, <1>6, <1>8, CookieParts DEF ConnectInv, NonceInv
<1>10. ConnectTypeOK'
  BY <1>4, <1>6, <1>7 DEF ConnectInv, ConnectTypeOK
<1> QED
  BY <1>5, <1>6, <1>9, <1>10 DEF ConnectInv, CallbackHitsItsAccount

(* The credentials of a mailbox come from a connection started for it,     *)
(* however tabs, reloads, slow answers, foreign links and boots mix.       *)
THEOREM CallbacksHit == Spec => []CallbackHitsItsAccount
<1>1. Init => ConnectInv
  <2> SUFFICES ASSUME Init PROVE ConnectInv
    OBVIOUS
  <2>1. ConnectTypeOK /\ \A b \in Browsers : cookie[b].nonce = None
    BY DEF Init, ConnectInit, ConnectTypeOK, Cookie
  <2> QED
    BY <2>1 DEF Init, ConnectInit, ConnectInv, NonceInv, Held, CallbackHitsItsAccount
<1>2. ASSUME ConnectInv, [Next]_vars PROVE ConnectInv'
  <2>t. cookie \in [Browsers -> Cookie] /\ \A b \in Browsers : Good(cookie[b])
    BY <1>2 DEF ConnectInv, ConnectTypeOK, NonceInv, Held, Good
  <2>1. CASE UNCHANGED cvars
    BY <1>2, <2>1 DEF cvars, ConnectInv, ConnectTypeOK, NonceInv, Held,
       CallbackHitsItsAccount
  <2>2. CASE Boot
    <3>1. flight' = {} /\ UNCHANGED <<cookie, minted, granted>>
      BY <2>2 DEF Boot
    <3> QED
      BY <1>2, <3>1 DEF ConnectInv, ConnectTypeOK, NonceInv, Held,
         CallbackHitsItsAccount
  <2>3. ASSUME NEW b \in Browsers, NEW u \in Users, login(b, u) PROVE ConnectInv'
    <3>1. Good([cookie[b] EXCEPT !.user = u]) /\ [cookie[b] EXCEPT !.user = u] \in Cookie
      BY <2>t, CookieParts DEF Good
    <3> QED
      BY <1>2, <2>3, <3>1, AnswerStep DEF login
  <2>4. ASSUME NEW b \in Browsers, logout(b) PROVE ConnectInv'
    <3> DEFINE c == [user |-> None, acct |-> None, nonce |-> None]
    <3>1. c \in Cookie /\ Good(c)
      BY DEF Cookie, Good
    <3> QED
      BY <1>2, <2>4, <3>1, AnswerStep DEF logout
  <2>5. ASSUME NEW b \in Browsers, Page(b) PROVE ConnectInv'
    BY <1>2, <2>5, DepartStep DEF Page
  <2>6. ASSUME NEW b \in Browsers, NEW a \in Accounts, oauth_start(b, a) PROVE ConnectInv'
    BY <1>2, <2>6, StartStep
  <2>p. \A c \in Cookie : Popped(c) \in Cookie /\ Good(Popped(c))
    BY CookieParts DEF Good
  <2>7. ASSUME NEW b \in Browsers, NEW n \in Nonces \cup {None}, NEW e \in BOOLEAN,
               oauth_callback(b, n, e)
        PROVE  ConnectInv'
    <3>1. minted' = minted /\ granted' = granted
      BY <2>7 DEF oauth_callback
    <3>2. CASE Answers(b, Popped(cookie[b])) /\ flight' = flight
      BY <1>2, <2>t, <2>p, <3>1, <3>2, AnswerStep
    <3>3. CASE /\ StateMatches(cookie[b], n) /\ cookie' = cookie
               /\ flight' = flight \cup {[b |-> b, c |-> cookie[b], state |-> n]}
      BY <1>2, <3>1, <3>3, DepartStep DEF StateMatches
    <3>4. CASE ~StateMatches(cookie[b], n)
      BY <2>7, <3>2, <3>4 DEF oauth_callback
    <3>5. CASE StateMatches(cookie[b], n) /\ e
      BY <2>7, <3>2, <3>5 DEF oauth_callback
    <3>6. CASE StateMatches(cookie[b], n) /\ ~e
      BY <2>7, <3>3, <3>6 DEF oauth_callback
    <3> QED
      BY <3>4, <3>5, <3>6
  <2>8. ASSUME NEW f \in flight, ExchangeSucceeds(f) PROVE ConnectInv'
    BY <1>2, <2>8, GrantStep
  <2>9. ASSUME NEW f \in flight, ExchangeFails(f) PROVE ConnectInv'
    BY <1>2, <2>9, <2>p, FlightParts, AnswerStep DEF ExchangeFails
  <2>10. ASSUME NEW f \in flight, PageAnswers(f) PROVE ConnectInv'
    BY <1>2, <2>10, FlightParts, AnswerStep DEF PageAnswers
  <2> QED
    BY <1>2, <2>1, <2>2, <2>3, <2>4, <2>5, <2>6, <2>7, <2>8, <2>9, <2>10
    DEF Next, BrowserRequest, vars
<1>3. ConnectInv => CallbackHitsItsAccount
  BY DEF ConnectInv
<1> QED
  BY <1>1, <1>2, <1>3, PTL DEF Spec

---------------------------------------------------------------------------
(* Tables. *)

(* Rows that go leave the others as they are. *)
LEMMA RowsDropped ==
  ASSUME NEW f, NEW S, NEW R, IsTable(f, S, R), NEW X
  PROVE  /\ IsTable(Restrict(f, DOMAIN f \ X), S, R)
         /\ DOMAIN Restrict(f, DOMAIN f \ X) = DOMAIN f \ X
         /\ \A y \in DOMAIN f \ X : Restrict(f, DOMAIN f \ X)[y] = f[y]
  BY DEF IsTable, Restrict

(* A row that changes leaves the others as they are. *)
LEMMA RowChanged ==
  ASSUME NEW f, NEW S, NEW R, IsTable(f, S, R), NEW x \in DOMAIN f, NEW r \in R
  PROVE  /\ IsTable([f EXCEPT ![x] = r], S, R)
         /\ DOMAIN [f EXCEPT ![x] = r] = DOMAIN f
         /\ [f EXCEPT ![x] = r][x] = r
         /\ \A y \in DOMAIN f : y # x => [f EXCEPT ![x] = r][y] = f[y]
  BY DEF IsTable

(* A new row of the people is one. *)
LEMMA NewUserFields ==
  ASSUME NEW n \in Names, NEW b \in BOOLEAN, NEW sso \in BOOLEAN, NEW s \in Stores
  PROVE  NewUser(n, b, sso, s) \in User /\ NewUser(n, b, sso, s).store = s
  BY DEF NewUser, User

(* A request that changes one person's row. *)
LEMMA PersonChanged ==
  ASSUME EstateInv, NEW t \in DOMAIN user, NEW r \in User, r.store \in DOMAIN store,
         user' = [user EXCEPT ![t] = r], waiting' \subseteq waiting,
         UNCHANGED <<account, group, store, rights, home, used>>
  PROVE  EstateInv'
<1>1. /\ IsTable(user', Users, User) /\ DOMAIN user' = DOMAIN user
      /\ \A u \in DOMAIN user' : user'[u].store \in DOMAIN store
  BY RowChanged DEF EstateInv, EstateTypeOK, Housed
<1>2. Housed'
  BY <1>1 DEF EstateInv, Housed
<1>3. EstateTypeOK'
  BY <1>1 DEF EstateInv, EstateTypeOK, rights
<1> QED
  BY <1>2, <1>3 DEF EstateInv

(* A request that changes one mailbox's row, but not where it lives. *)
LEMMA MailboxChanged ==
  ASSUME EstateInv, NEW a \in DOMAIN account, NEW r \in Account,
         r.store = account[a].store, account' = [account EXCEPT ![a] = r],
         waiting' \subseteq waiting,
         UNCHANGED <<user, group, store, rights, home, used>>
  PROVE  EstateInv'
<1>1. /\ IsTable(account', Accounts, Account) /\ DOMAIN account' = DOMAIN account
      /\ \A u \in DOMAIN account' : account'[u].store \in DOMAIN store
  BY RowChanged DEF EstateInv, EstateTypeOK, Housed
<1>2. Housed'
  BY <1>1 DEF EstateInv, Housed
<1>3. EstateTypeOK'
  BY <1>1 DEF EstateInv, EstateTypeOK, rights
<1> QED
  BY <1>2, <1>3 DEF EstateInv

(* A request that only answers, or changes rights between existing rows. *)
LEMMA RightsChanged ==
  ASSUME EstateInv, UNCHANGED <<user, account, store>>,
         waiting' \subseteq Request, home' \subseteq Stores \X Range(Fold),
         used' \subseteq Users \cup Accounts \cup Groups \cup Stores,
         IsTable(group', Groups, Group),
         \A g \in DOMAIN group' : group'[g].owner \in DOMAIN user,
         owners' \subseteq (DOMAIN account) \X (DOMAIN user),
         members' \subseteq (DOMAIN group') \X (DOMAIN user),
         shared' \subseteq (DOMAIN account) \X (DOMAIN group'),
         allowed' \subseteq (DOMAIN user) \X (DOMAIN store)
  PROVE  EstateInv'
  BY DEF EstateInv, EstateTypeOK, Housed

(* Forms that open and close. *)
LEMMA FormStep ==
  ASSUME EstateInv, FormRequest
  PROVE  EstateInv'
<1>1. ASSUME NEW u \in Users, NEW gate \in Gates,
             NEW on \in Groups \cup Accounts \cup Stores \cup {None}, Opens(u, gate, on)
      PROVE  EstateInv'
  <2>1. user[u].admin \in BOOLEAN
    BY <1>1 DEF Opens, get_session_user, EstateInv, EstateTypeOK, IsTable, User
  <2>2. [by |-> u, admin |-> user[u].admin, gate |-> gate, on |-> on] \in Request
    BY <2>1 DEF Request
  <2>3. waiting' \subseteq Request /\ UNCHANGED <<user, account, group, store, rights, home, used>>
    BY <1>1, <2>2 DEF Opens, EstateInv, EstateTypeOK
  <2> QED
    BY <2>3, RightsChanged DEF EstateInv, EstateTypeOK, rights
<1>2. ASSUME NEW w \in waiting, Refused(w) PROVE EstateInv'
  BY <1>2, RightsChanged DEF Refused, EstateInv, EstateTypeOK, rights
<1> QED
  BY <1>1, <1>2 DEF FormRequest

(* Stores: none that anybody lives on, or may move to, goes away. *)
LEMMA StoreKept ==
  ASSUME EstateInv, UNCHANGED <<user, account, group, rights, home>>,
         waiting' \subseteq waiting, IsTable(store', Stores, MailStore),
         \/ DOMAIN store \subseteq DOMAIN store'
         \/ \E s \in DOMAIN store : /\ DOMAIN store' = DOMAIN store \ {s}
                                    /\ delete_store(s),
         used' \subseteq Users \cup Accounts \cup Groups \cup Stores
  PROVE  EstateInv'
<1>1. CASE DOMAIN store \subseteq DOMAIN store'
  <2>1. Housed'
    BY <1>1 DEF EstateInv, Housed
  <2>2. EstateTypeOK'
    BY <1>1 DEF EstateInv, EstateTypeOK, rights
  <2> QED
    BY <2>1, <2>2 DEF EstateInv
<1>2. ASSUME NEW s \in DOMAIN store, DOMAIN store' = DOMAIN store \ {s}, delete_store(s)
      PROVE  EstateInv'
  <2>1. /\ \A u \in DOMAIN user : user[u].store # s /\ <<u, s>> \notin allowed
        /\ \A a \in DOMAIN account : account[a].store # s
    BY <1>2 DEF delete_store, get_store_contents
  <2>2. Housed'
    BY <1>2, <2>1 DEF EstateInv, Housed
  <2>3. allowed \subseteq (DOMAIN user) \X (DOMAIN store')
    BY <1>2, <2>1 DEF EstateInv, EstateTypeOK
  <2>4. EstateTypeOK'
    BY <2>3 DEF EstateInv, EstateTypeOK, rights
  <2> QED
    BY <2>2, <2>4 DEF EstateInv
<1> QED
  BY <1>1, <1>2

(* The requests about stores keep every reference. *)
LEMMA StoreStep ==
  ASSUME EstateInv, StoreRequest
  PROVE  EstateInv'
<1>t. /\ IsTable(user, Users, User) /\ IsTable(store, Stores, MailStore)
      /\ used \subseteq Users \cup Accounts \cup Groups \cup Stores
  BY DEF EstateInv, EstateTypeOK
<1>1. ASSUME NEW w \in waiting, admin_create_store(w) PROVE EstateInv'
  <2> DEFINE r == [enabled |-> TRUE, default |-> FALSE, boot |-> FALSE]
  <2>1. PICK s \in Stores \ used : store' = WithRow(store, s, r) /\ used' = used \cup {s}
    BY <1>1 DEF admin_create_store
  <2>2. r \in MailStore
    BY DEF MailStore
  <2> HIDE DEF r
  <2>3. IsTable(store', Stores, MailStore) /\ DOMAIN store \subseteq DOMAIN store'
    <3>1. s \in Stores /\ IsTable(store, Stores, MailStore)
      BY <1>t
    <3>2. /\ IsTable(WithRow(store, s, r), Stores, MailStore)
          /\ DOMAIN WithRow(store, s, r) = DOMAIN store \cup {s}
      BY <2>2, <3>1 DEF IsTable, WithRow
    <3> QED
      BY <2>1, <3>2
  <2>4. used' \subseteq Users \cup Accounts \cup Groups \cup Stores
    BY <1>t, <2>1
  <2> QED
    BY <1>1, <2>3, <2>4, StoreKept DEF admin_create_store, Resumes
<1>2. ASSUME NEW w \in waiting, NEW t \in Users, NEW S \in SUBSET Stores,
             admin_set_allowed_stores(w, t, S)
      PROVE  EstateInv'
  <2>1. allowed' \subseteq (DOMAIN user) \X (DOMAIN store)
    BY <1>2 DEF admin_set_allowed_stores, set_allowed_stores, EstateInv, EstateTypeOK
  <2> QED
    BY <1>2, <2>1, RightsChanged
    DEF admin_set_allowed_stores, Resumes, EstateInv, EstateTypeOK
<1>3. ASSUME NEW w \in waiting, NEW s \in Stores, profile_change_store(w, s)
      PROVE  EstateInv'
  <2> DEFINE r == [user[w.by] EXCEPT !.store = s]
  <2>1. /\ w.by \in DOMAIN user /\ s \in DOMAIN store
        /\ user' = [user EXCEPT ![w.by] = r]
    BY <1>3 DEF profile_change_store, get_allowed_stores
  <2>a. user[w.by] \in User
    BY <1>t, <2>1 DEF IsTable
  <2>2. r \in User /\ r.store = s
    BY <2>a DEF User
  <2> HIDE DEF r
  <2> QED
    BY <1>3, <2>1, <2>2, PersonChanged DEF profile_change_store, Resumes
<1>4. ASSUME NEW u \in Users, NEW s \in Stores, admin_toggle_store(u, s) PROVE EstateInv'
  <2> DEFINE r == [store[s] EXCEPT !.enabled = ~store[s].enabled]
  <2>1. s \in DOMAIN store /\ store' = [store EXCEPT ![s] = r]
    BY <1>4 DEF admin_toggle_store
  <2>2. r \in MailStore
    BY <1>t, <2>1 DEF IsTable, MailStore
  <2> HIDE DEF r
  <2>3. IsTable(store', Stores, MailStore) /\ DOMAIN store' = DOMAIN store
    BY <1>t, <2>1, <2>2, RowChanged
  <2> QED
    BY <1>4, <1>t, <2>3, StoreKept DEF admin_toggle_store
<1>5. ASSUME NEW u \in Users, NEW s \in Stores, admin_set_default_store(u, s)
      PROVE  EstateInv'
  <2>1. IsTable(store', Stores, MailStore) /\ DOMAIN store' = DOMAIN store
    BY <1>5, <1>t DEF admin_set_default_store, set_default_store, IsTable, MailStore
  <2> QED
    BY <1>5, <1>t, <2>1, StoreKept DEF admin_set_default_store
<1>6. ASSUME NEW u \in Users, NEW s \in Stores, admin_delete_store(u, s) PROVE EstateInv'
  <2>1. IsTable(store', Stores, MailStore) /\ DOMAIN store' = DOMAIN store \ {s}
    BY <1>6, <1>t, RowsDropped DEF admin_delete_store
  <2>2. s \in DOMAIN store
    BY <1>6 DEF admin_delete_store, delete_store
  <2> QED
    BY <1>6, <1>t, <2>1, <2>2, StoreKept DEF admin_delete_store
<1>7. ASSUME NEW u \in Users, NEW s \in Stores, MigrationEnds(u, s) PROVE EstateInv'
  <2> DEFINE r == [user[u] EXCEPT !.migrating = FALSE, !.store = s]
  <2>1. u \in DOMAIN user /\ s \in DOMAIN store /\ user' = [user EXCEPT ![u] = r]
    BY <1>7 DEF MigrationEnds
  <2>a. user[u] \in User
    BY <1>t, <2>1 DEF IsTable
  <2>2. r \in User /\ r.store = s
    BY <2>a DEF User
  <2> HIDE DEF r
  <2> QED
    BY <1>7, <2>1, <2>2, PersonChanged DEF MigrationEnds
<1>8. ASSUME NEW u \in Users, MigrationStarts(u) PROVE EstateInv'
  <2> DEFINE r == [user[u] EXCEPT !.migrating = TRUE]
  <2>1. u \in DOMAIN user /\ user' = [user EXCEPT ![u] = r]
    BY <1>8 DEF MigrationStarts
  <2>a. user[u] \in User
    BY <1>t, <2>1 DEF IsTable
  <2>2. r \in User /\ r.store = user[u].store
    BY <2>a DEF User
  <2> HIDE DEF r
  <2>3. r.store \in DOMAIN store
    BY <2>1, <2>2 DEF EstateInv, Housed
  <2> QED
    BY <1>8, <2>1, <2>2, <2>3, PersonChanged DEF MigrationStarts
<1> QED
  BY <1>1, <1>2, <1>3, <1>4, <1>5, <1>6, <1>7, <1>8 DEF StoreRequest

(* A default store is there afterwards, and no store has gone. *)
LEMMA DefaultEnsured ==
  ASSUME EstateInv, NEW s, ensure_default_store(s, store')
  PROVE  /\ IsTable(store', Stores, MailStore) /\ s \in Stores
         /\ s \in DOMAIN store' /\ DOMAIN store \subseteq DOMAIN store'
<1>t. IsTable(store, Stores, MailStore)
  BY DEF EstateInv, EstateTypeOK
<1>1. CASE s \in get_default_store /\ store' = store
  BY <1>1, <1>t DEF get_default_store, IsTable
<1>2. CASE s \in DOMAIN store /\ store' = [store EXCEPT ![s].default = TRUE]
  <2>1. [store[s] EXCEPT !.default = TRUE] \in MailStore
    BY <1>2, <1>t DEF IsTable, MailStore
  <2> QED
    BY <1>2, <1>t, <2>1 DEF IsTable
<1>3. CASE /\ s \in Stores \ used
           /\ store' = WithRow(store, s, [enabled |-> TRUE, default |-> TRUE, boot |-> TRUE])
  <2>1. [enabled |-> TRUE, default |-> TRUE, boot |-> TRUE] \in MailStore
    BY DEF MailStore
  <2> QED
    BY <1>3, <1>t, <2>1 DEF IsTable, WithRow
<1> QED
  BY <1>1, <1>2, <1>3 DEF ensure_default_store

(* A request that changes who there is: rows and references fit. *)
LEMMA PeopleChanged ==
  ASSUME EstateInv, UNCHANGED <<account, group, shared>>,
         IsTable(user', Users, User), IsTable(store', Stores, MailStore),
         DOMAIN store \subseteq DOMAIN store',
         \A u \in DOMAIN user' : user'[u].store \in DOMAIN store',
         \A g \in DOMAIN group : group[g].owner \in DOMAIN user',
         owners' \subseteq (DOMAIN account) \X (DOMAIN user'),
         members' \subseteq (DOMAIN group) \X (DOMAIN user'),
         allowed' \subseteq (DOMAIN user') \X (DOMAIN store'),
         home' \subseteq Stores \X Range(Fold), waiting' \subseteq waiting,
         used' \subseteq Users \cup Accounts \cup Groups \cup Stores
  PROVE  EstateInv'
<1>1. Housed'
  BY DEF EstateInv, Housed
<1>2. EstateTypeOK'
  BY DEF EstateInv, EstateTypeOK
<1> QED
  BY <1>1, <1>2 DEF EstateInv

(* Somebody new, on a store that exists. *)
LEMMA PersonAdded ==
  ASSUME EstateInv, NEW t \in Users, NEW n \in Names, NEW b \in BOOLEAN, NEW sso \in BOOLEAN,
         NEW s \in DOMAIN store', user' = WithRow(user, t, NewUser(n, b, sso, s)),
         IsTable(store', Stores, MailStore), DOMAIN store \subseteq DOMAIN store'
  PROVE  /\ IsTable(user', Users, User) /\ DOMAIN user' = DOMAIN user \cup {t}
         /\ \A u \in DOMAIN user' : user'[u].store \in DOMAIN store'
         /\ \A u \in DOMAIN user : user'[u] = user[u]
<1>1. s \in Stores /\ IsTable(user, Users, User)
  BY DEF IsTable, EstateInv, EstateTypeOK
<1>2. NewUser(n, b, sso, s) \in User /\ NewUser(n, b, sso, s).store = s
  BY <1>1, NewUserFields
<1> DEFINE r == NewUser(n, b, sso, s)
<1> HIDE DEF r
<1>3. r \in User /\ r.store = s /\ user' = WithRow(user, t, r)
  BY <1>2 DEF r
<1>4. /\ IsTable(user', Users, User) /\ DOMAIN user' = DOMAIN user \cup {t}
      /\ \A u \in DOMAIN user : user'[u] = user[u]
      /\ t \notin DOMAIN user => user'[t] = r
  BY <1>1, <1>3 DEF IsTable, WithRow
<1>5. \A u \in DOMAIN user : user[u].store \in DOMAIN store'
  BY DEF EstateInv, Housed
<1> QED
  BY <1>3, <1>4, <1>5

(* A folded name is a directory. *)
LEMMA HomeType ==
  ASSUME NEW n \in Names, NEW s \in Stores
  PROVE  <<s, Fold[n]>> \in Stores \X Range(Fold)
<1>1. Fold[n] \in Range(Fold)
  BY EstateAssumption DEF Range
<1> QED
  BY <1>1

(* A deletion, whether the database lets the row go or not. *)
LEMMA PersonGone ==
  ASSUME EstateInv, NEW t \in DOMAIN user, delete_user(t),
         UNCHANGED <<account, group, store, waiting, used>>
  PROVE  EstateInv'
<1>t. /\ IsTable(user, Users, User) /\ IsTable(store, Stores, MailStore)
      /\ home \subseteq Stores \X Range(Fold)
      /\ used \subseteq Users \cup Accounts \cup Groups \cup Stores
  BY DEF EstateInv, EstateTypeOK
<1>1. home' \subseteq Stores \X Range(Fold) /\ shared' = shared
  BY <1>t DEF delete_user, remove_dovecot_home
<1>2. CASE CanDelete(t)
  <2>1. Without(t)
    BY <1>2 DEF delete_user
  <2>2. /\ IsTable(user', Users, User) /\ DOMAIN user' = DOMAIN user \ {t}
        /\ \A u \in DOMAIN user' : user'[u] = user[u]
    BY <1>t, <2>1 DEF Without, IsTable, Restrict
  <2>3. /\ \A u \in DOMAIN user' : user'[u].store \in DOMAIN store'
        /\ \A g \in DOMAIN group : group[g].owner \in DOMAIN user'
    BY <1>2, <2>2 DEF EstateInv, EstateTypeOK, Housed, CanDelete
  <2>4. /\ owners' \subseteq (DOMAIN account) \X (DOMAIN user')
        /\ members' \subseteq (DOMAIN group) \X (DOMAIN user')
        /\ allowed' \subseteq (DOMAIN user') \X (DOMAIN store')
    BY <2>1, <2>2 DEF Without, EstateInv, EstateTypeOK
  <2> QED
    BY <1>t, <1>1, <2>2, <2>3, <2>4, PeopleChanged
<1>3. CASE ~CanDelete(t)
  <2>1. UNCHANGED <<user, owners, members, allowed>>
    BY <1>3 DEF delete_user
  <2> QED
    BY <1>t, <1>1, <2>1, RightsChanged DEF EstateInv, EstateTypeOK
<1> QED
  BY <1>2, <1>3

(* Members follow the identity provider, among the groups that exist. *)
LEMMA FedMembers ==
  ASSUME NEW t, NEW G, NEW D, members \subseteq (DOMAIN group) \X D, t \in D
  PROVE  sync_sso_groups(t, G) \subseteq (DOMAIN group) \X D
  BY DEF sync_sso_groups

(* A sign-in through the identity provider, of somebody known or new. *)
LEMMA SignInStep ==
  ASSUME EstateInv, NEW t \in Users, NEW n \in Names, NEW f \in BOOLEAN,
         NEW G \in SUBSET Groups, oidc_callback(t, n, f, G)
  PROVE  EstateInv'
<1>t. /\ IsTable(user, Users, User) /\ IsTable(store, Stores, MailStore)
      /\ home' \subseteq Stores \X Range(Fold) /\ waiting' \subseteq waiting
      /\ used \subseteq Users \cup Accounts \cup Groups \cup Stores
      /\ UNCHANGED <<account, group, owners, shared, allowed>>
  BY DEF EstateInv, EstateTypeOK, oidc_callback
<1>1. CASE /\ t \in DOMAIN user
           /\ user' = IF AdminGroup THEN [user EXCEPT ![t].admin = f] ELSE user
           /\ members' = sync_sso_groups(t, G)
           /\ UNCHANGED <<store, used>>
  <2>1. user[t] \in User
    BY <1>1, <1>t DEF IsTable
  <2> DEFINE r == [user[t] EXCEPT !.admin = f]
  <2>2. r \in User /\ r.store = user[t].store
    BY <2>1 DEF User
  <2>3. user' = user \/ user' = [user EXCEPT ![t] = r]
    BY <1>1
  <2> HIDE DEF r
  <2>4. /\ IsTable(user', Users, User) /\ DOMAIN user' = DOMAIN user
        /\ \A u \in DOMAIN user : user'[u].store = user[u].store
    BY <1>1, <1>t, <2>2, <2>3 DEF IsTable
  <2>5. /\ \A u \in DOMAIN user' : user'[u].store \in DOMAIN store'
        /\ \A g \in DOMAIN group : group[g].owner \in DOMAIN user'
        /\ owners' \subseteq (DOMAIN account) \X (DOMAIN user')
        /\ allowed' \subseteq (DOMAIN user') \X (DOMAIN store')
    BY <1>1, <1>t, <2>4 DEF EstateInv, EstateTypeOK, Housed
  <2>6. members' \subseteq (DOMAIN group) \X (DOMAIN user')
    BY <1>1, <2>4, FedMembers DEF EstateInv, EstateTypeOK
  <2> QED
    BY <1>1, <1>t, <2>4, <2>5, <2>6, PeopleChanged
<1>2. ASSUME NEW s \in Stores, ensure_default_store(s, store'),
             user' = WithRow(user, t, NewUser(n, f, TRUE, s)),
             members' = sync_sso_groups(t, G), used' = used \cup {t, s}
      PROVE  EstateInv'
  <2>1. /\ IsTable(store', Stores, MailStore)
        /\ s \in DOMAIN store' /\ DOMAIN store \subseteq DOMAIN store'
    BY <1>2, DefaultEnsured
  <2>2. /\ IsTable(user', Users, User) /\ DOMAIN user' = DOMAIN user \cup {t}
        /\ \A u \in DOMAIN user' : user'[u].store \in DOMAIN store'
    BY <1>2, <2>1, PersonAdded
  <2>3. /\ \A g \in DOMAIN group : group[g].owner \in DOMAIN user'
        /\ owners' \subseteq (DOMAIN account) \X (DOMAIN user')
        /\ members \subseteq (DOMAIN group) \X (DOMAIN user')
        /\ allowed' \subseteq (DOMAIN user') \X (DOMAIN store')
    BY <1>t, <2>1, <2>2 DEF EstateInv, EstateTypeOK
  <2>4. members' \subseteq (DOMAIN group) \X (DOMAIN user')
    BY <1>2, <2>2, <2>3, FedMembers
  <2>5. used' \subseteq Users \cup Accounts \cup Groups \cup Stores
    BY <1>2, <1>t
  <2> QED
    BY <1>t, <2>1, <2>2, <2>3, <2>4, <2>5, PeopleChanged
<1>3. ASSUME NEW s \in Stores, ensure_default_store(s, store'),
             UNCHANGED <<user, members>>, used' = used \cup {s}
      PROVE  EstateInv'
  <2>1. /\ IsTable(store', Stores, MailStore) /\ DOMAIN store \subseteq DOMAIN store'
    BY <1>3, DefaultEnsured
  <2>2. used' \subseteq Users \cup Accounts \cup Groups \cup Stores
    BY <1>3, <1>t
  <2>3. UNCHANGED <<user, account, group, rights, home>>
    BY <1>3, <1>t DEF rights, oidc_callback
  <2> QED
    BY <1>t, <2>1, <2>2, <2>3, StoreKept
<1>4. ASSUME NEW s \in Stores, t \in Users \ used, ensure_default_store(s, store'),
             IF NameFree(n, t)
             THEN /\ user' = WithRow(user, t, NewUser(n, f, TRUE, s))
                  /\ members' = sync_sso_groups(t, G)
                  /\ used' = used \cup {t, s}
             ELSE UNCHANGED <<user, members>> /\ used' = used \cup {s}
      PROVE  EstateInv'
  <2>1. CASE NameFree(n, t)
    BY <1>2, <1>4, <2>1
  <2>2. CASE ~NameFree(n, t)
    BY <1>3, <1>4, <2>2
  <2> QED
    BY <2>1, <2>2
<1> QED
  BY <1>1, <1>4 DEF oidc_callback

(* The form for a new user, whose name may be refused after the store. *)
LEMMA NewUserStep ==
  ASSUME EstateInv, NEW w \in waiting, NEW t \in Users, NEW n \in Names, NEW f \in BOOLEAN,
         NEW s \in Stores, admin_create_user(w, t, n, f, s)
  PROVE  EstateInv'
<1>t. /\ home \subseteq Stores \X Range(Fold) /\ waiting' \subseteq waiting
      /\ used \subseteq Users \cup Accounts \cup Groups \cup Stores
      /\ UNCHANGED <<account, group, owners, members, shared>>
  BY DEF EstateInv, EstateTypeOK, admin_create_user, Resumes
<1>1. /\ IsTable(store', Stores, MailStore)
      /\ s \in DOMAIN store' /\ DOMAIN store \subseteq DOMAIN store'
  <2>1. CASE s \in DOMAIN store /\ UNCHANGED store
    BY <2>1 DEF EstateInv, EstateTypeOK
  <2>2. CASE ensure_default_store(s, store')
    BY <2>2, DefaultEnsured
  <2> QED
    BY <2>1, <2>2 DEF admin_create_user
<1>2. CASE n \notin Reserved /\ NameFree(n, t)
  <2>1. /\ user' = WithRow(user, t, NewUser(n, f, FALSE, s))
        /\ home' = home \cup {<<s, Fold[n]>>}
        /\ allowed' = allowed \cup {<<t, s>>} /\ used' = used \cup {t, s}
    BY <1>2 DEF admin_create_user, create_user
  <2>2. /\ IsTable(user', Users, User) /\ DOMAIN user' = DOMAIN user \cup {t}
        /\ \A u \in DOMAIN user' : user'[u].store \in DOMAIN store'
    BY <1>1, <2>1, PersonAdded
  <2>3. /\ \A g \in DOMAIN group : group[g].owner \in DOMAIN user'
        /\ owners' \subseteq (DOMAIN account) \X (DOMAIN user')
        /\ members' \subseteq (DOMAIN group) \X (DOMAIN user')
    BY <1>t, <2>2 DEF EstateInv, EstateTypeOK
  <2>a. allowed' \subseteq (DOMAIN user') \X (DOMAIN store')
    <3>1. allowed \subseteq (DOMAIN user') \X (DOMAIN store')
      BY <1>1, <2>2 DEF EstateInv, EstateTypeOK
    <3>2. <<t, s>> \in (DOMAIN user') \X (DOMAIN store')
      BY <1>1, <2>2
    <3> QED
      BY <2>1, <3>1, <3>2
  <2>4. /\ home' \subseteq Stores \X Range(Fold)
        /\ used' \subseteq Users \cup Accounts \cup Groups \cup Stores
    BY <1>t, <2>1, HomeType
  <2> QED
    BY <1>t, <1>1, <2>2, <2>3, <2>a, <2>4, PeopleChanged
<1>3. CASE ~(n \notin Reserved /\ NameFree(n, t))
  <2>1. UNCHANGED <<user, home, allowed>> /\ used' = used \cup {s}
    BY <1>3 DEF admin_create_user
  <2>2. UNCHANGED <<user, account, group, rights, home>>
    BY <1>t, <2>1 DEF rights
  <2>3. used' \subseteq Users \cup Accounts \cup Groups \cup Stores
    BY <1>t, <2>1
  <2> QED
    BY <1>t, <1>1, <2>2, <2>3, StoreKept
<1> QED
  BY <1>2, <1>3

(* The user a restore signs in with. *)
LEMMA TempUserStep ==
  ASSUME EstateInv, NEW t \in Users, NEW n \in Names, NEW A \in SUBSET DOMAIN account,
         NEW s \in Stores, create_temp_imap_user(t, n, A, s)
  PROVE  EstateInv'
<1>t. /\ home \subseteq Stores \X Range(Fold) /\ waiting' \subseteq waiting
      /\ used' \subseteq Users \cup Accounts \cup Groups \cup Stores
      /\ UNCHANGED <<account, group, store, members, shared, allowed>>
      /\ IsTable(store', Stores, MailStore)
  BY DEF EstateInv, EstateTypeOK, create_temp_imap_user
<1>1. s \in DOMAIN store'
  BY <1>t DEF create_temp_imap_user, get_default_store
<1>2. user' = WithRow(user, t, NewUser(n, FALSE, FALSE, s))
  BY DEF create_temp_imap_user
<1>3. /\ IsTable(user', Users, User) /\ DOMAIN user' = DOMAIN user \cup {t}
      /\ \A u \in DOMAIN user' : user'[u].store \in DOMAIN store'
  BY <1>t, <1>1, <1>2, PersonAdded
<1>4. owners' \subseteq (DOMAIN account) \X (DOMAIN user')
  BY <1>3 DEF create_temp_imap_user, EstateInv, EstateTypeOK
<1>5. /\ \A g \in DOMAIN group : group[g].owner \in DOMAIN user'
      /\ members' \subseteq (DOMAIN group) \X (DOMAIN user')
      /\ allowed' \subseteq (DOMAIN user') \X (DOMAIN store')
  BY <1>t, <1>3 DEF EstateInv, EstateTypeOK
<1>6. home' \subseteq Stores \X Range(Fold)
  BY <1>t, HomeType DEF create_temp_imap_user
<1> QED
  BY <1>t, <1>3, <1>4, <1>5, <1>6, PeopleChanged

(* The requests about people keep every reference. *)
LEMMA PeopleStep ==
  ASSUME EstateInv, PeopleRequest
  PROVE  EstateInv'
<1>t. IsTable(user, Users, User)
  BY DEF EstateInv, EstateTypeOK
<1>1. ASSUME NEW w \in waiting, NEW t \in Users, NEW n \in Names, NEW f \in BOOLEAN,
             admin_edit_user(w, t, n, f)
      PROVE  EstateInv'
  <2> DEFINE r == [user[t] EXCEPT !.name = n, !.admin = f]
  <2>1. t \in DOMAIN user /\ user' = [user EXCEPT ![t] = r]
    BY <1>1 DEF admin_edit_user
  <2>2. user[t] \in User /\ user[t].store \in DOMAIN store
    BY <1>t, <2>1 DEF IsTable, EstateInv, Housed
  <2>3. r \in User /\ r.store = user[t].store
    BY <2>2 DEF User
  <2> HIDE DEF r
  <2> QED
    BY <1>1, <2>1, <2>2, <2>3, PersonChanged DEF admin_edit_user, Resumes
<1>2. ASSUME NEW u \in Users, NEW t \in Users, admin_toggle_user(u, t) PROVE EstateInv'
  <2> DEFINE r == [user[t] EXCEPT !.enabled = ~user[t].enabled]
  <2>1. t \in DOMAIN user /\ user' = [user EXCEPT ![t] = r]
    BY <1>2 DEF admin_toggle_user
  <2>2. user[t] \in User /\ user[t].store \in DOMAIN store
    BY <1>t, <2>1 DEF IsTable, EstateInv, Housed
  <2>3. r \in User /\ r.store = user[t].store
    BY <2>2 DEF User
  <2> HIDE DEF r
  <2> QED
    BY <1>2, <2>1, <2>2, <2>3, PersonChanged DEF admin_toggle_user
<1>3. ASSUME NEW u \in Users, NEW t \in Users, admin_delete_user(u, t) PROVE EstateInv'
  BY <1>3, PersonGone DEF admin_delete_user
<1>4. ASSUME NEW t \in Users, delete_temp_imap_user(t) PROVE EstateInv'
  BY <1>4, PersonGone DEF delete_temp_imap_user
<1> QED
  BY <1>1, <1>2, <1>3, <1>4, NewUserStep, SignInStep, TempUserStep DEF PeopleRequest

(* Mailboxes: a deletion takes its owners and its sharing with it. *)
LEMMA MailboxGone ==
  ASSUME EstateInv, NEW a, delete_account(a), waiting' \subseteq waiting,
         UNCHANGED <<user, group, store, home, used>>
  PROVE  EstateInv'
<1>1. /\ IsTable(account, Accounts, Account)
      /\ account' = Restrict(account, DOMAIN account \ {a})
  BY DEF EstateInv, EstateTypeOK, delete_account
<1>2. /\ IsTable(account', Accounts, Account) /\ DOMAIN account' = DOMAIN account \ {a}
      /\ \A x \in DOMAIN account' : account'[x] = account[x]
  BY <1>1 DEF IsTable, Restrict
<1>3. /\ owners' \subseteq (DOMAIN account') \X (DOMAIN user)
      /\ shared' \subseteq (DOMAIN account') \X (DOMAIN group)
      /\ UNCHANGED <<members, allowed>>
  BY <1>2 DEF EstateInv, EstateTypeOK, delete_account
<1>4. Housed'
  BY <1>2 DEF EstateInv, Housed
<1>5. EstateTypeOK'
  BY <1>2, <1>3 DEF EstateInv, EstateTypeOK
<1> QED
  BY <1>4, <1>5 DEF EstateInv

(* A new mailbox lives on a store that exists. *)
LEMMA MailboxAdded ==
  ASSUME EstateInv, NEW w \in waiting, NEW a \in Accounts, NEW s, NEW f \in BOOLEAN,
         NEW g \in BOOLEAN, create_account(a, s, f, g), owners' = assign_owner(a, w.by),
         waiting' \subseteq waiting,
         UNCHANGED <<user, group, store, members, shared, allowed, home>>
  PROVE  EstateInv'
<1> DEFINE r == [enabled |-> TRUE, suspended |-> FALSE, store |-> s, oauth |-> f, cred |-> g]
<1>1. /\ s \in DOMAIN store /\ account' = WithRow(account, a, r)
      /\ used' = used \cup {a} /\ IsTable(account, Accounts, Account)
  BY DEF create_account, EstateInv, EstateTypeOK
<1>2. s \in Stores
  BY <1>1 DEF EstateInv, EstateTypeOK, IsTable
<1>3. r \in Account /\ r.store = s
  BY <1>2 DEF Account
<1> HIDE DEF r
<1>4. /\ IsTable(account', Accounts, Account) /\ DOMAIN account' = DOMAIN account \cup {a}
      /\ \A x \in DOMAIN account : account'[x] = account[x]
      /\ a \notin DOMAIN account => account'[a] = r
  BY <1>1, <1>3 DEF IsTable, WithRow
<1>5. Housed'
  BY <1>1, <1>3, <1>4 DEF EstateInv, Housed
<1>6. owners' \subseteq (DOMAIN account') \X (DOMAIN user)
  <2>1. owners \subseteq (DOMAIN account') \X (DOMAIN user)
    BY <1>4 DEF EstateInv, EstateTypeOK
  <2>2. w.by \in DOMAIN user => <<a, w.by>> \in (DOMAIN account') \X (DOMAIN user)
    BY <1>4
  <2> QED
    BY <2>1, <2>2 DEF assign_owner
<1>7. /\ shared' \subseteq (DOMAIN account') \X (DOMAIN group)
      /\ used' \subseteq Users \cup Accounts \cup Groups \cup Stores
  BY <1>1, <1>4 DEF EstateInv, EstateTypeOK
<1>8. EstateTypeOK'
  BY <1>4, <1>6, <1>7 DEF EstateInv, EstateTypeOK
<1> QED
  BY <1>5, <1>8 DEF EstateInv

(* A form with the fields of a mailbox, whoever sends it. *)
LEMMA FieldsStep ==
  ASSUME EstateInv, NEW u, NEW adm, NEW a \in DOMAIN account, NEW r \in Account,
         r.store = account[a].store, update_account(u, adm, a, r),
         waiting' \subseteq waiting, UNCHANGED <<user, group, store, rights, home, used>>
  PROVE  EstateInv'
<1>1. CASE account' = [account EXCEPT ![a] = r]
  BY <1>1, MailboxChanged
<1>2. CASE account' = account
  BY <1>2, RightsChanged DEF EstateInv, EstateTypeOK, rights
<1> QED
  BY <1>1, <1>2 DEF update_account

(* Owners come and go between rows that exist. *)
LEMMA OwnersStep ==
  ASSUME EstateInv, NEW f, ChangesOwners(f), f \subseteq (DOMAIN account) \X (DOMAIN user),
         waiting' \subseteq waiting
  PROVE  EstateInv'
  BY RightsChanged DEF EstateInv, EstateTypeOK, ChangesOwners

(* The requests about mailboxes keep every reference. *)
LEMMA MailboxStep ==
  ASSUME EstateInv, MailboxRequest
  PROVE  EstateInv'
<1>t. \A a \in DOMAIN account : account[a] \in Account
  BY DEF EstateInv, EstateTypeOK, IsTable
<1>o. /\ \A a \in DOMAIN account, t \in Users :
           assign_owner(a, t) \subseteq (DOMAIN account) \X (DOMAIN user)
      /\ \A a \in Accounts, t \in Users :
           remove_owner(a, t) \subseteq (DOMAIN account) \X (DOMAIN user)
  BY DEF assign_owner, remove_owner, EstateInv, EstateTypeOK
<1>1. ASSUME NEW w \in waiting, NEW a \in Accounts, account_edit_submit(w, a)
      PROVE  EstateInv'
  <2> DEFINE r == [account[a] EXCEPT !.cred = account[a].cred \/ ~account[a].oauth]
  <2>1. /\ a \in DOMAIN account /\ update_account(w.by, w.admin, a, r)
        /\ waiting' \subseteq waiting /\ UNCHANGED <<user, group, store, rights, home, used>>
    BY <1>1 DEF account_edit_submit, get_account, Resumes
  <2>2. account[a] \in Account
    BY <1>t, <2>1
  <2>3. r \in Account /\ r.store = account[a].store
    BY <2>2 DEF Account
  <2> HIDE DEF r
  <2> QED
    BY <2>1, <2>3, FieldsStep
<1>2. ASSUME NEW w \in waiting, NEW a \in Accounts, NEW f \in BOOLEAN, NEW g \in BOOLEAN,
             create(w, a, f, g)
      PROVE  EstateInv'
  BY <1>2, MailboxAdded DEF create, Resumes
<1>3. ASSUME NEW w \in waiting, NEW a \in Accounts, NEW f \in BOOLEAN, NEW g \in BOOLEAN,
             NEW s \in Stores, account_form_submit(w, a, s, f, g)
      PROVE  EstateInv'
  BY <1>3, MailboxAdded DEF account_form_submit, Resumes
<1>4. ASSUME NEW w \in waiting, NEW a \in Accounts, NEW t \in Users,
             account_add_owner(w, a, t) \/ account_remove_owner(w, a, t)
      PROVE  EstateInv'
  BY <1>4, <1>o, OwnersStep DEF account_add_owner, account_remove_owner, Resumes
<1>5. ASSUME NEW u \in Users, NEW a \in Accounts, account_toggle_visible(u, a)
      PROVE  EstateInv'
  <2> DEFINE r == [account[a] EXCEPT !.enabled = ~account[a].enabled]
  <2>1. /\ a \in DOMAIN account /\ update_account(u, user[u].admin, a, r)
        /\ waiting' \subseteq waiting /\ UNCHANGED <<user, group, store, rights, home, used>>
    BY <1>5 DEF account_toggle_visible, get_account
  <2>2. account[a] \in Account
    BY <1>t, <2>1
  <2>3. r \in Account /\ r.store = account[a].store
    BY <2>2 DEF Account
  <2> HIDE DEF r
  <2> QED
    BY <2>1, <2>3, FieldsStep
<1>6. ASSUME NEW u \in Users, NEW a \in Accounts, account_toggle_suspend(u, a)
      PROVE  EstateInv'
  <2> DEFINE r == [account[a] EXCEPT !.suspended = ~account[a].suspended]
  <2>1. /\ a \in DOMAIN account /\ update_account(u, user[u].admin, a, r)
        /\ waiting' \subseteq waiting /\ UNCHANGED <<user, group, store, rights, home, used>>
    BY <1>6 DEF account_toggle_suspend, get_account
  <2>2. account[a] \in Account
    BY <1>t, <2>1
  <2>3. r \in Account /\ r.store = account[a].store
    BY <2>2 DEF Account
  <2> HIDE DEF r
  <2> QED
    BY <2>1, <2>3, FieldsStep
<1>7. ASSUME NEW u \in Users, NEW a \in Accounts, NEW f \in BOOLEAN, NEW g \in BOOLEAN,
             NEW h \in BOOLEAN, update(u, a, f, g, h)
      PROVE  EstateInv'
  <2> DEFINE r == [account[a] EXCEPT !.enabled = f, !.suspended = g,
                                     !.cred = account[a].cred \/ h]
  <2>1. /\ a \in DOMAIN account /\ update_account(u, user[u].admin, a, r)
        /\ waiting' \subseteq waiting /\ UNCHANGED <<user, group, store, rights, home, used>>
    BY <1>7 DEF update, get_account_for_modify
  <2>2. account[a] \in Account
    BY <1>t, <2>1
  <2>3. r \in Account /\ r.store = account[a].store
    BY <2>2 DEF Account
  <2> HIDE DEF r
  <2> QED
    BY <2>1, <2>3, FieldsStep
<1>8. ASSUME NEW u \in Users, NEW a \in Accounts, delete(u, a) PROVE EstateInv'
  BY <1>8, MailboxGone DEF delete
<1>9. ASSUME NEW u \in Users, NEW a \in Accounts, NEW t \in Users,
             api_assign_owner(u, a, t) \/ api_remove_owner(u, a, t)
      PROVE  EstateInv'
  BY <1>9, <1>o, OwnersStep DEF api_assign_owner, api_remove_owner
<1> QED
  BY <1>1, <1>2, <1>3, <1>4, <1>5, <1>6, <1>7, <1>8, <1>9 DEF MailboxRequest

(* Groups. *)
LEMMA GroupStep ==
  ASSUME EstateInv, GroupRequest
  PROVE  EstateInv'
<1>t. /\ IsTable(group, Groups, Group) /\ waiting \subseteq Request
      /\ home \subseteq Stores \X Range(Fold)
      /\ used \subseteq Users \cup Accounts \cup Groups \cup Stores
      /\ \A g \in DOMAIN group : group[g].owner \in DOMAIN user
      /\ owners \subseteq (DOMAIN account) \X (DOMAIN user)
      /\ allowed \subseteq (DOMAIN user) \X (DOMAIN store)
  BY DEF EstateInv, EstateTypeOK
<1>1. ASSUME NEW w \in waiting, NEW g \in Groups, NEW f \in BOOLEAN, NEW t \in Users,
             admin_create_group(w, g, t, f)
      PROVE  EstateInv'
  <2> DEFINE r == [owner |-> t, sso |-> f]
  <2>1. /\ t \in DOMAIN user /\ group' = WithRow(group, g, r) /\ used' = used \cup {g}
        /\ waiting' \subseteq waiting /\ UNCHANGED <<user, account, store, rights, home>>
    BY <1>1 DEF admin_create_group, create_group, Resumes
  <2>2. r \in Group /\ r.owner = t
    BY DEF Group
  <2> HIDE DEF r
  <2>3. /\ IsTable(group', Groups, Group) /\ DOMAIN group' = DOMAIN group \cup {g}
        /\ \A x \in DOMAIN group : group'[x] = group[x]
        /\ g \notin DOMAIN group => group'[g] = r
    BY <1>t, <2>1, <2>2 DEF IsTable, WithRow
  <2>4. \A x \in DOMAIN group' : group'[x].owner \in DOMAIN user
    BY <1>t, <2>1, <2>2, <2>3
  <2>5. /\ members' \subseteq (DOMAIN group') \X (DOMAIN user)
        /\ shared' \subseteq (DOMAIN account) \X (DOMAIN group')
    BY <2>1, <2>3 DEF EstateInv, EstateTypeOK, rights
  <2>6. used' \subseteq Users \cup Accounts \cup Groups \cup Stores
    BY <1>t, <2>1
  <2> QED
    BY <1>t, <2>1, <2>3, <2>4, <2>5, <2>6, RightsChanged DEF rights
<1>2. ASSUME NEW w \in waiting, NEW g \in Groups, NEW f \in BOOLEAN, NEW M \in SUBSET Users,
             NEW A \in SUBSET Accounts, admin_edit_group(w, g, M, A, f)
      PROVE  EstateInv'
  <2>1. /\ g \in DOMAIN group /\ waiting' \subseteq waiting
        /\ UNCHANGED <<user, account, store, owners, allowed, home, used>>
    BY <1>2 DEF admin_edit_group, Resumes
  <2>2. \A X : set_group_accounts(g, X) \subseteq (DOMAIN account) \X (DOMAIN group)
    BY <2>1 DEF set_group_accounts, EstateInv, EstateTypeOK
  <2>3. CASE w.admin
    <3> DEFINE r == [group[g] EXCEPT !.sso = f]
    <3>1. /\ group' = [group EXCEPT ![g] = r]
          /\ members' = {p \in members : p[1] # g} \cup ({g} \X (M \cap DOMAIN user))
          /\ shared' = set_group_accounts(g, A)
      BY <1>2, <2>3 DEF admin_edit_group
    <3>2. group[g] \in Group
      BY <1>t, <2>1 DEF IsTable
    <3>3. r \in Group /\ r.owner = group[g].owner
      BY <3>2 DEF Group
    <3> HIDE DEF r
    <3>4. /\ IsTable(group', Groups, Group) /\ DOMAIN group' = DOMAIN group
          /\ \A x \in DOMAIN group : group'[x].owner = group[x].owner
      BY <1>t, <2>1, <3>1, <3>3 DEF IsTable
    <3>5. members' \subseteq (DOMAIN group) \X (DOMAIN user)
      BY <2>1, <3>1 DEF EstateInv, EstateTypeOK
    <3> QED
      BY <1>t, <2>1, <2>2, <3>1, <3>4, <3>5, RightsChanged
  <2>4. CASE ~w.admin
    <3>1. /\ group' = group /\ members' = members
          /\ shared' \subseteq (DOMAIN account) \X (DOMAIN group)
      BY <1>2, <2>2, <2>4 DEF admin_edit_group
    <3> QED
      BY <1>t, <2>1, <3>1, RightsChanged DEF EstateInv, EstateTypeOK
  <2> QED
    BY <2>3, <2>4
<1>3. ASSUME NEW u \in Users, NEW g \in Groups, admin_delete_group_route(u, g)
      PROVE  EstateInv'
  <2>1. /\ IsTable(group', Groups, Group) /\ DOMAIN group' = DOMAIN group \ {g}
        /\ \A x \in DOMAIN group' : group'[x] = group[x]
    BY <1>3, <1>t DEF admin_delete_group_route, IsTable, Restrict
  <2>2. /\ members' \subseteq (DOMAIN group') \X (DOMAIN user)
        /\ shared' \subseteq (DOMAIN account) \X (DOMAIN group')
    BY <1>3, <2>1 DEF admin_delete_group_route, EstateInv, EstateTypeOK
  <2>3. UNCHANGED <<user, account, store, owners, allowed, home, waiting, used>>
    BY <1>3 DEF admin_delete_group_route
  <2> QED
    BY <1>t, <2>1, <2>2, <2>3, RightsChanged
<1> QED
  BY <1>1, <1>2, <1>3 DEF GroupRequest

(* The boot: whoever gets an allowed store gets one that exists. *)
LEMMA BootStep ==
  ASSUME EstateInv, NEW t \in Users, NEW s \in Stores, NEW R \in SUBSET Users,
         lifespan(t, s, R)
  PROVE  EstateInv'
<1> DEFINE U == ensure_admin_exists(t, s)
<1>t. /\ IsTable(user, Users, User) /\ IsTable(store, Stores, MailStore)
      /\ home \subseteq Stores \X Range(Fold) /\ waiting' \subseteq waiting
      /\ used \subseteq Users \cup Accounts \cup Groups \cup Stores
      /\ UNCHANGED <<account, group, shared>>
  BY DEF EstateInv, EstateTypeOK, lifespan
<1>1. /\ IsTable(store', Stores, MailStore)
      /\ s \in DOMAIN store' /\ DOMAIN store \subseteq DOMAIN store'
  BY DefaultEnsured DEF lifespan
<1>2. /\ IsTable(U, Users, User) /\ DOMAIN user \subseteq DOMAIN U
      /\ DOMAIN U \subseteq DOMAIN user \cup {t}
      /\ \A u \in DOMAIN user : U[u] = user[u]
      /\ \A u \in DOMAIN U : U[u].store \in DOMAIN store'
  <2>1. CASE U = user
    BY <1>t, <1>1, <2>1 DEF EstateInv, Housed
  <2>2. CASE U = WithRow(user, t, NewUser(AdminName, TRUE, FALSE, s))
    <3> DEFINE r == NewUser(AdminName, TRUE, FALSE, s)
    <3>1. r \in User /\ r.store = s
      BY NewUserFields, EstateAssumption
    <3> HIDE DEF r
    <3>2. U = WithRow(user, t, r)
      BY <2>2 DEF r
    <3> HIDE DEF U
    <3>3. /\ IsTable(U, Users, User) /\ DOMAIN U = DOMAIN user \cup {t}
          /\ \A u \in DOMAIN user : U[u] = user[u]
          /\ t \notin DOMAIN user => U[t] = r
      BY <1>t, <3>1, <3>2 DEF IsTable, WithRow
    <3> QED
      BY <1>1, <3>1, <3>3 DEF EstateInv, Housed
  <2> QED
    BY <2>1, <2>2 DEF ensure_admin_exists
<1>3. /\ user' = Restrict(U, DOMAIN U \ R)
      /\ allowed' = {p \in backfill_allowed_stores(U) : p[1] \notin R}
      /\ used' = used \cup DOMAIN U \cup {s}
      /\ owners' = {p \in owners : p[2] \notin R}
      /\ members' = {p \in members : p[2] \notin R}
      /\ R \subseteq {u \in DOMAIN user : CanDelete(u)}
  BY DEF lifespan
<1>4. home' \subseteq Stores \X Range(Fold)
  <2>1. <<s, Fold[AdminName]>> \in Stores \X Range(Fold)
    BY HomeType, EstateAssumption
  <2>2. home' \subseteq home \cup {<<s, Fold[AdminName]>>}
    BY DEF lifespan, sweep_orphaned_restore_homes, cleanup_temp_imap_users
  <2> QED
    BY <1>t, <2>1, <2>2
<1> HIDE DEF U
<1>5. /\ IsTable(user', Users, User) /\ DOMAIN user' = DOMAIN U \ R
      /\ \A u \in DOMAIN user' : user'[u] = U[u]
  BY <1>2, <1>3 DEF IsTable, Restrict
<1>6. \A u \in DOMAIN user' : user'[u].store \in DOMAIN store'
  BY <1>2, <1>5
<1>7. \A g \in DOMAIN group : group[g].owner \in DOMAIN user'
  BY <1>2, <1>3, <1>5 DEF CanDelete, EstateInv, EstateTypeOK
<1>8. /\ owners' \subseteq (DOMAIN account) \X (DOMAIN user')
      /\ members' \subseteq (DOMAIN group) \X (DOMAIN user')
  BY <1>2, <1>3, <1>5 DEF EstateInv, EstateTypeOK
<1>9. allowed' \subseteq (DOMAIN user') \X (DOMAIN store')
  <2>1. allowed \subseteq (DOMAIN U) \X (DOMAIN store')
    BY <1>1, <1>2 DEF EstateInv, EstateTypeOK
  <2>2. \A u \in DOMAIN U : <<u, U[u].store>> \in (DOMAIN U) \X (DOMAIN store')
    BY <1>2
  <2>3. backfill_allowed_stores(U) \subseteq (DOMAIN U) \X (DOMAIN store')
    BY <2>1, <2>2 DEF backfill_allowed_stores
  <2> QED
    BY <1>3, <1>5, <2>3
<1>10. used' \subseteq Users \cup Accounts \cup Groups \cup Stores
  BY <1>t, <1>2, <1>3 DEF IsTable
<1> QED
  BY <1>t, <1>1, <1>4, <1>5, <1>6, <1>7, <1>8, <1>9, <1>10, PeopleChanged

(* Browsers: a connection ends in credentials, or in a deletion. *)
LEMMA BrowserStep ==
  ASSUME EstateInv, BrowserRequest
  PROVE  EstateInv'
<1>1. CASE UNCHANGED evars
  BY <1>1 DEF evars, rights, EstateInv, EstateTypeOK, Housed
<1>2. ASSUME NEW c, oauth_failure_redirect(c),
             UNCHANGED <<user, group, store, home, waiting, used>>
      PROVE  EstateInv'
  <2>1. CASE delete_account(c.acct)
    BY <1>2, <2>1, MailboxGone
  <2>2. CASE UNCHANGED <<account, rights>>
    BY <1>2, <2>2, <1>1 DEF evars
  <2> QED
    BY <1>2, <2>1, <2>2 DEF oauth_failure_redirect
<1>3. ASSUME NEW b \in Browsers, NEW n \in Nonces \cup {None}, NEW e \in BOOLEAN,
             oauth_callback(b, n, e)
      PROVE  EstateInv'
  <2>1. UNCHANGED <<user, group, store, home, waiting, used>>
    BY <1>3 DEF oauth_callback
  <2>2. UNCHANGED <<account, rights>> \/ oauth_failure_redirect(cookie[b])
    BY <1>3 DEF oauth_callback
  <2> QED
    BY <1>1, <1>2, <2>1, <2>2 DEF evars
<1>4. ASSUME NEW f \in flight, ExchangeSucceeds(f) PROVE EstateInv'
  <2>1. UNCHANGED <<user, group, store, rights, home, waiting, used>>
    BY <1>4 DEF ExchangeSucceeds
  <2>2. CASE verify_oauth_access(f.c, f.c.acct)
    <3> DEFINE a == f.c.acct
               r == [account[a] EXCEPT !.cred = TRUE, !.oauth = TRUE]
    <3>1. a \in DOMAIN account /\ account' = [account EXCEPT ![a] = r]
      BY <1>4, <2>2 DEF ExchangeSucceeds, verify_oauth_access
    <3>2. account[a] \in Account
      BY <3>1 DEF EstateInv, EstateTypeOK, IsTable
    <3>3. r \in Account /\ r.store = account[a].store
      BY <3>2 DEF Account
    <3> HIDE DEF a, r
    <3> QED
      BY <2>1, <3>1, <3>3, MailboxChanged
  <2>3. CASE ~verify_oauth_access(f.c, f.c.acct)
    BY <1>1, <1>4, <2>1, <2>3 DEF ExchangeSucceeds, evars
  <2> QED
    BY <2>2, <2>3
<1>5. ASSUME NEW f \in flight, ExchangeFails(f) PROVE EstateInv'
  BY <1>2, <1>5 DEF ExchangeFails
<1> QED
  BY <1>1, <1>3, <1>4, <1>5
  DEF BrowserRequest, login, logout, Page, oauth_start, PageAnswers

(* Tokens and content: at most a form is answered. *)
LEMMA ReadsKeepEstate ==
  ASSUME EstateInv, TokenRequest \/ ContentRequest
  PROVE  EstateInv'
<1>1. CASE UNCHANGED evars
  BY <1>1 DEF evars, rights, EstateInv, EstateTypeOK, Housed
<1>2. ASSUME NEW w \in waiting, NEW t \in Tokens, NEW S \in SUBSET Scopes,
             create_access_token(w, t, S)
      PROVE  EstateInv'
  BY <1>2, RightsChanged
  DEF create_access_token, Resumes, EstateInv, EstateTypeOK, rights
<1>3. CASE TokenRequest
  BY <1>1, <1>2, <1>3 DEF TokenRequest, revoke_access_token, Expires, verify_token
<1>4. CASE ContentRequest
  <2>1. UNCHANGED evars
    BY <1>4
    DEF ContentRequest, agent_search, agent_search_attachments, agent_get_message,
        agent_download_attachment, McpRefused, mcp_search_mail, SearchRuns,
        mcp_search_attachments, mcp_get_message, mcp_download_attachment,
        mcp_get_attachment_text, McpAnswers, api_restore_search, api_attachments_search,
        Searches, api_restore_preview, api_attachment_download
  <2> QED
    BY <1>1, <2>1
<1> QED
  BY <1>3, <1>4

(* The tables keep their types and their references, whatever requests,    *)
(* callbacks and boots follow each other: no right names a person, mailbox, *)
(* group or store that has gone, and nobody lives on a store that was      *)
(* deleted.                                                                *)
THEOREM EstateTypes == Spec => []EstateInv
<1>1. Init => EstateInv
  BY DEF Init, EstateInv, EstateTypeOK, Housed, IsTable
<1>2. ASSUME EstateInv, [Next]_vars PROVE EstateInv'
  <2>1. CASE EstateRequest
    BY <1>2, <2>1, FormStep, StoreStep, PeopleStep, MailboxStep, GroupStep DEF EstateRequest
  <2>2. CASE Boot
    BY <1>2, <2>2, BootStep DEF Boot
  <2>3. CASE BrowserRequest
    BY <1>2, <2>3, BrowserStep
  <2>4. CASE TokenRequest \/ ContentRequest
    BY <1>2, <2>4, ReadsKeepEstate
  <2>5. CASE UNCHANGED vars
    BY <1>2, <2>5 DEF vars, evars, rights, EstateInv, EstateTypeOK, Housed
  <2> QED
    BY <1>2, <2>1, <2>2, <2>3, <2>4, <2>5 DEF Next
<1> QED
  BY <1>1, <1>2, PTL DEF Spec

---------------------------------------------------------------------------
(* What each door shows. *)

SurfacesInv == SurfacesTypeOK /\ LoggedInv /\ ForeignContentIsAudited

(* The fields of a call under way. *)
LEMMA CallFields ==
  ASSUME SurfacesInv, NEW c \in calls
  PROVE  /\ c.by \in Users /\ c.admin \in BOOLEAN /\ c.all \in BOOLEAN
         /\ c.scopes \subseteq Scopes /\ c.kind \in {"mcp", "search", "attachments"}
  BY DEF SurfacesInv, SurfacesTypeOK, Call

(* The fields of a token. *)
LEMMA TokenFields ==
  ASSUME SurfacesInv, NEW t \in DOMAIN token
  PROVE  /\ token[t] \in Token /\ token[t].owner \in Users /\ token[t].active \in BOOLEAN
         /\ token[t].scopes \subseteq Scopes
  BY DEF SurfacesInv, SurfacesTypeOK, IsTable, Token

(* A handler serves content; what is outside the reader's reach is logged. *)
LEMMA ServesStep ==
  ASSUME SurfacesInv, NEW u \in Users, NEW A \in SUBSET Accounts,
         NEW R \in SUBSET (Users \X (Accounts \cup {None})), Serves(u, A, R),
         \A a \in A \ accessible_account_ids(u) :
           <<u, a>> \in R \/ <<u, None>> \in audit,
         calls' \subseteq calls, token' = token
  PROVE  SurfacesInv'
<1>1. /\ foreign' = foreign \cup ({u} \X (A \ accessible_account_ids(u)))
      /\ audit' = audit \cup R
  BY DEF Serves
<1>2. SurfacesTypeOK'
  BY <1>1 DEF SurfacesInv, SurfacesTypeOK
<1>3. LoggedInv'
  BY <1>1 DEF SurfacesInv, LoggedInv
<1>4. ForeignContentIsAudited'
  <2> SUFFICES ASSUME NEW p \in foreign'
               PROVE  p \in audit' \/ <<p[1], None>> \in audit'
    BY DEF ForeignContentIsAudited
  <2>1. CASE p \in foreign
    BY <1>1, <2>1 DEF SurfacesInv, ForeignContentIsAudited
  <2>2. CASE p \in {u} \X (A \ accessible_account_ids(u))
    <3>1. PICK a \in A \ accessible_account_ids(u) : p = <<u, a>>
      BY <2>2
    <3> QED
      BY <1>1, <3>1
  <2> QED
    BY <1>1, <2>1, <2>2
<1> QED
  BY <1>2, <1>3, <1>4 DEF SurfacesInv

(* Content of one's own reach leaves nothing to log. *)
LEMMA OwnContentStep ==
  ASSUME SurfacesInv, NEW u \in Users, NEW A \in SUBSET Accounts,
         NEW R \in SUBSET (Users \X (Accounts \cup {None})), Serves(u, A, R),
         A \subseteq accessible_account_ids(u), calls' \subseteq calls, token' = token
  PROVE  SurfacesInv'
  BY ServesStep

(* Tokens made, revoked, expired and verified serve nothing. *)
LEMMA TokenStep ==
  ASSUME EstateInv, SurfacesInv, TokenRequest
  PROVE  SurfacesInv'
<1>1. ASSUME NEW w \in waiting, NEW t \in Tokens, NEW S \in SUBSET Scopes,
             create_access_token(w, t, S)
      PROVE  SurfacesInv'
  <2> DEFINE r == [owner |-> w.by, scopes |-> S, active |-> TRUE]
  <2>1. /\ w.by \in Users /\ S \in (SUBSET Scopes) \ {{}} /\ token' = WithRow(token, t, r)
        /\ UNCHANGED <<calls, foreign, audit>>
    BY <1>1 DEF create_access_token, create_credential, EstateInv, EstateTypeOK, IsTable
  <2>2. r \in Token
    BY <2>1 DEF Token
  <2> HIDE DEF r
  <2>3. IsTable(token', Tokens, Token)
    BY <2>1, <2>2 DEF IsTable, WithRow, SurfacesInv, SurfacesTypeOK
  <2> QED
    BY <2>1, <2>3 DEF SurfacesInv, SurfacesTypeOK, LoggedInv, ForeignContentIsAudited
<1>2. ASSUME NEW t \in DOMAIN token, token' = [token EXCEPT ![t].active = FALSE],
             UNCHANGED <<calls, foreign, audit>>
      PROVE  SurfacesInv'
  <2>1. [token[t] EXCEPT !.active = FALSE] \in Token
    BY TokenFields DEF Token
  <2>2. IsTable(token', Tokens, Token)
    BY <1>2, <2>1 DEF IsTable, SurfacesInv, SurfacesTypeOK
  <2> QED
    BY <1>2, <2>2 DEF SurfacesInv, SurfacesTypeOK, LoggedInv, ForeignContentIsAudited
<1>3. ASSUME NEW u \in Users, NEW t \in Tokens, revoke_access_token(u, t)
      PROVE  SurfacesInv'
  <2>1. CASE t \in DOMAIN token /\ token[t].owner = u
    BY <1>2, <1>3, <2>1 DEF revoke_access_token, revoke_credential
  <2>2. CASE ~(t \in DOMAIN token /\ token[t].owner = u)
    BY <1>3, <2>2 DEF revoke_access_token, revoke_credential, SurfacesInv,
       SurfacesTypeOK, LoggedInv, ForeignContentIsAudited
  <2> QED
    BY <2>1, <2>2
<1>4. ASSUME NEW t \in Tokens, Expires(t) PROVE SurfacesInv'
  BY <1>2, <1>4 DEF Expires
<1>5. ASSUME NEW t \in Tokens, verify_token(t) PROVE SurfacesInv'
  <2> DEFINE c == [by |-> token[t].owner, kind |-> "mcp", scopes |-> token[t].scopes,
                   admin |-> FALSE, all |-> FALSE]
  <2>1. t \in DOMAIN token /\ calls' = calls \cup {c} /\ UNCHANGED <<token, foreign, audit>>
    BY <1>5 DEF verify_token, verify_credential
  <2>2. c \in Call /\ c.kind = "mcp"
    BY <2>1, TokenFields DEF Call
  <2> HIDE DEF c
  <2> QED
    BY <2>1, <2>2 DEF SurfacesInv, SurfacesTypeOK, LoggedInv, ForeignContentIsAudited
<1> QED
  BY <1>1, <1>3, <1>4, <1>5 DEF TokenRequest

(* The searches: within one's reach, or with the role and a row in the log. *)
LEMMA SearchRange ==
  ASSUME NEW u, NEW A \in SUBSET Accounts
  PROVE  /\ search_messages(u, FALSE, FALSE, A) \in SUBSET Accounts
         /\ search_messages(u, FALSE, FALSE, A) \subseteq accessible_account_ids(u)
         /\ search_attachments(u, FALSE, FALSE, A) \in SUBSET Accounts
         /\ search_attachments(u, FALSE, FALSE, A) \subseteq accessible_account_ids(u)
  BY DEF search_messages, search_attachments

(* The agent API and MCP serve their owner's own reach. *)
LEMMA AgentStep ==
  ASSUME SurfacesInv, NEW t \in Tokens
  PROVE  /\ \A A \in SUBSET Accounts :
              agent_search(t, A) \/ agent_search_attachments(t, A) => SurfacesInv'
         /\ \A a \in Accounts :
              agent_get_message(t, a) \/ agent_download_attachment(t, a) => SurfacesInv'
<1>1. ASSUME require_scope(t, "mail:read") PROVE token[t].owner \in Users
  BY <1>1, TokenFields DEF require_scope, get_current_principal, verify_credential
<1>2. ASSUME NEW A \in SUBSET Accounts, agent_search(t, A) \/ agent_search_attachments(t, A)
      PROVE  SurfacesInv'
  <2>1. PICK B \in SUBSET Accounts : /\ B \subseteq accessible_account_ids(token[t].owner)
                                     /\ Serves(token[t].owner, B, {})
    BY <1>2, SearchRange DEF agent_search, agent_search_attachments
  <2>2. token[t].owner \in Users /\ calls' \subseteq calls /\ token' = token
    BY <1>1, <1>2 DEF agent_search, agent_search_attachments
  <2> QED
    BY <2>1, <2>2, OwnContentStep
<1>3. ASSUME NEW a \in Accounts, agent_get_message(t, a) \/ agent_download_attachment(t, a)
      PROVE  SurfacesInv'
  <2>1. /\ token[t].owner \in Users /\ {a} \subseteq accessible_account_ids(token[t].owner)
        /\ {<<token[t].owner, a>>} \in SUBSET (Users \X (Accounts \cup {None}))
    BY <1>1, <1>3 DEF agent_get_message, agent_download_attachment, agent_account
  <2> QED
    BY <1>3, <2>1, OwnContentStep DEF agent_get_message, agent_download_attachment
<1> QED
  BY <1>2, <1>3

(* The MCP tools serve their caller's own reach. *)
LEMMA McpStep ==
  ASSUME SurfacesInv, NEW c \in calls
  PROVE  /\ McpRefused(c) => SurfacesInv'
         /\ \A A \in SUBSET Accounts :
              mcp_search_mail(c, A) \/ mcp_search_attachments(c, A) => SurfacesInv'
         /\ \A a \in Accounts :
              (\/ mcp_get_message(c, a) \/ mcp_download_attachment(c, a)
               \/ mcp_get_attachment_text(c, a)) => SurfacesInv'
<1>1. ASSUME McpRefused(c) PROVE SurfacesInv'
  BY <1>1 DEF McpRefused, SurfacesInv, SurfacesTypeOK, LoggedInv, ForeignContentIsAudited
<1>2. ASSUME NEW A \in SUBSET Accounts, mcp_search_mail(c, A) \/ mcp_search_attachments(c, A)
      PROVE  SurfacesInv'
  <2>1. PICK B \in SUBSET Accounts : /\ B \subseteq accessible_account_ids(c.by)
                                     /\ Serves(c.by, B, {})
    BY <1>2, SearchRange DEF mcp_search_mail, mcp_search_attachments
  <2>2. c.by \in Users /\ calls' \subseteq calls /\ token' = token
    BY <1>2, CallFields DEF mcp_search_mail, mcp_search_attachments, McpAnswers
  <2> QED
    BY <2>1, <2>2, OwnContentStep
<1>3. ASSUME NEW a \in Accounts,
             \/ mcp_get_message(c, a) \/ mcp_download_attachment(c, a)
             \/ mcp_get_attachment_text(c, a)
      PROVE  SurfacesInv'
  <2>1. /\ c.by \in Users /\ {a} \subseteq accessible_account_ids(c.by)
        /\ {<<c.by, a>>} \in SUBSET (Users \X (Accounts \cup {None}))
    BY <1>3, CallFields
    DEF mcp_get_message, mcp_download_attachment, mcp_get_attachment_text, mcp_account
  <2> QED
    BY <1>3, <2>1, OwnContentStep
    DEF mcp_get_message, mcp_download_attachment, mcp_get_attachment_text, McpAnswers
<1> QED
  BY <1>1, <1>2, <1>3

(* The workspace: the row is written with the role the search runs with. *)
LEMMA WorkspaceSearch ==
  ASSUME SurfacesInv, NEW c \in calls, NEW A \in SUBSET Accounts, EstateInv, SearchRuns(c, A)
  PROVE  SurfacesInv'
<1> DEFINE B == IF c.kind = "search" THEN search_messages(c.by, RoleNow(c), c.all, A)
                                     ELSE search_attachments(c.by, RoleNow(c), c.all, A)
<1>1. /\ c.kind # "mcp" /\ Serves(c.by, B, {}) /\ calls' \subseteq calls /\ token' = token
  BY DEF SearchRuns
<1>2. B = A \cap (IF c.all /\ RoleNow(c) THEN DOMAIN account
                  ELSE accessible_account_ids(c.by))
  BY DEF search_messages, search_attachments
<1> HIDE DEF B
<1>3. CASE c.all /\ RoleNow(c)
  <2>1. c.admin
    BY <1>3 DEF RoleNow
  <2>2. <<c.by, None>> \in audit
    BY <1>1, <1>3, <2>1 DEF SurfacesInv, LoggedInv
  <2> QED
    BY <1>1, <1>2, <2>2, CallFields, ServesStep
<1>4. CASE ~(c.all /\ RoleNow(c))
  <2>1. B \subseteq accessible_account_ids(c.by) /\ B \in SUBSET Accounts
    BY <1>2, <1>4
  <2> QED
    BY <1>1, <2>1, CallFields, OwnContentStep
<1> QED
  BY <1>3, <1>4

(* A search with the role is logged before it runs. *)
LEMMA SearchComes ==
  ASSUME EstateInv, SurfacesInv, NEW u \in Users, NEW all \in BOOLEAN,
         api_restore_search(u, all) \/ api_attachments_search(u, all)
  PROVE  SurfacesInv'
<1>1. PICK k \in {"search", "attachments"} : Searches(u, k, all)
  BY DEF api_restore_search, api_attachments_search
<1> DEFINE c == [by |-> u, kind |-> k, scopes |-> {}, admin |-> user[u].admin, all |-> all]
<1>2. user[u].admin \in BOOLEAN
  BY <1>1 DEF Searches, get_current_user, EstateInv, EstateTypeOK, IsTable, User
<1>3. /\ calls' = calls \cup {c} /\ UNCHANGED <<token, foreign>>
      /\ audit' = audit \cup IF all /\ user[u].admin THEN {<<u, None>>} ELSE {}
  BY <1>1 DEF Searches
<1>4. c \in Call /\ c.by = u /\ c.admin = user[u].admin /\ c.all = all
  BY <1>2 DEF Call
<1> HIDE DEF c
<1>5. audit \subseteq audit' /\ audit' \subseteq Users \X (Accounts \cup {None})
  BY <1>3 DEF SurfacesInv, SurfacesTypeOK
<1>6. SurfacesTypeOK'
  BY <1>3, <1>4, <1>5 DEF SurfacesInv, SurfacesTypeOK
<1>7. LoggedInv'
  BY <1>3, <1>4, <1>5 DEF SurfacesInv, LoggedInv
<1>8. ForeignContentIsAudited'
  BY <1>3, <1>5 DEF SurfacesInv, ForeignContentIsAudited
<1> QED
  BY <1>6, <1>7, <1>8 DEF SurfacesInv

(* A preview outside the reader's reach, and any download, is logged. *)
LEMMA PreviewStep ==
  ASSUME EstateInv, SurfacesInv, NEW u \in Users, NEW all \in BOOLEAN, NEW a \in Accounts,
         api_restore_preview(u, a, all) \/ api_attachment_download(u, a, all)
  PROVE  SurfacesInv'
<1>1. {<<u, a>>} \in SUBSET (Users \X (Accounts \cup {None})) /\ {a} \in SUBSET Accounts
  OBVIOUS
<1>2. CASE Serves(u, {a}, {<<u, a>>})
  BY <1>1, <1>2, ServesStep DEF api_restore_preview, api_attachment_download
<1>3. CASE Serves(u, {a}, {}) /\ ~Escalated(u, a)
  BY <1>1, <1>3, OwnContentStep DEF api_restore_preview, api_attachment_download, Escalated
<1> QED
  BY <1>2, <1>3 DEF api_restore_preview, api_attachment_download

(* No handler serves unlogged mail. *)
LEMMA ContentStep ==
  ASSUME EstateInv, SurfacesInv, ContentRequest
  PROVE  SurfacesInv'
  BY AgentStep, McpStep, WorkspaceSearch, SearchComes, PreviewStep DEF ContentRequest

(* No step of the installation serves unlogged mail. *)
LEMMA SurfacesStep ==
  ASSUME EstateInv, SurfacesInv, [Next]_vars
  PROVE  SurfacesInv'
<1>1. CASE UNCHANGED svars
  BY <1>1 DEF svars, SurfacesInv, SurfacesTypeOK, LoggedInv, ForeignContentIsAudited
<1>2. CASE Boot
  BY <1>2 DEF Boot, SurfacesInv, SurfacesTypeOK, LoggedInv, ForeignContentIsAudited
<1> QED
  BY <1>1, <1>2, TokenStep, ContentStep DEF Next, vars

(* Mail served from outside the reader's own reach has a row in the audit  *)
(* log, though roles, ownership and sharing may change while a search      *)
(* waits for its thread.                                                   *)
THEOREM EscalationsAreLogged == Spec => []ForeignContentIsAudited
<1>1. Init => SurfacesInv
  BY DEF Init, SurfacesInit, SurfacesInv, SurfacesTypeOK, LoggedInv,
     ForeignContentIsAudited, IsTable
<1>2. EstateInv /\ SurfacesInv /\ [Next]_vars => SurfacesInv'
  BY SurfacesStep
<1>3. SurfacesInv => ForeignContentIsAudited
  BY DEF SurfacesInv
<1> QED
  BY <1>1, <1>2, <1>3, EstateTypes, PTL DEF Spec

(* The forms of "mine" agree: the pairs of the tables lead to rows. *)
LEMMA OwnReach ==
  ASSUME EstateInv, NEW u \in DOMAIN user
  PROVE  /\ get_own_accounts(u) = accessible_account_ids(u)
         /\ accessible_account_ids(u) \subseteq DOMAIN account
         /\ DOMAIN account \subseteq Accounts
         /\ \A a \in DOMAIN account :
              a \in accessible_account_ids(u) <=> is_account_owner(u, a) \/ InGroup(u, a)
         /\ owned_account_ids(u) = {a \in DOMAIN account : is_account_owner(u, a)}
         /\ owned_account_ids(u) \subseteq get_own_accounts(u)
<1>1. /\ owners \subseteq (DOMAIN account) \X (DOMAIN user)
      /\ members \subseteq (DOMAIN group) \X (DOMAIN user)
      /\ shared \subseteq (DOMAIN account) \X (DOMAIN group)
      /\ DOMAIN account \subseteq Accounts
  BY DEF EstateInv, EstateTypeOK, IsTable
<1>2. owned_account_ids(u) = {a \in DOMAIN account : is_account_owner(u, a)}
  <2>1. \A a \in owned_account_ids(u) : a \in DOMAIN account /\ <<a, u>> \in owners
    BY <1>1 DEF owned_account_ids
  <2>2. \A a : <<a, u>> \in owners => a \in owned_account_ids(u)
    <3> SUFFICES ASSUME NEW a, <<a, u>> \in owners PROVE a \in owned_account_ids(u)
      OBVIOUS
    <3>1. <<a, u>>[1] = a /\ <<a, u>>[2] = u
      OBVIOUS
    <3> QED
      BY <3>1 DEF owned_account_ids
  <2> QED
    BY <2>1, <2>2 DEF is_account_owner
<1>3. \A a : (\E p \in shared, q \in members : p[1] = a /\ p[2] = q[1] /\ q[2] = u)
               <=> InGroup(u, a)
  <2>1. ASSUME NEW a, NEW p \in shared, NEW q \in members,
               p[1] = a, p[2] = q[1], q[2] = u
        PROVE  InGroup(u, a)
    <3>1. p = <<a, q[1]>> /\ q = <<q[1], u>> /\ q[1] \in DOMAIN group
      BY <1>1, <2>1
    <3> QED
      BY <2>1, <3>1 DEF InGroup
  <2>2. ASSUME NEW a, InGroup(u, a)
        PROVE  \E p \in shared, q \in members : p[1] = a /\ p[2] = q[1] /\ q[2] = u
    <3>1. PICK g \in DOMAIN group : <<a, g>> \in shared /\ <<g, u>> \in members
      BY <2>2 DEF InGroup
    <3>2. /\ <<a, g>>[1] = a /\ <<a, g>>[2] = g /\ <<g, u>>[1] = g /\ <<g, u>>[2] = u
      OBVIOUS
    <3> QED
      BY <3>1, <3>2
  <2> QED
    BY <2>1, <2>2
<1>4. /\ accessible_account_ids(u) = {a \in DOMAIN account : is_account_owner(u, a) \/ InGroup(u, a)}
  BY <1>3 DEF accessible_account_ids, is_account_owner
<1>5. \A a : a \in {p[1] : p \in {q \in shared : q[2] \in {r[1] : r \in {x \in members : x[2] = u}}}}
               <=> \E p \in shared, q \in members : p[1] = a /\ p[2] = q[1] /\ q[2] = u
  OBVIOUS
<1>6. \A a : InGroup(u, a) => a \in DOMAIN account
  BY <1>1 DEF InGroup
<1>7. get_own_accounts(u) = owned_account_ids(u) \cup {a \in DOMAIN account : InGroup(u, a)}
  BY <1>3, <1>5, <1>6 DEF get_own_accounts
<1> QED
  BY <1>1, <1>2, <1>4, <1>7

(* A token that is let in has an owner, enabled and at rest, and its name. *)
LEMMA LetIn ==
  ASSUME NEW n, NEW t, NEW S, verify_credential(n, t, S) = "ok"
  PROVE  /\ t \in DOMAIN token /\ token[t].owner \in DOMAIN user
         /\ user[token[t].owner].enabled /\ ~user[token[t].owner].migrating
         /\ n # None => user[token[t].owner].name = n
  BY DEF verify_credential

(* For a person: pages, lists, buttons and the workspace. *)
LEMMA DoorsOfPeople ==
  ASSUME EstateInv, NEW u \in DOMAIN user
  PROVE  /\ {a \in Accounts : get_account(u, user[u].admin, a)} = get_accounts_for_user(u)
         /\ get_own_accounts(u) = accessible_account_ids(u)
         /\ {a \in Accounts : get_account_for_modify(u, user[u].admin, a)}
              = {a \in get_accounts_for_user(u) : can_modify_account(u, a)}
         /\ get_current_user(u) =>
              /\ api_resolve_uids(u, FALSE) = get_own_accounts(u)
              /\ workspace_snapshot_dates(u, TRUE) = get_accounts_for_user(u)
              /\ workspace_snapshot_count(u) = get_accounts_for_user(u)
         /\ userdb_lookup(u) # {} => dovecot_auth_password(user[u].name)
         /\ userdb_lookup(u) \subseteq get_own_accounts(u)
<1>1. {a \in Accounts : get_account(u, user[u].admin, a)} = get_accounts_for_user(u)
  BY OwnReach DEF get_account, get_accounts_for_user
<1>2. {a \in Accounts : get_account_for_modify(u, user[u].admin, a)}
        = {a \in get_accounts_for_user(u) : can_modify_account(u, a)}
  BY OwnReach DEF get_account_for_modify, get_accounts_for_user, can_modify_account
<1>3. ASSUME get_current_user(u)
      PROVE  /\ api_resolve_uids(u, FALSE) = get_own_accounts(u)
             /\ workspace_snapshot_dates(u, TRUE) = get_accounts_for_user(u)
             /\ workspace_snapshot_count(u) = get_accounts_for_user(u)
  <2>1. api_resolve_uids(u, FALSE) = get_own_accounts(u)
    BY <1>3, OwnReach DEF api_resolve_uids, workspace_account_for_user
  <2>2. workspace_snapshot_dates(u, TRUE) = get_accounts_for_user(u)
    BY <1>3, OwnReach DEF workspace_snapshot_dates, workspace_account_for_user,
       get_accounts_for_user
  <2>3. workspace_snapshot_count(u) = get_accounts_for_user(u)
    BY <1>1, <1>3 DEF workspace_snapshot_count
  <2> QED
    BY <2>1, <2>2, <2>3
<1>4. userdb_lookup(u) # {} => dovecot_auth_password(user[u].name)
  BY DEF userdb_lookup, dovecot_auth_password
<1>5. userdb_lookup(u) \subseteq get_own_accounts(u)
  BY OwnReach DEF userdb_lookup
<1> QED
  BY <1>1, <1>2, <1>3, <1>4, <1>5, OwnReach

(* For a token: never past what its owner reaches, and nothing for one who *)
(* is disabled or being migrated.                                          *)
LEMMA DoorsOfTokens ==
  ASSUME EstateInv, NEW t \in DOMAIN token, NEW u, u = token[t].owner, NEW seen,
         seen = agent_list_mailboxes(t) \cup agent_imap_coords(t)
                  \cup agent_sync_job_status(t)
  PROVE  /\ seen # {} => u \in DOMAIN user /\ seen = get_own_accounts(u)
         /\ (u \in DOMAIN user /\ (~user[u].enabled \/ user[u].migrating)) =>
              seen = {} /\ \A n \in Names : ~dovecot_auth_token(n, t)
         /\ \A n \in Names : dovecot_auth_token(n, t) => n = user[u].name
<1>1. \A n \in Names : dovecot_auth_token(n, t) => verify_credential(n, t, {"imap"}) = "ok"
  BY DEF dovecot_auth_token, dovecot_lua_passdb, passdb_verify
<1>2. \A n \in Names : dovecot_auth_token(n, t) =>
        /\ u \in DOMAIN user /\ user[u].enabled /\ ~user[u].migrating
        /\ n = user[u].name
  BY <1>1, LetIn, EstateAssumption
<1>3. ASSUME ~get_current_principal(t) PROVE seen = {}
  BY <1>3 DEF agent_list_mailboxes, agent_imap_coords, agent_sync_job_status, require_scope
<1>4. ASSUME get_current_principal(t)
      PROVE  /\ u \in DOMAIN user /\ user[u].enabled /\ ~user[u].migrating
             /\ seen # {} => seen = get_own_accounts(u)
  <2>1. u \in DOMAIN user /\ user[u].enabled /\ ~user[u].migrating
    BY <1>4, LetIn DEF get_current_principal
  <2>2. {a \in Accounts : agent_account(t, a)} = get_own_accounts(u)
    BY <2>1, OwnReach DEF agent_account
  <2>3. /\ agent_list_mailboxes(t) \in {{}, get_own_accounts(u)}
        /\ agent_imap_coords(t) \in {{}, get_own_accounts(u)}
        /\ agent_sync_job_status(t) \in {{}, get_own_accounts(u)}
    BY <2>1, <2>2, OwnReach
    DEF agent_list_mailboxes, agent_imap_coords, agent_sync_job_status
  <2> QED
    BY <2>1, <2>3
<1> QED
  BY <1>2, <1>3, <1>4

(* The doors agree about who sees which mailbox, whatever the order of     *)
(* toggles, sharing, sign-ins, deletions and boots.                        *)
THEOREM DoorsAgree == Spec => []SurfacesAgree
<1>1. ASSUME EstateInv PROVE SurfacesAgree
  <2>1. ASSUME NEW c \in calls, c.by \in DOMAIN user
        PROVE  mcp_list_mailboxes(c) \cup mcp_imap_coords(c) \cup mcp_sync_status(c)
                 \subseteq get_own_accounts(c.by)
    BY <1>1, <2>1, OwnReach
    DEF mcp_list_mailboxes, mcp_imap_coords, mcp_sync_status, mcp_account
  <2> QED
    BY <1>1, <2>1, DoorsOfPeople, DoorsOfTokens DEF SurfacesAgree
<1> QED
  BY <1>1, EstateTypes, PTL

---------------------------------------------------------------------------
(* What no step does. *)

(* Forms, mailboxes, groups, browsers, tokens and readers leave people and *)
(* homes alone.                                                            *)
LEMMA PeopleLeftAlone ==
  ASSUME \/ FormRequest \/ MailboxRequest \/ GroupRequest \/ BrowserRequest
         \/ TokenRequest \/ ContentRequest
  PROVE  UNCHANGED <<user, store, home>>
<1>1. CASE FormRequest
  BY <1>1 DEF FormRequest, Opens, Refused
<1>2. CASE MailboxRequest
  <2>1. ASSUME NEW w \in waiting, NEW a \in Accounts, NEW f \in BOOLEAN, NEW g \in BOOLEAN,
               \/ account_edit_submit(w, a) \/ create(w, a, f, g)
               \/ \E s \in Stores : account_form_submit(w, a, s, f, g)
        PROVE  UNCHANGED <<user, store, home>>
    BY <2>1 DEF account_edit_submit, create, account_form_submit
  <2>2. ASSUME NEW w, NEW u, NEW a, NEW t,
               \/ account_add_owner(w, a, t) \/ account_remove_owner(w, a, t)
               \/ api_assign_owner(u, a, t) \/ api_remove_owner(u, a, t)
        PROVE  UNCHANGED <<user, store, home>>
    BY <2>2 DEF account_add_owner, account_remove_owner, api_assign_owner, api_remove_owner,
       ChangesOwners
  <2>3. ASSUME NEW u \in Users, NEW a \in Accounts, NEW f \in BOOLEAN, NEW g \in BOOLEAN,
               NEW h \in BOOLEAN,
               \/ account_toggle_visible(u, a) \/ account_toggle_suspend(u, a)
               \/ delete(u, a) \/ update(u, a, f, g, h)
        PROVE  UNCHANGED <<user, store, home>>
    BY <2>3 DEF account_toggle_visible, account_toggle_suspend, delete, update
  <2> QED
    BY <1>2, <2>1, <2>2, <2>3 DEF MailboxRequest
<1>3. CASE GroupRequest
  BY <1>3 DEF GroupRequest, admin_create_group, admin_edit_group, admin_delete_group_route
<1>4. CASE BrowserRequest
  <2>1. ASSUME NEW b \in Browsers, NEW n \in Nonces \cup {None}, NEW e \in BOOLEAN,
               oauth_callback(b, n, e)
        PROVE  UNCHANGED <<user, store, home>>
    BY <2>1 DEF oauth_callback
  <2>2. ASSUME NEW f \in flight, ExchangeSucceeds(f) \/ ExchangeFails(f) \/ PageAnswers(f)
        PROVE  UNCHANGED <<user, store, home>>
    BY <2>2 DEF ExchangeSucceeds, ExchangeFails, PageAnswers, evars
  <2> QED
    BY <1>4, <2>1, <2>2 DEF BrowserRequest, login, logout, Page, oauth_start, evars
<1>5. CASE TokenRequest
  BY <1>5 DEF TokenRequest, create_access_token, revoke_access_token, Expires, verify_token,
     evars
<1>6. CASE ContentRequest
  BY <1>6 DEF ContentRequest, agent_search, agent_search_attachments, agent_get_message,
     agent_download_attachment, McpRefused, mcp_search_mail, SearchRuns,
     mcp_search_attachments, mcp_get_message, mcp_download_attachment,
     mcp_get_attachment_text, McpAnswers, api_restore_search, api_attachments_search,
     Searches, api_restore_preview, api_attachment_download, evars
<1> QED
  BY <1>1, <1>2, <1>3, <1>4, <1>5, <1>6

(* Mailboxes go by a request to delete them, or unconnected. *)
LEMMA MailboxesLeave ==
  ASSUME EstateInv, Next, NEW a \in DOMAIN account \ DOMAIN account'
  PROVE  \/ ~account[a].cred
         \/ (\E u \in Users : delete(u, a)) /\ UNCHANGED cvars
<1>1. CASE MailboxRequest /\ UNCHANGED cvars
  <2>1. CASE DOMAIN account \subseteq DOMAIN account'
    BY <2>1
  <2>2. ASSUME NEW u \in Users, NEW x \in Accounts, delete(u, x)
        PROVE  (\E y \in Users : delete(y, a)) /\ UNCHANGED cvars
    <3>1. DOMAIN account' = DOMAIN account \ {x}
      BY <2>2 DEF delete, delete_account, Restrict
    <3> QED
      BY <1>1, <2>2, <3>1
  <2>3. ASSUME NEW u, NEW adm, NEW x, NEW f, update_account(u, adm, x, f)
        PROVE  DOMAIN account \subseteq DOMAIN account'
    BY <2>3 DEF update_account
  <2>4. ASSUME NEW x, NEW s, NEW f, NEW g, create_account(x, s, f, g)
        PROVE  DOMAIN account \subseteq DOMAIN account'
    BY <2>4 DEF create_account, WithRow
  <2>5. ASSUME NEW f, ChangesOwners(f) PROVE DOMAIN account \subseteq DOMAIN account'
    BY <2>5 DEF ChangesOwners
  <2>6. ASSUME NEW w \in waiting, NEW x \in Accounts, NEW f \in BOOLEAN, NEW g \in BOOLEAN,
               \/ account_edit_submit(w, x) \/ create(w, x, f, g)
               \/ \E s \in Stores : account_form_submit(w, x, s, f, g)
        PROVE  DOMAIN account \subseteq DOMAIN account'
    BY <2>3, <2>4, <2>6 DEF account_edit_submit, create, account_form_submit
  <2>7. ASSUME NEW w, NEW u, NEW x, NEW t,
               \/ account_add_owner(w, x, t) \/ account_remove_owner(w, x, t)
               \/ api_assign_owner(u, x, t) \/ api_remove_owner(u, x, t)
        PROVE  DOMAIN account \subseteq DOMAIN account'
    BY <2>5, <2>7 DEF account_add_owner, account_remove_owner, api_assign_owner,
       api_remove_owner
  <2>8. ASSUME NEW u \in Users, NEW x \in Accounts, NEW f \in BOOLEAN, NEW g \in BOOLEAN,
               NEW h \in BOOLEAN,
               \/ account_toggle_visible(u, x) \/ account_toggle_suspend(u, x)
               \/ update(u, x, f, g, h)
        PROVE  DOMAIN account \subseteq DOMAIN account'
    BY <2>3, <2>8 DEF account_toggle_visible, account_toggle_suspend, update
  <2> QED
    BY <1>1, <2>1, <2>2, <2>6, <2>7, <2>8 DEF MailboxRequest
<1>2. CASE BrowserRequest
  <2>1. ASSUME NEW c, oauth_failure_redirect(c) PROVE ~account[a].cred
    <3>1. CASE account' = account
      BY <3>1
    <3>2. CASE delete_account(c.acct) /\ ~account[c.acct].cred
      BY <3>2 DEF delete_account, Restrict
    <3> QED
      BY <2>1, <3>1, <3>2 DEF oauth_failure_redirect
  <2>2. ASSUME NEW f \in flight, ExchangeSucceeds(f) PROVE DOMAIN account' = DOMAIN account
    BY <2>2 DEF ExchangeSucceeds
  <2>3. ASSUME NEW b \in Browsers, NEW n \in Nonces \cup {None}, NEW e \in BOOLEAN,
               oauth_callback(b, n, e)
        PROVE  account' = account \/ oauth_failure_redirect(cookie[b])
    BY <2>3 DEF oauth_callback
  <2>4. ASSUME NEW f \in flight, ExchangeFails(f) PROVE oauth_failure_redirect(f.c)
    BY <2>4 DEF ExchangeFails
  <2>5. ASSUME NEW f \in flight, PageAnswers(f) PROVE account' = account
    BY <2>5 DEF PageAnswers, evars
  <2>6. ASSUME NEW f \in flight, ExchangeSucceeds(f) \/ ExchangeFails(f) \/ PageAnswers(f)
        PROVE  ~account[a].cred
    BY <2>1, <2>2, <2>4, <2>5, <2>6
  <2>7. ASSUME NEW b \in Browsers, NEW n \in Nonces \cup {None}, NEW e \in BOOLEAN,
               oauth_callback(b, n, e)
        PROVE  ~account[a].cred
    BY <2>1, <2>3, <2>7
  <2> QED
    BY <1>2, <2>6, <2>7 DEF BrowserRequest, login, logout, Page, oauth_start, evars
<1>3. CASE Boot
  BY <1>3 DEF Boot, lifespan
<1>4. CASE FormRequest \/ GroupRequest
  BY <1>4 DEF FormRequest, Opens, Refused, GroupRequest, admin_create_group,
     admin_edit_group, admin_delete_group_route
<1>5. CASE StoreRequest
  BY <1>5 DEF StoreRequest, admin_create_store, admin_set_allowed_stores,
     profile_change_store, admin_toggle_store, admin_set_default_store, admin_delete_store,
     MigrationStarts, MigrationEnds
<1>6. CASE PeopleRequest
  BY <1>6 DEF PeopleRequest, admin_edit_user, admin_create_user, admin_toggle_user,
     admin_delete_user, oidc_callback, create_temp_imap_user, delete_temp_imap_user
<1>7. CASE TokenRequest
  BY <1>7 DEF TokenRequest, create_access_token, revoke_access_token, Expires, verify_token,
     evars
<1>8. CASE ContentRequest
  BY <1>8 DEF ContentRequest, agent_search, agent_search_attachments, agent_get_message,
     agent_download_attachment, McpRefused, mcp_search_mail, SearchRuns,
     mcp_search_attachments, mcp_get_message, mcp_download_attachment,
     mcp_get_attachment_text, McpAnswers, api_restore_search, api_attachments_search,
     Searches, api_restore_preview, api_attachment_download, evars
<1> QED
  BY <1>1, <1>2, <1>3, <1>4, <1>5, <1>6, <1>7, <1>8 DEF Next, EstateRequest

(* A mailbox that holds credentials leaves only by a request to delete it: *)
(* no failed, repeated or late callback takes it.                          *)
THEOREM ConnectedStay == Spec => ConnectedAccountsStay
<1>1. ASSUME EstateInv, [Next]_vars
      PROVE  [\A a \in DOMAIN account \ DOMAIN account' :
                account[a].cred =>
                  \E u \in Users : delete(u, a) /\ UNCHANGED cvars]_<<evars, cvars>>
  <2>1. CASE UNCHANGED vars
    BY <2>1 DEF vars
  <2>2. CASE Next
    BY <1>1, <2>2, MailboxesLeave
  <2> QED
    BY <1>1, <2>1, <2>2
<1> QED
  BY <1>1, EstateTypes, PTL DEF Spec, ConnectedAccountsStay

(* Only a change of role, or the boot for a reserved name, takes an enabled *)
(* administrator away; the requester of a toggle or a deletion stays.      *)
LEMMA RolesOnly ==
  ASSUME \A u \in DOMAIN user : user[u].admin /\ user[u].enabled =>
           IF u \in DOMAIN user' THEN user'[u].enabled ELSE user[u].name \in Reserved
  PROVE  AdminsLeft(user) /\ ~AdminsLeft(user') =>
           \E u \in DOMAIN user :
             /\ user[u].admin
             /\ IF u \in DOMAIN user' THEN ~user'[u].admin ELSE user[u].name \in Reserved
  BY DEF AdminsLeft

(* The last enabled administrator leaves by role, whatever the step. *)
LEMMA AdminsLeave ==
  ASSUME EstateInv, Next, AdminsLeft(user), ~AdminsLeft(user')
  PROVE  \E u \in DOMAIN user :
           /\ user[u].admin
           /\ IF u \in DOMAIN user' THEN ~user'[u].admin ELSE user[u].name \in Reserved
<1> DEFINE Goal == \E u \in DOMAIN user :
             /\ user[u].admin
             /\ IF u \in DOMAIN user' THEN ~user'[u].admin ELSE user[u].name \in Reserved
<1> SUFFICES Goal
  OBVIOUS
<1> HIDE DEF Goal
<1>g. ASSUME \A u \in DOMAIN user : user[u].admin /\ user[u].enabled =>
               IF u \in DOMAIN user' THEN user'[u].enabled ELSE user[u].name \in Reserved
      PROVE  Goal
  BY <1>g, RolesOnly DEF Goal
<1>u. CASE user' = user
  BY <1>u
<1>r. ASSUME NEW t \in DOMAIN user, NEW r, user' = [user EXCEPT ![t] = r],
             r.enabled = user[t].enabled
      PROVE  Goal
  BY <1>g, <1>r
<1>t. \A u \in DOMAIN user : user[u] \in User
  BY DEF EstateInv, EstateTypeOK, IsTable
<1>w. ASSUME NEW t \in Users, NEW r, user' = WithRow(user, t, r) PROVE Goal
  BY <1>g, <1>w DEF WithRow
<1>1. CASE StoreRequest
  <2>1. ASSUME NEW w \in waiting, NEW s \in Stores, profile_change_store(w, s) PROVE Goal
    <3>1. w.by \in DOMAIN user /\ user' = [user EXCEPT ![w.by] = [user[w.by] EXCEPT !.store = s]]
      BY <2>1 DEF profile_change_store
    <3>2. user[w.by] \in User
      BY <1>t, <3>1
    <3>3. [user[w.by] EXCEPT !.store = s].enabled = user[w.by].enabled
      BY <3>2 DEF User
    <3> QED
      BY <1>r, <3>1, <3>3
  <2>2. ASSUME NEW u \in Users, NEW s \in Stores, MigrationEnds(u, s) PROVE Goal
    <3> DEFINE r == [user[u] EXCEPT !.migrating = FALSE, !.store = s]
    <3>1. u \in DOMAIN user /\ user' = [user EXCEPT ![u] = r]
      BY <2>2 DEF MigrationEnds
    <3>2. user[u] \in User
      BY <1>t, <3>1
    <3>3. r.enabled = user[u].enabled
      BY <3>2 DEF User
    <3> QED
      BY <1>r, <3>1, <3>3
  <2>3. ASSUME NEW u \in Users, MigrationStarts(u) PROVE Goal
    <3> DEFINE r == [user[u] EXCEPT !.migrating = TRUE]
    <3>1. u \in DOMAIN user /\ user' = [user EXCEPT ![u] = r]
      BY <2>3 DEF MigrationStarts
    <3>2. user[u] \in User
      BY <1>t, <3>1
    <3>3. r.enabled = user[u].enabled
      BY <3>2 DEF User
    <3> QED
      BY <1>r, <3>1, <3>3
  <2> QED
    BY <1>1, <1>u, <2>1, <2>2, <2>3
    DEF StoreRequest, admin_create_store, admin_set_allowed_stores, admin_toggle_store,
        admin_set_default_store, admin_delete_store
<1>2. CASE PeopleRequest
  <2>1. ASSUME NEW w \in waiting, NEW t \in Users, NEW n \in Names, NEW f \in BOOLEAN,
               admin_edit_user(w, t, n, f)
        PROVE  Goal
    <3> DEFINE r == [user[t] EXCEPT !.name = n, !.admin = f]
    <3>1. t \in DOMAIN user /\ user' = [user EXCEPT ![t] = r]
      BY <2>1 DEF admin_edit_user
    <3>2. user[t] \in User
      BY <1>t, <3>1
    <3>3. r.enabled = user[t].enabled
      BY <3>2 DEF User
    <3> QED
      BY <1>r, <3>1, <3>3
  <2>2. ASSUME NEW w \in waiting, NEW t \in Users, NEW n \in Names, NEW f \in BOOLEAN,
               NEW s \in Stores, admin_create_user(w, t, n, f, s)
        PROVE  Goal
    <3>1. CASE n \notin Reserved /\ NameFree(n, t)
      BY <1>w, <2>2, <3>1 DEF admin_create_user, create_user
    <3>2. CASE ~(n \notin Reserved /\ NameFree(n, t))
      BY <1>u, <2>2, <3>2 DEF admin_create_user
    <3> QED
      BY <3>1, <3>2
  <2>3. ASSUME NEW u \in Users, NEW t \in Users, admin_toggle_user(u, t) PROVE Goal
    <3>1. /\ u \in DOMAIN user /\ user[u].admin /\ user[u].enabled /\ t # u
          /\ DOMAIN user' = DOMAIN user /\ user'[u] = user[u]
      BY <2>3 DEF admin_toggle_user, get_session_user
    <3> QED
      BY <3>1 DEF AdminsLeft
  <2>4. ASSUME NEW t \in DOMAIN user, delete_user(t)
        PROVE  /\ DOMAIN user \ {t} \subseteq DOMAIN user'
               /\ \A v \in DOMAIN user \cap DOMAIN user' : user'[v] = user[v]
    BY <2>4 DEF delete_user, Without, Restrict
  <2>5. ASSUME NEW u \in Users, NEW t \in Users, admin_delete_user(u, t) PROVE Goal
    <3>1. /\ u \in DOMAIN user /\ user[u].admin /\ user[u].enabled /\ t # u
          /\ t \in DOMAIN user /\ delete_user(t)
      BY <2>5 DEF admin_delete_user, get_session_user
    <3> QED
      BY <2>4, <3>1 DEF AdminsLeft
  <2>6. ASSUME NEW t \in Users, delete_temp_imap_user(t) PROVE Goal
    <3>1. t \in DOMAIN user /\ user[t].name \in Reserved /\ delete_user(t)
      BY <2>6 DEF delete_temp_imap_user
    <3> QED
      BY <1>g, <2>4, <3>1
  <2>7. ASSUME NEW t \in Users, NEW n \in Names, NEW f \in BOOLEAN, NEW G \in SUBSET Groups,
               oidc_callback(t, n, f, G)
        PROVE  Goal
    <3>1. CASE /\ t \in DOMAIN user
               /\ user' = IF AdminGroup THEN [user EXCEPT ![t].admin = f] ELSE user
      <4> DEFINE r == [user[t] EXCEPT !.admin = f]
      <4>1. user[t] \in User
        BY <1>t, <3>1
      <4>2. r.enabled = user[t].enabled
        BY <4>1 DEF User
      <4> QED
        BY <1>r, <1>u, <3>1, <4>2
    <3>2. ASSUME NEW s \in Stores,
                 IF NameFree(n, t)
                 THEN user' = WithRow(user, t, NewUser(n, f, TRUE, s)) ELSE user' = user
          PROVE  Goal
      BY <1>w, <1>u, <3>2
    <3> QED
      BY <2>7, <3>1, <3>2 DEF oidc_callback
  <2>8. ASSUME NEW t \in Users, NEW n \in Names, NEW A, NEW s \in Stores,
               create_temp_imap_user(t, n, A, s)
        PROVE  Goal
    BY <1>w, <2>8 DEF create_temp_imap_user
  <2> QED
    BY <1>2, <2>1, <2>2, <2>3, <2>5, <2>6, <2>7, <2>8 DEF PeopleRequest
<1>3. ASSUME NEW t \in Users, NEW s \in Stores, NEW R \in SUBSET Users, lifespan(t, s, R)
      PROVE  Goal
  <2> DEFINE U == ensure_admin_exists(t, s)
  <2>1. /\ DOMAIN user \subseteq DOMAIN U /\ \A u \in DOMAIN user : U[u] = user[u]
    BY DEF ensure_admin_exists, WithRow
  <2>2. /\ user' = Restrict(U, DOMAIN U \ R)
        /\ R \subseteq {u \in DOMAIN user : user[u].name \in Reserved}
    BY <1>3 DEF lifespan
  <2> HIDE DEF U
  <2>3. DOMAIN user' = DOMAIN U \ R /\ \A u \in DOMAIN user' : user'[u] = U[u]
    BY <2>2 DEF Restrict
  <2> QED
    BY <1>g, <2>1, <2>2, <2>3
<1> QED
  BY <1>1, <1>2, <1>3, <1>u, PeopleLeftAlone DEF Next, EstateRequest, Boot

(* Enabled administrators run out only by a change of role, or when the    *)
(* boot retires one with a reserved name: never by a toggle or a deletion. *)
THEOREM AdminsLeaveByRole == Spec => LastAdminLeavesByRole
<1>1. ASSUME EstateInv, [Next]_vars
      PROVE  [AdminsLeft(user) /\ ~AdminsLeft(user') =>
                \E u \in DOMAIN user :
                  /\ user[u].admin
                  /\ IF u \in DOMAIN user' THEN ~user'[u].admin
                                           ELSE user[u].name \in Reserved]_evars
  <2>1. CASE UNCHANGED vars
    BY <2>1 DEF vars
  <2>2. CASE Next
    BY <1>1, <2>2, AdminsLeave
  <2> QED
    BY <1>1, <2>1, <2>2
<1> QED
  BY <1>1, EstateTypes, PTL DEF Spec, LastAdminLeavesByRole

(* The home of somebody else stays when t is deleted, also when the two    *)
(* names fold onto one directory.                                          *)
LEMMA OthersHome ==
  ASSUME NEW t \in DOMAIN user, NEW v \in DOMAIN user, v # t, delete_user(t),
         dovecot_home_dir(v) \in home
  PROVE  dovecot_home_dir(v) \in home'
<1>1. home' = remove_dovecot_home(t)
  BY DEF delete_user
<1>2. CASE dovecot_home_dir(v) = dovecot_home_dir(t)
  BY <1>1, <1>2 DEF remove_dovecot_home
<1>3. CASE dovecot_home_dir(v) # dovecot_home_dir(t)
  <2> HIDE DEF dovecot_home_dir
  <2> QED
    BY <1>1, <1>3 DEF remove_dovecot_home
<1> QED
  BY <1>2, <1>3

(* The boot keeps the homes of those who stay, unless the name of one      *)
(* folds onto a reserved directory without being reserved.                 *)
LEMMA BootHomes ==
  ASSUME NEW t \in Users, NEW s \in Stores, NEW R \in SUBSET Users, lifespan(t, s, R),
         NEW v \in DOMAIN user \cap DOMAIN user', dovecot_home_dir(v) \in home
  PROVE  dovecot_home_dir(v) \in home' \/ FoldsOntoReserved(v)
<1> DEFINE U == ensure_admin_exists(t, s)
           H == home \cup {<<s, Fold[AdminName]>> : u \in DOMAIN U \ DOMAIN user}
           h == dovecot_home_dir(v)
<1>1. /\ user' = Restrict(U, DOMAIN U \ R)
      /\ home' = sweep_orphaned_restore_homes(R, cleanup_temp_imap_users(R, H))
  BY DEF lifespan
<1>2. v \in DOMAIN user \ R
  BY <1>1 DEF Restrict
<1>3. h \in H /\ h[2] = Fold[user[v].name]
  BY DEF dovecot_home_dir
<1>4. h \in cleanup_temp_imap_users(R, H)
  <2> HIDE DEF H
  <2> QED
    BY <1>2, <1>3 DEF cleanup_temp_imap_users
<1> DEFINE C == cleanup_temp_imap_users(R, H)
<1> HIDE DEF C, h, U, H
<1>5. CASE Fold[user[v].name] \in {Fold[n] : n \in Reserved} => user[v].name \in Reserved
  <2>1. h \in sweep_orphaned_restore_homes(R, C)
    BY <1>2, <1>3, <1>4, <1>5 DEF sweep_orphaned_restore_homes, C
  <2> QED
    BY <1>1, <2>1 DEF C, h
<1> QED
  BY <1>5 DEF FoldsOntoReserved

(* No step takes the Dovecot home of a user who stays, except a deletion   *)
(* of that user which the database then refuses, and a boot, for a name    *)
(* that folds onto a reserved directory.                                   *)
THEOREM HomesStay == Spec => BystandersKeepTheirHome
<1> DEFINE Kept(v) ==
             \/ dovecot_home_dir(v) \in home => dovecot_home_dir(v) \in home'
             \/ delete_temp_imap_user(v) \/ \E u \in Users : admin_delete_user(u, v)
             \/ /\ FoldsOntoReserved(v)
                /\ \E t \in Users, s \in Stores, R \in SUBSET Users : lifespan(t, s, R)
<1>1. ASSUME Next, NEW v \in DOMAIN user \cap DOMAIN user' PROVE Kept(v)
  <2>1. CASE home \subseteq home'
    BY <2>1
  <2>2. CASE StoreRequest
    BY <2>1, <2>2 DEF StoreRequest, admin_create_store, admin_set_allowed_stores,
       profile_change_store, admin_toggle_store, admin_set_default_store, admin_delete_store,
       MigrationStarts, MigrationEnds
  <2>3. CASE PeopleRequest
    <3>1. ASSUME NEW u \in Users, NEW t \in Users, admin_delete_user(u, t) PROVE Kept(v)
      <4>1. t \in DOMAIN user /\ delete_user(t)
        BY <3>1 DEF admin_delete_user
      <4>2. CASE t = v
        BY <3>1, <4>2
      <4>3. CASE t # v
        BY <4>1, <4>3, OthersHome
      <4> QED
        BY <4>2, <4>3
    <3>2. ASSUME NEW t \in Users, delete_temp_imap_user(t) PROVE Kept(v)
      <4>1. t \in DOMAIN user /\ delete_user(t)
        BY <3>2 DEF delete_temp_imap_user
      <4>2. CASE t = v
        BY <3>2, <4>2
      <4>3. CASE t # v
        BY <4>1, <4>3, OthersHome
      <4> QED
        BY <4>2, <4>3
    <3>3. ASSUME NEW w \in waiting, NEW t \in Users, NEW n \in Names, NEW f \in BOOLEAN,
                 NEW s \in Stores, admin_create_user(w, t, n, f, s)
          PROVE  home \subseteq home'
      <4>1. CASE n \notin Reserved /\ NameFree(n, t)
        BY <3>3, <4>1 DEF admin_create_user, create_user
      <4>2. CASE ~(n \notin Reserved /\ NameFree(n, t))
        BY <3>3, <4>2 DEF admin_create_user
      <4> QED
        BY <4>1, <4>2
    <3>4. ASSUME NEW t, NEW n, NEW f, NEW G, oidc_callback(t, n, f, G) PROVE home' = home
      BY <3>4 DEF oidc_callback
    <3>5. ASSUME NEW t, NEW n, NEW A, NEW s, create_temp_imap_user(t, n, A, s)
          PROVE  home \subseteq home'
      BY <3>5 DEF create_temp_imap_user
    <3>6. ASSUME NEW w, NEW u, NEW t, NEW n, NEW f,
                 admin_edit_user(w, t, n, f) \/ admin_toggle_user(u, t)
          PROVE  home' = home
      BY <3>6 DEF admin_edit_user, admin_toggle_user
    <3> HIDE DEF Kept
    <3> QED
      BY <2>1, <2>3, <3>1, <3>2, <3>3, <3>4, <3>5, <3>6 DEF PeopleRequest
  <2>4. ASSUME NEW t \in Users, NEW s \in Stores, NEW R \in SUBSET Users, lifespan(t, s, R)
        PROVE  Kept(v)
    BY <2>4, BootHomes
  <2> HIDE DEF Kept
  <2> QED
    BY <1>1, <2>1, <2>2, <2>3, <2>4, PeopleLeftAlone DEF Next, EstateRequest, Boot
<1>2. ASSUME [Next]_vars PROVE [\A v \in DOMAIN user \cap DOMAIN user' : Kept(v)]_evars
  <2>1. CASE UNCHANGED vars
    BY <2>1 DEF vars
  <2> HIDE DEF Kept
  <2> QED
    BY <1>1, <1>2, <2>1
<1> QED
  BY <1>2, PTL DEF Spec, BystandersKeepTheirHome
=============================================================================
