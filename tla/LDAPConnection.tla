--------------------------- MODULE LDAPConnection ---------------------------
(***************************************************************************)
(* TRLDAPConnection.m: an LDAP handle and the synchronous requests made on *)
(* it.  The plugin holds at most two: "main", on which it searches, and    *)
(* "auth", on which it binds as the user.                                  *)
(*                                                                         *)
(* Every request takes an argument done: TRUE when libldap and the server  *)
(* completed it, FALSE for every way it can fail without an answer (an     *)
(* immediate error, a timeout followed by an abandon, an unparsable        *)
(* result).  All of these take the same branch in the code.                *)
(***************************************************************************)
EXTENDS Directory

CONSTANTS
  FaultsOn,   \* whether requests may fail without an answer
  Anonymous,  \* the identity of a handle nobody bound
  Service     \* the identity of BindDN

ASSUME ConnectionAssumption ==
  /\ FaultsOn \in BOOLEAN
  /\ Anonymous \notin Accounts
  /\ Service \notin Accounts
  /\ Anonymous # Service

VARIABLE conn  \* conn[h]: the state of handle h

Handles == {"main", "auth"}

Connections == [open : BOOLEAN, tls : BOOLEAN, bound : {Anonymous, Service}]

Closed == [open |-> FALSE, tls |-> FALSE, bound |-> Anonymous]
Fresh  == [open |-> TRUE,  tls |-> FALSE, bound |-> Anonymous]

ConnTypeOK == conn \in [Handles -> Connections]

ConnInit == conn = [h \in Handles |-> Closed]

Completes == IF FaultsOn THEN BOOLEAN ELSE {TRUE}

-----------------------------------------------------------------------------
(* Each request gives the next value of conn.  In connect_ldap a request   *)
(* that fails is followed by the release of the handle, which unbinds it.  *)

Released(h) == [conn EXCEPT ![h] = Closed]

\* The failure is that of an option; the handle is there.  Without a handle
\* the release below unbinds NULL: InitializeFails in AuthLDAP.
InitWithURL(h, done) ==
  conn' = IF done THEN [conn EXCEPT ![h] = Fresh] ELSE Released(h)

\* Referrals, CA file and directory, client certificate, cipher suite: they
\* only matter here in that any of them may fail.
SetOptions(h, done) ==
  conn' = IF done THEN conn ELSE Released(h)

StartTLS(h, done) ==
  conn' = IF done THEN [conn EXCEPT ![h].tls = TRUE] ELSE Released(h)

\* The bind of connect_ldap, as the configured BindDN.
ServiceBind(h, done) ==
  conn' = IF done THEN [conn EXCEPT ![h].bound = Service] ELSE Released(h)

-----------------------------------------------------------------------------
(* What a request returns to the plugin. *)

\* searchWithFilter: for a user.  An error and an empty result both come
\* back as nil; lastObject picks one of several accounts, in server order.
UserSearchResult(u, done) == IF done THEN accounts[u] ELSE {}

\* searchWithFilter: for the entries of a group, nil again being no entry.
GroupSearchResult(S, done) == IF done THEN S \cap present ELSE {}

\* compareDN:withAttribute:value: anything but a true answer is NO.
CompareResult(e, v, done) == done /\ IsMember(e, v)

\* searchWithFilter: with the subtree scope, the entry as its base and the
\* filter "(attribute=v)", in which nothing of v is escaped: nil is NO.
SearchResult(e, v, done) == done /\ IsFoundFrom(e, v)

BindResult_NoEmptyCheck(a, p, done) == done /\ BindAccepted(a, p)

\* bindWithDN:password: as a user.
BindResult(a, p, done) ==
  /\ p # EmptyPassword
  /\ done
  /\ BindAccepted(a, p)
=============================================================================
