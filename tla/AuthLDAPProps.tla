---------------------------- MODULE AuthLDAPProps ----------------------------
(***************************************************************************)
(* What should be true of AuthLDAP.                                        *)
(***************************************************************************)
EXTENDS AuthLDAP, FiniteSets

(***************************************************************************)
(* Type invariant.  Its one hard part is groupIndex: the walk over the     *)
(* groups in find_ldap_group never runs past the last one.                 *)
(***************************************************************************)
TypeOK ==
  /\ DirTypeOK /\ ConnTypeOK /\ PFTypeOK
  /\ plugin \in {"down", "pfopen", "flushing", "up"}
  /\ conf \in Configs
  /\ toFlush \in Seq(Tables \cup {NoTable})
  /\ hostPool \in BOOLEAN
  /\ phase \in [Sessions -> {"none", "authed", "connected"}]
  /\ address \in [Sessions -> Addresses \cup {NoAddress}]
  /\ joined \in [Sessions -> Tables \cup {NoTable}]
  /\ pc \in Lines \cup {"idle"}
  /\ callType \in CallTypes
  /\ session \in Sessions \cup {NoSession}
  /\ given \in Submissions
  /\ handle \in Handles
  /\ account \in Accounts \cup {NoAccount}
  /\ secret \in Passwords \cup {EmptyPassword, NoPassword, Garbage}
  /\ groupIndex \in {1} \cup DOMAIN conf.groups
  /\ pending \in SUBSET Entries
  /\ found \in {0} \cup DOMAIN conf.groups
  /\ ret \in BOOLEAN
  /\ changed \in BOOLEAN

-----------------------------------------------------------------------------
(* What the configuration and the directory entitle an entry with a user's *)
(* name to, read as the sample configuration auth-ldap.conf explains it.   *)

\* RFC2307bis: "Match full user DN if true, uid only if false."
MemberValue(g, entry) == IF g.rfc2307bis THEN entry.dn ELSE entry.rdn

Lists(i, entry) ==
  \E e \in conf.groups[i].entries : IsMember(e, MemberValue(conf.groups[i], entry))

MatchingGroups(entry) == {i \in DOMAIN conf.groups : Lists(i, entry)}

Entitled(entry) ==
  conf.requireGroup /\ conf.groups # <<>> => MatchingGroups(entry) # {}

\* Group i takes nobody else's listing for that of the entry: it compares, or
\* the filter of its searches matches nothing but the entry's value and they
\* meet no entries other than the group's.
Discerns(i, entry) ==
  LET g == conf.groups[i]
      v == MemberValue(g, entry)
  IN  \/ g.compare
      \/ /\ FilterMatches[v] \subseteq {v}
         /\ \A e \in g.entries : Below[e] \subseteq g.entries

\* Nor does it miss the entry's own.
Recognises(i, entry) ==
  LET g == conf.groups[i]
      v == MemberValue(g, entry)
  IN  Discerns(i, entry) /\ (g.compare \/ v \in FilterMatches[v])

\* A group whose claim to list the entry cannot be wrong, or one that may err.
ListsOrErrs(i, entry) == Lists(i, entry) \/ ~Discerns(i, entry)

\* The first of some groups in configuration order, or 0.
First(matching) ==
  IF matching = {}
  THEN 0
  ELSE CHOOSE i \in matching : \A j \in matching : i <= j

FirstMatching(entry) == First(MatchingGroups(entry))

\* It decides on the table.
RightfulTable(entry) ==
  LET first == FirstMatching(entry) IN
  IF first = 0 THEN conf.table ELSE conf.groups[first].table

\* Every configured group search finds an entry.
AllGroupsPresent ==
  \A i \in DOMAIN conf.groups : conf.groups[i].entries \cap present # {}

Succeeds(type) == pc = "cleanup" /\ callType = type /\ ret

-----------------------------------------------------------------------------
(* Safety of the verdicts. *)

(***************************************************************************)
(* A call on an unchanged directory fails closed: whatever request fails,  *)
(* openvpn_plugin_func_v1 reports success only for an account the user     *)
(* search returns, that has the password the client sent (verify) and the  *)
(* required membership, and a connect puts an address in a table other     *)
(* than the default one only for a member of a group with that table.  But *)
(* a group with UseCompareOperation false takes a non-member for a member  *)
(* if the filter made of the user's value matches more than that, or an    *)
(* entry under the group's lists the user: that group has to discern.      *)
(***************************************************************************)
NoFalseAdmit ==
  pc = "cleanup" /\ ret /\ ~changed =>
    /\ account \in accounts[user]
    /\ conf.requireGroup /\ conf.groups # <<>> =>
         \E i \in DOMAIN conf.groups : ListsOrErrs(i, ldapUser)
    /\ callType = "verify" => given.text = PasswordOf[account]
    /\ callType = "connect" /\ joined[session] \notin {NoTable, conf.table} =>
         \E i \in DOMAIN conf.groups :
           ListsOrErrs(i, ldapUser) /\ conf.groups[i].table = joined[session]

Recognised ==
  account # NoAccount => \A i \in DOMAIN conf.groups : Recognises(i, ldapUser)

ProperPassword ==
  /\ given # NoPassword
  /\ given.text = PasswordOf[account]
  /\ given.wrapped = conf.cr
  /\ secret = given.text

(***************************************************************************)
(* Where no request fails, the directory is unchanged and every group      *)
(* exists, the result is exactly what the configuration says: a verify     *)
(* succeeds if and only if the password is right and the account is        *)
(* entitled, a connect joins the table of the first matching group, and a  *)
(* disconnect leaves it.  (This is about handle_auth_user_pass_verify and  *)
(* handle_client_connect_disconnect.  It supposes that each group that     *)
(* searches for members recognises the user's value, see MemberBySearch,   *)
(* and, for PasswordIsCR, that the extracted password was still readable.) *)
(***************************************************************************)
VerdictExact ==
  pc = "cleanup" /\ ~changed /\ AllGroupsPresent /\ Recognised =>
    LET known == account # NoAccount /\ Entitled(ldapUser)
        placed == address[session] # NoAddress
    IN  /\ account = NoAccount <=> accounts[user] = {}
        /\ callType = "verify" => (ret <=> known /\ ProperPassword)
        /\ callType # "verify" => (ret <=> known /\ placed)
        /\ Succeeds("connect") => joined[session] = RightfulTable(ldapUser)
        /\ Succeeds("disconnect") => joined[session] = NoTable

-----------------------------------------------------------------------------
(* Packet filter tables. *)

(***************************************************************************)
(* A session whose connect call put its address in a table stays in that   *)
(* table until its own disconnect: no call for another session, no failed  *)
(* call and no reopening of the plugin takes a connected client out of the *)
(* table its rules depend on (pf_client_connect_disconnect, pf_open).      *)
(***************************************************************************)
ConnectedIsListed ==
  \A s \in Sessions :
    joined[s] # NoTable => address[s] \in tables[joined[s]]

(***************************************************************************)
(* Once the plugin is open, the tables of its configuration hold nobody    *)
(* but the sessions that joined them: pf_open flushed what an earlier      *)
(* process left, and every disconnect removes what the connect added       *)
(* (README.md:9).                                                          *)
(***************************************************************************)
NoOrphan ==
  plugin = "up" =>
    \A t \in ConfiguredTables(conf) : \A a \in tables[t] :
      \E s \in Sessions : address[s] = a /\ joined[s] = t

(***************************************************************************)
(* The inductive invariant that carries TypeOK and ConnectedIsListed.      *)
(***************************************************************************)

\* The host never gives one pool address to two sessions.
AddressesUnique ==
  \A s, r \in Sessions :
    address[s] = address[r] /\ address[s] # NoAddress => s = r

\* Only a connected session has joined a table, or the one whose successful
\* connect call is about to return.
JoinedIsConnected ==
  \A s \in Sessions :
    joined[s] # NoTable =>
      \/ phase[s] = "connected"
      \/ pc = "cleanup" /\ session = s /\ NextPhase(callType, ret) = "connected"

\* Calls and members of tables exist only while the plugin is open.
QuietWhenDown ==
  plugin # "up" =>
    /\ pc = "idle"
    /\ \A s \in Sessions : joined[s] = NoTable

\* An open plugin with a configured table holds /dev/pf.
DeviceReady == plugin = "up" /\ PFEnabled(conf) => pfOpen

\* What each line of the call may rely on.
CallContext ==
  /\ pc = "idle" => handle = "main" /\ groupIndex = 1 /\ found = 0
  /\ pc # "idle" => session \in Sessions
  /\ pc \in {"extract", "userbind"} \/ handle = "auth" => callType = "verify"
  /\ pc \notin {"idle", "start"} => user # NoUser
  /\ pc = "extract" => given \in PasswordStrings
  /\ pc \in {"groupsearch", "member"} => groupIndex \in DOMAIN conf.groups
  /\ pc \in {"groupsearch", "member", "decide"} /\ callType # "verify" =>
       address[session] # NoAddress
  /\ pc = "updatetable" =>
       /\ address[session] # NoAddress
       /\ callType # "verify"
       /\ ChosenTable # NoTable

IInv ==
  /\ TypeOK
  /\ ConnectedIsListed
  /\ AddressesUnique
  /\ JoinedIsConnected
  /\ QuietWhenDown
  /\ DeviceReady
  /\ CallContext

(***************************************************************************)
(* The inductive invariant that carries NoFalseAdmit: what the call has    *)
(* established at each of its lines.                                       *)
(***************************************************************************)

\* The user search has returned the account.
AccountLines == {"extract", "groupsearch", "member", "decide", "updatetable"}

\* The bind as the user has succeeded, if the call is a verify.
VerifiedLines == {"groupsearch", "member", "decide"}

\* What a check of each entry of group i, without a failure, comes to.
Answers(i, entry) ==
  \E e \in conf.groups[i].entries : MemberCheckResult(conf.groups[i], e, entry, TRUE)

\* Whatever the directory does.
AdmitControl ==
  /\ pc # "cleanup" => ~ret
  /\ callType = "connect" => phase[session] = "authed"
  /\ pc = "userbind" => handle = "auth"
  /\ handle = "auth" => secret \in {given.text, Garbage}
  /\ pc = "member" => pending \subseteq conf.groups[groupIndex].entries
  /\ pc \notin {"member", "decide", "updatetable", "cleanup"} => found = 0
  /\ pc = "updatetable" => ~Refused

\* As long as the directory is what it was when the call began.
AdmitFacts ==
  ~changed =>
    /\ handle = "auth" \/ pc \in AccountLines => account \in accounts[user]
    /\ callType = "verify" /\ pc \in VerifiedLines =>
         given.text = PasswordOf[account]
    /\ found # 0 => Answers(found, ldapUser)

AdmitInv == AdmitControl /\ AdmitFacts /\ NoFalseAdmit

-----------------------------------------------------------------------------
(* LDAP handles. *)

Ready ==
  [open |-> TRUE, tls |-> conf.tls,
   bound |-> IF conf.bindDN THEN Service ELSE Anonymous]

(***************************************************************************)
(* No path leaks a handle: none is open between two calls, and the second  *)
(* one is open only while the user's password is being checked             *)
(* (connect_ldap, auth_ldap_user, cleanup).                                *)
(***************************************************************************)
NoConnectionLeak ==
  /\ pc \in {"idle", "start"} => \A h \in Handles : ~conn[h].open
  /\ handle = "main" \/ pc = "cleanup" => ~conn["auth"].open

(***************************************************************************)
(* No bind, neither BindDN's nor the user's, is sent before StartTLS when  *)
(* TLSEnable is set (connect_ldap).                                        *)
(***************************************************************************)
CredentialsProtected ==
  pc \in {"servicebind", "userbind"} =>
    /\ conn[handle].open
    /\ conn[handle].tls = conf.tls

(***************************************************************************)
(* Searches and compares run on a connection that is open, protected and   *)
(* bound exactly as configured, whatever the bind as the user, between the *)
(* user search and the group search, came to (auth_ldap_user: "Create a    *)
(* second connection for binding").                                        *)
(***************************************************************************)
SearchesAsConfigured ==
  pc \in {"finduser", "groupsearch", "member"} => conn["main"] = Ready

(***************************************************************************)
(* The inductive invariant that carries the three: the state of each       *)
(* handle at each line of the call.                                        *)
(***************************************************************************)
HandleAt(line) ==
  CASE line \in {"idle", "start", "connect"} -> Closed
    [] line \in {"options", "starttls"}      -> Fresh
    [] line = "servicebind" -> [Fresh EXCEPT !.tls = conf.tls]
    [] OTHER -> Ready

ConnectLines == {"connect", "options", "starttls", "servicebind"}

ConnInv ==
  /\ pc # "cleanup" => conn[handle] = HandleAt(pc)
  /\ handle = "main" \/ pc = "cleanup" => conn["auth"] = Closed
  /\ handle = "auth" /\ pc # "cleanup" => conn["main"] = Ready
  /\ handle = "auth" => pc \in ConnectLines \cup {"userbind", "cleanup"}
  /\ pc = "userbind" => handle = "auth"
  /\ pc = "starttls" => conf.tls
  /\ pc = "servicebind" => conf.bindDN

-----------------------------------------------------------------------------
(* Refinement. *)

\* The call takes effect when its result is settled; the host learns of it
\* when it returns.
settled == pc = "cleanup"

phaseBar ==
  IF settled
  THEN [phase EXCEPT ![session] = NextPhase(callType, ret)]
  ELSE phase

addressBar ==
  [s \in Sessions |->
     IF phaseBar[s] = "connected" THEN address[s] ELSE NoAddress]

Abstract ==
  INSTANCE AccessControl
    WITH up <- (plugin = "up"), phase <- phaseBar, address <- addressBar

\* What the refinement rests on, with IInv and AdmitControl: the host has not
\* got further with the session than the call under way.
PhaseBefore(type) ==
  CASE type = "verify"  -> "none"
    [] type = "connect" -> "authed"
    [] OTHER            -> "connected"

CallPhase == pc # "idle" => phase[session] = PhaseBefore(callType)

(***************************************************************************)
(* The plugin implements AccessControl: seen through results and tables,   *)
(* its calls are atomic, whatever fails, changes or dies under them.       *)
(***************************************************************************)
ImplementsAccessControl == Abstract!Spec

-----------------------------------------------------------------------------
(* Liveness, under FairSpec. *)

(***************************************************************************)
(* The host, which does nothing else meanwhile, gets every call back:      *)
(* openvpn_plugin_func_v1 returns (or the process is gone) however the     *)
(* requests fail and however the directory changes under them, unless a    *)
(* server leaves a StartTLS request without an answer for ever; and        *)
(* openvpn_plugin_open_v1 comes to an end, with the plugin up or down.     *)
(***************************************************************************)
EntryPointsReturn ==
  /\ []<>(pc # "starttls") => (pc # "idle" ~> pc = "idle")
  /\ plugin \in {"pfopen", "flushing"} ~> plugin \in {"up", "down"}

-----------------------------------------------------------------------------
(* Statements of the repository that runs refute. *)

(***************************************************************************)
(* auth-ldap.m:384-388: "we are expected to perform 'first match'".  On an *)
(* unchanged directory, without a failed request, find_ldap_group returns  *)
(* the first configured group that lists the account, if there is one.     *)
(***************************************************************************)
FirstMatch ==
  pc = "decide" /\ ~changed => found = FirstMatching(ldapUser)

(***************************************************************************)
(* auth-ldap.conf:55-58: UseCompareOperation false is to "use a Search     *)
(* operation to determine group membership".  On an unchanged directory in *)
(* which every group exists, without a failed request, find_ldap_group     *)
(* returns the first configured group that lists the user.                 *)
(***************************************************************************)
MemberBySearch ==
  pc = "decide" /\ ~changed /\ AllGroupsPresent => found = FirstMatching(ldapUser)

(***************************************************************************)
(* TRAutoreleasePool.m:203, assert(stack != NULL): wherever pf_open        *)
(* autoreleases an object, the thread has an autorelease pool.             *)
(***************************************************************************)
PoolAvailable == AtGroups => hostPool
=============================================================================
