------------------------------- MODULE AuthLDAP -------------------------------
(***************************************************************************)
(* The OpenVPN LDAP plugin (auth-ldap.m) between its host, the LDAP server *)
(* and the packet filter.                                                  *)
(*                                                                         *)
(* The host makes one call at a time.  Inside a call every LDAP request    *)
(* and every ioctl is a step of its own, because the directory may change  *)
(* between two of them and the process may die between two of them.        *)
(*                                                                         *)
(* The program counter pc of a call:                                       *)
(*                                                                         *)
(*   start -> connect -> options -> [starttls] -> [servicebind] ->         *)
(*     finduser                           (handle "main")                  *)
(*   verify:      extract -> connect -> ... -> userbind  (handle "auth")   *)
(*   all calls:   [groupsearch -> member*]* -> decide                      *)
(*   connect and disconnect:  [updatetable]                                *)
(*   any failure: cleanup                                                  *)
(*   cleanup -> idle, with the result in ret                               *)
(***************************************************************************)
EXTENDS LDAPConnection, PacketFilter, Sequences, Naturals

CONSTANTS
  Sessions,    \* VPN sessions of the host
  Login,       \* the user name of each session's client, or NoUser
  NoUser,      \* the host has no user name to pass
  NoSession,
  NoAccount,
  NoAddress,   \* the host has no pool address to pass
  NoPassword,  \* the host has no password to pass
  Garbage,     \* a string that is nobody's password
  Configs,     \* the configurations an operator may start the plugin with
  HostPools,   \* whether the host's thread may have an autorelease pool
  CrashOn      \* whether the process may be killed

\* One <Group>: the entries its BaseDN and SearchFilter select, its PFTable,
\* its UseCompareOperation and RFC2307bis.
GroupConfigs ==
  [entries    : SUBSET Entries,
   table      : Tables \cup {NoTable},
   compare    : BOOLEAN,
   rfc2307bis : BOOLEAN]

\* What auth-ldap.m reads of a TRAuthLDAPConfig.
ConfigType ==
  [groups       : Seq(GroupConfigs),
   table        : Tables \cup {NoTable},
   requireGroup : BOOLEAN,
   cr           : BOOLEAN,
   tls          : BOOLEAN,
   bindDN       : BOOLEAN]

ASSUME PluginAssumption ==
  /\ Login \in [Sessions -> Users \cup {NoUser}]
  /\ NoUser \notin Users
  /\ NoSession \notin Sessions
  /\ NoAccount \notin Accounts
  /\ NoAddress \notin Addresses
  /\ NoPassword \notin Passwords \cup {EmptyPassword, Garbage}
  /\ Garbage \notin Passwords \cup {EmptyPassword}
  /\ Configs \subseteq ConfigType
  /\ HostPools \subseteq BOOLEAN
  /\ CrashOn \in BOOLEAN

VARIABLES
  plugin,   \* "down", "pfopen", "flushing" or "up"
  conf,     \* the configuration read last
  toFlush,  \* tables pf_open has still to flush
  hostPool, \* the host's thread has an autorelease pool: the test runner's
            \* has one (tests.m:56), OpenVPN's and testplugin's have none
  phase,    \* phase[s]: how far the host has got with session s
  address,  \* address[s]: the pool address the host gave to session s
  joined,   \* joined[s]: the table in which a connect call put address[s]
  pc, callType, session, given,    \* the call, and the password it passes
  handle,                          \* the handle connect_ldap works on
  account,                         \* the dn of ldapUser
  secret,                          \* the string auth_password points to
  groupIndex, pending, found,      \* find_ldap_group
  ret,                             \* TRUE for OPENVPN_PLUGIN_FUNC_SUCCESS
  changed   \* history: the directory changed since the call began

lifeVars  == <<plugin, conf, toFlush, hostPool>>
hostVars  == <<phase, address, joined>>
callVars  == <<callType, session, given>>
groupVars == <<groupIndex, pending, found>>
localVars == <<handle, account, secret, groupIndex, pending, found, ret>>

vars == <<accounts, members, present, conn, pfOpen, tables, lifeVars, hostVars,
          pc, callVars, localVars, changed>>

-----------------------------------------------------------------------------
(* Configuration. *)

Lines == {"start", "connect", "options", "starttls", "servicebind", "finduser",
          "extract", "userbind", "groupsearch", "member", "decide",
          "updatetable", "cleanup"}

CallTypes == {"verify", "connect", "disconnect"}

\* What a client may send: a password, bare or inside an SCRV1 or CRV1
\* challenge/response string.
PasswordStrings == [text : Passwords \cup {EmptyPassword}, wrapped : BOOLEAN]

Submissions == PasswordStrings \cup {NoPassword}

GroupTables(c) == {c.groups[i].table : i \in DOMAIN c.groups} \ {NoTable}

ConfiguredTables(c) == ({c.table} \cup GroupTables(c)) \ {NoTable}

PFEnabled_DefaultOnly(c) == c.table # NoTable

\* setPFEnabled: is called for every PFTable key.
PFEnabled(c) == ConfiguredTables(c) # {}

FlushOrder_DefaultOnly(c) == <<c.table>>

\* The default table, then the groups' from the last to the first, which is
\* the order of objectEnumerator.  NoTable stands for a missing PFTable key.
FlushOrder(c) ==
  LET n == Len(c.groups)
  IN  <<c.table>> \o [i \in 1..n |-> c.groups[n + 1 - i].table]

-----------------------------------------------------------------------------
(* Initial state. *)

CallInit ==
  /\ pc = "idle"
  /\ callType = "verify" /\ session = NoSession /\ given = NoPassword
  /\ handle = "main" /\ account = NoAccount /\ secret = NoPassword
  /\ groupIndex = 1 /\ pending = {} /\ found = 0
  /\ ret = FALSE
  /\ changed = FALSE

Init ==
  /\ DirInit /\ ConnInit /\ PFInit
  /\ plugin = "down" /\ conf \in Configs /\ toFlush = <<>>
  /\ hostPool \in HostPools
  /\ phase = [s \in Sessions |-> "none"]
  /\ address = [s \in Sessions |-> NoAddress]
  /\ joined = [s \in Sessions |-> NoTable]
  /\ CallInit

-----------------------------------------------------------------------------
(* Life of the plugin. *)

\* openvpn_plugin_open_v1 up to pf_open.  A configuration that does not parse
\* leaves nothing behind.
OpenConfig ==
  /\ plugin = "down"
  /\ conf' \in Configs
  /\ IF PFEnabled(conf')
     THEN plugin' = "pfopen" /\ toFlush' = FlushOrder(conf')
     ELSE plugin' = "up" /\ toFlush' = <<>>
  /\ UNCHANGED <<hostPool, dirVars, conn, pfVars, hostVars, pc, callVars, localVars,
                 changed>>

OpenDevice ==
  /\ plugin = "pfopen"
  /\ \E done \in Completes :
       /\ pfOpen' = done
       /\ plugin' = IF done THEN "flushing" ELSE "down"
       /\ toFlush' = IF done THEN toFlush ELSE <<>>
  /\ UNCHANGED <<hostPool, dirVars, conn, tables, conf, hostVars, pc, callVars,
                 localVars, changed>>

StillToFlush(done) == IF done THEN Tail(toFlush) ELSE <<>>

\* pf_open is done with the default table and turns to the groups.
AtGroups ==
  /\ plugin = "flushing"
  /\ conf.groups # <<>>
  /\ Len(toFlush) = Len(conf.groups)

\* The enumerator of the groups is autoreleased, which takes a pool, and
\* openvpn_plugin_open_v1 makes none.
NoPool == AtGroups /\ ~hostPool

\* One table of pf_open, if there is one.  The first failure closes /dev/pf
\* and fails the open.
FlushNext ==
  /\ plugin = "flushing"
  /\ toFlush # <<>>
  /\ ~NoPool
  /\ \E done \in Completes :
       /\ IF Head(toFlush) = NoTable
          THEN done /\ UNCHANGED tables
          ELSE tables' = Flushed(Head(toFlush), done)
       /\ toFlush' = StillToFlush(done)
       /\ pfOpen' = done
       /\ plugin' = CASE ~done -> "down"
                      [] done /\ toFlush' = <<>> -> "up"
                      [] OTHER -> "flushing"
  /\ UNCHANGED <<hostPool, dirVars, conn, conf, hostVars, pc, callVars,
                 localVars, changed>>

\* The locals of a call are gone.
CallOver ==
  /\ pc' = "idle"
  /\ callType' = "verify" /\ session' = NoSession /\ given' = NoPassword
  /\ handle' = "main" /\ account' = NoAccount /\ secret' = NoPassword
  /\ groupIndex' = 1 /\ pending' = {} /\ found' = 0
  /\ ret' = FALSE
  /\ changed' = FALSE

\* Everything the process and the host hold is gone; the kernel's tables and
\* the directory are not.
Vanish ==
  /\ plugin' = "down" /\ toFlush' = <<>> /\ pfOpen' = FALSE
  /\ conn' = [h \in Handles |-> Closed]
  /\ phase' = [s \in Sessions |-> "none"]
  /\ address' = [s \in Sessions |-> NoAddress]
  /\ joined' = [s \in Sessions |-> NoTable]
  /\ CallOver
  /\ UNCHANGED <<hostPool, dirVars, tables, conf>>

\* The assertion at TRAutoreleasePool.m:203 ends the process.
AbortWithoutPool == NoPool /\ Vanish

\* openvpn_plugin_close_v1, once the host has no connected session.
Close ==
  /\ plugin = "up"
  /\ pc = "idle"
  /\ \A s \in Sessions : phase[s] # "connected"
  /\ Vanish

Crash == CrashOn /\ plugin # "down" /\ Vanish

-----------------------------------------------------------------------------
(* The host: the calls of testplugin.c, for several sessions. *)

Call(s, type) ==
  /\ plugin = "up"
  /\ pc = "idle"
  /\ pc' = "start"
  /\ callType' = type
  /\ session' = s
  /\ UNCHANGED <<dirVars, conn, pfVars, lifeVars, phase, joined, localVars,
                 changed>>

CallVerify(s) ==
  /\ phase[s] = "none"
  /\ given' \in Submissions
  /\ Call(s, "verify")
  /\ UNCHANGED address

\* The host gives a pool address nobody has, if it has a pool at all.
FreeAddresses == Addresses \ {address[s] : s \in Sessions}

CallConnect(s) ==
  /\ phase[s] = "authed"
  /\ \E a \in FreeAddresses \cup {NoAddress} :
       address' = [address EXCEPT ![s] = a]
  /\ Call(s, "connect")
  /\ UNCHANGED given

CallDisconnect(s) ==
  /\ phase[s] = "connected"
  /\ Call(s, "disconnect")
  /\ UNCHANGED <<given, address>>

\* What the host makes of the result: a session that was refused, or that has
\* left, is over and its address is free again.
NextPhase(type, ok) ==
  CASE type = "verify"  /\ ok -> "authed"
    [] type = "connect" /\ ok -> "connected"
    [] OTHER -> "none"

-----------------------------------------------------------------------------
(* openvpn_plugin_func_v1. *)

user == Login[session]

\* setRDN: makes the name the client gave the rdn of the entry that was found.
ldapUser == [dn |-> account, rdn |-> user]

Goto(line) == pc' = line

\* strlen of the user name comes before the test for a missing one.
CheckUsername ==
  /\ pc = "start"
  /\ \/ /\ user # NoUser
        /\ Goto("connect")
        /\ handle' = "main"
        /\ UNCHANGED <<dirVars, conn, pfVars, lifeVars, hostVars, callVars,
                       account, secret, groupVars, ret, changed>>
     \/ /\ user = NoUser
        /\ Vanish

-----------------------------------------------------------------------------
(* connect_ldap, for the handle in handle. *)

AfterConnect == IF handle = "main" THEN "finduser" ELSE "userbind"

AfterTLS_NoBind == AfterConnect

AfterTLS == IF conf.bindDN THEN "servicebind" ELSE AfterConnect

AfterOptions_BindFirst == AfterTLS

AfterOptions == IF conf.tls THEN "starttls" ELSE AfterTLS

\* After a request of connect_ldap: on failure the handle is released and nil
\* comes back, upon which each of the two callers gives up.
ConnectStep(done, next) ==
  /\ Goto(IF done THEN next ELSE "cleanup")
  /\ UNCHANGED <<dirVars, pfVars, lifeVars, hostVars, callVars, localVars,
                 changed>>

\* Without a handle, initWithURL: releases the connection and dealloc unbinds
\* NULL, which libldap asserts against.
InitializeFails == FaultsOn /\ pc = "connect" /\ Vanish

OpenConnection ==
  /\ pc = "connect"
  /\ \E done \in Completes :
       InitWithURL(handle, done) /\ ConnectStep(done, "options")

ConfigureConnection ==
  /\ pc = "options"
  /\ \E done \in Completes :
       SetOptions(handle, done) /\ ConnectStep(done, AfterOptions)

SecureConnection ==
  /\ pc = "starttls"
  /\ \E done \in Completes :
       StartTLS(handle, done) /\ ConnectStep(done, AfterTLS)

BindConnection ==
  /\ pc = "servicebind"
  /\ \E done \in Completes :
       ServiceBind(handle, done) /\ ConnectStep(done, AfterConnect)

-----------------------------------------------------------------------------
(* find_ldap_user, and the dispatch on the type of the call. *)

FindGroup == IF conf.groups = <<>> THEN "decide" ELSE "groupsearch"

Dispatch ==
  CASE callType = "verify" /\ given # NoPassword -> "extract"
    [] callType # "verify" /\ address[session] # NoAddress -> FindGroup
    [] OTHER -> "cleanup"

FindUser ==
  /\ pc = "finduser"
  /\ \E done \in Completes :
       LET matches == UserSearchResult(user, done) IN
       /\ \/ /\ matches # {}
             /\ account' \in matches
             /\ Goto(Dispatch)
          \/ /\ matches = {}
             /\ Goto("cleanup")
             /\ UNCHANGED account
  /\ UNCHANGED <<dirVars, conn, pfVars, lifeVars, hostVars, callVars, handle,
                 secret, groupVars, ret, changed>>

-----------------------------------------------------------------------------
(* handle_auth_user_pass_verify and auth_ldap_user. *)

\* The strings a bind may send for what the client gave.  With PasswordIsCR
\* the extracted password lives in a block that has ended when it is used:
\* its bytes may be anything by then.
Secrets(g) ==
  CASE conf.cr -> {g.text, Garbage}
    [] ~conf.cr /\ g.wrapped -> {Garbage}
    [] OTHER -> {g.text}

ExtractPassword ==
  /\ pc = "extract"
  /\ \/ /\ conf.cr /\ ~given.wrapped
        /\ Goto("cleanup")
        /\ UNCHANGED <<secret, handle>>
     \/ /\ conf.cr => given.wrapped
        /\ secret' \in Secrets(given)
        /\ handle' = "auth"
        /\ Goto("connect")
  /\ UNCHANGED <<dirVars, conn, pfVars, lifeVars, hostVars, callVars, account,
                 groupVars, ret, changed>>

AuthReleased_OnSuccess(ok) == IF ok THEN Released("auth") ELSE conn

\* auth_ldap_user releases its connection whatever the bind came to.
AuthReleased(ok) == Released("auth")

\* The bind as the user, on the second connection, which is then released.
UserBind ==
  /\ pc = "userbind"
  /\ \E done \in Completes :
       LET ok == BindResult(account, secret, done) IN
       /\ conn' = AuthReleased(ok)
       /\ Goto(IF ok THEN FindGroup ELSE "cleanup")
  /\ handle' = "main"
  /\ UNCHANGED <<dirVars, pfVars, lifeVars, hostVars, callVars, account, secret,
                 groupVars, ret, changed>>

-----------------------------------------------------------------------------
(* find_ldap_group. *)

AfterSearch_Retry(S) == IF S = {} THEN "groupsearch" ELSE "member"

AfterSearch(S) == IF S = {} THEN "decide" ELSE "member"

\* The search for the next group; nil, an error or no entry, ends the walk.
SearchGroup ==
  /\ pc = "groupsearch"
  /\ \E done \in Completes :
       /\ pending' = GroupSearchResult(conf.groups[groupIndex].entries, done)
  /\ Goto(AfterSearch(pending'))
  /\ UNCHANGED <<dirVars, conn, pfVars, lifeVars, hostVars, callVars, handle,
                 account, secret, groupIndex, found, ret, changed>>

LastGroup_OffByOne == groupIndex > Len(conf.groups)

LastGroup == groupIndex = Len(conf.groups)

SearchValue_AlwaysDN(g, entry) == entry.dn

\* The value a group's member attribute should have for an entry.
SearchValue(g, entry) == IF g.rfc2307bis THEN entry.dn ELSE entry.rdn

MemberCheckResult(g, e, entry, done) ==
  IF g.compare THEN CompareResult(e, SearchValue(g, entry), done)
  ELSE SearchResult(e, SearchValue(g, entry), done)

\* One entry of the current group.  The loop over the entries does not stop at
\* a match; the loop over the groups does.
CheckMember ==
  /\ pc = "member"
  /\ \E e \in pending, done \in Completes :
       LET matches == MemberCheckResult(conf.groups[groupIndex], e, ldapUser, done) IN
       /\ pending' = pending \ {e}
       /\ found' = IF matches THEN groupIndex ELSE found
  /\ \/ /\ pending' # {}
        /\ UNCHANGED <<pc, groupIndex>>
     \/ /\ pending' = {}
        /\ found' = 0 /\ ~LastGroup
        /\ groupIndex' = groupIndex + 1
        /\ Goto("groupsearch")
     \/ /\ pending' = {}
        /\ found' # 0 \/ LastGroup
        /\ Goto("decide")
        /\ UNCHANGED groupIndex
  /\ UNCHANGED <<dirVars, conn, pfVars, lifeVars, hostVars, callVars, handle,
                 account, secret, ret, changed>>

-----------------------------------------------------------------------------
(* The verdict, and handle_client_connect_disconnect. *)

Refused == conf.groups # <<>> /\ found = 0 /\ conf.requireGroup

ChosenTable == IF found = 0 THEN conf.table ELSE conf.groups[found].table

Decide ==
  /\ pc = "decide"
  /\ IF ~Refused /\ callType # "verify" /\ ChosenTable # NoTable
     THEN Goto("updatetable") /\ UNCHANGED ret
     ELSE Goto("cleanup") /\ ret' = ~Refused
  /\ UNCHANGED <<dirVars, conn, pfVars, lifeVars, hostVars, callVars, handle,
                 account, secret, groupVars, changed>>

\* pf_client_connect_disconnect, for an address that parses.
JoinTable(done) ==
  /\ callType = "connect"
  /\ AddAddress(ChosenTable, address[session], done)
  /\ ret' = AddResult(ChosenTable, address[session], done)
  /\ joined' = [joined EXCEPT ![session] = IF ret' THEN ChosenTable ELSE @]

LeaveTable(done) ==
  /\ callType = "disconnect"
  /\ DeleteAddress(ChosenTable, address[session], done)
  /\ ret' = DeleteResult(ChosenTable, address[session], done)
  /\ joined' = [joined EXCEPT ![session] =
                  IF ret' /\ @ = ChosenTable THEN NoTable ELSE @]

UpdateTable ==
  /\ pc = "updatetable"
  /\ \E done \in Completes :
       /\ JoinTable(done) \/ LeaveTable(done)
  /\ Goto("cleanup")
  /\ UNCHANGED <<dirVars, conn, pfOpen, lifeVars, phase, address, callVars,
                 handle, account, secret, groupVars, changed>>

\* The cleanup label, and the host taking the result.
Return ==
  /\ pc = "cleanup"
  /\ conn' = Released("main")
  /\ LET next == NextPhase(callType, ret)
         Keep(f, default) ==
           [f EXCEPT ![session] = IF next = "connected" THEN @ ELSE default]
     IN  /\ phase' = [phase EXCEPT ![session] = next]
         /\ address' = Keep(address, NoAddress)
         /\ joined' = Keep(joined, NoTable)
  /\ CallOver
  /\ UNCHANGED <<dirVars, pfVars, lifeVars>>

-----------------------------------------------------------------------------
(* The specification. *)

\* An administrator at work, whatever the plugin is doing.
DirectoryChange ==
  /\ Administer
  /\ changed' = (pc # "idle")
  /\ UNCHANGED <<conn, pfVars, lifeVars, hostVars, pc, callVars, localVars>>

OpenPF == OpenDevice \/ FlushNext \/ AbortWithoutPool

Open == OpenConfig \/ OpenPF

ConnectLDAP ==
  \/ OpenConnection
  \/ ConfigureConnection
  \/ SecureConnection
  \/ BindConnection

FindLDAPGroup == SearchGroup \/ CheckMember

\* The steps of openvpn_plugin_func_v1.
CallStep ==
  \/ CheckUsername
  \/ ConnectLDAP
  \/ FindUser
  \/ ExtractPassword
  \/ UserBind
  \/ FindLDAPGroup
  \/ Decide
  \/ UpdateTable
  \/ Return

HostStep ==
  \E s \in Sessions : CallVerify(s) \/ CallConnect(s) \/ CallDisconnect(s)

Next ==
  \/ Open \/ Close \/ HostStep \/ CallStep
  \/ DirectoryChange \/ InitializeFails \/ Crash

Spec == Init /\ [][Next]_vars

\* Every step but StartTLS comes to an end by itself: initWithURL: limits the
\* connecting, each other request is given a timeout, and ioctls return.  The
\* answer to StartTLS is waited for without a limit (TRLDAPConnection.m:163).
TimedStep == pc # "starttls" /\ CallStep

\* The plugin's own code keeps running once it was entered.  Nothing is
\* assumed of the server's answer to StartTLS, of the host, of the
\* administrator or of a crash.
FairSpec == Spec /\ WF_vars(TimedStep) /\ WF_vars(OpenPF)
=============================================================================
