---------------------------- MODULE AuthLDAPProofs ----------------------------
(***************************************************************************)
(* Proofs about AuthLDAP, for every value of its constants: type           *)
(* correctness, and that a connected client stays in the packet filter     *)
(* table it joined.  Both follow from the inductive invariant IInv.  The   *)
(* second part is about the LDAP handles of a call: that they are          *)
(* released, and what is sent on them, from ConnInv.  The third part is    *)
(* that a call on an unchanged directory fails closed (NoFalseAdmit),      *)
(* whichever requests fail: it rests on IInv and on what the call has      *)
(* established at each of its lines, AdmitInv.  The fourth is that the     *)
(* plugin implements AccessControl, which needs the same facts, and the    *)
(* last one what holds where no request fails and nobody changes the       *)
(* directory.                                                              *)
(***************************************************************************)
EXTENDS AuthLDAPProps, TLAPS

-----------------------------------------------------------------------------
(* Facts about the operators. *)

(***************************************************************************)
(* A configuration chosen by the operator has the fields auth-ldap.m reads.*)
(***************************************************************************)
LEMMA ConfigShape ==
  ASSUME NEW c \in Configs
  PROVE  /\ c.groups \in Seq(GroupConfigs)
         /\ c.table \in Tables \cup {NoTable}
         /\ c.requireGroup \in BOOLEAN
         /\ c.cr \in BOOLEAN
         /\ c.tls \in BOOLEAN
         /\ c.bindDN \in BOOLEAN
  BY PluginAssumption DEF ConfigType

(***************************************************************************)
(* pf_open walks over a sequence of tables, with gaps.                     *)
(***************************************************************************)
LEMMA FlushOrderType ==
  ASSUME NEW c \in Configs
  PROVE  FlushOrder(c) \in Seq(Tables \cup {NoTable})
<1> DEFINE n == Len(c.groups)
           rest == [i \in 1..n |-> c.groups[n + 1 - i].table]
<1>1. c.groups \in Seq(GroupConfigs) /\ c.table \in Tables \cup {NoTable}
  BY ConfigShape
<1>2. n \in Nat
  BY <1>1
<1>3. ASSUME NEW i \in 1..n
      PROVE  c.groups[n + 1 - i].table \in Tables \cup {NoTable}
  <2>1. n + 1 - i \in 1..n
    BY <1>2
  <2>2. c.groups[n + 1 - i] \in GroupConfigs
    BY <1>1, <2>1
  <2> QED
    BY <2>2 DEF GroupConfigs
<1>4. rest \in Seq(Tables \cup {NoTable})
  BY <1>2, <1>3
<1>5. <<c.table>> \in Seq(Tables \cup {NoTable})
  BY <1>1
<1> QED
  BY <1>4, <1>5 DEF FlushOrder

(***************************************************************************)
(* The table find_ldap_group's result stands for; if there is one, the     *)
(* plugin was opened with the packet filter enabled.                       *)
(***************************************************************************)
LEMMA ChosenTableType ==
  ASSUME TypeOK
  PROVE  /\ ChosenTable \in Tables \cup {NoTable}
         /\ ChosenTable # NoTable => PFEnabled(conf)
<1>1. /\ conf \in Configs
      /\ found \in {0} \cup DOMAIN conf.groups
  BY DEF TypeOK
<1>2. conf.groups \in Seq(GroupConfigs) /\ conf.table \in Tables \cup {NoTable}
  BY <1>1, ConfigShape
<1>3. CASE found = 0
  BY <1>2, <1>3 DEF ChosenTable, PFEnabled, ConfiguredTables
<1>4. CASE found # 0
  <2>1. found \in DOMAIN conf.groups
    BY <1>1, <1>4
  <2>2. conf.groups[found] \in GroupConfigs
    BY <1>2, <2>1
  <2>3. conf.groups[found].table \in Tables \cup {NoTable}
    BY <2>2 DEF GroupConfigs
  <2> QED
    BY <1>4, <2>1, <2>3
    DEF ChosenTable, PFEnabled, ConfiguredTables, GroupTables
<1> QED
  BY <1>3, <1>4

LEMMA CompletesType == Completes \subseteq BOOLEAN
  BY ConnectionAssumption DEF Completes

(***************************************************************************)
(* A request of connect_ldap leaves the handles well-formed.               *)
(***************************************************************************)
LEMMA ReleasedType ==
  ASSUME ConnTypeOK, NEW h \in Handles
  PROVE  Released(h) \in [Handles -> Connections]
  BY DEF ConnTypeOK, Released, Connections, Closed

LEMMA ConnectStepType ==
  ASSUME ConnTypeOK, NEW h \in Handles, NEW done \in BOOLEAN,
         \/ InitWithURL(h, done)
         \/ SetOptions(h, done)
         \/ StartTLS(h, done)
         \/ ServiceBind(h, done)
  PROVE  ConnTypeOK'
<1>1. CASE conn' = Released(h)
  BY <1>1, ReleasedType DEF ConnTypeOK
<1>2. CASE conn' = conn
  BY <1>2 DEF ConnTypeOK
<1>3. CASE conn' = [conn EXCEPT ![h] = Fresh]
  BY <1>3 DEF ConnTypeOK, Connections, Fresh
<1>4. conn[h] \in Connections
  BY DEF ConnTypeOK
<1>5. CASE conn' = [conn EXCEPT ![h].tls = TRUE]
  <2>1. [conn[h] EXCEPT !.tls = TRUE] \in Connections
    BY <1>4 DEF Connections
  <2> QED
    BY <1>5, <2>1 DEF ConnTypeOK
<1>6. CASE conn' = [conn EXCEPT ![h].bound = Service]
  <2>1. [conn[h] EXCEPT !.bound = Service] \in Connections
    BY <1>4 DEF Connections
  <2> QED
    BY <1>6, <2>1 DEF ConnTypeOK
<1> QED
  BY <1>1, <1>2, <1>3, <1>5, <1>6
  DEF InitWithURL, SetOptions, StartTLS, ServiceBind

-----------------------------------------------------------------------------
(* Initial states. *)

LEMMA InitIInv == Init => IInv
<1> SUFFICES ASSUME Init PROVE IInv
  OBVIOUS
<1>1. TypeOK
  <2>1. DirTypeOK
    BY DirectoryAssumption DEF Init, DirInit, DirTypeOK
  <2>2. ConnTypeOK /\ PFTypeOK
    BY DEF Init, ConnInit, PFInit, ConnTypeOK, PFTypeOK, Connections, Closed
  <2>3. /\ plugin \in {"down", "pfopen", "flushing", "up"}
        /\ conf \in Configs
        /\ toFlush \in Seq(Tables \cup {NoTable})
        /\ hostPool \in BOOLEAN
    BY PluginAssumption DEF Init
  <2>4. /\ phase \in [Sessions -> {"none", "authed", "connected"}]
        /\ address \in [Sessions -> Addresses \cup {NoAddress}]
        /\ joined \in [Sessions -> Tables \cup {NoTable}]
    BY DEF Init
  <2>5. /\ pc \in Lines \cup {"idle"}
        /\ callType \in CallTypes
        /\ session \in Sessions \cup {NoSession}
        /\ given \in Submissions
    BY DEF Init, CallInit, CallTypes, Submissions
  <2>6. /\ handle \in Handles
        /\ account \in Accounts \cup {NoAccount}
        /\ secret \in Passwords \cup {EmptyPassword, NoPassword, Garbage}
        /\ groupIndex \in {1} \cup DOMAIN conf.groups
        /\ pending \in SUBSET Entries
        /\ found \in {0} \cup DOMAIN conf.groups
        /\ ret \in BOOLEAN
        /\ changed \in BOOLEAN
    BY DEF Init, CallInit, Handles
  <2> QED
    BY <2>1, <2>2, <2>3, <2>4, <2>5, <2>6 DEF TypeOK
<1>2. ConnectedIsListed /\ AddressesUnique /\ JoinedIsConnected
  BY DEF Init, ConnectedIsListed, AddressesUnique, JoinedIsConnected
<1>3. QuietWhenDown /\ DeviceReady /\ CallContext
  BY DEF Init, CallInit, QuietWhenDown, DeviceReady, CallContext
<1> QED
  BY <1>1, <1>2, <1>3 DEF IInv

-----------------------------------------------------------------------------
(* The steps inside a call, up to the one that decides on the tables.      *)

(***************************************************************************)
(* Those steps work on the locals of the call and on the LDAP handles.     *)
(***************************************************************************)
LocalTypes ==
  /\ ConnTypeOK
  /\ pc \in Lines
  /\ handle \in Handles
  /\ account \in Accounts \cup {NoAccount}
  /\ secret \in Passwords \cup {EmptyPassword, NoPassword, Garbage}
  /\ groupIndex \in {1} \cup DOMAIN conf.groups
  /\ pending \in SUBSET Entries
  /\ found \in {0} \cup DOMAIN conf.groups
  /\ ret \in BOOLEAN

InsideCall == pc \notin {"idle", "cleanup", "updatetable"}

LeavesTheRest ==
  UNCHANGED <<dirVars, pfVars, lifeVars, hostVars, callVars, changed>>

(***************************************************************************)
(* All of IInv that is not about the locals of the call is left as it was. *)
(***************************************************************************)
LEMMA CallFrame ==
  ASSUME IInv, InsideCall, LeavesTheRest, LocalTypes', CallContext'
  PROVE  IInv'
<1> USE DEF IInv, InsideCall, LeavesTheRest, lifeVars, hostVars, callVars,
            dirVars, pfVars
<1>1. TypeOK'
  <2>1. DirTypeOK' /\ PFTypeOK'
    BY DEF TypeOK, DirTypeOK, PFTypeOK
  <2>2. /\ plugin' \in {"down", "pfopen", "flushing", "up"}
        /\ conf' \in Configs
        /\ toFlush' \in Seq(Tables \cup {NoTable})
        /\ hostPool' \in BOOLEAN
        /\ phase' \in [Sessions -> {"none", "authed", "connected"}]
        /\ address' \in [Sessions -> Addresses \cup {NoAddress}]
        /\ joined' \in [Sessions -> Tables \cup {NoTable}]
        /\ callType' \in CallTypes
        /\ session' \in Sessions \cup {NoSession}
        /\ given' \in Submissions
        /\ changed' \in BOOLEAN
    BY DEF TypeOK, CallTypes, Submissions, PasswordStrings
  <2> QED
    BY <2>1, <2>2 DEF TypeOK, LocalTypes
<1>2. plugin = "up"
  BY DEF QuietWhenDown
<1>3. ConnectedIsListed' /\ AddressesUnique'
  BY DEF ConnectedIsListed, AddressesUnique
<1>4. JoinedIsConnected'
  BY DEF JoinedIsConnected
<1>5. QuietWhenDown' /\ DeviceReady'
  BY <1>2 DEF QuietWhenDown, DeviceReady
<1> QED
  BY <1>1, <1>3, <1>4, <1>5

LEMMA ConnectLDAPStep == IInv /\ ConnectLDAP => IInv'
<1> SUFFICES ASSUME IInv, ConnectLDAP PROVE IInv'
  OBVIOUS
<1>1. conf \in Configs /\ handle \in Handles /\ ConnTypeOK
  BY DEF IInv, TypeOK
<1>2. /\ LeavesTheRest /\ UNCHANGED localVars
      /\ pc \in {"connect", "options", "starttls", "servicebind"}
      /\ pc' \in {"options", "starttls", "servicebind", "finduser", "userbind",
                 "cleanup"}
      /\ pc' = "userbind" => handle # "main"
      /\ \E done \in BOOLEAN :
           \/ InitWithURL(handle, done)
           \/ SetOptions(handle, done)
           \/ StartTLS(handle, done)
           \/ ServiceBind(handle, done)
  BY CompletesType
  DEF ConnectLDAP, OpenConnection, ConfigureConnection, SecureConnection,
      BindConnection, ConnectStep, AfterOptions, AfterTLS, AfterConnect, Goto,
      LeavesTheRest
<1>3. ConnTypeOK'
  BY <1>1, <1>2, ConnectStepType
<1>4. LocalTypes'
  BY <1>2, <1>3 DEF IInv, TypeOK, LocalTypes, LeavesTheRest, localVars,
     lifeVars, Lines
<1>5. CallContext'
  BY <1>1, <1>2 DEF IInv, CallContext, LeavesTheRest, localVars, lifeVars,
     hostVars, callVars, user, Handles
<1> QED
  BY <1>2, <1>4, <1>5, CallFrame DEF InsideCall

(***************************************************************************)
(* find_ldap_group starts at the first group, if there is one.             *)
(***************************************************************************)
LEMMA FindGroupType ==
  ASSUME TypeOK
  PROVE  /\ FindGroup \in {"decide", "groupsearch"}
         /\ FindGroup = "groupsearch" => groupIndex \in DOMAIN conf.groups
<1>1. conf.groups \in Seq(GroupConfigs)
  BY ConfigShape DEF TypeOK
<1>2. conf.groups # <<>> => 1 \in DOMAIN conf.groups
  BY <1>1
<1> QED
  BY <1>2 DEF FindGroup, TypeOK

LEMMA CheckUsernameStep ==
  ASSUME IInv, CheckUsername, ~Vanish
  PROVE  IInv'
<1>1. /\ LeavesTheRest /\ UNCHANGED <<conn, account, secret, groupVars, ret>>
      /\ pc = "start" /\ pc' = "connect" /\ handle' = "main" /\ user # NoUser
  BY DEF CheckUsername, LeavesTheRest, Goto
<1>2. LocalTypes'
  BY <1>1 DEF IInv, TypeOK, LocalTypes, LeavesTheRest, groupVars, lifeVars,
     Lines, Handles, ConnTypeOK
<1>3. CallContext'
  BY <1>1 DEF IInv, CallContext, LeavesTheRest, groupVars, lifeVars, hostVars,
     callVars, user
<1> QED
  BY <1>1, <1>2, <1>3, CallFrame DEF InsideCall

LEMMA FindUserStep == IInv /\ FindUser => IInv'
<1> SUFFICES ASSUME IInv, FindUser PROVE IInv'
  OBVIOUS
<1>1. TypeOK /\ CallContext /\ pc = "finduser"
  BY DEF IInv, FindUser
<1>2. /\ LeavesTheRest
      /\ UNCHANGED <<conn, handle, secret, groupVars, ret>>
      /\ pc' \in {"cleanup", Dispatch}
      /\ \/ account' = account
         \/ \E done \in Completes : account' \in UserSearchResult(user, done)
  BY DEF FindUser, LeavesTheRest, Goto
<1>3. session \in Sessions /\ user \in Users
  BY <1>1, PluginAssumption DEF CallContext, user
<1>4. account' \in Accounts \cup {NoAccount}
  BY <1>1, <1>2, <1>3 DEF TypeOK, DirTypeOK, UserSearchResult
<1>5. \/ pc' = "cleanup"
      \/ pc' = "extract" /\ callType = "verify" /\ given # NoPassword
      \/ pc' = FindGroup /\ callType # "verify" /\ address[session] # NoAddress
  BY <1>2 DEF Dispatch
<1>6. LocalTypes'
  BY <1>1, <1>2, <1>4, <1>5, FindGroupType
  DEF TypeOK, LocalTypes, LeavesTheRest, groupVars, lifeVars, Lines, ConnTypeOK
<1>7. given # NoPassword => given \in PasswordStrings
  BY <1>1 DEF TypeOK, Submissions
<1>8. CallContext'
  BY <1>1, <1>2, <1>5, <1>7, FindGroupType
  DEF CallContext, LeavesTheRest, groupVars, lifeVars, hostVars, callVars, user
<1> QED
  BY <1>1, <1>2, <1>6, <1>8, CallFrame DEF InsideCall

LEMMA ExtractPasswordStep == IInv /\ ExtractPassword => IInv'
<1> SUFFICES ASSUME IInv, ExtractPassword PROVE IInv'
  OBVIOUS
<1>1. TypeOK /\ CallContext /\ pc = "extract" /\ given \in PasswordStrings
  BY DEF IInv, ExtractPassword, CallContext
<1>2. /\ LeavesTheRest
      /\ UNCHANGED <<conn, account, groupVars, ret>>
      /\ \/ pc' = "cleanup" /\ UNCHANGED <<secret, handle>>
         \/ pc' = "connect" /\ handle' = "auth" /\ secret' \in Secrets(given)
  BY DEF ExtractPassword, LeavesTheRest, Goto
<1>3. Secrets(given) \subseteq Passwords \cup {EmptyPassword, Garbage}
  BY <1>1, ConfigShape DEF Secrets, PasswordStrings, TypeOK
<1>4. LocalTypes'
  BY <1>1, <1>2, <1>3
  DEF TypeOK, LocalTypes, LeavesTheRest, groupVars, lifeVars, Lines, Handles,
      ConnTypeOK
<1>5. CallContext'
  BY <1>1, <1>2
  DEF CallContext, LeavesTheRest, groupVars, lifeVars, hostVars, callVars, user
<1> QED
  BY <1>1, <1>2, <1>4, <1>5, CallFrame DEF InsideCall

LEMMA UserBindStep == IInv /\ UserBind => IInv'
<1> SUFFICES ASSUME IInv, UserBind PROVE IInv'
  OBVIOUS
<1>1. TypeOK /\ CallContext /\ pc = "userbind"
  BY DEF IInv, UserBind
<1>2. /\ LeavesTheRest
      /\ UNCHANGED <<account, secret, groupVars, ret>>
      /\ conn' = Released("auth") /\ handle' = "main"
      /\ pc' \in {FindGroup, "cleanup"}
  BY DEF UserBind, LeavesTheRest, Goto, AuthReleased
<1>3. ConnTypeOK'
  BY <1>1, <1>2, ReleasedType DEF TypeOK, ConnTypeOK, Handles
<1>4. LocalTypes'
  BY <1>1, <1>2, <1>3, FindGroupType
  DEF TypeOK, LocalTypes, LeavesTheRest, groupVars, lifeVars, Lines, Handles
<1>5. CallContext'
  BY <1>1, <1>2, FindGroupType
  DEF CallContext, LeavesTheRest, groupVars, lifeVars, hostVars, callVars, user
<1> QED
  BY <1>1, <1>2, <1>4, <1>5, CallFrame DEF InsideCall

LEMMA SearchGroupStep == IInv /\ SearchGroup => IInv'
<1> SUFFICES ASSUME IInv, SearchGroup PROVE IInv'
  OBVIOUS
<1>1. TypeOK /\ CallContext /\ pc = "groupsearch"
  BY DEF IInv, SearchGroup
<1>2. /\ LeavesTheRest
      /\ UNCHANGED <<conn, handle, account, secret, groupIndex, found, ret>>
      /\ pc' \in {"decide", "member"}
      /\ \E done \in Completes :
           pending' = GroupSearchResult(conf.groups[groupIndex].entries, done)
  BY DEF SearchGroup, LeavesTheRest, Goto, AfterSearch
<1>3. pending' \in SUBSET Entries
  BY <1>1, <1>2 DEF TypeOK, DirTypeOK, GroupSearchResult
<1>4. LocalTypes'
  BY <1>1, <1>2, <1>3
  DEF TypeOK, LocalTypes, LeavesTheRest, lifeVars, Lines, ConnTypeOK
<1>5. CallContext'
  BY <1>1, <1>2
  DEF CallContext, LeavesTheRest, lifeVars, hostVars, callVars, user
<1> QED
  BY <1>1, <1>2, <1>4, <1>5, CallFrame DEF InsideCall

(***************************************************************************)
(* The walk moves on to the next group only if there is one.               *)
(***************************************************************************)
LEMMA NextGroupType ==
  ASSUME TypeOK, groupIndex \in DOMAIN conf.groups, ~LastGroup
  PROVE  groupIndex + 1 \in DOMAIN conf.groups
<1>1. conf.groups \in Seq(GroupConfigs)
  BY ConfigShape DEF TypeOK
<1>2. /\ DOMAIN conf.groups = 1..Len(conf.groups)
      /\ Len(conf.groups) \in Nat
  BY <1>1
<1> QED
  BY <1>2 DEF LastGroup

LEMMA CheckMemberStep == IInv /\ CheckMember => IInv'
<1> SUFFICES ASSUME IInv, CheckMember PROVE IInv'
  OBVIOUS
<1>1. TypeOK /\ CallContext /\ pc = "member" /\ groupIndex \in DOMAIN conf.groups
  BY DEF IInv, CheckMember, CallContext
<1>2. /\ LeavesTheRest
      /\ UNCHANGED <<conn, handle, account, secret, ret>>
      /\ pending' \subseteq pending
      /\ found' \in {groupIndex, found}
      /\ \/ pc' = "member" /\ UNCHANGED groupIndex
         \/ pc' = "groupsearch" /\ groupIndex' = groupIndex + 1 /\ ~LastGroup
         \/ pc' = "decide" /\ UNCHANGED groupIndex
  BY <1>1 DEF CheckMember, LeavesTheRest, Goto
<1>3. groupIndex' \in DOMAIN conf.groups
  BY <1>1, <1>2, NextGroupType
<1>4. LocalTypes'
  BY <1>1, <1>2, <1>3
  DEF TypeOK, LocalTypes, LeavesTheRest, lifeVars, Lines, ConnTypeOK
<1>5. CallContext'
  BY <1>1, <1>2, <1>3
  DEF CallContext, LeavesTheRest, lifeVars, hostVars, callVars, user
<1> QED
  BY <1>1, <1>2, <1>4, <1>5, CallFrame DEF InsideCall

LEMMA DecideStep == IInv /\ Decide => IInv'
<1> SUFFICES ASSUME IInv, Decide PROVE IInv'
  OBVIOUS
<1>1. TypeOK /\ CallContext /\ pc = "decide"
  BY DEF IInv, Decide
<1>2. /\ LeavesTheRest
      /\ UNCHANGED <<conn, handle, account, secret, groupVars>>
      /\ \/ /\ pc' = "updatetable" /\ UNCHANGED ret
            /\ callType # "verify" /\ ChosenTable # NoTable
         \/ pc' = "cleanup" /\ ret' \in BOOLEAN
  BY DEF Decide, LeavesTheRest, Goto, Refused
<1>3. LocalTypes'
  BY <1>1, <1>2
  DEF TypeOK, LocalTypes, LeavesTheRest, groupVars, lifeVars, Lines, ConnTypeOK
<1>4. ChosenTable' = ChosenTable
  BY <1>2 DEF ChosenTable, LeavesTheRest, groupVars, lifeVars
<1>5. CallContext'
  BY <1>1, <1>2, <1>4
  DEF CallContext, LeavesTheRest, groupVars, lifeVars, hostVars, callVars, user
<1> QED
  BY <1>1, <1>2, <1>3, <1>5, CallFrame DEF InsideCall

-----------------------------------------------------------------------------
(* The steps that change the tables or the sessions.                       *)

(***************************************************************************)
(* pf_client_connect_disconnect runs only on an open device, for a session *)
(* with an address, and on a table that exists.                            *)
(***************************************************************************)
LEMMA UpdateTableContext ==
  ASSUME IInv, pc = "updatetable"
  PROVE  /\ plugin = "up" /\ pfOpen
         /\ session \in Sessions
         /\ address[session] \in Addresses
         /\ ChosenTable \in Tables
<1>1. /\ TypeOK
      /\ session \in Sessions
      /\ address[session] # NoAddress
      /\ ChosenTable # NoTable
      /\ plugin = "up"
  BY DEF IInv, CallContext, QuietWhenDown
<1>2. ChosenTable \in Tables /\ PFEnabled(conf)
  BY <1>1, ChosenTableType
<1>3. pfOpen
  BY <1>1, <1>2 DEF IInv, DeviceReady
<1>4. address[session] \in Addresses
  BY <1>1 DEF TypeOK
<1> QED
  BY <1>1, <1>2, <1>3, <1>4

(***************************************************************************)
(* A connect call adds to one table, and records it for its own session.   *)
(***************************************************************************)
LEMMA JoinTableStep ==
  ASSUME IInv, pc = "updatetable", pc' = "cleanup",
         UNCHANGED <<phase, address, callVars>>,
         NEW done \in BOOLEAN, JoinTable(done)
  PROVE  /\ tables' \in [Tables -> SUBSET Addresses]
         /\ joined' \in [Sessions -> Tables \cup {NoTable}]
         /\ ret' \in BOOLEAN
         /\ ConnectedIsListed' /\ JoinedIsConnected'
<1> DEFINE t == ChosenTable
           a == address[session]
<1>1. pfOpen /\ session \in Sessions /\ a \in Addresses /\ t \in Tables
  BY UpdateTableContext
<1>2. /\ tables \in [Tables -> SUBSET Addresses]
      /\ joined \in [Sessions -> Tables \cup {NoTable}]
  BY DEF IInv, TypeOK, PFTypeOK
<1>3. /\ callType' = "connect" /\ session' = session /\ address' = address
      /\ phase' = phase
      /\ tables' = IF done THEN [tables EXCEPT ![t] = @ \cup {a}] ELSE tables
      /\ ret' = (done /\ a \notin tables[t])
      /\ joined' = [joined EXCEPT ![session] = IF ret' THEN t ELSE @]
  BY <1>1 DEF JoinTable, AddAddress, AddResult, callVars
<1> HIDE DEF t, a
<1>4. tables' \in [Tables -> SUBSET Addresses]
  BY <1>1, <1>2, <1>3
<1>5. joined' \in [Sessions -> Tables \cup {NoTable}]
  BY <1>1, <1>2, <1>3
<1>6. ASSUME NEW u \in Tables
      PROVE  tables[u] \subseteq tables'[u]
  BY <1>1, <1>2, <1>3
<1>7. ConnectedIsListed'
  <2> SUFFICES ASSUME NEW s \in Sessions, joined'[s] # NoTable
               PROVE  address[s] \in tables'[joined'[s]]
    BY <1>3 DEF ConnectedIsListed
  <2>1. CASE s = session /\ ret'
    <3>1. joined'[s] = t /\ tables'[t] = tables[t] \cup {a}
      BY <1>1, <1>2, <1>3, <2>1
    <3> QED
      BY <3>1, <2>1 DEF a
  <2>2. CASE ~(s = session /\ ret')
    <3>1. joined'[s] = joined[s]
      BY <1>2, <1>3, <2>2
    <3>2. joined[s] \in Tables /\ address[s] \in tables[joined[s]]
      BY <3>1, <1>2 DEF IInv, ConnectedIsListed
    <3> QED
      BY <3>1, <3>2, <1>6
  <2> QED
    BY <2>1, <2>2
<1>8. JoinedIsConnected'
  <2> SUFFICES ASSUME NEW s \in Sessions, joined'[s] # NoTable,
                      phase[s] # "connected"
               PROVE  s = session /\ NextPhase("connect", ret') = "connected"
    BY <1>3 DEF JoinedIsConnected
  <2>1. joined[s] = NoTable
    BY DEF IInv, JoinedIsConnected
  <2>2. s = session /\ ret'
    BY <2>1, <1>2, <1>3
  <2> QED
    BY <2>2 DEF NextPhase
<1> QED
  BY <1>3, <1>4, <1>5, <1>7, <1>8

(***************************************************************************)
(* A disconnect call deletes its own address only, which no other session  *)
(* has; if it fails, the session's membership is still recorded.           *)
(***************************************************************************)
LEMMA LeaveTableStep ==
  ASSUME IInv, pc = "updatetable", pc' = "cleanup",
         UNCHANGED <<phase, address, callVars>>,
         NEW done \in BOOLEAN, LeaveTable(done)
  PROVE  /\ tables' \in [Tables -> SUBSET Addresses]
         /\ joined' \in [Sessions -> Tables \cup {NoTable}]
         /\ ret' \in BOOLEAN
         /\ ConnectedIsListed' /\ JoinedIsConnected'
<1> DEFINE t == ChosenTable
           a == address[session]
<1>1. pfOpen /\ session \in Sessions /\ a \in Addresses /\ t \in Tables
  BY UpdateTableContext
<1>2. /\ tables \in [Tables -> SUBSET Addresses]
      /\ joined \in [Sessions -> Tables \cup {NoTable}]
  BY DEF IInv, TypeOK, PFTypeOK
<1>3. /\ session' = session /\ address' = address /\ phase' = phase
      /\ tables' = IF done THEN [tables EXCEPT ![t] = @ \ {a}] ELSE tables
      /\ ret' = (done /\ a \in tables[t])
      /\ joined' = [joined EXCEPT ![session] =
                      IF ret' /\ @ = t THEN NoTable ELSE @]
  BY <1>1 DEF LeaveTable, DeleteAddress, DeleteResult, callVars
<1>4. a # NoAddress
  BY <1>1, PluginAssumption
<1>5. ASSUME NEW s \in Sessions, address[s] = a
      PROVE  s = session
  BY <1>1, <1>4, <1>5 DEF IInv, AddressesUnique
<1>6. ASSUME NEW s \in Sessions, joined'[s] # NoTable
      PROVE  joined'[s] = joined[s]
  BY <1>2, <1>3, <1>6
<1> HIDE DEF t
<1>7. tables' \in [Tables -> SUBSET Addresses]
  BY <1>1, <1>2, <1>3
<1>8. joined' \in [Sessions -> Tables \cup {NoTable}]
  BY <1>1, <1>2, <1>3
<1>9. ConnectedIsListed'
  <2> SUFFICES ASSUME NEW s \in Sessions, joined'[s] # NoTable
               PROVE  address[s] \in tables'[joined'[s]]
    BY <1>3 DEF ConnectedIsListed
  <2>1. /\ joined'[s] = joined[s] /\ joined[s] \in Tables
        /\ address[s] \in tables[joined[s]]
    BY <1>2, <1>6 DEF IInv, ConnectedIsListed
  <2>2. CASE s # session
    <3>1. address[s] # a
      BY <1>5, <2>2
    <3> QED
      BY <2>1, <3>1, <1>1, <1>2, <1>3
  <2>3. CASE s = session /\ joined[s] # t
    BY <2>1, <2>3, <1>1, <1>2, <1>3
  <2>4. CASE s = session /\ joined[s] = t
    <3>1. ~ret'
      BY <2>1, <2>4, <1>2, <1>3, TableAssumption
    <3>2. ~done
      BY <3>1, <2>1, <2>4, <1>3
    <3> QED
      BY <3>2, <2>1, <1>3
  <2> QED
    BY <2>2, <2>3, <2>4
<1>10. JoinedIsConnected'
  <2> SUFFICES ASSUME NEW s \in Sessions, joined'[s] # NoTable
               PROVE  phase[s] = "connected"
    BY <1>3 DEF JoinedIsConnected
  <2> QED
    BY <1>6 DEF IInv, JoinedIsConnected
<1> QED
  BY <1>3, <1>7, <1>8, <1>9, <1>10

LEMMA UpdateTableStep == IInv /\ UpdateTable => IInv'
<1> SUFFICES ASSUME IInv, UpdateTable PROVE IInv'
  OBVIOUS
<1>1. TypeOK /\ CallContext /\ pc = "updatetable" /\ plugin = "up"
  BY UpdateTableContext DEF IInv, UpdateTable
<1>2. /\ UNCHANGED <<dirVars, conn, pfOpen, lifeVars, phase, address, callVars,
                     handle, account, secret, groupVars, changed>>
      /\ pc' = "cleanup"
  BY DEF UpdateTable, Goto
<1>3. PICK done \in BOOLEAN : JoinTable(done) \/ LeaveTable(done)
  BY CompletesType DEF UpdateTable
<1>4. /\ tables' \in [Tables -> SUBSET Addresses]
      /\ joined' \in [Sessions -> Tables \cup {NoTable}]
      /\ ret' \in BOOLEAN
      /\ ConnectedIsListed' /\ JoinedIsConnected'
  BY <1>1, <1>2, <1>3, JoinTableStep, LeaveTableStep
<1> USE DEF dirVars, lifeVars, callVars, groupVars
<1>5. TypeOK'
  <2>1. DirTypeOK' /\ PFTypeOK' /\ ConnTypeOK'
    BY <1>1, <1>2, <1>4 DEF TypeOK, DirTypeOK, PFTypeOK, ConnTypeOK
  <2>2. pc' \in Lines
    BY <1>2 DEF Lines
  <2> QED
    BY <2>1, <2>2, <1>1, <1>2, <1>4 DEF TypeOK, Submissions, PasswordStrings
<1>6. AddressesUnique' /\ QuietWhenDown' /\ DeviceReady'
  BY <1>1, <1>2 DEF IInv, AddressesUnique, QuietWhenDown, DeviceReady
<1>7. CallContext'
  BY <1>1, <1>2 DEF CallContext, user
<1> QED
  BY <1>4, <1>5, <1>6, <1>7 DEF IInv

(***************************************************************************)
(* Once a call is over, its locals are as they were before it.             *)
(***************************************************************************)
LEMMA CallOverType ==
  ASSUME CallOver
  PROVE  /\ pc' \in Lines \cup {"idle"}
         /\ callType' \in CallTypes
         /\ session' \in Sessions \cup {NoSession}
         /\ given' \in Submissions
         /\ handle' \in Handles
         /\ account' \in Accounts \cup {NoAccount}
         /\ secret' \in Passwords \cup {EmptyPassword, NoPassword, Garbage}
         /\ groupIndex' \in {1} \cup DOMAIN conf'.groups
         /\ pending' \in SUBSET Entries
         /\ found' \in {0} \cup DOMAIN conf'.groups
         /\ ret' \in BOOLEAN
         /\ changed' \in BOOLEAN
         /\ CallContext'
<1>1. CallContext'
  BY DEF CallOver, CallContext
<1> QED
  BY <1>1 DEF CallOver, CallTypes, Submissions, Handles

LEMMA VanishStep == IInv /\ Vanish => IInv'
<1> SUFFICES ASSUME IInv, Vanish PROVE IInv'
  OBVIOUS
<1>1. CallOver /\ UNCHANGED <<hostPool, dirVars, tables, conf>>
  BY DEF Vanish
<1>2. TypeOK'
  <2>1. DirTypeOK' /\ PFTypeOK'
    BY <1>1 DEF IInv, TypeOK, DirTypeOK, PFTypeOK, Vanish, dirVars
  <2>2. ConnTypeOK'
    BY DEF Vanish, ConnTypeOK, Connections, Closed
  <2>3. /\ plugin' \in {"down", "pfopen", "flushing", "up"}
        /\ conf' \in Configs
        /\ toFlush' \in Seq(Tables \cup {NoTable})
        /\ hostPool' \in BOOLEAN
        /\ phase' \in [Sessions -> {"none", "authed", "connected"}]
        /\ address' \in [Sessions -> Addresses \cup {NoAddress}]
        /\ joined' \in [Sessions -> Tables \cup {NoTable}]
    BY DEF IInv, TypeOK, Vanish
  <2> QED
    BY <1>1, <2>1, <2>2, <2>3, CallOverType DEF TypeOK
<1>3. ConnectedIsListed' /\ AddressesUnique' /\ JoinedIsConnected'
  BY DEF Vanish, ConnectedIsListed, AddressesUnique, JoinedIsConnected
<1>4. QuietWhenDown' /\ DeviceReady'
  BY DEF Vanish, CallOver, QuietWhenDown, DeviceReady
<1> QED
  BY <1>1, <1>2, <1>3, <1>4, CallOverType DEF IInv

LEMMA ReturnStep == IInv /\ Return => IInv'
<1> SUFFICES ASSUME IInv, Return PROVE IInv'
  OBVIOUS
<1> DEFINE next == NextPhase(callType, ret)
<1>1. TypeOK /\ CallContext /\ pc = "cleanup" /\ session \in Sessions
      /\ plugin = "up"
  BY DEF IInv, Return, CallContext, QuietWhenDown
<1>2. /\ CallOver
      /\ UNCHANGED <<dirVars, pfVars, lifeVars>>
      /\ conn' = Released("main")
      /\ phase' = [phase EXCEPT ![session] = next]
      /\ address' = [address EXCEPT ![session] =
                       IF next = "connected" THEN @ ELSE NoAddress]
      /\ joined' = [joined EXCEPT ![session] =
                      IF next = "connected" THEN @ ELSE NoTable]
  BY DEF Return
<1>3. next \in {"none", "authed", "connected"}
  BY DEF NextPhase
<1>4. /\ phase \in [Sessions -> {"none", "authed", "connected"}]
      /\ address \in [Sessions -> Addresses \cup {NoAddress}]
      /\ joined \in [Sessions -> Tables \cup {NoTable}]
  BY <1>1 DEF TypeOK
<1> HIDE DEF next
<1>5. TypeOK'
  <2>1. DirTypeOK' /\ PFTypeOK'
    BY <1>1, <1>2 DEF TypeOK, DirTypeOK, PFTypeOK, dirVars, pfVars
  <2>2. ConnTypeOK'
    BY <1>1, <1>2, ReleasedType DEF TypeOK, ConnTypeOK, Handles
  <2>3. /\ plugin' \in {"down", "pfopen", "flushing", "up"}
        /\ conf' \in Configs
        /\ toFlush' \in Seq(Tables \cup {NoTable})
        /\ hostPool' \in BOOLEAN
    BY <1>1, <1>2 DEF TypeOK, lifeVars
  <2>4. /\ phase' \in [Sessions -> {"none", "authed", "connected"}]
        /\ address' \in [Sessions -> Addresses \cup {NoAddress}]
        /\ joined' \in [Sessions -> Tables \cup {NoTable}]
    BY <1>1, <1>2, <1>3, <1>4
  <2> QED
    BY <1>2, <2>1, <2>2, <2>3, <2>4, CallOverType DEF TypeOK
<1>6. ASSUME NEW s \in Sessions
      PROVE  /\ joined'[s] # NoTable =>
                  joined'[s] = joined[s] /\ address'[s] = address[s]
             /\ address'[s] # NoAddress => address'[s] = address[s]
             /\ joined'[s] # NoTable => phase'[s] = "connected"
  <2>1. CASE s = session
    BY <2>1, <1>1, <1>2, <1>4
  <2>2. CASE s # session
    BY <2>2, <1>1, <1>2, <1>4 DEF IInv, JoinedIsConnected
  <2> QED
    BY <2>1, <2>2
<1>7. ConnectedIsListed'
  BY <1>2, <1>6 DEF IInv, ConnectedIsListed, pfVars
<1>8. AddressesUnique'
  BY <1>6 DEF IInv, AddressesUnique
<1>9. JoinedIsConnected'
  BY <1>6 DEF JoinedIsConnected
<1>10. QuietWhenDown' /\ DeviceReady'
  BY <1>1, <1>2 DEF IInv, QuietWhenDown, DeviceReady, lifeVars, pfVars
<1> QED
  BY <1>2, <1>5, <1>7, <1>8, <1>9, <1>10, CallOverType DEF IInv

(***************************************************************************)
(* A new call: the host gives the session no address another one has, and  *)
(* only before it has joined a table.                                      *)
(***************************************************************************)
LEMMA HostStepStep == IInv /\ HostStep => IInv'
<1> SUFFICES ASSUME IInv, HostStep PROVE IInv'
  OBVIOUS
<1>1. PICK s \in Sessions : CallVerify(s) \/ CallConnect(s) \/ CallDisconnect(s)
  BY DEF HostStep
<1>2. /\ plugin = "up" /\ pc = "idle" /\ pc' = "start" /\ session' = s
      /\ UNCHANGED <<dirVars, conn, pfVars, lifeVars, phase, joined, localVars,
                     changed>>
      /\ callType' \in CallTypes
      /\ given' \in Submissions
  BY <1>1 DEF CallVerify, CallConnect, CallDisconnect, Call, CallTypes, IInv,
     TypeOK, Submissions, PasswordStrings
<1>3. \/ address' = address
      \/ /\ phase[s] # "connected"
         /\ \E a \in FreeAddresses \cup {NoAddress} :
              address' = [address EXCEPT ![s] = a]
  BY <1>1 DEF CallVerify, CallConnect, CallDisconnect
<1>4. TypeOK /\ CallContext /\ address \in [Sessions -> Addresses \cup {NoAddress}]
  BY DEF IInv, TypeOK
<1>5. ASSUME NEW r \in Sessions, joined[r] # NoTable
      PROVE  phase[r] = "connected"
  BY <1>2, <1>5 DEF IInv, JoinedIsConnected
<1> USE DEF dirVars, pfVars, lifeVars, localVars
<1>6. TypeOK'
  <2>1. DirTypeOK' /\ PFTypeOK' /\ ConnTypeOK'
    BY <1>2, <1>4 DEF TypeOK, DirTypeOK, PFTypeOK, ConnTypeOK
  <2>2. address' \in [Sessions -> Addresses \cup {NoAddress}]
    BY <1>3, <1>4 DEF FreeAddresses
  <2>3. pc' \in Lines
    BY <1>2 DEF Lines
  <2> QED
    BY <2>1, <2>2, <2>3, <1>2, <1>4 DEF TypeOK
<1>7. ConnectedIsListed'
  <2> SUFFICES ASSUME NEW r \in Sessions, joined[r] # NoTable
               PROVE  address'[r] \in tables[joined[r]]
    BY <1>2 DEF ConnectedIsListed
  <2>1. address'[r] = address[r]
    BY <1>3, <1>4, <1>5
  <2> QED
    BY <2>1 DEF IInv, ConnectedIsListed
<1>8. AddressesUnique'
  <2>1. CASE address' = address
    BY <2>1 DEF IInv, AddressesUnique
  <2>2. ASSUME NEW a \in FreeAddresses \cup {NoAddress},
               address' = [address EXCEPT ![s] = a]
        PROVE  AddressesUnique'
    <3>1. \A r \in Sessions : address[r] = a => a = NoAddress
      BY DEF FreeAddresses
    <3> QED
      BY <3>1, <2>2, <1>4 DEF IInv, AddressesUnique
  <2> QED
    BY <2>1, <2>2, <1>3
<1>9. JoinedIsConnected'
  BY <1>2, <1>5 DEF JoinedIsConnected
<1>10. QuietWhenDown' /\ DeviceReady'
  BY <1>2 DEF IInv, QuietWhenDown, DeviceReady
<1>11. pc' \in Lines /\ session' \in Sessions /\ handle' = "main" /\ pc' = "start"
  BY <1>2, <1>4 DEF CallContext, Lines
<1>12. CallContext'
  BY <1>11 DEF CallContext
<1> QED
  BY <1>6, <1>7, <1>8, <1>9, <1>10, <1>12 DEF IInv

(***************************************************************************)
(* While the plugin is not open nobody is in a call or in a table, so      *)
(* tables may be flushed.                                                  *)
(***************************************************************************)
LEMMA OpenFrame ==
  ASSUME IInv, plugin # "up",
         UNCHANGED <<hostPool, dirVars, conn, hostVars, pc, callVars, localVars,
                     changed>>,
         plugin' \in {"down", "pfopen", "flushing", "up"},
         conf' \in Configs,
         toFlush' \in Seq(Tables \cup {NoTable}),
         PFTypeOK',
         DeviceReady'
  PROVE  IInv'
<1> USE DEF dirVars, hostVars, callVars, localVars
<1>1. /\ TypeOK /\ CallContext
      /\ pc = "idle" /\ \A s \in Sessions : joined[s] = NoTable
      /\ handle = "main" /\ groupIndex = 1 /\ found = 0
  BY DEF IInv, QuietWhenDown, CallContext
<1>2. TypeOK'
  <2>1. DirTypeOK' /\ ConnTypeOK'
    BY <1>1 DEF TypeOK, DirTypeOK, ConnTypeOK
  <2>2. groupIndex' \in {1} \cup DOMAIN conf'.groups
    BY <1>1
  <2>3. found' \in {0} \cup DOMAIN conf'.groups
    BY <1>1
  <2> QED
    BY <2>1, <2>2, <2>3, <1>1 DEF TypeOK, Submissions, PasswordStrings
<1>3. ConnectedIsListed' /\ AddressesUnique' /\ JoinedIsConnected' /\ QuietWhenDown'
  BY <1>1 DEF IInv, ConnectedIsListed, AddressesUnique, JoinedIsConnected,
     QuietWhenDown
<1>4. CallContext'
  BY <1>1 DEF CallContext
<1> QED
  BY <1>2, <1>3, <1>4 DEF IInv

LEMMA OpenStep == IInv /\ Open => IInv'
<1> SUFFICES ASSUME IInv, Open PROVE IInv'
  OBVIOUS
<1>1. /\ PFTypeOK /\ conf \in Configs
      /\ toFlush \in Seq(Tables \cup {NoTable})
  BY DEF IInv, TypeOK
<1>2. CASE OpenConfig
  <2>1. conf' \in Configs /\ UNCHANGED pfVars
    BY <1>2 DEF OpenConfig
  <2>2. /\ plugin' \in {"pfopen", "up"}
        /\ plugin' = "up" => ~PFEnabled(conf')
        /\ toFlush' \in {FlushOrder(conf'), <<>>}
    BY <1>2 DEF OpenConfig
  <2>3. toFlush' \in Seq(Tables \cup {NoTable})
    <3>1. FlushOrder(conf') \in Seq(Tables \cup {NoTable})
      BY <2>1, FlushOrderType
    <3>2. <<>> \in Seq(Tables \cup {NoTable})
      OBVIOUS
    <3> QED
      BY <2>2, <3>1, <3>2
  <2>4. PFTypeOK' /\ DeviceReady'
    BY <1>1, <2>1, <2>2 DEF PFTypeOK, pfVars, DeviceReady
  <2> QED
    BY <1>2, <2>1, <2>2, <2>3, <2>4, OpenFrame DEF OpenConfig
<1>3. CASE OpenDevice
  <2>1. PICK done \in BOOLEAN :
          /\ pfOpen' = done
          /\ plugin' = IF done THEN "flushing" ELSE "down"
          /\ toFlush' = IF done THEN toFlush ELSE <<>>
    BY <1>3, CompletesType DEF OpenDevice
  <2>2. tables' = tables /\ conf' = conf
    BY <1>3 DEF OpenDevice
  <2>3. toFlush' \in Seq(Tables \cup {NoTable})
    BY <1>1, <2>1
  <2>4. PFTypeOK' /\ DeviceReady'
    BY <1>1, <2>1, <2>2 DEF PFTypeOK, DeviceReady
  <2> QED
    BY <1>1, <1>3, <2>1, <2>2, <2>3, <2>4, OpenFrame DEF OpenDevice
<1>4. CASE FlushNext
  <2>1. PICK done \in BOOLEAN :
          /\ IF Head(toFlush) = NoTable
             THEN done /\ UNCHANGED tables
             ELSE tables' = Flushed(Head(toFlush), done)
          /\ toFlush' = StillToFlush(done)
          /\ pfOpen' = done
          /\ plugin' = CASE ~done -> "down"
                         [] done /\ toFlush' = <<>> -> "up"
                         [] OTHER -> "flushing"
    BY <1>4, CompletesType DEF FlushNext
  <2>2. toFlush # <<>> /\ conf' = conf
    BY <1>4 DEF FlushNext
  <2>3. toFlush' \in Seq(Tables \cup {NoTable})
    <3>1. Tail(toFlush) \in Seq(Tables \cup {NoTable})
      BY <1>1, <2>2
    <3>2. <<>> \in Seq(Tables \cup {NoTable})
      OBVIOUS
    <3> QED
      BY <3>1, <3>2, <2>1 DEF StillToFlush
  <2>4. tables' \in [Tables -> SUBSET Addresses]
    BY <1>1, <2>1 DEF PFTypeOK, Flushed
  <2>5. plugin' \in {"down", "flushing", "up"} /\ (plugin' = "up" => done)
    BY <2>1
  <2>6. PFTypeOK' /\ DeviceReady'
    BY <2>1, <2>4, <2>5 DEF PFTypeOK, DeviceReady
  <2> QED
    BY <1>1, <1>4, <2>2, <2>3, <2>5, <2>6, OpenFrame DEF FlushNext
<1> QED
  BY <1>2, <1>3, <1>4, VanishStep DEF Open, OpenPF, AbortWithoutPool

LEMMA DirectoryChangeStep == IInv /\ DirectoryChange => IInv'
<1> SUFFICES ASSUME IInv, DirectoryChange PROVE IInv'
  OBVIOUS
<1>1. /\ TypeOK
      /\ changed' \in BOOLEAN
      /\ UNCHANGED <<conn, pfVars, lifeVars, hostVars, pc, callVars, localVars>>
  BY DEF IInv, DirectoryChange
<1> USE DEF pfVars, lifeVars, hostVars, callVars, localVars
<1>2. DirTypeOK'
  <2>1. \A e \in Entries : Listable[e] \subseteq Values
    BY DirectoryAssumption
  <2> QED
    BY <1>1, <2>1
    DEF DirectoryChange, Administer, ChangeMembership, ChangeGroups,
        ChangeAccounts, TypeOK, DirTypeOK, Toggle
<1>3. TypeOK'
  <2>1. PFTypeOK' /\ ConnTypeOK'
    BY <1>1 DEF TypeOK, PFTypeOK, ConnTypeOK
  <2> QED
    BY <2>1, <1>1, <1>2 DEF TypeOK, Submissions, PasswordStrings
<1>4. ConnectedIsListed' /\ AddressesUnique' /\ JoinedIsConnected'
  BY <1>1 DEF IInv, ConnectedIsListed, AddressesUnique, JoinedIsConnected
<1>5. QuietWhenDown' /\ DeviceReady'
  BY <1>1 DEF IInv, QuietWhenDown, DeviceReady
<1>6. CallContext'
  BY <1>1 DEF IInv, CallContext, user, ChosenTable
<1> QED
  BY <1>3, <1>4, <1>5, <1>6 DEF IInv

-----------------------------------------------------------------------------
(* The theorems. *)

LEMMA CallStepStep == IInv /\ CallStep => IInv'
<1> SUFFICES ASSUME IInv, CallStep PROVE IInv'
  OBVIOUS
<1>1. CASE CheckUsername
  BY <1>1, CheckUsernameStep, VanishStep
<1>2. CASE FindLDAPGroup
  BY <1>2, SearchGroupStep, CheckMemberStep DEF FindLDAPGroup
<1> QED
  BY <1>1, <1>2, ConnectLDAPStep, FindUserStep, ExtractPasswordStep,
     UserBindStep, DecideStep, UpdateTableStep, ReturnStep DEF CallStep

LEMMA StutterStep == IInv /\ UNCHANGED vars => IInv'
<1> SUFFICES ASSUME IInv, UNCHANGED vars PROVE IInv'
  OBVIOUS
<1> USE DEF vars, lifeVars, hostVars, callVars, localVars
<1>1. TypeOK'
  <2>1. DirTypeOK' /\ PFTypeOK' /\ ConnTypeOK'
    BY DEF IInv, TypeOK, DirTypeOK, PFTypeOK, ConnTypeOK
  <2> QED
    BY <2>1 DEF IInv, TypeOK, Submissions, PasswordStrings
<1>2. ConnectedIsListed' /\ AddressesUnique' /\ JoinedIsConnected'
  BY DEF IInv, ConnectedIsListed, AddressesUnique, JoinedIsConnected
<1>3. QuietWhenDown' /\ DeviceReady'
  BY DEF IInv, QuietWhenDown, DeviceReady
<1>4. CallContext'
  BY DEF IInv, CallContext, user, ChosenTable
<1> QED
  BY <1>1, <1>2, <1>3, <1>4 DEF IInv

(***************************************************************************)
(* IInv is preserved by every step, of the plugin, its host, an            *)
(* administrator or a crash.                                               *)
(***************************************************************************)
LEMMA NextIInv == IInv /\ [Next]_vars => IInv'
  BY OpenStep, VanishStep, HostStepStep, CallStepStep, DirectoryChangeStep,
     StutterStep DEF Next, Close, InitializeFails, Crash

(***************************************************************************)
(* IInv is an invariant of the plugin.                                     *)
(***************************************************************************)
THEOREM InductiveInvariant == Spec => []IInv
<1>1. Init => IInv
  BY InitIInv
<1>2. IInv /\ [Next]_vars => IInv'
  BY NextIInv
<1> QED
  BY <1>1, <1>2, PTL DEF Spec

(***************************************************************************)
(* Type correctness of the plugin, for every set of sessions, groups and   *)
(* tables; in particular find_ldap_group's walk never runs past the last   *)
(* group.                                                                  *)
(***************************************************************************)
THEOREM TypeCorrect == Spec => []TypeOK
<1>1. IInv => TypeOK
  BY DEF IInv
<1> QED
  BY <1>1, InductiveInvariant, PTL

(***************************************************************************)
(* A client that was put in a packet filter table stays in it until its    *)
(* own disconnect, whatever other sessions' calls do, whichever requests   *)
(* fail, and however the directory changes.                                *)
(***************************************************************************)
THEOREM ConnectedStaysListed == Spec => []ConnectedIsListed
<1>1. IInv => ConnectedIsListed
  BY DEF IInv
<1> QED
  BY <1>1, InductiveInvariant, PTL

-----------------------------------------------------------------------------
(***************************************************************************)
(* The two LDAP handles of a call: they are released on every path, carry  *)
(* no credentials unprotected, and searches run on the one that is set up  *)
(* as configured.  All follow from ConnInv, the state of each handle at    *)
(* each line of a call.                                                    *)
(***************************************************************************)
\* What every step below relies on.
LEMMA HandleFacts ==
  ASSUME IInv
  PROVE  /\ conn \in [Handles -> Connections]
         /\ handle \in Handles
         /\ conf.tls \in BOOLEAN /\ conf.bindDN \in BOOLEAN
         /\ "main" \in Handles /\ "auth" \in Handles
  BY ConfigShape DEF IInv, TypeOK, ConnTypeOK, Handles

(***************************************************************************)
(* A request of connect_ldap that leaves its handle as the next line needs *)
(* it, or released, keeps the invariant.                                   *)
(***************************************************************************)
LEMMA ConnectStepInv ==
  ASSUME IInv, ConnInv, pc \in ConnectLines,
         NEW done \in BOOLEAN, NEW next,
         ConnectStep(done, next),
         next \in {"options", "starttls", "servicebind", AfterConnect},
         next = "starttls" => conf.tls,
         next = "servicebind" => conf.bindDN,
         conn'[handle] = IF done THEN HandleAt(next) ELSE Closed,
         \A h \in Handles \ {handle} : conn'[h] = conn[h]
  PROVE  ConnInv'
<1>1. handle \in {"main", "auth"}
  BY HandleFacts DEF Handles
<1>2. /\ pc' = IF done THEN next ELSE "cleanup"
      /\ conf' = conf /\ handle' = handle
  BY DEF ConnectStep, Goto, lifeVars, localVars
<1>3. AfterConnect = IF handle = "main" THEN "finduser" ELSE "userbind"
  BY DEF AfterConnect
<1>4. pc # "cleanup"
  BY DEF ConnectLines
<1>5. pc' # "cleanup" => conn'[handle'] = HandleAt(pc)'
  BY <1>2 DEF HandleAt, Ready
<1>6. handle' = "main" \/ pc' = "cleanup" => conn'["auth"] = Closed
  BY <1>1, <1>2, <1>3, <1>4 DEF ConnInv, Handles
<1>7. handle' = "auth" /\ pc' # "cleanup" => conn'["main"] = Ready'
  BY <1>1, <1>2, <1>4 DEF ConnInv, Handles, Ready
<1>8. /\ handle' = "auth" => pc' \in ConnectLines \cup {"userbind", "cleanup"}
      /\ pc' = "userbind" => handle' = "auth"
      /\ pc' = "starttls" => conf'.tls
      /\ pc' = "servicebind" => conf'.bindDN
  BY <1>1, <1>2, <1>3 DEF ConnectLines
<1> QED
  BY <1>5, <1>6, <1>7, <1>8 DEF ConnInv

\* What StartTLS and a bind leave of the record of a handle.
LEMMA SetTLS ==
  ASSUME NEW h \in BOOLEAN, NEW t \in BOOLEAN, NEW b, NEW r,
         r = [open |-> h, tls |-> t, bound |-> b], NEW x \in BOOLEAN
  PROVE  [r EXCEPT !.tls = x] = [open |-> h, tls |-> x, bound |-> b]
  OBVIOUS

LEMMA SetBound ==
  ASSUME NEW h \in BOOLEAN, NEW t \in BOOLEAN, NEW b, NEW r,
         r = [open |-> h, tls |-> t, bound |-> b], NEW x
  PROVE  [r EXCEPT !.bound = x] = [open |-> h, tls |-> t, bound |-> x]
  OBVIOUS

LEMMA ConnectLDAPInv == IInv /\ ConnInv /\ ConnectLDAP => ConnInv'
<1> SUFFICES ASSUME IInv, ConnInv, ConnectLDAP PROVE ConnInv'
  OBVIOUS
<1>1. /\ conn \in [Handles -> Connections]
      /\ handle \in Handles
      /\ conf.tls \in BOOLEAN /\ conf.bindDN \in BOOLEAN
  BY HandleFacts
<1>2. AfterConnect \in {"finduser", "userbind"}
  BY DEF AfterConnect
<1>3. AfterTLS = IF conf.bindDN THEN "servicebind" ELSE AfterConnect
  BY DEF AfterTLS
<1>4. HandleAt(AfterConnect) = Ready
  BY <1>2 DEF HandleAt
<1>5. CASE OpenConnection
  <2>1. PICK done \in BOOLEAN : InitWithURL(handle, done) /\ ConnectStep(done, "options")
    BY <1>5, CompletesType DEF OpenConnection
  <2>2. pc \in ConnectLines
    BY <1>5 DEF OpenConnection, ConnectLines
  <2>3. /\ conn'[handle] = IF done THEN HandleAt("options") ELSE Closed
        /\ \A h \in Handles \ {handle} : conn'[h] = conn[h]
    BY <1>1, <2>1 DEF InitWithURL, Released, HandleAt
  <2> QED
    BY <2>1, <2>2, <2>3, ConnectStepInv
<1>6. CASE ConfigureConnection
  <2>1. PICK done \in BOOLEAN : SetOptions(handle, done) /\ ConnectStep(done, AfterOptions)
    BY <1>6, CompletesType DEF ConfigureConnection
  <2>2. pc = "options" /\ conn[handle] = Fresh
    BY <1>6 DEF ConfigureConnection, ConnInv, HandleAt
  <2>3. AfterOptions = IF conf.tls THEN "starttls" ELSE AfterTLS
    BY DEF AfterOptions
  <2>4. HandleAt(AfterOptions) = Fresh
    <3>1. CASE conf.tls
      BY <3>1, <2>3 DEF HandleAt
    <3>2. CASE ~conf.tls /\ conf.bindDN
      BY <3>2, <1>1, <1>3, <2>3 DEF HandleAt, Fresh
    <3>3. CASE ~conf.tls /\ ~conf.bindDN
      BY <3>3, <1>1, <1>3, <1>4, <2>3 DEF Ready, Fresh
    <3> QED
      BY <3>1, <3>2, <3>3
  <2>5. /\ conn'[handle] = IF done THEN HandleAt(AfterOptions) ELSE Closed
        /\ \A h \in Handles \ {handle} : conn'[h] = conn[h]
    BY <1>1, <2>1, <2>2, <2>4 DEF SetOptions, Released
  <2>6. /\ AfterOptions \in {"options", "starttls", "servicebind", AfterConnect}
        /\ AfterOptions = "starttls" => conf.tls
        /\ AfterOptions = "servicebind" => conf.bindDN
    BY <1>2, <1>3, <2>3
  <2> QED
    BY <2>1, <2>2, <2>5, <2>6, ConnectStepInv DEF ConnectLines
<1>7. CASE SecureConnection
  <2>1. PICK done \in BOOLEAN : StartTLS(handle, done) /\ ConnectStep(done, AfterTLS)
    BY <1>7, CompletesType DEF SecureConnection
  <2>2. pc = "starttls" /\ conn[handle] = Fresh /\ conf.tls
    BY <1>7 DEF SecureConnection, ConnInv, HandleAt
  <2>3. HandleAt(AfterTLS) = [Fresh EXCEPT !.tls = TRUE]
    <3>1. conf.tls = TRUE
      BY <1>1, <2>2
    <3>2. CASE conf.bindDN
      BY <3>1, <3>2, <1>3 DEF HandleAt
    <3>3. CASE ~conf.bindDN
      <4>1. Ready = [open |-> TRUE, tls |-> conf.tls, bound |-> Anonymous]
        BY <3>3 DEF Ready
      <4>2. [Fresh EXCEPT !.tls = TRUE]
              = [open |-> TRUE, tls |-> TRUE, bound |-> Anonymous]
        BY <1>1, SetTLS DEF Fresh
      <4>3. AfterTLS = AfterConnect
        BY <3>3, <1>3
      <4> QED
        BY <3>1, <4>1, <4>2, <4>3, <1>4
    <3> QED
      BY <3>2, <3>3
  <2>4. /\ conn'[handle] = IF done THEN HandleAt(AfterTLS) ELSE Closed
        /\ \A h \in Handles \ {handle} : conn'[h] = conn[h]
    BY <1>1, <2>1, <2>2, <2>3 DEF StartTLS, Released
  <2>5. /\ AfterTLS \in {"options", "starttls", "servicebind", AfterConnect}
        /\ AfterTLS = "starttls" => conf.tls
        /\ AfterTLS = "servicebind" => conf.bindDN
    BY <1>2, <1>3
  <2> QED
    BY <2>1, <2>2, <2>4, <2>5, ConnectStepInv DEF ConnectLines
<1>8. CASE BindConnection
  <2>1. PICK done \in BOOLEAN :
          ServiceBind(handle, done) /\ ConnectStep(done, AfterConnect)
    BY <1>8, CompletesType DEF BindConnection
  <2>2. pc = "servicebind" /\ conn[handle] = [Fresh EXCEPT !.tls = conf.tls]
        /\ conf.bindDN
    BY <1>8 DEF BindConnection, ConnInv, HandleAt
  <2>3. [conn[handle] EXCEPT !.bound = Service] = Ready
    <3>1. Ready = [open |-> TRUE, tls |-> conf.tls, bound |-> Service]
      BY <2>2 DEF Ready
    <3>2. conn[handle] = [open |-> TRUE, tls |-> conf.tls, bound |-> Anonymous]
      BY <2>2 DEF Fresh
    <3>3. PICK o \in BOOLEAN, t \in BOOLEAN : o = TRUE /\ t = conf.tls
      BY <1>1
    <3>4. PICK r : r = conn[handle]
      OBVIOUS
    <3>5. r = [open |-> o, tls |-> t, bound |-> Anonymous]
      BY <3>2, <3>3, <3>4
    <3>6. [r EXCEPT !.bound = Service]
            = [open |-> o, tls |-> t, bound |-> Service]
      BY <3>5, SetBound
    <3> QED
      BY <3>1, <3>3, <3>4, <3>6
  <2>4. /\ conn'[handle] = IF done THEN HandleAt(AfterConnect) ELSE Closed
        /\ \A h \in Handles \ {handle} : conn'[h] = conn[h]
    BY <1>1, <1>4, <2>1, <2>3 DEF ServiceBind, Released
  <2> QED
    BY <1>2, <2>1, <2>2, <2>4, ConnectStepInv DEF ConnectLines
<1> QED
  BY <1>5, <1>6, <1>7, <1>8 DEF ConnectLDAP

(***************************************************************************)
(* The lines at which the call has one handle, ready for searches.         *)
(***************************************************************************)
SearchLines == {"finduser", "extract", "groupsearch", "member", "decide",
                "updatetable"}

LEMMA SearchStepInv ==
  ASSUME IInv, ConnInv, pc \in SearchLines, UNCHANGED <<conn, conf, handle>>,
         pc' \in SearchLines \cup {"cleanup"}
  PROVE  ConnInv'
<1>1. handle = "main"
  BY HandleFacts DEF ConnInv, SearchLines, ConnectLines, Handles
<1>2. conn["main"] = Ready /\ conn["auth"] = Closed
  BY <1>1 DEF ConnInv, HandleAt, SearchLines
<1>3. pc' # "cleanup" => conn'[handle'] = HandleAt(pc)'
  BY <1>1, <1>2 DEF HandleAt, SearchLines, Ready
<1> QED
  BY <1>1, <1>2, <1>3 DEF ConnInv, SearchLines

LEMMA ExtractPasswordInv == IInv /\ ConnInv /\ ExtractPassword => ConnInv'
<1> SUFFICES ASSUME IInv, ConnInv, ExtractPassword PROVE ConnInv'
  OBVIOUS
<1>1. handle = "main" /\ conn["main"] = Ready /\ conn["auth"] = Closed
  BY HandleFacts DEF ConnInv, HandleAt, ExtractPassword, ConnectLines, Handles
<1>2. /\ conn' = conn /\ conf' = conf
      /\ \/ pc' = "cleanup" /\ handle' = handle
         \/ pc' = "connect" /\ handle' = "auth"
  BY DEF ExtractPassword, Goto, lifeVars
<1> QED
  BY <1>1, <1>2 DEF ConnInv, HandleAt, ConnectLines, Ready

LEMMA UserBindInv == IInv /\ ConnInv /\ UserBind => ConnInv'
<1> SUFFICES ASSUME IInv, ConnInv, UserBind PROVE ConnInv'
  OBVIOUS
<1>1. handle = "auth" /\ conn["main"] = Ready
  BY DEF ConnInv, UserBind
<1>2. /\ conn' = Released("auth") /\ handle' = "main" /\ conf' = conf
      /\ pc' \in {"decide", "groupsearch", "cleanup"}
  BY DEF UserBind, AuthReleased, FindGroup, Goto, lifeVars
<1>3. conn'["main"] = Ready /\ conn'["auth"] = Closed
  BY <1>1, <1>2, HandleFacts DEF Released
<1> QED
  BY <1>2, <1>3 DEF ConnInv, HandleAt, Ready

\* Both handles are closed: between two calls, and before the first request.
LEMMA ClosedInv ==
  ASSUME pc' \in {"idle", "start", "connect"}, handle' = "main",
         conn'["main"] = Closed, conn'["auth"] = Closed
  PROVE  ConnInv'
  BY DEF ConnInv, HandleAt

LEMMA IdleHandles ==
  ASSUME IInv, ConnInv, pc \in {"idle", "start"}
  PROVE  handle = "main" /\ conn["main"] = Closed /\ conn["auth"] = Closed
<1>1. handle = "main"
  BY HandleFacts DEF ConnInv, ConnectLines, Handles
<1> QED
  BY <1>1 DEF ConnInv, HandleAt

LEMMA NextConnInv == IInv /\ ConnInv /\ [Next]_vars => ConnInv'
<1> SUFFICES ASSUME IInv, ConnInv, [Next]_vars PROVE ConnInv'
  OBVIOUS
<1> USE DEF lifeVars, hostVars, callVars, groupVars, localVars
<1>1. CASE Vanish
  BY <1>1, ClosedInv DEF Vanish, CallOver, Handles
<1>2. CASE OpenConfig \/ OpenDevice \/ FlushNext
  <2>1. pc = "idle" /\ pc' = pc /\ conn' = conn /\ handle' = handle
    BY <1>2 DEF OpenConfig, OpenDevice, FlushNext, IInv, QuietWhenDown
  <2> QED
    BY <2>1, IdleHandles, ClosedInv
<1>3. CASE HostStep
  <2>1. pc = "idle" /\ pc' = "start" /\ conn' = conn /\ handle' = handle
    BY <1>3 DEF HostStep, CallVerify, CallConnect, CallDisconnect, Call
  <2> QED
    BY <2>1, IdleHandles, ClosedInv
<1>4. CASE CheckUsername /\ ~Vanish
  <2>1. pc = "start" /\ pc' = "connect" /\ conn' = conn /\ handle' = "main"
    BY <1>4 DEF CheckUsername, Goto
  <2> QED
    BY <2>1, IdleHandles, ClosedInv
<1>5. CASE FindUser \/ SearchGroup \/ CheckMember \/ Decide \/ UpdateTable
  <2>1. UNCHANGED <<conn, conf, handle>>
    BY <1>5 DEF FindUser, SearchGroup, CheckMember, Decide, UpdateTable
  <2>2. pc \in SearchLines /\ pc' \in SearchLines \cup {"cleanup"}
    BY <1>5
    DEF FindUser, SearchGroup, CheckMember, Decide, UpdateTable, Goto, Dispatch,
        FindGroup, AfterSearch, SearchLines
  <2> QED
    BY <2>1, <2>2, SearchStepInv
<1>6. CASE Return
  <2>1. /\ conn' = Released("main") /\ pc = "cleanup"
        /\ pc' = "idle" /\ handle' = "main"
    BY <1>6 DEF Return, CallOver
  <2>2. conn'["main"] = Closed /\ conn'["auth"] = Closed
    BY <2>1, HandleFacts DEF Released, ConnInv
  <2> QED
    BY <2>1, <2>2, ClosedInv
<1>7. CASE DirectoryChange \/ UNCHANGED vars
  <2>1. UNCHANGED <<conn, conf, handle, pc>>
    BY <1>7 DEF DirectoryChange, vars
  <2> QED
    BY <2>1 DEF ConnInv, HandleAt, Ready
<1> QED
  BY <1>1, <1>2, <1>3, <1>4, <1>5, <1>6, <1>7, ConnectLDAPInv,
     ExtractPasswordInv, UserBindInv
  DEF Next, Open, OpenPF, AbortWithoutPool, Close, InitializeFails, Crash, CallStep,
      FindLDAPGroup

-----------------------------------------------------------------------------
(***************************************************************************)
(* The state of each handle at each line of a call (connect_ldap,          *)
(* auth_ldap_user, cleanup).                                               *)
(***************************************************************************)
THEOREM HandleInvariant == Spec => []ConnInv
<1>1. Init => ConnInv
  BY DEF Init, ConnInit, CallInit, ConnInv, HandleAt, Handles
<1>2. IInv /\ ConnInv /\ [Next]_vars => ConnInv'
  BY NextConnInv
<1> QED
  BY <1>1, <1>2, InductiveInvariant, PTL DEF Spec

(***************************************************************************)
(* No handle is open between two calls, and the second one is open only    *)
(* while the user's password is checked.                                   *)
(***************************************************************************)
THEOREM HandlesReleased == Spec => []NoConnectionLeak
<1>1. IInv /\ ConnInv => NoConnectionLeak
  <2> SUFFICES ASSUME IInv, ConnInv PROVE NoConnectionLeak
    OBVIOUS
  <2>1. ~Closed.open
    BY DEF Closed
  <2> QED
    BY <2>1, IdleHandles DEF NoConnectionLeak, ConnInv, Handles
<1> QED
  BY <1>1, InductiveInvariant, HandleInvariant, PTL

(***************************************************************************)
(* Neither BindDN's password nor the user's is sent before StartTLS when   *)
(* TLSEnable is set.                                                       *)
(***************************************************************************)
THEOREM CredentialsStayProtected == Spec => []CredentialsProtected
<1>1. ConnInv => CredentialsProtected
  BY DEF ConnInv, CredentialsProtected, HandleAt, Ready, Fresh
<1> QED
  BY <1>1, HandleInvariant, PTL

(***************************************************************************)
(* Every search and compare runs on a handle that is set up exactly as     *)
(* configured, also after the bind as the user.                            *)
(***************************************************************************)
THEOREM SearchesRunAsConfigured == Spec => []SearchesAsConfigured
<1>1. IInv /\ ConnInv => SearchesAsConfigured
  BY HandleFacts
  DEF ConnInv, SearchesAsConfigured, HandleAt, ConnectLines, Handles
<1> QED
  BY <1>1, InductiveInvariant, HandleInvariant, PTL

-----------------------------------------------------------------------------
(* Outside of a call. *)

LEMMA InitAdmit == Init => AdmitInv
  BY DEF Init, CallInit, AdmitInv, AdmitControl, AdmitFacts, NoFalseAdmit,
     AccountLines, VerifiedLines

(***************************************************************************)
(* After a call nothing of it is left to rely on.                          *)
(***************************************************************************)
LEMMA CallOverAdmit ==
  ASSUME CallOver
  PROVE  AdmitInv'
<1>1. /\ pc' = "idle" /\ callType' = "verify" /\ handle' = "main"
      /\ found' = 0 /\ ret' = FALSE
  BY DEF CallOver
<1>2. AdmitControl'
  BY <1>1 DEF AdmitControl
<1>3. AdmitFacts' /\ NoFalseAdmit'
  BY <1>1 DEF AdmitFacts, NoFalseAdmit, AccountLines, VerifiedLines
<1> QED
  BY <1>2, <1>3 DEF AdmitInv

(***************************************************************************)
(* Between two calls and at the start of one, only what kind of call it is *)
(* matters.                                                                *)
(***************************************************************************)
LEMMA QuietAdmit ==
  ASSUME IInv, AdmitInv, pc = "idle", pc' \in {"idle", "start"},
         UNCHANGED <<localVars, changed>>,
         callType' = "connect" => phase'[session'] = "authed"
  PROVE  AdmitInv'
<1>1. handle' = "main" /\ found' = 0 /\ ~ret'
  BY DEF IInv, CallContext, AdmitInv, AdmitControl, localVars
<1>2. AdmitControl'
  BY <1>1 DEF AdmitControl
<1>3. AdmitFacts' /\ NoFalseAdmit'
  BY <1>1 DEF AdmitFacts, NoFalseAdmit, AccountLines, VerifiedLines
<1> QED
  BY <1>2, <1>3 DEF AdmitInv

LEMMA OpenAdmit == IInv /\ AdmitInv /\ Open => AdmitInv'
<1> SUFFICES ASSUME IInv, AdmitInv, Open PROVE AdmitInv'
  OBVIOUS
<1>1. CASE AbortWithoutPool
  BY <1>1, CallOverAdmit DEF AbortWithoutPool, Vanish
<1>2. CASE OpenConfig \/ OpenDevice \/ FlushNext
  <2>1. plugin # "up" /\ UNCHANGED <<hostVars, pc, callVars, localVars, changed>>
    BY <1>2 DEF OpenConfig, OpenDevice, FlushNext
  <2>2. pc = "idle"
    BY <2>1 DEF IInv, QuietWhenDown
  <2>3. callType' = "connect" => phase'[session'] = "authed"
    BY <2>1 DEF AdmitInv, AdmitControl, hostVars, callVars
  <2> QED
    BY <2>1, <2>2, <2>3, QuietAdmit
<1> QED
  BY <1>1, <1>2 DEF Open, OpenPF

LEMMA HostStepAdmit == IInv /\ AdmitInv /\ HostStep => AdmitInv'
<1> SUFFICES ASSUME IInv, AdmitInv, HostStep PROVE AdmitInv'
  OBVIOUS
<1>1. PICK s \in Sessions : CallVerify(s) \/ CallConnect(s) \/ CallDisconnect(s)
  BY DEF HostStep
<1>2. /\ pc = "idle" /\ pc' = "start" /\ session' = s
      /\ UNCHANGED <<phase, localVars, changed>>
      /\ callType' = "connect" => phase[s] = "authed"
  BY <1>1 DEF CallVerify, CallConnect, CallDisconnect, Call
<1> QED
  BY <1>2, QuietAdmit

(***************************************************************************)
(* Once the directory has changed under a call, nothing is promised of     *)
(* what it finds.                                                          *)
(***************************************************************************)
LEMMA DirectoryChangeAdmit == IInv /\ AdmitInv /\ DirectoryChange => AdmitInv'
<1> SUFFICES ASSUME IInv, AdmitInv, DirectoryChange PROVE AdmitInv'
  OBVIOUS
<1>1. /\ changed' = (pc # "idle")
      /\ UNCHANGED <<conn, pfVars, lifeVars, hostVars, pc, callVars, localVars>>
  BY DEF DirectoryChange
<1> USE DEF lifeVars, hostVars, callVars, localVars
<1>2. AdmitControl'
  BY <1>1 DEF AdmitInv, AdmitControl, Refused
<1>3. pc = "idle" => handle = "main" /\ found = 0
  BY DEF IInv, CallContext
<1>4. AdmitFacts' /\ NoFalseAdmit'
  BY <1>1, <1>3 DEF AdmitFacts, NoFalseAdmit, AccountLines, VerifiedLines
<1> QED
  BY <1>2, <1>4 DEF AdmitInv

-----------------------------------------------------------------------------
(* The steps of a call. *)

(***************************************************************************)
(* What the directory and the configuration say does not change in them.   *)
(***************************************************************************)
LEMMA DirectoryStays ==
  ASSUME LeavesTheRest
  PROVE  /\ accounts' = accounts /\ user' = user /\ conf' = conf
         /\ phase' = phase /\ joined' = joined /\ address' = address
         /\ callType' = callType /\ session' = session /\ given' = given
         /\ changed' = changed
         /\ account' = account => ldapUser' = ldapUser
         /\ \A i, entry : Answers(i, entry)' <=> Answers(i, entry)
         /\ \A i, entry : ListsOrErrs(i, entry)' <=> ListsOrErrs(i, entry)
<1>1. /\ accounts' = accounts /\ members' = members /\ present' = present
      /\ conf' = conf /\ phase' = phase /\ joined' = joined /\ address' = address
      /\ callType' = callType /\ session' = session /\ given' = given
      /\ changed' = changed
  BY DEF LeavesTheRest, dirVars, lifeVars, hostVars, callVars
<1>2. \A i, entry : Answers(i, entry)' <=> Answers(i, entry)
  BY <1>1 DEF Answers, MemberCheckResult, CompareResult, SearchResult, IsMember,
     IsFoundFrom, SearchValue
<1>3. \A i, entry : ListsOrErrs(i, entry)' <=> ListsOrErrs(i, entry)
  BY <1>1 DEF ListsOrErrs, Lists, Discerns, IsMember, MemberValue
<1> QED
  BY <1>1, <1>2, <1>3 DEF user, ldapUser

(***************************************************************************)
(* A step that gives up promises nothing, as the result is still failure.  *)
(***************************************************************************)
LEMMA FailureAdmit ==
  ASSUME AdmitInv, pc # "cleanup", LeavesTheRest,
         UNCHANGED <<handle, account, secret, found, ret>>,
         pc' = "cleanup"
  PROVE  AdmitInv'
<1>1. ~ret' /\ found' = found /\ account' = account
  BY DEF AdmitInv, AdmitControl
<1>2. AdmitControl'
  BY <1>1, DirectoryStays DEF AdmitInv, AdmitControl
<1>3. AdmitFacts'
  <2>1. CASE changed
    BY <2>1, DirectoryStays DEF AdmitFacts
  <2>2. CASE ~changed
    BY <2>2, <1>1, DirectoryStays DEF AdmitInv, AdmitFacts, AccountLines, VerifiedLines
  <2> QED
    BY <2>1, <2>2
<1> QED
  BY <1>1, <1>2, <1>3 DEF AdmitInv, NoFalseAdmit

LEMMA ConnectLDAPAdmit == IInv /\ AdmitInv /\ ConnectLDAP => AdmitInv'
<1> SUFFICES ASSUME IInv, AdmitInv, ConnectLDAP PROVE AdmitInv'
  OBVIOUS
<1>1. /\ LeavesTheRest /\ UNCHANGED localVars
      /\ pc \in {"connect", "options", "starttls", "servicebind"}
      /\ pc' \in {"options", "starttls", "servicebind", "finduser", "userbind",
                 "cleanup"}
      /\ pc' = "userbind" => handle # "main"
  BY DEF ConnectLDAP, OpenConnection, ConfigureConnection, SecureConnection,
      BindConnection, ConnectStep, AfterOptions, AfterTLS, AfterConnect, Goto,
      LeavesTheRest
<1>2. CASE pc' = "cleanup"
  BY <1>1, <1>2, FailureAdmit DEF localVars
<1>3. CASE pc' # "cleanup"
  <2>1. handle \in Handles
    BY DEF IInv, TypeOK
  <2>2. UNCHANGED <<handle, account, secret, found, ret>>
    BY <1>1 DEF localVars
  <2>3. AdmitControl'
    BY <1>1, <1>3, <2>1, <2>2, DirectoryStays DEF AdmitInv, AdmitControl, Handles
  <2>4. AdmitFacts'
    BY <1>1, <2>2, DirectoryStays
    DEF AdmitInv, AdmitFacts, AccountLines, VerifiedLines
  <2> QED
    BY <1>3, <2>3, <2>4 DEF AdmitInv, NoFalseAdmit
<1> QED
  BY <1>2, <1>3

LEMMA FindUserAdmit == IInv /\ AdmitInv /\ FindUser => AdmitInv'
<1> SUFFICES ASSUME IInv, AdmitInv, FindUser PROVE AdmitInv'
  OBVIOUS
<1>1. /\ LeavesTheRest
      /\ UNCHANGED <<handle, secret, groupVars, ret>>
      /\ pc = "finduser"
      /\ \/ pc' = "cleanup" /\ account' = account
         \/ pc' = Dispatch /\ account' \in accounts[user]
  BY DEF FindUser, LeavesTheRest, Goto, UserSearchResult
<1>2. CASE pc' = "cleanup" /\ account' = account
  BY <1>1, <1>2, FailureAdmit DEF groupVars
<1>3. CASE pc' = Dispatch /\ account' \in accounts[user]
  <2>1. /\ found' = 0 /\ ~ret'
        /\ handle' = handle /\ secret' = secret
    BY <1>1 DEF AdmitInv, AdmitControl, groupVars
  <2>2. /\ pc' \in {"extract", "groupsearch", "decide", "cleanup"}
        /\ pc' \in {"groupsearch", "decide"} => callType # "verify"
    BY <1>3 DEF Dispatch, FindGroup
  <2>3. AdmitControl'
    BY <1>1, <2>1, <2>2, DirectoryStays DEF AdmitInv, AdmitControl
  <2>4. AdmitFacts'
    BY <1>1, <1>3, <2>1, <2>2, DirectoryStays
    DEF AdmitFacts, VerifiedLines
  <2> QED
    BY <2>1, <2>3, <2>4 DEF AdmitInv, NoFalseAdmit
<1> QED
  BY <1>1, <1>2, <1>3

LEMMA ExtractPasswordAdmit == IInv /\ AdmitInv /\ ExtractPassword => AdmitInv'
<1> SUFFICES ASSUME IInv, AdmitInv, ExtractPassword PROVE AdmitInv'
  OBVIOUS
<1>1. /\ LeavesTheRest
      /\ UNCHANGED <<account, groupVars, ret>>
      /\ pc = "extract"
      /\ \/ pc' = "cleanup" /\ UNCHANGED <<secret, handle>>
         \/ pc' = "connect" /\ handle' = "auth" /\ secret' \in Secrets(given)
  BY DEF ExtractPassword, LeavesTheRest, Goto
<1>2. CASE pc' = "cleanup" /\ UNCHANGED <<secret, handle>>
  BY <1>1, <1>2, FailureAdmit DEF groupVars
<1>3. CASE pc' = "connect" /\ handle' = "auth" /\ secret' \in Secrets(given)
  <2>1. found' = 0 /\ ~ret' /\ account' = account
    BY <1>1 DEF AdmitInv, AdmitControl, groupVars
  <2>2. secret' \in {given.text, Garbage}
    <3>1. conf.cr \in BOOLEAN
      BY ConfigShape DEF IInv, TypeOK
    <3>2. given.wrapped \in BOOLEAN
      BY <1>1 DEF IInv, CallContext, PasswordStrings
    <3> QED
      BY <1>3, <3>1, <3>2 DEF Secrets
  <2>3. AdmitControl'
    BY <1>1, <1>3, <2>1, <2>2, DirectoryStays DEF AdmitInv, AdmitControl
  <2>4. AdmitFacts'
    BY <1>1, <1>3, <2>1, DirectoryStays
    DEF AdmitInv, AdmitFacts, AccountLines, VerifiedLines
  <2> QED
    BY <2>1, <2>3, <2>4 DEF AdmitInv, NoFalseAdmit
<1> QED
  BY <1>1, <1>2, <1>3

(***************************************************************************)
(* A bind with what the client sent, or with bytes that are nobody's       *)
(* password, succeeds only if the client sent the account's password.      *)
(***************************************************************************)
LEMMA BindProvesPassword ==
  ASSUME TypeOK, account \in Accounts, secret \in {given.text, Garbage},
         NEW done, BindResult(account, secret, done)
  PROVE  given.text = PasswordOf[account]
<1>1. secret = PasswordOf[account]
  BY DEF BindResult, BindAccepted
<1>2. PasswordOf[account] \in Passwords
  BY PasswordAssumption
<1> QED
  BY <1>1, <1>2, PluginAssumption

LEMMA UserBindAdmit == IInv /\ AdmitInv /\ UserBind => AdmitInv'
<1> SUFFICES ASSUME IInv, AdmitInv, UserBind PROVE AdmitInv'
  OBVIOUS
<1>1. /\ LeavesTheRest
      /\ UNCHANGED <<account, secret, groupVars, ret>>
      /\ pc = "userbind" /\ handle = "auth" /\ handle' = "main"
      /\ \E done : pc' = IF BindResult(account, secret, done) THEN FindGroup ELSE "cleanup"
  BY DEF UserBind, LeavesTheRest, Goto, AdmitInv, AdmitControl
<1>2. found' = 0 /\ ~ret' /\ account' = account
  BY <1>1 DEF AdmitInv, AdmitControl, groupVars
<1>3. pc' \in {"groupsearch", "decide", "cleanup"}
  BY <1>1 DEF FindGroup
<1>4. AdmitControl'
  BY <1>1, <1>2, <1>3, DirectoryStays DEF AdmitInv, AdmitControl
<1>5. AdmitFacts'
  <2> SUFFICES ASSUME ~changed
               PROVE  /\ account \in accounts[user]
                      /\ pc' # "cleanup" => given.text = PasswordOf[account]
    BY <1>1, <1>2, <1>3, DirectoryStays DEF AdmitFacts, VerifiedLines
  <2>1. account \in accounts[user]
    BY <1>1 DEF AdmitInv, AdmitFacts
  <2>2. TypeOK /\ session \in Sessions /\ user # NoUser
    BY <1>1 DEF IInv, CallContext
  <2>3. account \in Accounts
    <3>1. user \in Users
      BY <2>2, PluginAssumption DEF user
    <3> QED
      BY <2>1, <2>2, <3>1 DEF TypeOK, DirTypeOK
  <2>4. secret \in {given.text, Garbage}
    BY <1>1 DEF AdmitInv, AdmitControl
  <2> QED
    BY <1>1, <2>1, <2>2, <2>3, <2>4, BindProvesPassword
<1> QED
  BY <1>2, <1>4, <1>5 DEF AdmitInv, NoFalseAdmit

LEMMA SearchGroupAdmit == IInv /\ AdmitInv /\ SearchGroup => AdmitInv'
<1> SUFFICES ASSUME IInv, AdmitInv, SearchGroup PROVE AdmitInv'
  OBVIOUS
<1>1. /\ LeavesTheRest
      /\ UNCHANGED <<handle, account, secret, groupIndex, found, ret>>
      /\ pc = "groupsearch" /\ pc' \in {"decide", "member"}
      /\ pending' \subseteq conf.groups[groupIndex].entries
  BY DEF SearchGroup, LeavesTheRest, Goto, AfterSearch, GroupSearchResult
<1>2. ~ret'
  BY <1>1 DEF AdmitInv, AdmitControl
<1>3. AdmitControl'
  BY <1>1, <1>2, DirectoryStays DEF AdmitInv, AdmitControl
<1>4. AdmitFacts'
  BY <1>1, DirectoryStays DEF AdmitInv, AdmitFacts, AccountLines, VerifiedLines
<1> QED
  BY <1>2, <1>3, <1>4 DEF AdmitInv, NoFalseAdmit

(***************************************************************************)
(* A check without an answer says no.                                      *)
(***************************************************************************)
LEMMA DoneAnswers ==
  ASSUME NEW g, NEW e, NEW entry, NEW done, MemberCheckResult(g, e, entry, done)
  PROVE  MemberCheckResult(g, e, entry, TRUE)
  BY DEF MemberCheckResult, CompareResult, SearchResult

(***************************************************************************)
(* A group that answers for the user lists the user, unless it is one that *)
(* searches and may take another's listing for the user's.                 *)
(***************************************************************************)
LEMMA AnswersOnlyForListed ==
  ASSUME NEW i, NEW entry, Answers(i, entry)
  PROVE  ListsOrErrs(i, entry)
<1> DEFINE g == conf.groups[i]
           v == MemberValue(g, entry)
<1> SUFFICES ASSUME Discerns(i, entry) PROVE Lists(i, entry)
  BY DEF ListsOrErrs
<1>1. PICK e \in g.entries : MemberCheckResult(g, e, entry, TRUE)
  BY DEF Answers
<1>2. SearchValue(g, entry) = v
  BY DEF SearchValue, MemberValue
<1>3. CASE g.compare
  BY <1>1, <1>2, <1>3 DEF MemberCheckResult, CompareResult, Lists
<1>4. CASE ~g.compare
  <2>1. PICK c \in ({e} \cup Below[e]) \cap present :
             members[c] \cap FilterMatches[v] # {}
    BY <1>1, <1>2, <1>4 DEF MemberCheckResult, SearchResult, IsFoundFrom
  <2>2. FilterMatches[v] \subseteq {v} /\ Below[e] \subseteq g.entries
    BY <1>1, <1>4 DEF Discerns
  <2>3. c \in g.entries /\ IsMember(c, v)
    BY <1>1, <2>1, <2>2 DEF IsMember
  <2> QED
    BY <2>3 DEF Lists
<1> QED
  BY <1>3, <1>4

(***************************************************************************)
(* A group is found only if a check of an entry of it succeeds.            *)
(***************************************************************************)
LEMMA CheckMemberAdmit == IInv /\ AdmitInv /\ CheckMember => AdmitInv'
<1> SUFFICES ASSUME IInv, AdmitInv, CheckMember PROVE AdmitInv'
  OBVIOUS
<1>1. /\ LeavesTheRest
      /\ UNCHANGED <<handle, account, secret, ret>>
      /\ pc = "member"
      /\ pending' \subseteq pending
      /\ \/ pc' = "member" /\ groupIndex' = groupIndex
         \/ pc' = "groupsearch" /\ found' = 0
         \/ pc' = "decide"
  BY DEF CheckMember, LeavesTheRest, Goto
<1>2. /\ ~ret'
      /\ pending \subseteq conf.groups[groupIndex].entries
      /\ groupIndex \in DOMAIN conf.groups
  BY <1>1 DEF AdmitInv, AdmitControl, IInv, CallContext
<1>3. \/ found' = found
      \/ /\ \E e \in pending :
              MemberCheckResult(conf.groups[groupIndex], e, ldapUser, TRUE)
         /\ found' = groupIndex
  BY DoneAnswers DEF CheckMember
<1>4. AdmitControl'
  BY <1>1, <1>2, DirectoryStays DEF AdmitInv, AdmitControl
<1>5. AdmitFacts'
  <2>1. ~changed /\ found' # 0 => Answers(found', ldapUser)
    BY <1>2, <1>3 DEF AdmitInv, AdmitFacts, Answers
  <2> QED
    BY <1>1, <2>1, DirectoryStays DEF AdmitInv, AdmitFacts, AccountLines, VerifiedLines
<1> QED
  BY <1>2, <1>4, <1>5 DEF AdmitInv, NoFalseAdmit

(***************************************************************************)
(* Who is not refused for lack of a group has one that lists or errs.      *)
(***************************************************************************)
MembershipShown ==
  conf.requireGroup /\ conf.groups # <<>> =>
    \E i \in DOMAIN conf.groups : ListsOrErrs(i, ldapUser)

LEMMA NotRefusedIsMember ==
  ASSUME TypeOK, ~Refused, found # 0 => Answers(found, ldapUser)
  PROVE  MembershipShown
<1>1. found # 0 => found \in DOMAIN conf.groups /\ ListsOrErrs(found, ldapUser)
  BY AnswersOnlyForListed DEF TypeOK
<1> QED
  BY <1>1 DEF Refused, MembershipShown

LEMMA DecideAdmit == IInv /\ AdmitInv /\ Decide => AdmitInv'
<1> SUFFICES ASSUME IInv, AdmitInv, Decide PROVE AdmitInv'
  OBVIOUS
<1>1. /\ LeavesTheRest
      /\ UNCHANGED <<handle, account, secret, groupVars>>
      /\ pc = "decide"
      /\ \/ pc' = "updatetable" /\ ret' = ret /\ ~Refused
         \/ pc' = "cleanup" /\ ret' = ~Refused
  BY DEF Decide, LeavesTheRest, Goto
<1>2. Refused' = Refused /\ found' = found
  BY <1>1, DirectoryStays DEF Refused, groupVars
<1>3. AdmitControl'
  BY <1>1, <1>2, DirectoryStays DEF AdmitInv, AdmitControl
<1>4. AdmitFacts'
  BY <1>1, <1>2, DirectoryStays DEF AdmitInv, AdmitFacts, AccountLines, VerifiedLines
<1>5. NoFalseAdmit'
  <2> SUFFICES ASSUME ~changed, ~Refused, pc' = "cleanup"
               PROVE  /\ account \in accounts[user]
                      /\ MembershipShown
                      /\ callType = "verify" => given.text = PasswordOf[account]
                      /\ callType = "connect" => joined[session] = NoTable
    BY <1>1, DirectoryStays DEF NoFalseAdmit, MembershipShown
  <2>1. /\ account \in accounts[user]
        /\ callType = "verify" => given.text = PasswordOf[account]
        /\ found # 0 => Answers(found, ldapUser)
    BY <1>1 DEF AdmitInv, AdmitFacts, AccountLines, VerifiedLines
  <2>2. callType = "connect" => joined[session] = NoTable
    BY <1>1 DEF AdmitInv, AdmitControl, IInv, JoinedIsConnected, CallContext
  <2> QED
    BY <2>1, <2>2, NotRefusedIsMember DEF IInv
<1> QED
  BY <1>3, <1>4, <1>5 DEF AdmitInv

LEMMA UpdateTableAdmit == IInv /\ AdmitInv /\ UpdateTable => AdmitInv'
<1> SUFFICES ASSUME IInv, AdmitInv, UpdateTable PROVE AdmitInv'
  OBVIOUS
<1>1. /\ pc = "updatetable" /\ pc' = "cleanup"
      /\ UNCHANGED <<dirVars, lifeVars, phase, callVars, handle, account, secret,
                     groupVars, changed>>
      /\ \/ callType = "connect"
            /\ joined' = [joined EXCEPT ![session] = IF ret' THEN ChosenTable ELSE @]
         \/ callType = "disconnect"
  BY DEF UpdateTable, Goto, JoinTable, LeaveTable
<1>2. /\ accounts' = accounts /\ members' = members /\ present' = present
      /\ conf' = conf /\ callType' = callType /\ session' = session
      /\ given' = given /\ found' = found /\ user' = user /\ ldapUser' = ldapUser
  BY <1>1 DEF dirVars, lifeVars, callVars, groupVars, user, ldapUser
<1>3. /\ \A i, entry : Answers(i, entry)' <=> Answers(i, entry)
      /\ \A i, entry : ListsOrErrs(i, entry)' <=> ListsOrErrs(i, entry)
  BY <1>2 DEF Answers, MemberCheckResult, CompareResult, SearchResult, IsMember,
     IsFoundFrom, SearchValue, ListsOrErrs, Lists, Discerns, MemberValue
<1>4. AdmitControl'
  BY <1>1, <1>2 DEF AdmitInv, AdmitControl
<1>5. AdmitFacts'
  BY <1>1, <1>2, <1>3 DEF AdmitInv, AdmitFacts, AccountLines, VerifiedLines
<1>6. NoFalseAdmit'
  <2> SUFFICES ASSUME ~changed, ret'
               PROVE  /\ account \in accounts[user]
                      /\ MembershipShown
                      /\ callType = "connect"
                         /\ joined'[session] \notin {NoTable, conf.table} =>
                           \E i \in DOMAIN conf.groups :
                             /\ ListsOrErrs(i, ldapUser)
                             /\ conf.groups[i].table = joined'[session]
    BY <1>1, <1>2, <1>3 DEF NoFalseAdmit, MembershipShown
  <2>1. /\ account \in accounts[user]
        /\ found # 0 => Answers(found, ldapUser)
        /\ found # 0 => found \in DOMAIN conf.groups /\ ListsOrErrs(found, ldapUser)
        /\ ~Refused
    BY <1>1, AnswersOnlyForListed
    DEF AdmitInv, AdmitFacts, AdmitControl, AccountLines, IInv, TypeOK
  <2>2. ASSUME callType = "connect", joined'[session] # conf.table
        PROVE  found # 0 /\ conf.groups[found].table = joined'[session]
    <3>1. session \in Sessions /\ joined \in [Sessions -> Tables \cup {NoTable}]
      BY <1>1 DEF IInv, TypeOK, CallContext
    <3>2. joined'[session] = ChosenTable
      BY <1>1, <2>2, <3>1
    <3> QED
      BY <2>2, <3>2 DEF ChosenTable
  <2> QED
    BY <2>1, <2>2, NotRefusedIsMember DEF IInv
<1> QED
  BY <1>4, <1>5, <1>6 DEF AdmitInv

LEMMA CheckUsernameAdmit == IInv /\ AdmitInv /\ CheckUsername => AdmitInv'
<1> SUFFICES ASSUME IInv, AdmitInv, CheckUsername PROVE AdmitInv'
  OBVIOUS
<1>1. CASE Vanish
  BY <1>1, CallOverAdmit DEF Vanish
<1>2. CASE ~Vanish
  <2>1. /\ LeavesTheRest /\ UNCHANGED <<account, secret, groupVars, ret>>
        /\ pc = "start" /\ pc' = "connect" /\ handle' = "main"
    BY <1>2 DEF CheckUsername, LeavesTheRest, Goto
  <2>2. found' = 0 /\ ~ret'
    BY <2>1 DEF AdmitInv, AdmitControl, groupVars
  <2>3. AdmitControl'
    BY <2>1, <2>2, DirectoryStays DEF AdmitInv, AdmitControl
  <2> QED
    BY <2>1, <2>2, <2>3 DEF AdmitInv, AdmitFacts, NoFalseAdmit, AccountLines,
       VerifiedLines
<1> QED
  BY <1>1, <1>2

-----------------------------------------------------------------------------
(* The theorem. *)

LEMMA NextAdmit == IInv /\ AdmitInv /\ [Next]_vars => AdmitInv'
<1> SUFFICES ASSUME IInv, AdmitInv, [Next]_vars PROVE AdmitInv'
  OBVIOUS
<1>1. CASE CallStep
  BY <1>1, CheckUsernameAdmit, ConnectLDAPAdmit, FindUserAdmit,
     ExtractPasswordAdmit, UserBindAdmit, SearchGroupAdmit, CheckMemberAdmit,
     DecideAdmit, UpdateTableAdmit, CallOverAdmit
  DEF CallStep, FindLDAPGroup, Return
<1>2. CASE Close \/ InitializeFails \/ Crash
  BY <1>2, CallOverAdmit DEF Close, InitializeFails, Crash, Vanish
<1>3. CASE UNCHANGED vars
  <2> USE DEF vars, dirVars, lifeVars, hostVars, callVars, localVars
  <2>1. AdmitControl'
    BY <1>3 DEF AdmitInv, AdmitControl, Refused
  <2>2. AdmitFacts'
    BY <1>3 DEF AdmitInv, AdmitFacts, user, ldapUser, Answers, MemberCheckResult,
       CompareResult, SearchResult, IsMember, IsFoundFrom, SearchValue
  <2>3. NoFalseAdmit'
    BY <1>3 DEF AdmitInv, NoFalseAdmit, user, ldapUser, ListsOrErrs, Lists, Discerns,
       IsMember, MemberValue
  <2> QED
    BY <2>1, <2>2, <2>3 DEF AdmitInv
<1> QED
  BY <1>1, <1>2, <1>3, OpenAdmit, HostStepAdmit, DirectoryChangeAdmit DEF Next

(***************************************************************************)
(* A call on an unchanged directory fails closed, with any number of       *)
(* groups, entries and sessions: it succeeds only for an account the user  *)
(* search returns, with the password the client sent and the required      *)
(* membership, and joins another table than the default one only for a     *)
(* member of a group with that table.  A group that searches for its       *)
(* members, with the user's value in the filter as it is, may err, and     *)
(* then only: where the value matches more than itself or entries under    *)
(* the group's are not the group's.                                        *)
(***************************************************************************)
THEOREM FailsClosed == Spec => []NoFalseAdmit
<1>1. Init => AdmitInv
  BY InitAdmit
<1>2. IInv /\ AdmitInv /\ [Next]_vars => AdmitInv'
  BY NextAdmit
<1>3. AdmitInv => NoFalseAdmit
  BY DEF AdmitInv
<1> QED
  BY <1>1, <1>2, <1>3, InductiveInvariant, PTL DEF Spec

-----------------------------------------------------------------------------
(***************************************************************************)
(* The plugin implements AccessControl: a call takes effect in the step    *)
(* that settles its result, and every other step of it stutters.           *)
(***************************************************************************)
RInv == IInv /\ AdmitInv /\ CallPhase

-----------------------------------------------------------------------------
(* The call and the phase of its session. *)

LEMMA InitCallPhase == Init => CallPhase
  BY DEF Init, CallInit, CallPhase

(***************************************************************************)
(* The steps of a call up to its cleanup, none of which touches the        *)
(* sessions.                                                               *)
(***************************************************************************)
CallProceeds ==
  /\ pc \notin {"idle", "cleanup"} /\ pc' # "idle"
  /\ UNCHANGED <<plugin, phase, address, callType, session>>

LEMMA CallStepProceeds ==
  ASSUME IInv, CallStep
  PROVE  \/ CallProceeds
         \/ Vanish
         \/ Return
<1>1. CASE CheckUsername
  BY <1>1 DEF CheckUsername, CallProceeds, Goto, lifeVars, hostVars, callVars
<1>2. CASE ConnectLDAP
  BY <1>2 DEF ConnectLDAP, OpenConnection, ConfigureConnection, SecureConnection,
     BindConnection, ConnectStep, AfterOptions, AfterTLS, AfterConnect,
     CallProceeds, Goto, lifeVars, hostVars, callVars
<1>3. CASE FindUser
  BY <1>3 DEF FindUser, Dispatch, FindGroup, CallProceeds, Goto, lifeVars,
     hostVars, callVars
<1>4. CASE ExtractPassword
  BY <1>4 DEF ExtractPassword, CallProceeds, Goto, lifeVars, hostVars, callVars
<1>5. CASE UserBind
  BY <1>5 DEF UserBind, FindGroup, CallProceeds, Goto, lifeVars, hostVars, callVars
<1>6. CASE FindLDAPGroup
  BY <1>6 DEF FindLDAPGroup, SearchGroup, AfterSearch, CheckMember, CallProceeds,
     Goto, lifeVars, hostVars, callVars
<1>7. CASE Decide \/ UpdateTable
  BY <1>7 DEF Decide, UpdateTable, CallProceeds, Goto, lifeVars, hostVars, callVars
<1> QED
  BY <1>1, <1>2, <1>3, <1>4, <1>5, <1>6, <1>7 DEF CallStep

LEMMA NextCallPhase == IInv /\ CallPhase /\ [Next]_vars => CallPhase'
<1> SUFFICES ASSUME IInv, CallPhase, [Next]_vars PROVE CallPhase'
  OBVIOUS
<1>1. CASE Vanish \/ Return
  BY <1>1 DEF Vanish, Return, CallOver, CallPhase
<1>2. CASE CallProceeds
  BY <1>2 DEF CallProceeds, CallPhase
<1>3. CASE Open
  <2>1. CASE OpenConfig \/ OpenDevice \/ FlushNext
    BY <2>1 DEF OpenConfig, OpenDevice, FlushNext, CallPhase, hostVars, callVars
  <2> QED
    BY <1>1, <1>3, <2>1 DEF Open, OpenPF, AbortWithoutPool
<1>4. CASE HostStep
  BY <1>4 DEF HostStep, CallVerify, CallConnect, CallDisconnect, Call, CallPhase,
     PhaseBefore
<1>5. CASE DirectoryChange
  BY <1>5 DEF DirectoryChange, CallPhase, hostVars, callVars
<1>6. CASE UNCHANGED vars
  BY <1>6 DEF vars, CallPhase, hostVars, callVars
<1> QED
  BY <1>1, <1>2, <1>3, <1>4, <1>5, <1>6, CallStepProceeds
  DEF Next, Close, InitializeFails, Crash

-----------------------------------------------------------------------------
(* The mapping. *)

(***************************************************************************)
(* A session is as the host sees it, except the one whose result is        *)
(* settled.                                                                *)
(***************************************************************************)
LEMMA BarsOfHost ==
  ASSUME pc # "cleanup"
  PROVE  /\ phaseBar = phase
         /\ addressBar = [s \in Sessions |->
                            IF phase[s] = "connected" THEN address[s] ELSE NoAddress]
  BY DEF phaseBar, addressBar, settled

LEMMA BarsOfSettled ==
  ASSUME pc = "cleanup"
  PROVE  phaseBar = [phase EXCEPT ![session] = NextPhase(callType, ret)]
  BY DEF phaseBar, settled

(***************************************************************************)
(* Where no result is settled, a step that only gives an address to a      *)
(* session that is not connected is not seen.                              *)
(***************************************************************************)
LEMMA Unseen ==
  ASSUME pc # "cleanup", pc' # "cleanup", UNCHANGED <<plugin, phase, tables>>,
         \A s \in Sessions : phase[s] = "connected" => address'[s] = address[s]
  PROVE  UNCHANGED Abstract!vars
<1>1. phaseBar' = phaseBar
  BY DEF phaseBar, settled
<1>2. addressBar' = addressBar
  BY DEF addressBar, phaseBar, settled
<1> QED
  BY <1>1, <1>2 DEF Abstract!vars

(***************************************************************************)
(* When the process ends, everybody is gone.                               *)
(***************************************************************************)
LEMMA VanishStops == Vanish => Abstract!Stop
<1> SUFFICES ASSUME Vanish PROVE Abstract!Stop
  OBVIOUS
<1>1. /\ pc' = "idle" /\ plugin' = "down" /\ tables' = tables
      /\ phase' = [s \in Sessions |-> "none"]
  BY DEF Vanish, CallOver
<1>2. phaseBar' = [s \in Sessions |-> "none"]
  BY <1>1 DEF phaseBar, settled
<1>3. addressBar' = [s \in Sessions |-> NoAddress]
  BY <1>2 DEF addressBar
<1> QED
  BY <1>1, <1>2, <1>3 DEF Abstract!Stop

-----------------------------------------------------------------------------
(* The step that settles a result. *)

Settling ==
  /\ pc \notin {"idle", "cleanup"} /\ pc' = "cleanup"
  /\ plugin = "up" /\ session \in Sessions
  /\ UNCHANGED <<plugin, phase, address, callType, session>>

LEMMA SettlingBars ==
  ASSUME RInv, Settling
  PROVE  /\ phaseBar = phase
         /\ phaseBar' = [phase EXCEPT ![session] = NextPhase(callType, ret')]
         /\ phase \in [Sessions -> {"none", "authed", "connected"}]
         /\ phase[session] = PhaseBefore(callType)
         /\ plugin = "up" /\ plugin' = "up"
         /\ session \in Sessions
<1>1. phaseBar = phase
  BY BarsOfHost DEF Settling
<1>2. phaseBar' = [phase EXCEPT ![session] = NextPhase(callType, ret')]
  BY DEF phaseBar, settled, Settling
<1> QED
  BY <1>1, <1>2 DEF RInv, IInv, TypeOK, Settling, CallPhase

(***************************************************************************)
(* A settled verify is Verify, or not seen when it failed.                 *)
(***************************************************************************)
LEMMA VerifySettles ==
  ASSUME RInv, Settling, callType = "verify", ret' \in BOOLEAN, tables' = tables
  PROVE  [Abstract!Next]_(Abstract!vars)
<1>1. /\ phaseBar = phase
      /\ phaseBar' = [phase EXCEPT ![session] = IF ret' THEN "authed" ELSE "none"]
      /\ phase \in [Sessions -> {"none", "authed", "connected"}]
      /\ phase[session] = "none"
      /\ plugin = "up" /\ plugin' = "up"
      /\ session \in Sessions
  BY SettlingBars DEF NextPhase, PhaseBefore
<1>2. addressBar' = addressBar
  <2>1. \A s \in Sessions : phaseBar'[s] = "connected" <=> phaseBar[s] = "connected"
    BY <1>1
  <2> QED
    BY <2>1 DEF addressBar, Settling
<1>3. CASE ret'
  <2>1. phaseBar' = [phaseBar EXCEPT ![session] = "authed"]
    BY <1>1, <1>3
  <2>2. Abstract!Verify(session)
    BY <1>1, <1>2, <2>1 DEF Abstract!Verify
  <2> QED
    BY <1>1, <2>2 DEF Abstract!Next
<1>4. CASE ~ret'
  <2>1. phaseBar' = phaseBar
    BY <1>1, <1>4
  <2> QED
    BY <1>1, <1>2, <2>1 DEF Abstract!vars
<1> QED
  BY <1>3, <1>4

(***************************************************************************)
(* A settled connect is Refuse or Connect; it may have added the session's *)
(* address to a table that did not have it.                                *)
(***************************************************************************)
LEMMA ConnectRefused ==
  ASSUME RInv, Settling, callType = "connect", ~ret', tables' = tables
  PROVE  Abstract!Refuse(session)
<1>1. /\ phaseBar = phase
      /\ phaseBar' = [phase EXCEPT ![session] = "none"]
      /\ phase \in [Sessions -> {"none", "authed", "connected"}]
      /\ phase[session] = "authed"
      /\ plugin = "up" /\ plugin' = "up"
      /\ session \in Sessions
  BY SettlingBars DEF NextPhase, PhaseBefore
<1>2. addressBar' = addressBar
  <2>1. \A s \in Sessions : phaseBar'[s] = "connected" <=> phaseBar[s] = "connected"
    BY <1>1
  <2> QED
    BY <2>1 DEF addressBar, Settling
<1> QED
  BY <1>1, <1>2 DEF Abstract!Refuse

LEMMA ConnectSettles ==
  ASSUME RInv, Settling, callType = "connect", ret',
         address[session] \in Addresses,
         \/ tables' = tables
         \/ \E t \in Tables :
              /\ address[session] \notin tables[t]
              /\ tables' = [tables EXCEPT ![t] = @ \cup {address[session]}]
  PROVE  Abstract!Connect(session, address[session])
<1> DEFINE a == address[session]
<1>1. /\ phaseBar = phase
      /\ phaseBar' = [phase EXCEPT ![session] = "connected"]
      /\ phase \in [Sessions -> {"none", "authed", "connected"}]
      /\ phase[session] = "authed"
      /\ plugin = "up" /\ plugin' = "up"
      /\ session \in Sessions
      /\ address' = address
  BY SettlingBars DEF NextPhase, PhaseBefore, Settling
<1>2. a \notin {addressBar[r] : r \in Sessions}
  <2> SUFFICES ASSUME NEW r \in Sessions, addressBar[r] = a PROVE FALSE
    OBVIOUS
  <2>1. a # NoAddress
    BY PluginAssumption
  <2>2. phase[r] = "connected" /\ address[r] = a
    BY <1>1, <2>1 DEF addressBar
  <2>3. r = session
    BY <1>1, <2>1, <2>2 DEF RInv, IInv, AddressesUnique
  <2> QED
    BY <1>1, <2>2, <2>3
<1>3. addressBar' = [addressBar EXCEPT ![session] = a]
  <2>1. ASSUME NEW s \in Sessions
        PROVE  addressBar'[s] = IF s = session THEN a ELSE addressBar[s]
    BY <1>1 DEF addressBar
  <2>2. /\ addressBar' = [s \in Sessions |-> addressBar'[s]]
        /\ addressBar = [s \in Sessions |-> addressBar[s]]
    BY DEF addressBar
  <2> HIDE DEF a
  <2> QED
    BY <2>1, <2>2
<1>4. phaseBar' = [phaseBar EXCEPT ![session] = "connected"]
  BY <1>1
<1> QED
  BY <1>1, <1>2, <1>3, <1>4 DEF Abstract!Connect

(***************************************************************************)
(* A settled disconnect is Disconnect, also when it failed.                *)
(***************************************************************************)
LEMMA DisconnectSettles ==
  ASSUME RInv, Settling, callType = "disconnect",
         \/ tables' = tables
         \/ \E t \in Tables :
              tables' = [tables EXCEPT ![t] = @ \ {address[session]}]
  PROVE  Abstract!Disconnect(session)
<1>1. /\ phaseBar = phase
      /\ phaseBar' = [phase EXCEPT ![session] = "none"]
      /\ phase \in [Sessions -> {"none", "authed", "connected"}]
      /\ phase[session] = "connected"
      /\ plugin = "up" /\ plugin' = "up"
      /\ session \in Sessions
      /\ address' = address
  BY SettlingBars DEF NextPhase, PhaseBefore, Settling
<1>2. addressBar[session] = address[session]
  BY <1>1 DEF addressBar
<1>3. addressBar' = [addressBar EXCEPT ![session] = NoAddress]
  <2>1. ASSUME NEW s \in Sessions
        PROVE  addressBar'[s] = IF s = session THEN NoAddress ELSE addressBar[s]
    BY <1>1 DEF addressBar
  <2>2. /\ addressBar' = [s \in Sessions |-> addressBar'[s]]
        /\ addressBar = [s \in Sessions |-> addressBar[s]]
    BY DEF addressBar
  <2> QED
    BY <2>1, <2>2
<1>4. phaseBar' = [phaseBar EXCEPT ![session] = "none"]
  BY <1>1
<1> QED
  BY <1>1, <1>2, <1>3, <1>4 DEF Abstract!Disconnect

(***************************************************************************)
(* A result that is settled without a look at the tables.                  *)
(***************************************************************************)
LEMMA SettlesUntouched ==
  ASSUME RInv, Settling, tables' = tables, ret' \in BOOLEAN,
         callType = "connect" /\ ret' => address[session] \in Addresses
  PROVE  [Abstract!Next]_(Abstract!vars)
<1>1. session \in Sessions /\ callType \in CallTypes
  BY DEF Settling, RInv, IInv, TypeOK
<1>2. CASE callType = "verify"
  BY <1>2, VerifySettles
<1>3. CASE callType = "connect" /\ ret'
  <2>1. Abstract!Connect(session, address[session])
    BY <1>3, ConnectSettles
  <2> QED
    BY <1>1, <1>3, <2>1 DEF Abstract!Next
<1>4. CASE callType = "connect" /\ ~ret'
  <2>1. Abstract!Refuse(session)
    BY <1>4, ConnectRefused
  <2> QED
    BY <1>1, <2>1 DEF Abstract!Next
<1>5. CASE callType = "disconnect"
  <2>1. Abstract!Disconnect(session)
    BY <1>5, DisconnectSettles
  <2> QED
    BY <1>1, <2>1 DEF Abstract!Next
<1> QED
  BY <1>1, <1>2, <1>3, <1>4, <1>5 DEF CallTypes

LEMMA UpdateTableRefines ==
  ASSUME RInv, UpdateTable
  PROVE  [Abstract!Next]_(Abstract!vars)
<1> DEFINE t == ChosenTable
           a == address[session]
<1>1. /\ plugin = "up" /\ pfOpen
      /\ session \in Sessions /\ a \in Addresses /\ t \in Tables
      /\ tables \in [Tables -> SUBSET Addresses]
  BY UpdateTableContext DEF RInv, IInv, TypeOK, PFTypeOK, UpdateTable
<1>2. Settling
  BY <1>1 DEF UpdateTable, Settling, Goto, lifeVars, callVars
<1>3. PICK done \in BOOLEAN : JoinTable(done) \/ LeaveTable(done)
  BY CompletesType DEF UpdateTable
<1>4. CASE JoinTable(done)
  <2>1. /\ callType = "connect"
        /\ tables' = IF done THEN [tables EXCEPT ![t] = @ \cup {a}] ELSE tables
        /\ ret' = (done /\ a \notin tables[t])
    BY <1>1, <1>4 DEF JoinTable, AddAddress, AddResult
  <2> HIDE DEF t, a
  <2>2. CASE ret'
    <3>1. a \notin tables[t] /\ tables' = [tables EXCEPT ![t] = @ \cup {a}]
      BY <2>1, <2>2
    <3>2. Abstract!Connect(session, a)
      BY <1>1, <1>2, <2>1, <2>2, <3>1, ConnectSettles DEF a
    <3> QED
      BY <1>1, <3>2 DEF Abstract!Next
  <2>3. CASE ~ret'
    <3>1. tables' = tables
      <4>1. CASE ~done
        BY <2>1, <4>1
      <4>2. CASE a \in tables[t]
        <5>1. tables[t] \cup {a} = tables[t]
          BY <4>2
        <5> QED
          BY <1>1, <2>1, <5>1
      <4> QED
        BY <2>1, <2>3, <4>1, <4>2
    <3>2. Abstract!Refuse(session)
      BY <1>2, <2>1, <2>3, <3>1, ConnectRefused
    <3> QED
      BY <1>1, <3>2 DEF Abstract!Next
  <2> QED
    BY <2>2, <2>3
<1>5. CASE LeaveTable(done)
  <2>1. /\ callType = "disconnect"
        /\ tables' = IF done THEN [tables EXCEPT ![t] = @ \ {a}] ELSE tables
    BY <1>1, <1>5 DEF LeaveTable, DeleteAddress
  <2>2. Abstract!Disconnect(session)
    BY <1>1, <1>2, <2>1, DisconnectSettles
  <2> QED
    BY <1>1, <2>2 DEF Abstract!Next
<1> QED
  BY <1>3, <1>4, <1>5

-----------------------------------------------------------------------------
(* Every step. *)

(***************************************************************************)
(* The steps before the tables: they settle nothing but a failure, except  *)
(* for Decide.                                                             *)
(***************************************************************************)
LEMMA CallProceedsRefines ==
  ASSUME RInv, CallStep, CallProceeds, ~UpdateTable
  PROVE  [Abstract!Next]_(Abstract!vars)
<1>1. /\ pc \notin {"idle", "cleanup"}
      /\ UNCHANGED <<plugin, phase, address, callType, session>>
      /\ ~ret /\ plugin = "up" /\ session \in Sessions
  BY DEF CallProceeds, RInv, AdmitInv, AdmitControl, IInv, QuietWhenDown, CallContext
<1>2. tables' = tables
  BY DEF CallStep, CheckUsername, ConnectLDAP, OpenConnection, ConfigureConnection,
     SecureConnection, BindConnection, ConnectStep, FindUser, ExtractPassword,
     UserBind, FindLDAPGroup, SearchGroup, CheckMember, Decide, Return, Vanish,
     pfVars
<1>3. CASE pc' # "cleanup"
  BY <1>1, <1>2, <1>3, Unseen
<1>4. CASE pc' = "cleanup"
  <2>1. Settling
    BY <1>1, <1>4 DEF Settling
  <2>2. CASE Decide
    <3>1. ret' \in BOOLEAN
      BY CallStepStep DEF RInv, IInv, TypeOK
    <3>2. callType = "connect" => address[session] \in Addresses
      BY <1>1, <2>2 DEF Decide, RInv, IInv, TypeOK, CallContext
    <3> QED
      BY <1>2, <2>1, <3>1, <3>2, SettlesUntouched
  <2>3. CASE ~Decide
    <3>1. ret' = ret
      <4>1. ~Vanish /\ ~Return
        BY <1>4 DEF Vanish, Return, CallOver
      <4> QED
        BY <2>3, <4>1
        DEF CallStep, CheckUsername, ConnectLDAP, OpenConnection,
            ConfigureConnection, SecureConnection, BindConnection, ConnectStep,
            FindUser, ExtractPassword, UserBind, FindLDAPGroup, SearchGroup,
            CheckMember, localVars
    <3>2. ret' \in BOOLEAN /\ ~ret'
      BY <1>1, <3>1 DEF RInv, IInv, TypeOK
    <3> QED
      BY <1>2, <2>1, <3>2, SettlesUntouched
  <2> QED
    BY <2>2, <2>3
<1> QED
  BY <1>3, <1>4

(***************************************************************************)
(* The host learns what was settled.                                       *)
(***************************************************************************)
LEMMA ReturnRefines ==
  ASSUME RInv, Return
  PROVE  UNCHANGED Abstract!vars
<1>1. /\ pc = "cleanup" /\ pc' = "idle"
      /\ phase' = [phase EXCEPT ![session] = NextPhase(callType, ret)]
      /\ address' = [address EXCEPT ![session] =
                       IF NextPhase(callType, ret) = "connected" THEN @ ELSE NoAddress]
      /\ plugin' = plugin /\ tables' = tables
      /\ session \in Sessions
      /\ address \in [Sessions -> Addresses \cup {NoAddress}]
      /\ phase \in [Sessions -> {"none", "authed", "connected"}]
  BY DEF Return, CallOver, lifeVars, pfVars, RInv, IInv, TypeOK, CallContext
<1>2. phaseBar' = phaseBar
  BY <1>1, BarsOfSettled DEF phaseBar, settled
<1>3. ASSUME NEW s \in Sessions, phaseBar[s] = "connected"
      PROVE  address'[s] = address[s]
  BY <1>1, <1>3, BarsOfSettled
<1>4. addressBar' = addressBar
  BY <1>2, <1>3 DEF addressBar
<1> QED
  BY <1>1, <1>2, <1>4 DEF Abstract!vars

LEMMA HostStepRefines ==
  ASSUME RInv, HostStep
  PROVE  UNCHANGED Abstract!vars
<1>1. PICK s \in Sessions : CallVerify(s) \/ CallConnect(s) \/ CallDisconnect(s)
  BY DEF HostStep
<1>2. /\ pc = "idle" /\ pc' = "start"
      /\ UNCHANGED <<plugin, phase, tables>>
  BY <1>1 DEF CallVerify, CallConnect, CallDisconnect, Call, lifeVars, pfVars
<1>3. ASSUME NEW r \in Sessions, phase[r] = "connected"
      PROVE  address'[r] = address[r]
  <2>1. address \in [Sessions -> Addresses \cup {NoAddress}]
    BY DEF RInv, IInv, TypeOK
  <2> QED
    BY <1>1, <1>3, <2>1 DEF CallVerify, CallConnect, CallDisconnect
<1> QED
  BY <1>2, <1>3, Unseen

(***************************************************************************)
(* While the plugin is opened, tables are cleared one by one.              *)
(***************************************************************************)
LEMMA OpenRefines ==
  ASSUME RInv, OpenConfig \/ OpenDevice \/ FlushNext
  PROVE  [Abstract!Next]_(Abstract!vars)
<1>1. /\ plugin # "up"
      /\ UNCHANGED <<hostVars, pc, callVars, localVars>>
  BY DEF OpenConfig, OpenDevice, FlushNext
<1>2. pc = "idle" /\ pc' = "idle"
  BY <1>1 DEF RInv, IInv, QuietWhenDown
<1>3. phaseBar' = phaseBar
  BY <1>1, <1>2 DEF phaseBar, settled, hostVars
<1>4. addressBar' = addressBar
  BY <1>1, <1>3 DEF addressBar, hostVars
<1>5. CASE tables' = tables
  <2>1. CASE plugin' = "up"
    <3>1. Abstract!OpenWithoutFlush
      BY <1>1, <1>3, <1>4, <1>5, <2>1 DEF Abstract!OpenWithoutFlush
    <3> QED
      BY <3>1 DEF Abstract!Next
  <2>2. CASE plugin' # "up"
    BY <1>1, <1>3, <1>4, <1>5, <2>2 DEF Abstract!vars
  <2> QED
    BY <2>1, <2>2
<1>6. CASE tables' # tables
  <2>1. /\ toFlush # <<>> /\ Head(toFlush) # NoTable
        /\ tables' = [tables EXCEPT ![Head(toFlush)] = {}]
    BY <1>6 DEF OpenConfig, OpenDevice, FlushNext, Flushed, pfVars
  <2>2. Head(toFlush) \in Tables
    <3>1. toFlush \in Seq(Tables \cup {NoTable})
      BY DEF RInv, IInv, TypeOK
    <3>2. Head(toFlush) \in Tables \cup {NoTable}
      BY <2>1, <3>1
    <3> QED
      BY <2>1, <3>2
  <2>3. Abstract!Clear(Head(toFlush))
    BY <1>1, <2>1 DEF Abstract!Clear
  <2>4. Abstract!Opening
    BY <1>3, <1>4, <2>2, <2>3 DEF Abstract!Opening
  <2> QED
    BY <2>4 DEF Abstract!Next
<1> QED
  BY <1>5, <1>6

LEMMA StutterRefines ==
  ASSUME DirectoryChange \/ UNCHANGED vars
  PROVE  UNCHANGED Abstract!vars
<1>1. UNCHANGED <<plugin, phase, address, pc, session, callType, ret, tables>>
  BY DEF DirectoryChange, vars, lifeVars, hostVars, callVars, localVars, pfVars
<1>2. phaseBar' = phaseBar
  BY <1>1 DEF phaseBar, settled
<1>3. addressBar' = addressBar
  BY <1>1, <1>2 DEF addressBar
<1> QED
  BY <1>1, <1>2, <1>3 DEF Abstract!vars

LEMMA NextRefines ==
  ASSUME RInv, [Next]_vars
  PROVE  [Abstract!Next]_(Abstract!vars)
<1>1. CASE Vanish
  BY <1>1, VanishStops DEF Abstract!Next
<1>2. CASE CallStep
  BY <1>1, <1>2, CallStepProceeds, CallProceedsRefines, UpdateTableRefines,
     ReturnRefines DEF RInv
<1>3. CASE Open
  BY <1>1, <1>3, OpenRefines DEF Open, OpenPF, AbortWithoutPool
<1>4. CASE HostStep
  BY <1>4, HostStepRefines
<1>5. CASE DirectoryChange \/ UNCHANGED vars
  BY <1>5, StutterRefines
<1> QED
  BY <1>1, <1>2, <1>3, <1>4, <1>5 DEF Next, Close, InitializeFails, Crash

LEMMA InitRefines == Init => Abstract!Init
<1> SUFFICES ASSUME Init PROVE Abstract!Init
  OBVIOUS
<1>1. /\ plugin = "down" /\ pc = "idle"
      /\ phase = [s \in Sessions |-> "none"]
      /\ tables \in [Tables -> SUBSET Addresses]
  BY DEF Init, CallInit, PFInit
<1>2. phaseBar = [s \in Sessions |-> "none"]
  BY <1>1, BarsOfHost
<1>3. addressBar = [s \in Sessions |-> NoAddress]
  BY <1>2 DEF addressBar
<1> QED
  BY <1>1, <1>2, <1>3 DEF Abstract!Init

(***************************************************************************)
(* The plugin implements AccessControl with any number of sessions, groups *)
(* and tables: whatever fails, changes or dies under them, its calls look  *)
(* atomic to a host that sees their results and to the packet filter.      *)
(***************************************************************************)
THEOREM PluginRefines == Spec => ImplementsAccessControl
<1>1. Init => AdmitInv /\ CallPhase /\ Abstract!Init
  BY InitAdmit, InitCallPhase, InitRefines
<1>2. IInv /\ AdmitInv /\ CallPhase /\ [Next]_vars => AdmitInv' /\ CallPhase'
  BY NextAdmit, NextCallPhase
<1>3. IInv /\ AdmitInv /\ CallPhase /\ [Next]_vars =>
        [Abstract!Next]_(Abstract!vars)
  BY NextRefines DEF RInv
<1> QED
  BY <1>1, <1>2, <1>3, InductiveInvariant, PTL
  DEF Spec, ImplementsAccessControl, Abstract!Spec

-----------------------------------------------------------------------------
(***************************************************************************)
(* What holds of the plugin where no request fails, nobody changes the     *)
(* directory and each user has at most one account: the result of a call   *)
(* is exactly what the configuration says, and the tables hold nobody but  *)
(* the connected sessions.                                                 *)
(***************************************************************************)
Steady ==
  /\ FaultsOn = FALSE
  /\ Changes = {}
  /\ \A d \in InitialDirectories : \A u \in Users : \A a, b \in d.accounts[u] : a = b

-----------------------------------------------------------------------------
(* The inductive invariant. *)

Fixed ==
  /\ ~changed
  /\ \A u \in Users : \A a, b \in accounts[u] : a = b

\* The search for group i finds nothing, which ends the walk.
Absent(i) == conf.groups[i].entries \cap present = {}

\* The walk gets to group n.
Passed(n, entry) == \A i \in 1..n - 1 : ~Answers(i, entry) /\ ~Absent(i)

\* find_ldap_group comes back with no group.
WalksIntoNothing(entry) ==
  \/ Passed(Len(conf.groups) + 1, entry)
  \/ \E i \in DOMAIN conf.groups : Passed(i, entry) /\ Absent(i)

\* find_ldap_group comes back with group f for an entry, or with none, 0.
Walks(entry, f) ==
  \/ f = 0 /\ WalksIntoNothing(entry)
  \/ f \in DOMAIN conf.groups /\ Passed(f, entry) /\ Answers(f, entry)

\* The entries of the group under way that the search returned.
Searched == conf.groups[groupIndex].entries \cap present

\* What the check of one of them comes to.
Checks(e) == MemberCheckResult(conf.groups[groupIndex], e, ldapUser, TRUE)

WalkLines == {"groupsearch", "member", "decide", "updatetable", "cleanup"}

WalkInv ==
  /\ pc \notin WalkLines => groupIndex = 1
  /\ pc \in {"groupsearch", "member"} => Passed(groupIndex, ldapUser)
  /\ pc = "groupsearch" => found = 0
  /\ pc = "member" =>
       /\ pending # {} /\ pending \subseteq Searched
       /\ found \in {0, groupIndex}
       /\ found = groupIndex <=> \E e \in Searched \ pending : Checks(e)
  /\ pc \in {"decide", "updatetable"} => Walks(ldapUser, found)

\* Before the user search of the call.
NotSearched ==
  pc \in {"idle", "start", "finduser"} \/ (pc \in ConnectLines /\ handle = "main")

AccountInv == NotSearched => account = NoAccount

PasswordInv ==
  /\ handle = "auth" \/ pc = "extract" => given # NoPassword
  /\ handle = "auth" =>
       /\ given \in PasswordStrings
       /\ conf.cr => given.wrapped
       /\ ~conf.cr /\ given.wrapped => secret = Garbage
  /\ callType = "verify" /\ pc \in VerifiedLines => ProperPassword

CallFacts == WalkInv /\ AccountInv /\ PasswordInv

\* The table of an account for which the walk ends with f, and whether it is
\* turned away for lack of a group.
Found == {0} \cup DOMAIN conf.groups

TableOf(f) == IF f = 0 THEN conf.table ELSE conf.groups[f].table

RefusedWith(f) == conf.groups # <<>> /\ f = 0 /\ conf.requireGroup

\* What ldapUser is in a call for session s, if the account is a.
EntryOf(s, a) == [dn |-> a, rdn |-> Login[s]]

\* A walk for the account of session s leads to table t.
LeadsTo(s, t) ==
  /\ accounts[Login[s]] # {}
  /\ \A a \in accounts[Login[s]], f \in Found :
       Walks(EntryOf(s, a), f) => ~RefusedWith(f) /\ TableOf(f) = t

\* The table a connected session has joined is the one its disconnect, which
\* looks everything up again, will find.
SessionInv ==
  \A s \in Sessions : phaseBar[s] = "connected" => LeadsTo(s, joined[s])

LeaveInv ==
  pc = "cleanup" /\ callType = "disconnect" => joined[session] = NoTable

NobodyInside == plugin # "up" => \A s \in Sessions : phase[s] # "connected"

\* pf_open has flushed a table, or is still going to.
FlushInv ==
  plugin \in {"pfopen", "flushing"} =>
    \A t \in ConfiguredTables(conf) :
      tables[t] = {} \/ \E i \in 1..Len(toFlush) : toFlush[i] = t

TablesInv ==
  /\ SessionInv /\ LeaveInv /\ NobodyInside /\ FlushInv
  /\ NoOrphan /\ VerdictExact

SteadyInv == RInv /\ Fixed /\ CallFacts /\ TablesInv

-----------------------------------------------------------------------------
(* The steps. *)

LEMMA SteadyCompletes ==
  ASSUME Steady
  PROVE  Completes = {TRUE}
  BY DEF Steady, Completes

LEMMA InitFixed == ASSUME Steady, Init PROVE Fixed
  BY DEF Steady, Init, DirInit, CallInit, Fixed

(***************************************************************************)
(* The directory is always what it was.                                    *)
(***************************************************************************)
LEMMA DirectoryFixed ==
  ASSUME Steady, [Next]_vars
  PROVE  UNCHANGED dirVars
<1>1. ~DirectoryChange
  BY DEF Steady, DirectoryChange, Administer, ChangeMembership, ChangeGroups,
     ChangeAccounts
<1>2. Vanish => UNCHANGED dirVars
  BY DEF Vanish
<1>3. CASE CallStep
  <2> USE <1>2, <1>3
  <2> QED
    BY DEF CallStep, CheckUsername, ConnectLDAP, OpenConnection, ConfigureConnection,
       SecureConnection, BindConnection, ConnectStep, FindUser, ExtractPassword,
       UserBind, FindLDAPGroup, SearchGroup, CheckMember, Decide, UpdateTable, Return
<1>4. CASE Open
  BY <1>2, <1>4 DEF Open, OpenPF, OpenConfig, OpenDevice, FlushNext, AbortWithoutPool
<1>5. CASE HostStep
  BY <1>5 DEF HostStep, CallVerify, CallConnect, CallDisconnect, Call
<1> QED
  BY <1>1, <1>2, <1>3, <1>4, <1>5 DEF Next, Close, InitializeFails, Crash, vars, dirVars

LEMMA NextFixed ==
  ASSUME Steady, Fixed, [Next]_vars
  PROVE  Fixed'
<1>1. UNCHANGED dirVars
  BY DirectoryFixed
<1>2. ~changed'
  <2>1. ~DirectoryChange
    BY DEF Steady, DirectoryChange, Administer, ChangeMembership, ChangeGroups,
       ChangeAccounts
  <2>2. Vanish \/ Return => ~changed'
    BY DEF Vanish, Return, CallOver
  <2>3. CASE CallStep
    BY <2>2, <2>3 DEF Fixed, CallStep, CheckUsername, ConnectLDAP, OpenConnection,
       ConfigureConnection, SecureConnection, BindConnection, ConnectStep, FindUser,
       ExtractPassword, UserBind, FindLDAPGroup, SearchGroup, CheckMember, Decide,
       UpdateTable
  <2>4. CASE Open
    BY <2>2, <2>4 DEF Fixed, Open, OpenPF, OpenConfig, OpenDevice, FlushNext,
       AbortWithoutPool
  <2>5. CASE HostStep
    BY <2>5 DEF Fixed, HostStep, CallVerify, CallConnect, CallDisconnect, Call
  <2> QED
    BY <2>1, <2>2, <2>3, <2>4, <2>5 DEF Fixed, Next, Close, InitializeFails, Crash, vars
<1> QED
  BY <1>1, <1>2 DEF Fixed, dirVars

-----------------------------------------------------------------------------
(* The walk over the groups. *)

(***************************************************************************)
(* Where the directory and the configuration do not change, neither does   *)
(* where a walk gets.                                                      *)
(***************************************************************************)
LEMMA WalksStay ==
  ASSUME UNCHANGED dirVars, conf' = conf
  PROVE  /\ \A n, entry : Passed(n, entry)' = Passed(n, entry)
         /\ \A entry, f : Walks(entry, f)' = Walks(entry, f)
         /\ \A g, e, entry :
              MemberCheckResult(g, e, entry, TRUE)' = MemberCheckResult(g, e, entry, TRUE)
<1>1. members' = members /\ present' = present
  BY DEF dirVars
<1>2. \A g, e, entry :
        MemberCheckResult(g, e, entry, TRUE)' = MemberCheckResult(g, e, entry, TRUE)
  BY <1>1 DEF MemberCheckResult, CompareResult, SearchResult, IsMember, IsFoundFrom,
     SearchValue
<1>3. \A i, entry : Answers(i, entry)' = Answers(i, entry)
  BY <1>2 DEF Answers
<1>4. \A n, entry : Passed(n, entry)' = Passed(n, entry)
  BY <1>1, <1>3 DEF Passed, Absent
<1>5. \A entry, f : Walks(entry, f)' = Walks(entry, f)
  BY <1>1, <1>3 DEF Walks, WalksIntoNothing, Passed, Absent
<1> QED
  BY <1>2, <1>4, <1>5

LEMMA GroupsShape ==
  ASSUME TypeOK
  PROVE  /\ conf.groups \in Seq(GroupConfigs)
         /\ Len(conf.groups) \in Nat
         /\ DOMAIN conf.groups = 1..Len(conf.groups)
<1>1. conf.groups \in Seq(GroupConfigs)
  BY ConfigShape DEF TypeOK
<1> QED
  BY <1>1

(***************************************************************************)
(* The search of a group that answers finds an entry.                      *)
(***************************************************************************)
LEMMA AnswersIsPresent ==
  ASSUME NEW i, NEW entry, Answers(i, entry)
  PROVE  ~Absent(i)
  BY DEF Answers, MemberCheckResult, CompareResult, SearchResult, IsMember,
     IsFoundFrom, Absent

(***************************************************************************)
(* A walk that ends with nothing has passed every group or met one whose   *)
(* search finds nothing, so that no other walk ends with a group.          *)
(***************************************************************************)
LEMMA NothingMeansNothing ==
  ASSUME TypeOK, NEW entry, WalksIntoNothing(entry),
         NEW g \in DOMAIN conf.groups, Passed(g, entry), Answers(g, entry)
  PROVE  FALSE
<1>1. /\ Len(conf.groups) \in Nat
      /\ DOMAIN conf.groups = 1..Len(conf.groups)
  BY GroupsShape
<1>2. CASE Passed(Len(conf.groups) + 1, entry)
  <2>1. g \in 1..(Len(conf.groups) + 1) - 1
    BY <1>1
  <2> QED
    BY <1>2, <2>1 DEF Passed
<1>3. ASSUME NEW i \in DOMAIN conf.groups, Passed(i, entry), Absent(i)
      PROVE  FALSE
  <2>1. i # g
    BY <1>3, AnswersIsPresent
  <2>2. i \in 1..g - 1 \/ g \in 1..i - 1
    BY <1>1, <2>1
  <2> QED
    BY <1>3, <2>2 DEF Passed
<1> QED
  BY <1>2, <1>3 DEF WalksIntoNothing

(***************************************************************************)
(* A walk ends in one way only.                                            *)
(***************************************************************************)
LEMMA WalkUnique ==
  ASSUME TypeOK, NEW entry, NEW f, NEW g, Walks(entry, f), Walks(entry, g)
  PROVE  f = g
<1>1. CASE f = 0 \/ g = 0
  <2>1. WalksIntoNothing(entry)
    <3>1. 0 \notin DOMAIN conf.groups
      BY GroupsShape
    <3> QED
      BY <1>1, <3>1 DEF Walks
  <2>2. WalksIntoNothing(entry) => f = 0
    BY NothingMeansNothing DEF Walks
  <2>3. WalksIntoNothing(entry) => g = 0
    BY NothingMeansNothing DEF Walks
  <2> QED
    BY <2>1, <2>2, <2>3
<1>2. CASE f # 0 /\ g # 0
  <2>1. /\ f \in DOMAIN conf.groups /\ Passed(f, entry) /\ Answers(f, entry)
        /\ g \in DOMAIN conf.groups /\ Passed(g, entry) /\ Answers(g, entry)
    BY <1>2 DEF Walks
  <2>2. f \in Nat /\ g \in Nat /\ 1 <= f /\ 1 <= g
    BY <2>1, GroupsShape
  <2>3. ~(f <= g - 1) /\ ~(g <= f - 1)
    BY <2>1, <2>2 DEF Passed
  <2> QED
    BY <2>2, <2>3
<1> QED
  BY <1>1, <1>2

(***************************************************************************)
(* A group that recognises the user's value answers for those it lists.    *)
(***************************************************************************)
LEMMA RecognisedAnswers ==
  ASSUME NEW i, NEW entry, Recognises(i, entry)
  PROVE  Answers(i, entry) <=> Lists(i, entry)
<1> DEFINE g == conf.groups[i]
           v == MemberValue(g, entry)
<1>1. Answers(i, entry) => Lists(i, entry)
  BY AnswersOnlyForListed DEF Recognises, ListsOrErrs
<1>2. ASSUME Lists(i, entry) PROVE Answers(i, entry)
  <2>1. PICK e \in g.entries : IsMember(e, v)
    BY <1>2 DEF Lists
  <2>2. SearchValue(g, entry) = v
    BY DEF SearchValue, MemberValue
  <2>3. CASE g.compare
    BY <2>1, <2>2, <2>3 DEF Answers, MemberCheckResult, CompareResult
  <2>4. CASE ~g.compare
    <3>1. e \in present /\ v \in members[e] /\ v \in FilterMatches[v]
      BY <2>1, <2>4 DEF IsMember, Recognises
    <3>2. IsFoundFrom(e, v)
      BY <3>1 DEF IsFoundFrom
    <3> QED
      BY <2>1, <2>2, <2>4, <3>2 DEF Answers, MemberCheckResult, SearchResult
  <2> QED
    BY <2>3, <2>4
<1> QED
  BY <1>1, <1>2

(***************************************************************************)
(* Where every group has an entry and recognises the user, it ends with    *)
(* the first that lists the user, and with nothing if none does.           *)
(***************************************************************************)
AllRecognise(entry) == \A i \in DOMAIN conf.groups : Recognises(i, entry)

LEMMA WalkFindsFirst ==
  ASSUME TypeOK, AllGroupsPresent, NEW entry, AllRecognise(entry),
         NEW f, Walks(entry, f)
  PROVE  f = FirstMatching(entry) /\ (f = 0 <=> MatchingGroups(entry) = {})
<1>1. /\ Len(conf.groups) \in Nat
      /\ DOMAIN conf.groups = 1..Len(conf.groups)
  BY GroupsShape
<1> DEFINE matching == MatchingGroups(entry)
<1>2. matching = {i \in DOMAIN conf.groups : Answers(i, entry)}
  BY RecognisedAnswers DEF AllRecognise, MatchingGroups
<1> HIDE DEF matching
<1>3. CASE f = 0 /\ WalksIntoNothing(entry)
  <2>1. Passed(Len(conf.groups) + 1, entry)
    BY <1>3 DEF WalksIntoNothing, AllGroupsPresent, Absent
  <2>2. \A i \in DOMAIN conf.groups : ~Answers(i, entry)
    <3>1. DOMAIN conf.groups = 1..(Len(conf.groups) + 1) - 1
      BY <1>1
    <3> QED
      BY <2>1, <3>1 DEF Passed
  <2>3. matching = {}
    BY <1>2, <2>2
  <2> QED
    BY <1>3, <2>3 DEF FirstMatching, First, matching
<1>4. CASE f \in DOMAIN conf.groups /\ Passed(f, entry) /\ Answers(f, entry)
  <2>1. f \in matching /\ matching \subseteq 1..Len(conf.groups)
    BY <1>1, <1>4, <1>2
  <2>2. \A j \in matching : j \notin 1..f - 1
    BY <1>4, <1>2 DEF Passed
  <2>3. \A j \in matching : f <= j
    BY <1>1, <2>1, <2>2
  <2>4. \A i \in matching : (\A j \in matching : i <= j) => i = f
    BY <1>1, <2>1, <2>3
  <2>5. FirstMatching(entry) = CHOOSE i \in matching : \A j \in matching : i <= j
    BY <2>1 DEF FirstMatching, First, matching
  <2>6. f = FirstMatching(entry)
    BY <2>1, <2>3, <2>4, <2>5
  <2> QED
    BY <1>1, <2>1, <2>6 DEF matching
<1> QED
  BY <1>3, <1>4 DEF Walks

-----------------------------------------------------------------------------
(* What a call knows at each of its lines. *)

LEMMA CallOverFacts ==
  ASSUME CallOver
  PROVE  CallFacts'
<1>1. /\ pc' = "idle" /\ handle' = "main" /\ account' = NoAccount
      /\ groupIndex' = 1
  BY DEF CallOver
<1>2. WalkInv'
  BY <1>1 DEF WalkInv, WalkLines
<1>3. AccountInv'
  BY <1>1 DEF AccountInv
<1>4. PasswordInv'
  BY <1>1 DEF PasswordInv, VerifiedLines
<1> QED
  BY <1>2, <1>3, <1>4 DEF CallFacts

LEMMA InitFacts == Init => CallFacts
<1> SUFFICES ASSUME Init PROVE CallFacts
  OBVIOUS
<1>1. /\ pc = "idle" /\ handle = "main" /\ account = NoAccount /\ groupIndex = 1
  BY DEF Init, CallInit
<1> QED
  BY <1>1 DEF CallFacts, WalkInv, WalkLines, AccountInv, PasswordInv, VerifiedLines

(***************************************************************************)
(* Between two calls and at the start of one.                              *)
(***************************************************************************)
LEMMA QuietFacts ==
  ASSUME IInv, CallFacts, pc = "idle", pc' \in {"idle", "start"},
         UNCHANGED localVars
  PROVE  CallFacts'
<1>1. /\ handle' = "main" /\ groupIndex' = 1
      /\ account' = NoAccount
  BY DEF IInv, CallContext, CallFacts, AccountInv, NotSearched, localVars
<1>2. WalkInv'
  BY <1>1 DEF WalkInv, WalkLines
<1>3. AccountInv'
  BY <1>1 DEF AccountInv
<1>4. PasswordInv'
  BY <1>1 DEF PasswordInv, VerifiedLines
<1> QED
  BY <1>2, <1>3, <1>4 DEF CallFacts

(***************************************************************************)
(* Up to the walk, and when it is over.                                    *)
(***************************************************************************)
LEMMA BeforeWalk ==
  ASSUME WalkInv, pc \notin WalkLines, pc' \notin WalkLines \ {"cleanup"},
         groupIndex' = groupIndex
  PROVE  WalkInv'
  BY DEF WalkInv, WalkLines

LEMMA WalkBegins ==
  ASSUME IInv, WalkInv, LeavesTheRest, pc \notin WalkLines, pc' = FindGroup,
         groupIndex' = groupIndex, found' = 0
  PROVE  WalkInv'
<1>1. groupIndex' = 1 /\ pc' \in {"decide", "groupsearch"}
  BY DEF WalkInv, FindGroup
<1>2. \A n, entry : Passed(n, entry)' = Passed(n, entry)
  BY WalksStay DEF LeavesTheRest, lifeVars
<1>3. \A entry, f : Walks(entry, f)' = Walks(entry, f)
  BY WalksStay DEF LeavesTheRest, lifeVars
<1>4. Passed(1, ldapUser')
  BY DEF Passed
<1>5. pc' = "decide" => Walks(ldapUser', 0)
  <2> SUFFICES ASSUME conf.groups = <<>> PROVE Walks(ldapUser', 0)
    BY <1>1 DEF FindGroup
  <2>1. Len(conf.groups) + 1 = 1
    OBVIOUS
  <2> QED
    BY <1>4, <2>1 DEF Walks, WalksIntoNothing
<1> QED
  BY <1>1, <1>2, <1>3, <1>4, <1>5 DEF WalkInv, WalkLines

LEMMA CheckUsernameFacts ==
  ASSUME IInv, CallFacts, CheckUsername, ~Vanish
  PROVE  CallFacts'
<1>1. /\ UNCHANGED <<account, secret, groupVars, ret>>
      /\ pc = "start" /\ pc' = "connect" /\ handle' = "main"
  BY DEF CheckUsername, Goto
<1>2. WalkInv'
  BY <1>1, BeforeWalk DEF CallFacts, WalkLines, groupVars
<1>3. account' = NoAccount
  BY <1>1 DEF CallFacts, AccountInv, NotSearched
<1> QED
  BY <1>1, <1>2, <1>3 DEF CallFacts, AccountInv, PasswordInv, VerifiedLines

LEMMA ConnectLDAPFacts ==
  ASSUME IInv, CallFacts, ConnectLDAP
  PROVE  CallFacts'
<1>1. /\ LeavesTheRest /\ UNCHANGED localVars
      /\ pc \in ConnectLines
      /\ pc' \in ConnectLines \cup {"finduser", "userbind", "cleanup"}
      /\ pc' = "finduser" => handle = "main"
  BY DEF ConnectLDAP, OpenConnection, ConfigureConnection, SecureConnection,
      BindConnection, ConnectStep, AfterOptions, AfterTLS, AfterConnect, Goto,
      LeavesTheRest, ConnectLines
<1>2. UNCHANGED <<handle, account, secret, groupIndex, given, conf>>
  BY <1>1 DEF localVars, LeavesTheRest, lifeVars, callVars
<1>3. WalkInv'
  BY <1>1, <1>2, BeforeWalk DEF CallFacts, WalkLines, ConnectLines
<1>4. AccountInv'
  BY <1>1, <1>2 DEF CallFacts, AccountInv, NotSearched, ConnectLines
<1>5. PasswordInv'
  BY <1>1, <1>2 DEF CallFacts, PasswordInv, VerifiedLines, ConnectLines
<1> QED
  BY <1>3, <1>4, <1>5 DEF CallFacts

LEMMA FindUserFacts ==
  ASSUME IInv, AdmitInv, CallFacts, FindUser
  PROVE  CallFacts'
<1>1. /\ LeavesTheRest
      /\ UNCHANGED <<handle, secret, groupVars, ret>>
      /\ pc = "finduser"
      /\ pc' \in {Dispatch, "cleanup"}
  BY DEF FindUser, LeavesTheRest, Goto
<1>2. UNCHANGED <<handle, secret, groupIndex, found, given, conf, callType>>
  BY <1>1 DEF LeavesTheRest, lifeVars, callVars, groupVars
<1>3. /\ pc' \in {"extract", "cleanup", FindGroup}
      /\ pc' \in {"extract", "cleanup", "decide", "groupsearch"}
      /\ pc' \in {"decide", "groupsearch"} => callType # "verify"
      /\ pc' = "extract" => given # NoPassword
  BY <1>1 DEF Dispatch, FindGroup
<1>4. WalkInv'
  <2>1. found' = 0
    BY <1>1, <1>2 DEF AdmitInv, AdmitControl
  <2>2. CASE pc' = FindGroup
    BY <1>1, <1>2, <2>1, <2>2, WalkBegins DEF CallFacts, WalkLines
  <2>3. CASE pc' \in {"extract", "cleanup"}
    BY <1>1, <1>2, <2>3, BeforeWalk DEF CallFacts, WalkLines
  <2> QED
    BY <1>3, <2>2, <2>3
<1>5. AccountInv'
  BY <1>3 DEF AccountInv, NotSearched, ConnectLines
<1>6. PasswordInv'
  BY <1>1, <1>2, <1>3 DEF CallFacts, PasswordInv, VerifiedLines
<1> QED
  BY <1>4, <1>5, <1>6 DEF CallFacts

LEMMA ExtractPasswordFacts ==
  ASSUME IInv, CallFacts, ExtractPassword
  PROVE  CallFacts'
<1>1. /\ LeavesTheRest
      /\ UNCHANGED <<account, groupVars, ret>>
      /\ pc = "extract"
      /\ \/ pc' = "cleanup" /\ UNCHANGED <<secret, handle>>
         \/ /\ pc' = "connect" /\ handle' = "auth"
            /\ conf.cr => given.wrapped
            /\ secret' \in Secrets(given)
  BY DEF ExtractPassword, LeavesTheRest, Goto
<1>2. UNCHANGED <<groupIndex, given, conf, callType>>
  BY <1>1 DEF LeavesTheRest, lifeVars, callVars, groupVars
<1>3. WalkInv'
  BY <1>1, <1>2, BeforeWalk DEF CallFacts, WalkLines
<1>4. AccountInv'
  BY <1>1 DEF AccountInv, NotSearched, ConnectLines
<1>5. PasswordInv'
  <2>1. CASE pc' = "cleanup" /\ UNCHANGED <<secret, handle>>
    BY <1>2, <2>1 DEF CallFacts, PasswordInv, VerifiedLines
  <2>2. CASE /\ pc' = "connect" /\ handle' = "auth"
             /\ conf.cr => given.wrapped
             /\ secret' \in Secrets(given)
    <3>1. given \in PasswordStrings
      BY <1>1 DEF IInv, CallContext
    <3>2. ~conf.cr /\ given.wrapped => secret' = Garbage
      BY <2>2 DEF Secrets
    <3>3. given # NoPassword
      BY <1>1 DEF CallFacts, PasswordInv
    <3> QED
      BY <1>2, <2>2, <3>1, <3>2, <3>3 DEF PasswordInv, VerifiedLines
  <2> QED
    BY <1>1, <2>1, <2>2
<1> QED
  BY <1>3, <1>4, <1>5 DEF CallFacts

(***************************************************************************)
(* The bind as the user, which nothing but a wrong password makes fail.    *)
(***************************************************************************)
LEMMA BindSettlesPassword ==
  ASSUME TypeOK, handle = "auth", PasswordInv,
         secret \in {given.text, Garbage},
         user \in Users, account \in accounts[user]
  PROVE  BindResult(account, secret, TRUE) <=> ProperPassword
<1>1. /\ given \in PasswordStrings
      /\ conf.cr => given.wrapped
      /\ ~conf.cr /\ given.wrapped => secret = Garbage
      /\ conf.cr \in BOOLEAN /\ given.wrapped \in BOOLEAN
  BY ConfigShape DEF PasswordInv, PasswordStrings, TypeOK
<1>2. account \in Accounts
  BY DEF TypeOK, DirTypeOK
<1>3. PasswordOf[account] \in Passwords
  BY <1>2, PasswordAssumption
<1>4. PasswordOf[account] # EmptyPassword /\ PasswordOf[account] # Garbage
  BY <1>3, PasswordAssumption, PluginAssumption
<1>5. given # NoPassword
  BY DEF PasswordInv
<1>6. ASSUME BindResult(account, secret, TRUE) PROVE ProperPassword
  <2>1. secret = PasswordOf[account]
    BY <1>6 DEF BindResult, BindAccepted
  <2>2. secret = given.text
    BY <2>1, <1>4
  <2>3. given.wrapped = conf.cr
    BY <1>1, <1>4, <2>1
  <2> QED
    BY <1>5, <2>1, <2>2, <2>3 DEF ProperPassword
<1>7. ASSUME ProperPassword PROVE BindResult(account, secret, TRUE)
  <2>1. secret = PasswordOf[account]
    BY <1>7 DEF ProperPassword
  <2> QED
    BY <1>4, <2>1 DEF BindResult, BindAccepted, Exists
<1> QED
  BY <1>6, <1>7

LEMMA UserBindFacts ==
  ASSUME Steady, Fixed, IInv, AdmitInv, CallFacts, UserBind
  PROVE  CallFacts'
<1>1. /\ LeavesTheRest
      /\ UNCHANGED <<account, secret, groupVars, ret>>
      /\ pc = "userbind" /\ handle = "auth" /\ handle' = "main"
      /\ pc' = IF BindResult(account, secret, TRUE) THEN FindGroup ELSE "cleanup"
  BY SteadyCompletes DEF UserBind, LeavesTheRest, Goto, AdmitInv, AdmitControl
<1>2. UNCHANGED <<account, secret, groupIndex, found, given, conf, callType>>
  BY <1>1 DEF LeavesTheRest, lifeVars, callVars, groupVars
<1>3. pc' \in {"cleanup", "decide", "groupsearch"} /\ pc' \in {"cleanup", FindGroup}
  BY <1>1 DEF FindGroup
<1>4. WalkInv'
  <2>1. found' = 0
    BY <1>1, <1>2 DEF AdmitInv, AdmitControl
  <2>2. CASE pc' = FindGroup
    BY <1>1, <1>2, <2>1, <2>2, WalkBegins DEF CallFacts, WalkLines
  <2>3. CASE pc' = "cleanup"
    BY <1>1, <1>2, <2>3, BeforeWalk DEF CallFacts, WalkLines
  <2> QED
    BY <1>3, <2>2, <2>3
<1>5. AccountInv'
  BY <1>3 DEF AccountInv, NotSearched, ConnectLines
<1>6. PasswordInv'
  <2>1. TypeOK /\ session \in Sessions /\ user # NoUser
    BY <1>1 DEF IInv, CallContext
  <2>2. user \in Users
    BY <2>1, PluginAssumption DEF user
  <2>3. account \in accounts[user]
    BY <1>1 DEF Fixed, AdmitInv, AdmitFacts
  <2>4. secret \in {given.text, Garbage}
    BY <1>1 DEF AdmitInv, AdmitControl
  <2>5. pc' # "cleanup" => ProperPassword
    BY <1>1, <2>1, <2>2, <2>3, <2>4, BindSettlesPassword DEF CallFacts
  <2> QED
    BY <1>1, <1>2, <2>5 DEF PasswordInv, VerifiedLines, ProperPassword
<1> QED
  BY <1>4, <1>5, <1>6 DEF CallFacts

(***************************************************************************)
(* The walk itself.                                                        *)
(***************************************************************************)
LEMMA PasswordKept ==
  ASSUME CallFacts, LeavesTheRest, UNCHANGED <<handle, account, secret>>,
         pc \in VerifiedLines, pc' # "extract"
  PROVE  PasswordInv'
<1>1. UNCHANGED <<handle, account, secret, given, conf, callType>>
  BY DEF LeavesTheRest, lifeVars, callVars
<1> QED
  BY <1>1 DEF CallFacts, PasswordInv, ProperPassword

LEMMA SearchGroupFacts ==
  ASSUME Steady, IInv, CallFacts, SearchGroup
  PROVE  CallFacts'
<1>1. /\ LeavesTheRest
      /\ UNCHANGED <<handle, account, secret, groupIndex, found, ret>>
      /\ pc = "groupsearch"
      /\ pending' = Searched
      /\ pc' = IF pending' = {} THEN "decide" ELSE "member"
  <2>1. PICK done \in Completes :
          pending' = GroupSearchResult(conf.groups[groupIndex].entries, done)
    BY DEF SearchGroup
  <2>2. done = TRUE
    BY SteadyCompletes
  <2>3. pending' = Searched
    BY <2>1, <2>2 DEF GroupSearchResult, Searched
  <2> QED
    BY <2>3 DEF SearchGroup, LeavesTheRest, Goto, AfterSearch
<1>2. /\ groupIndex \in DOMAIN conf.groups /\ TypeOK
      /\ Passed(groupIndex, ldapUser) /\ found = 0
  BY <1>1 DEF IInv, CallContext, CallFacts, WalkInv
<1>3. groupIndex # 0
  BY <1>2, GroupsShape
<1>4. conf' = conf /\ present' = present /\ ldapUser' = ldapUser
  BY <1>1, DirectoryStays DEF LeavesTheRest, dirVars
<1>5. \A n, entry : Passed(n, entry)' = Passed(n, entry)
  BY <1>1, WalksStay DEF LeavesTheRest, lifeVars
<1>6. \A entry, f : Walks(entry, f)' = Walks(entry, f)
  BY <1>1, WalksStay DEF LeavesTheRest, lifeVars
<1>7. WalkInv'
  <2>1. CASE pc' = "decide"
    <3>1. Absent(groupIndex)
      BY <1>1, <2>1 DEF Searched, Absent
    <3>2. Walks(ldapUser, found)
      BY <1>2, <3>1 DEF Walks, WalksIntoNothing
    <3> QED
      BY <1>1, <1>4, <1>6, <2>1, <3>2 DEF WalkInv, WalkLines
  <2>2. CASE pc' = "member"
    <3>1. Searched' = Searched
      BY <1>1, <1>4 DEF Searched
    <3>2. pending' # {} /\ Searched' \ pending' = {}
      BY <1>1, <2>2, <3>1
    <3> QED
      BY <1>1, <1>2, <1>3, <1>4, <1>5, <2>2, <3>1, <3>2 DEF WalkInv, WalkLines
  <2> QED
    BY <1>1, <2>1, <2>2
<1>8. AccountInv'
  BY <1>1 DEF AccountInv, NotSearched, ConnectLines
<1> QED
  BY <1>1, <1>7, <1>8, PasswordKept DEF CallFacts, VerifiedLines

(***************************************************************************)
(* When the last entry of a group was looked at, found says whether the    *)
(* group answers.                                                          *)
(***************************************************************************)
LEMMA CheckMemberFacts ==
  ASSUME Steady, IInv, CallFacts, CheckMember
  PROVE  CallFacts'
<1>1. /\ LeavesTheRest
      /\ UNCHANGED <<handle, account, secret, ret>>
      /\ pc = "member"
      /\ \/ pending' # {} /\ pc' = "member" /\ groupIndex' = groupIndex
         \/ /\ pending' = {} /\ found' = 0 /\ ~LastGroup
            /\ groupIndex' = groupIndex + 1 /\ pc' = "groupsearch"
         \/ /\ pending' = {}
            /\ found' # 0 \/ LastGroup
            /\ pc' = "decide" /\ groupIndex' = groupIndex
  BY DEF CheckMember, LeavesTheRest, Goto
<1>2. PICK e \in pending :
        /\ pending' = pending \ {e}
        /\ found' = IF Checks(e) THEN groupIndex ELSE found
  <2>1. PICK e \in pending, done \in Completes :
          /\ pending' = pending \ {e}
          /\ found' = IF MemberCheckResult(conf.groups[groupIndex], e, ldapUser, done)
                       THEN groupIndex
                       ELSE found
    BY DEF CheckMember
  <2>2. done = TRUE
    BY SteadyCompletes
  <2> QED
    BY <2>1, <2>2 DEF Checks
<1>3. /\ groupIndex \in DOMAIN conf.groups /\ TypeOK
      /\ Passed(groupIndex, ldapUser)
      /\ pending \subseteq Searched
      /\ found \in {0, groupIndex}
      /\ found = groupIndex <=> \E x \in Searched \ pending : Checks(x)
  BY <1>1 DEF IInv, CallContext, CallFacts, WalkInv
<1>4. /\ groupIndex \in Nat \ {0} /\ Len(conf.groups) \in Nat
      /\ groupIndex \in 1..Len(conf.groups)
  BY <1>3, GroupsShape
<1>5. conf' = conf /\ present' = present /\ ldapUser' = ldapUser
  BY <1>1, DirectoryStays DEF LeavesTheRest, dirVars
<1>6. \A n, entry : Passed(n, entry)' = Passed(n, entry)
  BY <1>1, WalksStay DEF LeavesTheRest, lifeVars
<1>7. \A entry, f : Walks(entry, f)' = Walks(entry, f)
  BY <1>1, WalksStay DEF LeavesTheRest, lifeVars
<1>8. \A g, x, entry :
        MemberCheckResult(g, x, entry, TRUE)' = MemberCheckResult(g, x, entry, TRUE)
  BY <1>1, WalksStay DEF LeavesTheRest, lifeVars
<1>9. /\ found' \in {0, groupIndex}
      /\ found' = groupIndex <=> \E x \in Searched \ pending' : Checks(x)
  <2>1. Searched \ pending' = (Searched \ pending) \cup {e}
    BY <1>2, <1>3
  <2> QED
    BY <1>2, <1>3, <2>1
<1>10. pending' = {} => (found' = groupIndex <=> Answers(groupIndex, ldapUser))
  <2>1. \A x : Checks(x) => x \in present
    BY DEF Checks, MemberCheckResult, CompareResult, SearchResult, IsMember, IsFoundFrom
  <2> QED
    BY <1>9, <2>1 DEF Searched, Answers, Checks
<1>11. ~Absent(groupIndex)
  BY <1>2, <1>3 DEF Searched, Absent
<1>12. ASSUME pending' = {}, found' = 0
       PROVE  Passed(groupIndex + 1, ldapUser)
  <2>1. ~Answers(groupIndex, ldapUser)
    BY <1>4, <1>10, <1>12
  <2>2. 1..(groupIndex + 1) - 1 = 1..(groupIndex - 1) \cup {groupIndex}
    BY <1>4
  <2> QED
    BY <1>3, <1>11, <2>1, <2>2 DEF Passed
<1>13. WalkInv'
  <2>1. CASE pending' # {} /\ pc' = "member" /\ groupIndex' = groupIndex
    <3>1. Searched' = Searched
      BY <1>5, <2>1 DEF Searched
    <3>2. pending' \subseteq Searched
      BY <1>2, <1>3
    <3>3. \A x : Checks(x)' <=> Checks(x)
      BY <1>5, <1>8, <2>1 DEF Checks
    <3> QED
      BY <1>1, <1>3, <1>5, <1>6, <1>9, <2>1, <3>1, <3>2, <3>3 DEF WalkInv, WalkLines
  <2>2. CASE /\ pending' = {} /\ found' = 0 /\ ~LastGroup
             /\ groupIndex' = groupIndex + 1 /\ pc' = "groupsearch"
    BY <1>1, <1>5, <1>6, <1>12, <2>2 DEF WalkInv, WalkLines
  <2>3. CASE /\ pending' = {}
             /\ found' # 0 \/ LastGroup
             /\ pc' = "decide" /\ groupIndex' = groupIndex
    <3>1. CASE found' = 0
      <4>1. Passed(Len(conf.groups) + 1, ldapUser)
        BY <1>12, <2>3, <3>1 DEF LastGroup
      <4>2. Walks(ldapUser, found')
        BY <3>1, <4>1 DEF Walks, WalksIntoNothing
      <4> QED
        BY <1>1, <1>5, <1>7, <2>3, <4>2 DEF WalkInv, WalkLines
    <3>2. CASE found' # 0
      <4>1. found' = groupIndex /\ Answers(groupIndex, ldapUser)
        BY <1>9, <1>10, <2>3, <3>2
      <4>2. Walks(ldapUser, found')
        BY <1>3, <4>1 DEF Walks
      <4> QED
        BY <1>1, <1>5, <1>7, <2>3, <4>2 DEF WalkInv, WalkLines
    <3> QED
      BY <3>1, <3>2
  <2> QED
    BY <1>1, <2>1, <2>2, <2>3
<1>14. AccountInv'
  BY <1>1 DEF AccountInv, NotSearched, ConnectLines
<1> QED
  BY <1>1, <1>13, <1>14, PasswordKept DEF CallFacts, VerifiedLines

LEMMA DecideFacts ==
  ASSUME IInv, CallFacts, Decide
  PROVE  CallFacts'
<1>1. /\ LeavesTheRest
      /\ UNCHANGED <<handle, account, secret, groupVars>>
      /\ pc = "decide" /\ pc' \in {"updatetable", "cleanup"}
  BY DEF Decide, LeavesTheRest, Goto
<1>2. \A entry, f : Walks(entry, f)' = Walks(entry, f)
  BY <1>1, WalksStay DEF LeavesTheRest, lifeVars
<1>3. Walks(ldapUser, found) /\ ldapUser' = ldapUser
  BY <1>1, DirectoryStays DEF CallFacts, WalkInv
<1>4. WalkInv'
  BY <1>1, <1>2, <1>3 DEF WalkInv, WalkLines, groupVars
<1>5. AccountInv'
  BY <1>1 DEF AccountInv, NotSearched, ConnectLines
<1> QED
  BY <1>1, <1>4, <1>5, PasswordKept DEF CallFacts, VerifiedLines

LEMMA UpdateTableFacts ==
  ASSUME IInv, CallFacts, UpdateTable
  PROVE  CallFacts'
<1>1. /\ UNCHANGED <<lifeVars, callVars, handle, secret>>
      /\ pc = "updatetable" /\ pc' = "cleanup"
  BY DEF UpdateTable, Goto
<1>2. handle' # "auth"
  BY <1>1 DEF IInv, CallContext, JoinTable, LeaveTable, UpdateTable
<1>3. WalkInv'
  BY <1>1 DEF WalkInv, WalkLines
<1>4. AccountInv'
  BY <1>1 DEF AccountInv, NotSearched, ConnectLines
<1>5. PasswordInv'
  BY <1>1, <1>2 DEF PasswordInv, VerifiedLines
<1> QED
  BY <1>3, <1>4, <1>5 DEF CallFacts

LEMMA NextFacts ==
  ASSUME Steady, Fixed, IInv, AdmitInv, CallFacts, [Next]_vars
  PROVE  CallFacts'
<1>1. CASE Vanish \/ Return
  BY <1>1, CallOverFacts DEF Vanish, Return
<1>2. CASE CallStep /\ ~Vanish /\ ~Return
  <2>1. CASE CheckUsername
    BY <1>2, <2>1, CheckUsernameFacts
  <2>2. CASE FindLDAPGroup
    BY <2>2, SearchGroupFacts, CheckMemberFacts DEF FindLDAPGroup
  <2> QED
    BY <1>2, <2>1, <2>2, ConnectLDAPFacts, FindUserFacts, ExtractPasswordFacts,
       UserBindFacts, DecideFacts, UpdateTableFacts DEF CallStep
<1>3. CASE OpenConfig \/ OpenDevice \/ FlushNext
  <2>1. plugin # "up" /\ UNCHANGED <<pc, localVars>>
    BY <1>3 DEF OpenConfig, OpenDevice, FlushNext
  <2>2. pc = "idle"
    BY <2>1 DEF IInv, QuietWhenDown
  <2> QED
    BY <2>1, <2>2, QuietFacts
<1>4. CASE HostStep
  <2>1. pc = "idle" /\ pc' = "start" /\ UNCHANGED localVars
    BY <1>4 DEF HostStep, CallVerify, CallConnect, CallDisconnect, Call
  <2> QED
    BY <2>1, QuietFacts
<1>5. ~DirectoryChange
  BY DEF Steady, DirectoryChange, Administer, ChangeMembership, ChangeGroups,
     ChangeAccounts
<1>6. CASE UNCHANGED vars
  <2>1. UNCHANGED <<dirVars, conf, pc, callType, given, handle, account, secret,
                    groupIndex, pending, found>>
    BY <1>6 DEF vars, dirVars, lifeVars, callVars, localVars
  <2>2. \A n, entry : Passed(n, entry)' = Passed(n, entry)
    BY <2>1, WalksStay
  <2>3. \A entry, f : Walks(entry, f)' = Walks(entry, f)
    BY <2>1, WalksStay
  <2>4. user' = user /\ ldapUser' = ldapUser /\ Searched' = Searched
    BY <1>6 DEF vars, callVars, localVars, user, ldapUser, Searched, dirVars, lifeVars
  <2>5. \A x : Checks(x)' <=> Checks(x)
    <3>1. \A g, x, entry :
            MemberCheckResult(g, x, entry, TRUE)' = MemberCheckResult(g, x, entry, TRUE)
      BY <2>1, WalksStay
    <3> QED
      BY <2>1, <2>4, <3>1 DEF Checks
  <2>6. WalkInv'
    BY <2>1, <2>2, <2>3, <2>4, <2>5 DEF CallFacts, WalkInv, WalkLines
  <2>7. AccountInv'
    BY <2>1 DEF CallFacts, AccountInv, NotSearched
  <2>8. PasswordInv'
    BY <2>1 DEF CallFacts, PasswordInv, ProperPassword
  <2> QED
    BY <2>6, <2>7, <2>8 DEF CallFacts
<1> QED
  BY <1>1, <1>2, <1>3, <1>4, <1>5, <1>6
  DEF Next, Open, OpenPF, AbortWithoutPool, Close, InitializeFails, Crash

-----------------------------------------------------------------------------
(* Opening and closing. *)

LEMMA InitTables == Init => TablesInv
<1> SUFFICES ASSUME Init PROVE TablesInv
  OBVIOUS
<1>1. /\ plugin = "down" /\ pc = "idle"
      /\ phase = [s \in Sessions |-> "none"]
  BY DEF Init, CallInit
<1>2. phaseBar = phase
  BY <1>1, BarsOfHost
<1> QED
  BY <1>1, <1>2
  DEF TablesInv, SessionInv, LeaveInv, NobodyInside, FlushInv, NoOrphan, VerdictExact

LEMMA VanishTables ==
  ASSUME Vanish
  PROVE  TablesInv'
<1>1. /\ plugin' = "down" /\ pc' = "idle"
      /\ phase' = [s \in Sessions |-> "none"]
  BY DEF Vanish, CallOver
<1>2. phaseBar' = phase'
  BY <1>1 DEF phaseBar, settled
<1> QED
  BY <1>1, <1>2
  DEF TablesInv, SessionInv, LeaveInv, NobodyInside, FlushInv, NoOrphan, VerdictExact

(***************************************************************************)
(* Every configured table is in the list pf_open goes through.             *)
(***************************************************************************)
LEMMA FlushOrderCovers ==
  ASSUME NEW c \in Configs, NEW t \in ConfiguredTables(c)
  PROVE  \E i \in 1..Len(FlushOrder(c)) : FlushOrder(c)[i] = t
<1> DEFINE n == Len(c.groups)
           rest == [i \in 1..n |-> c.groups[n + 1 - i].table]
<1>1. c.groups \in Seq(GroupConfigs) /\ n \in Nat
  BY ConfigShape
<1>2. ASSUME NEW i \in 1..n
      PROVE  n + 1 - i \in 1..n /\ rest[n + 1 - i] = c.groups[i].table
  <2>1. n + 1 - i \in 1..n /\ n + 1 - (n + 1 - i) = i
    BY <1>1
  <2> QED
    BY <2>1
<1>3. \A i \in 1..n : c.groups[i].table \in Tables \cup {NoTable}
  <2>1. \A i \in 1..n : c.groups[i] \in GroupConfigs
    BY <1>1
  <2> QED
    BY <2>1 DEF GroupConfigs
<1>4. rest \in Seq(Tables \cup {NoTable}) /\ Len(rest) = n
  <2>1. \A i \in 1..n : n + 1 - i \in 1..n
    BY <1>2
  <2>2. rest \in [1..n -> Tables \cup {NoTable}]
    BY <1>3, <2>1
  <2> QED
    BY <1>1, <2>2
<1>5. FlushOrder(c) = <<c.table>> \o rest
  BY DEF FlushOrder
<1>6. <<c.table>> \in Seq(Tables \cup {NoTable}) /\ Len(<<c.table>>) = 1
  BY ConfigShape
<1> HIDE DEF rest
<1>7. /\ Len(FlushOrder(c)) = n + 1
      /\ FlushOrder(c)[1] = c.table
      /\ \A i \in 1..n : FlushOrder(c)[i + 1] = rest[i]
  BY <1>1, <1>4, <1>5, <1>6
<1>8. CASE t = c.table
  BY <1>1, <1>7, <1>8
<1>9. CASE t \in GroupTables(c)
  <2>1. PICK i \in DOMAIN c.groups : t = c.groups[i].table
    BY <1>9 DEF GroupTables
  <2>2. i \in 1..n
    BY <1>1, <2>1
  <2>3. PICK j \in 1..n : rest[j] = t
    BY <1>2, <2>1, <2>2
  <2>4. j + 1 \in 1..n + 1 /\ FlushOrder(c)[j + 1] = t
    BY <1>1, <1>7, <2>3
  <2> QED
    BY <1>7, <2>4
<1> QED
  BY <1>8, <1>9 DEF ConfiguredTables

(***************************************************************************)
(* One step of pf_open keeps its promise for every table.                  *)
(***************************************************************************)
LEMMA FlushKeepsPromise ==
  ASSUME IInv, FlushInv, plugin = "flushing", toFlush # <<>>,
         NEW t \in ConfiguredTables(conf),
         IF Head(toFlush) = NoTable
         THEN UNCHANGED tables
         ELSE tables' = Flushed(Head(toFlush), TRUE),
         toFlush' = Tail(toFlush)
  PROVE  tables'[t] = {} \/ \E i \in 1..Len(toFlush') : toFlush'[i] = t
<1>1. /\ toFlush \in Seq(Tables \cup {NoTable})
      /\ tables \in [Tables -> SUBSET Addresses]
      /\ conf \in Configs
  BY DEF IInv, TypeOK, PFTypeOK
<1>2. t \in Tables /\ t # NoTable
  <2>1. /\ conf.table \in Tables \cup {NoTable}
        /\ conf.groups \in Seq(GroupConfigs)
    BY <1>1, ConfigShape
  <2>2. \A i \in DOMAIN conf.groups : conf.groups[i].table \in Tables \cup {NoTable}
    <3>1. \A i \in DOMAIN conf.groups : conf.groups[i] \in GroupConfigs
      BY <2>1
    <3> QED
      BY <3>1 DEF GroupConfigs
  <2> QED
    BY <2>1, <2>2 DEF ConfiguredTables, GroupTables
<1>3. tables[t] = {} => tables'[t] = {}
  BY <1>1, <1>2 DEF Flushed
<1>4. Head(toFlush) = t => tables'[t] = {}
  BY <1>1, <1>2 DEF Flushed
<1>5. ASSUME NEW i \in 1..Len(toFlush), toFlush[i] = t, Head(toFlush) # t
      PROVE  \E j \in 1..Len(toFlush') : toFlush'[j] = t
  <2>1. Len(toFlush) \in Nat /\ Head(toFlush) = toFlush[1]
    BY <1>1
  <2>2. i # 1 /\ i - 1 \in 1..Len(toFlush) - 1
    BY <1>5, <2>1
  <2>3. /\ Len(Tail(toFlush)) = Len(toFlush) - 1
        /\ Tail(toFlush)[i - 1] = toFlush[i]
    BY <1>1, <2>1, <2>2
  <2> QED
    BY <1>5, <2>2, <2>3
<1> QED
  BY <1>3, <1>4, <1>5 DEF FlushInv

LEMMA OpenTables ==
  ASSUME Steady, SteadyInv, OpenConfig \/ OpenDevice \/ FlushNext
  PROVE  TablesInv'
<1>1. plugin # "up" /\ UNCHANGED <<hostVars, pc, callVars, localVars>>
  BY DEF OpenConfig, OpenDevice, FlushNext
<1>2. pc = "idle" /\ pc' = "idle" /\ phase' = phase /\ joined' = joined
  BY <1>1 DEF SteadyInv, RInv, IInv, QuietWhenDown, hostVars
<1>3. \A s \in Sessions : phase'[s] # "connected"
  BY <1>1, <1>2 DEF SteadyInv, TablesInv, NobodyInside
<1>4. phaseBar' = phase'
  BY <1>2 DEF phaseBar, settled
<1>5. SessionInv' /\ LeaveInv' /\ NobodyInside' /\ VerdictExact'
  BY <1>2, <1>3, <1>4 DEF SessionInv, LeaveInv, NobodyInside, VerdictExact
<1>6. CASE OpenConfig
  <2>1. conf' \in Configs
    BY <1>6 DEF OpenConfig
  <2>2. CASE PFEnabled(conf')
    <3>1. plugin' = "pfopen" /\ toFlush' = FlushOrder(conf')
      BY <1>6, <2>2 DEF OpenConfig
    <3>2. FlushInv'
      BY <2>1, <3>1, FlushOrderCovers DEF FlushInv
    <3> QED
      BY <1>5, <3>1, <3>2 DEF TablesInv, NoOrphan
  <2>3. CASE ~PFEnabled(conf')
    <3>1. plugin' = "up" /\ ConfiguredTables(conf') = {}
      BY <1>6, <2>3 DEF OpenConfig, PFEnabled
    <3>2. NoOrphan'
      BY <3>1 DEF NoOrphan
    <3> QED
      BY <1>5, <3>1, <3>2 DEF TablesInv, FlushInv
  <2> QED
    BY <2>2, <2>3
<1>7. CASE OpenDevice
  <2>1. PICK done \in Completes :
          /\ plugin' = IF done THEN "flushing" ELSE "down"
          /\ toFlush' = IF done THEN toFlush ELSE <<>>
    BY <1>7 DEF OpenDevice
  <2>2. done = TRUE
    BY SteadyCompletes
  <2>3. /\ plugin = "pfopen" /\ plugin' = "flushing"
        /\ UNCHANGED <<toFlush, tables, conf>>
    BY <1>7, <2>1, <2>2 DEF OpenDevice
  <2>4. FlushInv'
    BY <2>3 DEF SteadyInv, TablesInv, FlushInv
  <2> QED
    BY <1>5, <2>3, <2>4 DEF TablesInv, NoOrphan
<1>8. CASE FlushNext
  <2>1. /\ plugin = "flushing" /\ toFlush # <<>> /\ conf' = conf
        /\ IInv /\ FlushInv
    BY <1>8 DEF FlushNext, SteadyInv, RInv, TablesInv
  <2>2. PICK done \in Completes :
          /\ IF Head(toFlush) = NoTable
             THEN done /\ UNCHANGED tables
             ELSE tables' = Flushed(Head(toFlush), done)
          /\ toFlush' = StillToFlush(done)
          /\ plugin' = CASE ~done -> "down"
                         [] done /\ toFlush' = <<>> -> "up"
                         [] OTHER -> "flushing"
    BY <1>8 DEF FlushNext
  <2>3. done = TRUE
    BY SteadyCompletes
  <2>4. /\ IF Head(toFlush) = NoTable
           THEN UNCHANGED tables
           ELSE tables' = Flushed(Head(toFlush), TRUE)
        /\ toFlush' = Tail(toFlush)
        /\ plugin' = IF toFlush' = <<>> THEN "up" ELSE "flushing"
    BY <2>2, <2>3 DEF StillToFlush
  <2>5. \A t \in ConfiguredTables(conf) :
          tables'[t] = {} \/ \E i \in 1..Len(toFlush') : toFlush'[i] = t
    BY <2>1, <2>4, FlushKeepsPromise
  <2>6. FlushInv'
    BY <2>1, <2>5 DEF FlushInv
  <2>7. NoOrphan'
    <3> SUFFICES ASSUME toFlush' = <<>>
                 PROVE  \A t \in ConfiguredTables(conf) : tables'[t] = {}
      BY <2>1, <2>4 DEF NoOrphan
    <3>1. 1..Len(toFlush') = {}
      OBVIOUS
    <3> QED
      BY <2>5, <3>1
  <2> QED
    BY <1>5, <2>6, <2>7 DEF TablesInv
<1> QED
  BY <1>6, <1>7, <1>8

-----------------------------------------------------------------------------
(* Steps that settle nothing. *)

LEMMA LeadsStay ==
  ASSUME UNCHANGED dirVars, conf' = conf
  PROVE  \A s, t : LeadsTo(s, t)' = LeadsTo(s, t)
<1>1. \A entry, f : Walks(entry, f)' = Walks(entry, f)
  BY WalksStay
<1>2. accounts' = accounts
  BY DEF dirVars
<1> QED
  BY <1>1, <1>2 DEF LeadsTo, Found, RefusedWith, TableOf

LEMMA OrphansStay ==
  ASSUME NoOrphan, plugin' = "up" => plugin = "up",
         UNCHANGED <<conf, tables, joined>>,
         \A s \in Sessions : joined[s] # NoTable => address'[s] = address[s]
  PROVE  NoOrphan'
<1> SUFFICES ASSUME plugin = "up",
                    NEW t \in ConfiguredTables(conf), NEW a \in tables[t]
             PROVE  \E s \in Sessions : address'[s] = a /\ joined[s] = t
  BY DEF NoOrphan
<1>1. PICK s \in Sessions : address[s] = a /\ joined[s] = t
  BY DEF NoOrphan
<1>2. t # NoTable
  BY DEF ConfiguredTables
<1> QED
  BY <1>1, <1>2

LEMMA QuietTables ==
  ASSUME SteadyInv, UNCHANGED <<dirVars, lifeVars, phase, joined, tables>>,
         pc # "cleanup", pc' # "cleanup",
         \A s \in Sessions : joined[s] # NoTable => address'[s] = address[s]
  PROVE  TablesInv'
<1>1. phaseBar' = phase /\ phaseBar = phase
  BY DEF phaseBar, settled
<1>2. UNCHANGED <<plugin, conf, toFlush>>
  BY DEF lifeVars
<1>3. \A s, t : LeadsTo(s, t)' = LeadsTo(s, t)
  BY <1>2, LeadsStay
<1>4. SessionInv'
  BY <1>1, <1>3 DEF SteadyInv, TablesInv, SessionInv
<1>5. NoOrphan'
  BY <1>2, OrphansStay DEF SteadyInv, TablesInv
<1>6. NobodyInside' /\ FlushInv'
  BY <1>2 DEF SteadyInv, TablesInv, NobodyInside, FlushInv
<1> QED
  BY <1>4, <1>5, <1>6 DEF TablesInv, LeaveInv, VerdictExact

LEMMA HostStepTables ==
  ASSUME SteadyInv, HostStep
  PROVE  TablesInv'
<1>1. PICK s \in Sessions : CallVerify(s) \/ CallConnect(s) \/ CallDisconnect(s)
  BY DEF HostStep
<1>2. /\ pc = "idle" /\ pc' = "start"
      /\ UNCHANGED <<dirVars, lifeVars, phase, joined, pfVars>>
  BY <1>1 DEF CallVerify, CallConnect, CallDisconnect, Call
<1>3. ASSUME NEW r \in Sessions, joined[r] # NoTable
      PROVE  address'[r] = address[r]
  <2>1. phase[r] = "connected"
    BY <1>2, <1>3 DEF SteadyInv, RInv, IInv, JoinedIsConnected
  <2>2. address \in [Sessions -> Addresses \cup {NoAddress}]
    BY DEF SteadyInv, RInv, IInv, TypeOK
  <2> QED
    BY <1>1, <2>1, <2>2 DEF CallVerify, CallConnect, CallDisconnect
<1> QED
  BY <1>2, <1>3, QuietTables DEF pfVars

LEMMA StutterTables ==
  ASSUME SteadyInv, UNCHANGED vars
  PROVE  TablesInv'
<1>1. UNCHANGED <<dirVars, plugin, conf, toFlush, phase, joined, address, tables,
                  pc, callType, session, ret, account, secret, given, changed>>
  BY DEF vars, dirVars, lifeVars, hostVars, callVars, localVars
<1>2. phaseBar' = phaseBar
  BY <1>1 DEF phaseBar, settled
<1>3. \A s, t : LeadsTo(s, t)' = LeadsTo(s, t)
  BY <1>1, LeadsStay
<1>4. SessionInv'
  BY <1>1, <1>2, <1>3 DEF SteadyInv, TablesInv, SessionInv
<1>5. NoOrphan'
  BY <1>1, OrphansStay DEF SteadyInv, TablesInv
<1>6. LeaveInv' /\ NobodyInside' /\ FlushInv'
  BY <1>1 DEF SteadyInv, TablesInv, LeaveInv, NobodyInside, FlushInv
<1>7. VerdictExact'
  BY <1>1 DEF SteadyInv, TablesInv, VerdictExact, dirVars, AllGroupsPresent, user,
     ldapUser, Entitled, MatchingGroups, Lists, IsMember, MemberValue, ProperPassword,
     Succeeds, RightfulTable, FirstMatching, Recognised, Recognises, Discerns
<1> QED
  BY <1>4, <1>5, <1>6, <1>7 DEF TablesInv

LEMMA ReturnTables ==
  ASSUME SteadyInv, Return
  PROVE  TablesInv'
<1> DEFINE next == NextPhase(callType, ret)
<1>1. /\ pc = "cleanup" /\ pc' = "idle"
      /\ phase' = [phase EXCEPT ![session] = next]
      /\ address' = [address EXCEPT ![session] =
                       IF next = "connected" THEN @ ELSE NoAddress]
      /\ joined' = [joined EXCEPT ![session] =
                      IF next = "connected" THEN @ ELSE NoTable]
      /\ UNCHANGED <<dirVars, pfVars, lifeVars>>
  BY DEF Return, CallOver
<1>2. /\ TypeOK /\ session \in Sessions /\ plugin = "up"
  BY <1>1 DEF SteadyInv, RInv, IInv, CallContext, QuietWhenDown
<1>3. phaseBar' = phaseBar
  BY <1>1 DEF phaseBar, settled
<1>4. next # "connected" => joined[session] = NoTable
  <2> SUFFICES ASSUME next # "connected", joined[session] # NoTable PROVE FALSE
    OBVIOUS
  <2>1. phase[session] = "connected"
    BY <1>1, <1>2 DEF SteadyInv, RInv, IInv, JoinedIsConnected
  <2>2. callType = "disconnect"
    BY <1>1, <1>2, <2>1
    DEF SteadyInv, RInv, CallPhase, PhaseBefore, TypeOK, CallTypes
  <2> QED
    BY <1>1, <2>2 DEF SteadyInv, TablesInv, LeaveInv
<1> HIDE DEF next
<1>5. joined' = joined
  <2>1. joined \in [Sessions -> Tables \cup {NoTable}]
    BY <1>2 DEF TypeOK
  <2> QED
    BY <1>1, <1>4, <2>1
<1>6. \A s \in Sessions : joined[s] # NoTable => address'[s] = address[s]
  <2>1. address \in [Sessions -> Addresses \cup {NoAddress}]
    BY <1>2 DEF TypeOK
  <2> QED
    BY <1>1, <1>4, <2>1
<1>7. UNCHANGED <<plugin, conf, toFlush, tables>>
  BY <1>1 DEF lifeVars, pfVars
<1>8. \A s, t : LeadsTo(s, t)' = LeadsTo(s, t)
  BY <1>1, <1>7, LeadsStay
<1>9. SessionInv'
  BY <1>3, <1>5, <1>8 DEF SteadyInv, TablesInv, SessionInv
<1>10. NoOrphan'
  BY <1>5, <1>6, <1>7, OrphansStay DEF SteadyInv, TablesInv
<1> QED
  BY <1>1, <1>2, <1>7, <1>9, <1>10
  DEF TablesInv, LeaveInv, NobodyInside, FlushInv, VerdictExact

-----------------------------------------------------------------------------
(* The step that settles a result. *)

(***************************************************************************)
(* In the lines that have an account, it is the user's only one.           *)
(***************************************************************************)
LEMMA AccountOfCall ==
  ASSUME SteadyInv, pc \in AccountLines \/ handle = "auth", pc \notin {"idle", "start"}
  PROVE  /\ user \in Users /\ session \in Sessions
         /\ account \in accounts[user] /\ account # NoAccount
         /\ \A a \in accounts[user] : a = account
<1>1. TypeOK /\ session \in Sessions /\ user # NoUser
  BY DEF SteadyInv, RInv, IInv, CallContext
<1>2. user \in Users
  BY <1>1, PluginAssumption DEF user
<1>3. account \in accounts[user]
  BY DEF SteadyInv, RInv, AdmitInv, AdmitFacts, Fixed
<1>4. accounts[user] \subseteq Accounts
  BY <1>1, <1>2 DEF TypeOK, DirTypeOK
<1>5. account # NoAccount
  BY <1>3, <1>4, PluginAssumption
<1>6. \A a \in accounts[user] : a = account
  BY <1>2, <1>3 DEF SteadyInv, Fixed
<1> QED
  BY <1>1, <1>2, <1>3, <1>5, <1>6

(***************************************************************************)
(* What the walk of a call found, the walk of the next one will find.      *)
(***************************************************************************)
LEMMA FoundLeads ==
  ASSUME SteadyInv, pc \in {"decide", "updatetable"}, ~Refused
  PROVE  LeadsTo(session, ChosenTable)
<1>1. account \in accounts[user] /\ \A a \in accounts[user] : a = account
  BY AccountOfCall DEF AccountLines
<1>2. Walks(ldapUser, found) /\ TypeOK
  BY DEF SteadyInv, CallFacts, WalkInv, RInv, IInv
<1>3. \A f : Walks(ldapUser, f) => f = found
  BY <1>2, WalkUnique
<1>4. ldapUser = EntryOf(session, account) /\ user = Login[session]
  BY DEF ldapUser, user, EntryOf
<1> QED
  BY <1>1, <1>3, <1>4 DEF LeadsTo, RefusedWith, Refused, TableOf, ChosenTable

LEMMA DisconnectLeads ==
  ASSUME SteadyInv, callType = "disconnect", pc \notin {"idle", "cleanup"}
  PROVE  LeadsTo(session, joined[session])
<1>1. session \in Sessions /\ phase[session] = "connected"
  BY DEF SteadyInv, RInv, IInv, CallContext, CallPhase, PhaseBefore
<1>2. phaseBar = phase
  BY BarsOfHost
<1> QED
  BY <1>1, <1>2 DEF SteadyInv, TablesInv, SessionInv

LEMMA DisconnectFinds ==
  ASSUME SteadyInv, callType = "disconnect", pc \in {"decide", "updatetable"}
  PROVE  ~Refused /\ ChosenTable = joined[session]
<1>1. LeadsTo(session, joined[session])
  BY DisconnectLeads
<1>2. account \in accounts[user]
  BY AccountOfCall DEF AccountLines
<1>3. Walks(ldapUser, found) /\ found \in Found
  BY DEF SteadyInv, CallFacts, WalkInv, RInv, IInv, TypeOK, Found
<1>4. ldapUser = EntryOf(session, account) /\ user = Login[session]
  BY DEF ldapUser, user, EntryOf
<1> QED
  BY <1>1, <1>2, <1>3, <1>4 DEF LeadsTo, RefusedWith, Refused, TableOf, ChosenTable

(***************************************************************************)
(* A session with an address nobody gave it is in no table.                *)
(***************************************************************************)
LEMMA JoinedHasAddress ==
  ASSUME IInv, NEW s \in Sessions, address[s] = NoAddress
  PROVE  joined[s] = NoTable
<1>1. TypeOK /\ ConnectedIsListed
  BY DEF IInv
<1>2. joined[s] \in Tables \cup {NoTable} /\ tables \in [Tables -> SUBSET Addresses]
  BY <1>1 DEF TypeOK, PFTypeOK
<1> QED
  BY <1>1, <1>2, PluginAssumption DEF ConnectedIsListed

(***************************************************************************)
(* VerdictExact of a result that is being settled.                         *)
(***************************************************************************)
LEMMA VerdictSettled ==
  ASSUME UNCHANGED <<dirVars, conf, address, callType, session, given>>,
         AllGroupsPresent /\ Recognised' =>
           /\ account' = NoAccount <=> accounts[user] = {}
           /\ callType = "verify" =>
                (ret' <=> /\ account' # NoAccount /\ Entitled(ldapUser')
                          /\ ProperPassword')
           /\ callType # "verify" =>
                (ret' <=> /\ account' # NoAccount /\ Entitled(ldapUser')
                          /\ address[session] # NoAddress)
           /\ callType = "connect" /\ ret' =>
                joined'[session] = RightfulTable(ldapUser')
           /\ callType = "disconnect" /\ ret' => joined'[session] = NoTable
  PROVE  VerdictExact'
<1>1. accounts' = accounts /\ members' = members /\ present' = present
  BY DEF dirVars
<1>2. \A entry : MatchingGroups(entry)' = MatchingGroups(entry)
  BY <1>1 DEF MatchingGroups, Lists, IsMember, MemberValue
<1>3. \A entry : Entitled(entry)' <=> Entitled(entry)
  BY <1>2 DEF Entitled
<1>4. \A entry : RightfulTable(entry)' = RightfulTable(entry)
  <2> SUFFICES ASSUME NEW entry PROVE RightfulTable(entry)' = RightfulTable(entry)
    OBVIOUS
  <2>1. MatchingGroups(entry)' = MatchingGroups(entry)
    BY <1>2
  <2>2. FirstMatching(entry)' = FirstMatching(entry)
    BY <2>1 DEF FirstMatching
  <2> QED
    BY <2>2 DEF RightfulTable
<1>5. AllGroupsPresent' <=> AllGroupsPresent
  BY <1>1 DEF AllGroupsPresent
<1> QED
  BY <1>1, <1>3, <1>4, <1>5 DEF VerdictExact, Succeeds, user

LEMMA SettleTables ==
  ASSUME SteadyInv, Settling, UNCHANGED <<dirVars, lifeVars, joined, tables>>,
         callType = "connect" /\ ret' => LeadsTo(session, joined[session]),
         callType = "disconnect" => joined[session] = NoTable,
         VerdictExact'
  PROVE  TablesInv'
<1>1. UNCHANGED <<plugin, conf, toFlush, address, callType, session>> /\ plugin = "up"
  BY DEF lifeVars, Settling
<1>2. \A s, t : LeadsTo(s, t)' = LeadsTo(s, t)
  BY <1>1, LeadsStay
<1>3. /\ phaseBar = phase
      /\ phaseBar' = [phase EXCEPT ![session] = NextPhase(callType, ret')]
      /\ phase \in [Sessions -> {"none", "authed", "connected"}]
  BY SettlingBars DEF SteadyInv
<1>4. ASSUME NEW s \in Sessions, phaseBar'[s] = "connected"
      PROVE  LeadsTo(s, joined[s])
  <2>1. CASE s = session
    BY <1>3, <1>4, <2>1 DEF NextPhase
  <2>2. CASE s # session
    BY <1>3, <1>4, <2>2 DEF SteadyInv, TablesInv, SessionInv
  <2> QED
    BY <2>1, <2>2
<1>5. SessionInv'
  BY <1>2, <1>4 DEF SessionInv
<1>6. NoOrphan'
  BY <1>1, OrphansStay DEF SteadyInv, TablesInv
<1> QED
  BY <1>1, <1>5, <1>6 DEF TablesInv, LeaveInv, NobodyInside, FlushInv

-----------------------------------------------------------------------------
(* The steps of a call. *)

(***************************************************************************)
(* Those that leave the tables alone are quiet or settle a result.         *)
(***************************************************************************)
LEMMA QuietStep ==
  ASSUME SteadyInv, LeavesTheRest, pc # "cleanup", pc' # "cleanup"
  PROVE  TablesInv'
<1>1. UNCHANGED <<dirVars, lifeVars, phase, joined, address, tables>>
  BY DEF LeavesTheRest, hostVars, pfVars
<1> QED
  BY <1>1, QuietTables

LEMMA SettlingStep ==
  ASSUME SteadyInv, LeavesTheRest, pc \notin {"idle", "cleanup"}, pc' = "cleanup"
  PROVE  /\ Settling
         /\ UNCHANGED <<dirVars, lifeVars, joined, tables>>
         /\ UNCHANGED <<dirVars, conf, address, callType, session, given>>
         /\ session \in Sessions /\ callType \in CallTypes
<1>1. plugin = "up" /\ session \in Sessions /\ callType \in CallTypes
  BY DEF SteadyInv, RInv, IInv, QuietWhenDown, CallContext, TypeOK
<1> QED
  BY <1>1 DEF Settling, LeavesTheRest, lifeVars, hostVars, callVars, pfVars

LEMMA CheckUsernameTables ==
  ASSUME SteadyInv, CheckUsername, ~Vanish
  PROVE  TablesInv'
<1>1. LeavesTheRest /\ pc = "start" /\ pc' = "connect"
  BY DEF CheckUsername, LeavesTheRest, Goto
<1> QED
  BY <1>1, QuietStep

LEMMA ConnectLDAPTables ==
  ASSUME Steady, SteadyInv, ConnectLDAP
  PROVE  TablesInv'
<1>1. \A done \in Completes : done = TRUE
  BY SteadyCompletes
<1>2. LeavesTheRest /\ pc # "cleanup" /\ pc' # "cleanup"
  BY <1>1 DEF ConnectLDAP, OpenConnection, ConfigureConnection, SecureConnection,
      BindConnection, ConnectStep, AfterOptions, AfterTLS, AfterConnect, Goto,
      LeavesTheRest
<1> QED
  BY <1>2, QuietStep

LEMMA FindUserTables ==
  ASSUME Steady, SteadyInv, FindUser
  PROVE  TablesInv'
<1>1. /\ LeavesTheRest
      /\ UNCHANGED <<handle, secret, groupVars, ret>>
      /\ pc = "finduser"
  BY DEF FindUser, LeavesTheRest
<1>2. \/ /\ accounts[user] # {} /\ account' \in accounts[user] /\ pc' = Dispatch
      \/ /\ accounts[user] = {} /\ account' = account /\ pc' = "cleanup"
  <2>1. PICK done \in Completes :
          LET matches == UserSearchResult(user, done) IN
          \/ matches # {} /\ account' \in matches /\ Goto(Dispatch)
          \/ matches = {} /\ Goto("cleanup") /\ UNCHANGED account
    BY DEF FindUser
  <2>2. done = TRUE
    BY SteadyCompletes
  <2>3. UserSearchResult(user, done) = accounts[user]
    BY <2>2 DEF UserSearchResult
  <2> QED
    BY <2>1, <2>3 DEF Goto
<1>3. CASE pc' # "cleanup"
  BY <1>1, <1>3, QuietStep
<1>4. CASE pc' = "cleanup"
  <2>1. /\ Settling /\ session \in Sessions
        /\ UNCHANGED <<dirVars, lifeVars, joined, tables>>
        /\ UNCHANGED <<dirVars, conf, address, callType, session, given>>
    BY <1>1, <1>4, SettlingStep
  <2>2. ~ret'
    BY <1>1 DEF SteadyInv, RInv, AdmitInv, AdmitControl
  <2>3. account' = NoAccount <=> accounts[user] = {}
    <3>1. TypeOK /\ user # NoUser
      BY <1>1 DEF SteadyInv, RInv, IInv, CallContext
    <3>2. user \in Users
      BY <2>1, <3>1, PluginAssumption DEF user
    <3>3. accounts[user] \subseteq Accounts
      BY <3>1, <3>2 DEF TypeOK, DirTypeOK
    <3>4. account = NoAccount
      BY <1>1 DEF SteadyInv, CallFacts, AccountInv, NotSearched
    <3> QED
      BY <1>2, <3>3, <3>4, PluginAssumption
  <2>4. \/ account' = NoAccount
        \/ callType = "verify" /\ given = NoPassword
        \/ callType # "verify" /\ address[session] = NoAddress
    <3>1. ASSUME pc' = Dispatch
          PROVE  \/ callType = "verify" /\ given = NoPassword
                 \/ callType # "verify" /\ address[session] = NoAddress
      BY <1>4, <3>1 DEF Dispatch, FindGroup
    <3> QED
      BY <1>2, <2>3, <3>1
  <2>5. ProperPassword' => given # NoPassword
    BY <2>1 DEF ProperPassword
  <2>6. VerdictExact'
    BY <2>1, <2>2, <2>3, <2>4, <2>5, VerdictSettled
  <2>7. callType = "disconnect" => joined[session] = NoTable
    <3> SUFFICES ASSUME callType = "disconnect" PROVE joined[session] = NoTable
      OBVIOUS
    <3>1. accounts[user] # {}
      BY <1>1, DisconnectLeads DEF LeadsTo, user
    <3>2. address[session] = NoAddress
      BY <2>3, <2>4, <3>1
    <3> QED
      BY <2>1, <3>2, JoinedHasAddress DEF SteadyInv, RInv
  <2> QED
    BY <2>1, <2>2, <2>6, <2>7, SettleTables
<1> QED
  BY <1>3, <1>4

LEMMA ExtractPasswordTables ==
  ASSUME SteadyInv, ExtractPassword
  PROVE  TablesInv'
<1>1. /\ LeavesTheRest
      /\ UNCHANGED <<account, groupVars, ret>>
      /\ pc = "extract"
      /\ pc' = "cleanup" => conf.cr /\ ~given.wrapped
  BY DEF ExtractPassword, LeavesTheRest, Goto
<1>2. CASE pc' # "cleanup"
  BY <1>1, <1>2, QuietStep
<1>3. CASE pc' = "cleanup"
  <2>1. /\ Settling
        /\ UNCHANGED <<dirVars, lifeVars, joined, tables>>
        /\ UNCHANGED <<dirVars, conf, address, callType, session, given>>
    BY <1>1, <1>3, SettlingStep
  <2>2. ~ret' /\ callType = "verify"
    BY <1>1 DEF SteadyInv, RInv, IInv, CallContext, AdmitInv, AdmitControl
  <2>3. ~ProperPassword'
    BY <1>1, <1>3, <2>1 DEF ProperPassword
  <2>4. account \in accounts[user] /\ account # NoAccount
    BY <1>1, AccountOfCall DEF AccountLines
  <2>5. VerdictExact'
    BY <1>1, <2>1, <2>2, <2>3, <2>4, VerdictSettled
  <2> QED
    BY <2>1, <2>2, <2>5, SettleTables
<1> QED
  BY <1>2, <1>3

LEMMA UserBindTables ==
  ASSUME Steady, SteadyInv, UserBind
  PROVE  TablesInv'
<1>1. /\ LeavesTheRest
      /\ UNCHANGED <<account, secret, groupVars, ret>>
      /\ pc = "userbind" /\ handle = "auth" /\ callType = "verify"
  BY DEF UserBind, LeavesTheRest, SteadyInv, RInv, AdmitInv, AdmitControl, IInv,
     CallContext
<1>2. pc' = IF BindResult(account, secret, TRUE) THEN FindGroup ELSE "cleanup"
  BY SteadyCompletes DEF UserBind, Goto
<1>3. CASE pc' # "cleanup"
  BY <1>1, <1>3, QuietStep
<1>4. CASE pc' = "cleanup"
  <2>1. /\ Settling
        /\ UNCHANGED <<dirVars, lifeVars, joined, tables>>
        /\ UNCHANGED <<dirVars, conf, address, callType, session, given>>
    BY <1>1, <1>4, SettlingStep
  <2>2. user \in Users /\ account \in accounts[user] /\ account # NoAccount
    BY <1>1, AccountOfCall
  <2>3. ~BindResult(account, secret, TRUE)
    BY <1>2, <1>4 DEF FindGroup
  <2>4. ~ret' /\ secret \in {given.text, Garbage} /\ TypeOK /\ PasswordInv
    BY <1>1 DEF SteadyInv, RInv, IInv, AdmitInv, AdmitControl, CallFacts
  <2>5. ~ProperPassword
    BY <1>1, <2>2, <2>3, <2>4, BindSettlesPassword
  <2>6. ~ProperPassword'
    BY <1>1, <2>1, <2>5 DEF ProperPassword
  <2>7. VerdictExact'
    BY <1>1, <2>1, <2>2, <2>4, <2>6, VerdictSettled
  <2> QED
    BY <1>1, <2>1, <2>7, SettleTables
<1> QED
  BY <1>3, <1>4

LEMMA FindLDAPGroupTables ==
  ASSUME SteadyInv, FindLDAPGroup
  PROVE  TablesInv'
<1>1. LeavesTheRest /\ pc # "cleanup" /\ pc' # "cleanup"
  BY DEF FindLDAPGroup, SearchGroup, AfterSearch, CheckMember, LeavesTheRest, Goto
<1> QED
  BY <1>1, QuietStep

LEMMA RecognisedStays ==
  ASSUME UNCHANGED <<conf, session, account>>
  PROVE  ldapUser' = ldapUser /\ (Recognised' <=> Recognised)
<1>1. ldapUser' = ldapUser
  BY DEF ldapUser, user
<1>2. \A i : Recognises(i, ldapUser)' <=> Recognises(i, ldapUser)
  BY <1>1 DEF Recognises, Discerns, MemberValue
<1> QED
  BY <1>1, <1>2 DEF Recognised

(***************************************************************************)
(* Where every group has an entry and recognises the user, what the call   *)
(* found is what the configuration says.                                   *)
(***************************************************************************)
LEMMA FoundIsRightful ==
  ASSUME SteadyInv, pc \in {"decide", "updatetable"}, AllGroupsPresent, Recognised
  PROVE  /\ Entitled(ldapUser) <=> ~Refused
         /\ RightfulTable(ldapUser) = ChosenTable
<1>1. Walks(ldapUser, found) /\ TypeOK
  BY DEF SteadyInv, CallFacts, WalkInv, RInv, IInv
<1>2. AllRecognise(ldapUser)
  BY AccountOfCall DEF Recognised, AllRecognise, AccountLines
<1>3. /\ found = FirstMatching(ldapUser)
      /\ found = 0 <=> MatchingGroups(ldapUser) = {}
  BY <1>1, <1>2, WalkFindsFirst
<1> QED
  BY <1>3 DEF Entitled, Refused, RightfulTable, ChosenTable

LEMMA DecideTables ==
  ASSUME SteadyInv, Decide
  PROVE  TablesInv'
<1>1. /\ LeavesTheRest
      /\ UNCHANGED <<handle, account, secret, groupVars>>
      /\ pc = "decide"
      /\ pc' = "cleanup" =>
           /\ ret' = ~Refused
           /\ Refused \/ callType = "verify" \/ ChosenTable = NoTable
  BY DEF Decide, LeavesTheRest, Goto
<1>2. CASE pc' # "cleanup"
  BY <1>1, <1>2, QuietStep
<1>3. CASE pc' = "cleanup"
  <2>1. /\ Settling /\ session \in Sessions /\ callType \in CallTypes
        /\ UNCHANGED <<dirVars, lifeVars, joined, tables>>
        /\ UNCHANGED <<dirVars, conf, address, callType, session, given>>
    BY <1>1, <1>3, SettlingStep
  <2>2. account \in accounts[user] /\ account # NoAccount
    BY <1>1, AccountOfCall DEF AccountLines
  <2>3. /\ callType # "verify" => address[session] # NoAddress
        /\ callType = "verify" => ProperPassword
    BY <1>1 DEF SteadyInv, RInv, IInv, CallContext, CallFacts, PasswordInv, VerifiedLines
  <2>4. callType = "verify" => ProperPassword'
    BY <1>1, <2>1, <2>3 DEF ProperPassword
  <2>5. callType = "connect" => joined[session] = NoTable
    BY <1>1, <2>1
    DEF SteadyInv, RInv, IInv, AdmitInv, AdmitControl, JoinedIsConnected
  <2>6. callType = "disconnect" => joined[session] = NoTable
    BY <1>1, <1>3, DisconnectFinds
  <2>7. callType = "connect" /\ ret' => ~Refused /\ ChosenTable = joined[session]
    BY <1>1, <1>3, <2>5
  <2>8. VerdictExact'
    <3>1. ldapUser' = ldapUser /\ (Recognised' <=> Recognised)
      BY <1>1, <2>1, RecognisedStays
    <3>2. ASSUME AllGroupsPresent, Recognised
          PROVE  /\ account # NoAccount /\ accounts[user] # {}
                 /\ ret' <=> Entitled(ldapUser)
                 /\ callType = "connect" /\ ret' =>
                      joined[session] = RightfulTable(ldapUser)
      BY <1>1, <1>3, <2>2, <2>7, <3>2, FoundIsRightful
    <3> QED
      BY <1>1, <2>1, <2>3, <2>4, <2>6, <3>1, <3>2, VerdictSettled
  <2>9. callType = "connect" /\ ret' => LeadsTo(session, joined[session])
    BY <1>1, <2>7, FoundLeads
  <2> QED
    BY <2>1, <2>6, <2>8, <2>9, SettleTables
<1> QED
  BY <1>2, <1>3

(***************************************************************************)
(* Joining: nobody else has the address, so it is not in the table yet.    *)
(***************************************************************************)
LEMMA AddressIsNew ==
  ASSUME SteadyInv, pc = "updatetable", callType = "connect"
  PROVE  address[session] \notin tables[ChosenTable]
<1>1. /\ plugin = "up" /\ session \in Sessions
      /\ address[session] \in Addresses /\ ChosenTable \in Tables
  BY UpdateTableContext DEF SteadyInv, RInv
<1>2. ChosenTable \in ConfiguredTables(conf)
  <2>1. found \in {0} \cup DOMAIN conf.groups /\ ChosenTable # NoTable
    BY <1>1, TableAssumption DEF SteadyInv, RInv, IInv, TypeOK
  <2> QED
    BY <2>1 DEF ChosenTable, ConfiguredTables, GroupTables
<1>3. joined[session] = NoTable
  BY <1>1 DEF SteadyInv, RInv, IInv, AdmitInv, AdmitControl, JoinedIsConnected
<1>4. SUFFICES ASSUME address[session] \in tables[ChosenTable] PROVE FALSE
  OBVIOUS
<1>5. PICK s \in Sessions : address[s] = address[session] /\ joined[s] = ChosenTable
  BY <1>1, <1>2, <1>4 DEF SteadyInv, TablesInv, NoOrphan
<1>6. s = session
  BY <1>1, <1>5, PluginAssumption DEF SteadyInv, RInv, IInv, AddressesUnique
<1> QED
  BY <1>1, <1>3, <1>5, <1>6, TableAssumption

LEMMA UpdateTableEffect ==
  ASSUME Steady, SteadyInv, UpdateTable
  PROVE  /\ Settling
         /\ ret' = TRUE
         /\ \/ /\ callType = "connect"
               /\ joined[session] = NoTable
               /\ joined' = [joined EXCEPT ![session] = ChosenTable]
               /\ tables' = [tables EXCEPT ![ChosenTable] = @ \cup {address[session]}]
            \/ /\ callType = "disconnect"
               /\ joined[session] = ChosenTable
               /\ joined' = [joined EXCEPT ![session] = NoTable]
               /\ tables' = [tables EXCEPT ![ChosenTable] = @ \ {address[session]}]
<1>1. /\ pc = "updatetable" /\ pc' = "cleanup"
      /\ UNCHANGED <<plugin, phase, address, callType, session>>
  BY DEF UpdateTable, Goto, lifeVars, callVars
<1>2. /\ IInv /\ plugin = "up" /\ pfOpen /\ session \in Sessions
      /\ ChosenTable \in Tables
  BY <1>1, UpdateTableContext DEF SteadyInv, RInv
<1>3. Settling
  BY <1>1, <1>2 DEF Settling
<1>4. JoinTable(TRUE) \/ LeaveTable(TRUE)
  BY SteadyCompletes DEF UpdateTable
<1>5. CASE JoinTable(TRUE)
  <2>1. callType = "connect"
    BY <1>5 DEF JoinTable
  <2>2. address[session] \notin tables[ChosenTable]
    BY <1>1, <2>1, AddressIsNew
  <2>3. joined[session] = NoTable
    BY <1>1, <1>2, <2>1
    DEF SteadyInv, RInv, IInv, AdmitInv, AdmitControl, JoinedIsConnected
  <2>4. ret' = TRUE
    BY <1>5, <2>2 DEF JoinTable, AddResult
  <2> QED
    BY <1>2, <1>3, <1>5, <2>1, <2>3, <2>4 DEF JoinTable, AddAddress
<1>6. CASE LeaveTable(TRUE)
  <2>1. callType = "disconnect"
    BY <1>6 DEF LeaveTable
  <2>2. joined[session] = ChosenTable
    BY <1>1, <2>1, DisconnectFinds
  <2>3. address[session] \in tables[ChosenTable]
    BY <1>2, <2>2, TableAssumption DEF IInv, ConnectedIsListed
  <2>4. ret' = TRUE
    BY <1>6, <2>3 DEF LeaveTable, DeleteResult
  <2> QED
    BY <1>2, <1>3, <1>6, <2>1, <2>2, <2>4 DEF LeaveTable, DeleteAddress
<1> QED
  BY <1>4, <1>5, <1>6

(***************************************************************************)
(* The other sessions keep their tables, and the session of the call has   *)
(* the one that was updated, or none any more.                             *)
(***************************************************************************)
LEMMA UpdateTableOrphans ==
  ASSUME Steady, SteadyInv, UpdateTable
  PROVE  NoOrphan'
<1>1. /\ UNCHANGED <<plugin, conf, address>> /\ pc = "updatetable"
  BY DEF UpdateTable, lifeVars
<1>2. /\ plugin = "up" /\ session \in Sessions /\ ChosenTable \in Tables
      /\ joined \in [Sessions -> Tables \cup {NoTable}]
      /\ tables \in [Tables -> SUBSET Addresses]
  BY <1>1, UpdateTableContext DEF SteadyInv, RInv, IInv, TypeOK, PFTypeOK
<1>3. ASSUME NEW t \in ConfiguredTables(conf), NEW a \in tables[t]
      PROVE  \E s \in Sessions : address[s] = a /\ joined[s] = t
  BY <1>2, <1>3 DEF SteadyInv, TablesInv, NoOrphan
<1>4. \A t \in ConfiguredTables(conf) : t \in Tables /\ t # NoTable
  <2>1. conf.groups \in Seq(GroupConfigs) /\ conf.table \in Tables \cup {NoTable}
    BY ConfigShape DEF SteadyInv, RInv, IInv, TypeOK
  <2>2. \A i \in DOMAIN conf.groups : conf.groups[i] \in GroupConfigs
    BY <2>1
  <2>3. \A i \in DOMAIN conf.groups : conf.groups[i].table \in Tables \cup {NoTable}
    BY <2>2 DEF GroupConfigs
  <2> QED
    BY <2>1, <2>3 DEF ConfiguredTables, GroupTables
<1>5. SUFFICES ASSUME NEW t \in ConfiguredTables(conf), NEW a \in tables'[t]
               PROVE  \E s \in Sessions : address[s] = a /\ joined'[s] = t
  BY <1>1 DEF NoOrphan
<1>6. t \in Tables /\ t # NoTable
  BY <1>4
<1>7. CASE /\ joined[session] = NoTable
           /\ joined' = [joined EXCEPT ![session] = ChosenTable]
           /\ tables' = [tables EXCEPT ![ChosenTable] = @ \cup {address[session]}]
  <2>1. CASE a \in tables[t]
    <3>1. PICK s \in Sessions : address[s] = a /\ joined[s] = t
      BY <1>3, <2>1
    <3>2. s # session
      BY <1>6, <1>7, <3>1
    <3> QED
      BY <1>2, <1>7, <3>1, <3>2
  <2>2. CASE a \notin tables[t]
    <3>1. t = ChosenTable /\ a = address[session]
      BY <1>2, <1>6, <1>7, <2>2
    <3> QED
      BY <1>2, <1>7, <3>1
  <2> QED
    BY <2>1, <2>2
<1>8. CASE /\ joined[session] = ChosenTable
           /\ joined' = [joined EXCEPT ![session] = NoTable]
           /\ tables' = [tables EXCEPT ![ChosenTable] = @ \ {address[session]}]
  <2>1. a \in tables[t] /\ ~(t = ChosenTable /\ a = address[session])
    BY <1>2, <1>6, <1>8
  <2>2. PICK s \in Sessions : address[s] = a /\ joined[s] = t
    BY <1>3, <2>1
  <2>3. s # session
    BY <1>8, <2>1, <2>2
  <2> QED
    BY <1>2, <1>8, <2>2, <2>3
<1> QED
  BY <1>7, <1>8, UpdateTableEffect

LEMMA UpdateTableTables ==
  ASSUME Steady, SteadyInv, UpdateTable
  PROVE  TablesInv'
<1>1. /\ UNCHANGED <<dirVars, lifeVars, phase, address, callVars, account, secret>>
      /\ UNCHANGED <<plugin, conf, toFlush, callType, session, given>>
      /\ pc = "updatetable" /\ pc' = "cleanup"
  BY DEF UpdateTable, Goto, lifeVars, callVars
<1>2. /\ plugin = "up" /\ session \in Sessions /\ address[session] # NoAddress
      /\ joined \in [Sessions -> Tables \cup {NoTable}]
  BY <1>1, UpdateTableContext
  DEF SteadyInv, RInv, IInv, TypeOK, CallContext
<1>3. /\ Settling /\ ret' = TRUE
      /\ \/ callType = "connect" /\ joined' = [joined EXCEPT ![session] = ChosenTable]
         \/ callType = "disconnect" /\ joined' = [joined EXCEPT ![session] = NoTable]
  BY UpdateTableEffect
<1>4. ~Refused
  BY <1>1 DEF SteadyInv, RInv, AdmitInv, AdmitControl
<1>5. \A s, t : LeadsTo(s, t)' = LeadsTo(s, t)
  BY <1>1, LeadsStay
<1>6. /\ phaseBar = phase
      /\ phaseBar' = [phase EXCEPT ![session] = NextPhase(callType, ret')]
      /\ phase \in [Sessions -> {"none", "authed", "connected"}]
  BY <1>3, SettlingBars DEF SteadyInv
<1>7. ASSUME NEW s \in Sessions, phaseBar'[s] = "connected"
      PROVE  LeadsTo(s, joined'[s])
  <2>1. CASE s = session
    <3>1. callType = "connect"
      BY <1>6, <1>7, <2>1 DEF NextPhase
    <3>2. joined'[session] = ChosenTable
      BY <1>2, <1>3, <3>1
    <3> QED
      BY <1>1, <1>4, <2>1, <3>2, FoundLeads
  <2>2. CASE s # session
    <3>1. joined'[s] = joined[s]
      BY <1>2, <1>3, <2>2
    <3> QED
      BY <1>6, <1>7, <2>2, <3>1 DEF SteadyInv, TablesInv, SessionInv
  <2> QED
    BY <2>1, <2>2
<1>8. SessionInv'
  BY <1>5, <1>7 DEF SessionInv
<1>9. LeaveInv'
  BY <1>1, <1>2, <1>3 DEF LeaveInv
<1>10. VerdictExact'
  <2>1. account \in accounts[user] /\ account # NoAccount
    BY <1>1, AccountOfCall DEF AccountLines
  <2>2. ldapUser' = ldapUser /\ (Recognised' <=> Recognised)
    BY <1>1, RecognisedStays
  <2>3. ASSUME AllGroupsPresent, Recognised
        PROVE  /\ Entitled(ldapUser)
               /\ callType = "connect" => joined'[session] = RightfulTable(ldapUser)
               /\ callType = "disconnect" => joined'[session] = NoTable
    <3>1. Entitled(ldapUser) /\ RightfulTable(ldapUser) = ChosenTable
      BY <1>1, <1>4, <2>3, FoundIsRightful
    <3> QED
      BY <1>2, <1>3, <3>1
  <2> QED
    BY <1>1, <1>2, <1>3, <2>1, <2>2, <2>3, VerdictSettled
<1>11. NoOrphan'
  BY UpdateTableOrphans
<1> QED
  BY <1>1, <1>2, <1>8, <1>9, <1>10, <1>11
  DEF TablesInv, NobodyInside, FlushInv

-----------------------------------------------------------------------------
(* The theorems. *)

LEMMA NextTables ==
  ASSUME Steady, SteadyInv, [Next]_vars
  PROVE  TablesInv'
<1>1. CASE Vanish
  BY <1>1, VanishTables
<1>2. CASE CallStep /\ ~Vanish
  BY <1>2, CheckUsernameTables, ConnectLDAPTables, FindUserTables,
     ExtractPasswordTables, UserBindTables, FindLDAPGroupTables, DecideTables,
     UpdateTableTables, ReturnTables DEF CallStep
<1>3. ~DirectoryChange
  BY DEF Steady, DirectoryChange, Administer, ChangeMembership, ChangeGroups,
     ChangeAccounts
<1> QED
  BY <1>1, <1>2, <1>3, OpenTables, HostStepTables, StutterTables
  DEF Next, Open, OpenPF, AbortWithoutPool, Close, InitializeFails, Crash

LEMMA SteadyInvariant ==
  ASSUME Steady
  PROVE  Spec => []SteadyInv
<1>1. Init => SteadyInv
  BY InitIInv, InitAdmit, InitCallPhase, InitFixed, InitFacts, InitTables
  DEF SteadyInv, RInv
<1>2. SteadyInv /\ [Next]_vars => SteadyInv'
  BY NextIInv, NextAdmit, NextCallPhase, NextFixed, NextFacts, NextTables
  DEF SteadyInv, RInv
<1> QED
  BY <1>1, <1>2, PTL DEF Spec

(***************************************************************************)
(* Where no request fails and the directory is stable, with any number of  *)
(* sessions, groups and tables, and through crashes and restarts: once the *)
(* plugin is open, its tables hold nobody but the sessions that joined     *)
(* them.                                                                   *)
(***************************************************************************)
THEOREM NoOrphanWhenSteady ==
  ASSUME Steady
  PROVE  Spec => []NoOrphan
<1>1. SteadyInv => NoOrphan
  BY DEF SteadyInv, TablesInv
<1> QED
  BY <1>1, SteadyInvariant, PTL

(***************************************************************************)
(* Under the same conditions, where every group has an entry and those     *)
(* that search for their members recognise the user, the result of every   *)
(* call is the one the configuration says: a verify succeeds only with the *)
(* password and for who is entitled, a connect joins the table of the      *)
(* first group that lists the user, and a disconnect leaves it.  Without   *)
(* that hypothesis on the searches it is refuted (MemberBySearch).         *)
(***************************************************************************)
THEOREM VerdictExactWhenSteady ==
  ASSUME Steady
  PROVE  Spec => []VerdictExact
<1>1. SteadyInv => VerdictExact
  BY DEF SteadyInv, TablesInv
<1> QED
  BY <1>1, SteadyInvariant, PTL
=============================================================================
