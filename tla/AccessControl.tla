---------------------------- MODULE AccessControl ----------------------------
(***************************************************************************)
(* What the plugin promises a host that looks at results and packet filter *)
(* tables only: every call is one atomic step.                             *)
(*                                                                         *)
(*   - a call touches at most one table, and in it only the address of the *)
(*     session it is about;                                                *)
(*   - a call that fails while a client connects leaves the tables alone;  *)
(*   - an address enters a table only as the one a session connects with,  *)
(*     and only if that table did not have it;                             *)
(*   - tables are flushed only while the plugin is being opened.           *)
(*                                                                         *)
(* This is the abstract specification of auth-ldap.m.                      *)
(***************************************************************************)
CONSTANTS Sessions, Addresses, NoAddress, Tables

VARIABLES
  up,       \* the plugin is open
  phase,    \* "none", "authed" or "connected"
  address,  \* the address of each connected session
  tables    \* the packet filter tables

vars == <<up, phase, address, tables>>

Init ==
  /\ up = FALSE
  /\ phase = [s \in Sessions |-> "none"]
  /\ address = [s \in Sessions |-> NoAddress]
  /\ tables \in [Tables -> SUBSET Addresses]

Clear(t) ==
  /\ ~up
  /\ tables' = [tables EXCEPT ![t] = {}]

Opening ==
  /\ \E t \in Tables : Clear(t)
  /\ up' \in BOOLEAN
  /\ UNCHANGED <<phase, address>>

OpenWithoutFlush ==
  /\ ~up
  /\ up' = TRUE
  /\ UNCHANGED <<phase, address, tables>>

Stop ==
  /\ up' = FALSE
  /\ phase' = [s \in Sessions |-> "none"]
  /\ address' = [s \in Sessions |-> NoAddress]
  /\ UNCHANGED tables

Verify(s) ==
  /\ up
  /\ phase[s] = "none"
  /\ phase' = [phase EXCEPT ![s] = "authed"]
  /\ UNCHANGED <<up, address, tables>>

Connect(s, a) ==
  /\ up
  /\ phase[s] = "authed"
  /\ a \notin {address[r] : r \in Sessions}
  /\ phase' = [phase EXCEPT ![s] = "connected"]
  /\ address' = [address EXCEPT ![s] = a]
  /\ \/ UNCHANGED tables
     \/ \E t \in Tables :
          /\ a \notin tables[t]
          /\ tables' = [tables EXCEPT ![t] = @ \cup {a}]
  /\ UNCHANGED up

Refuse(s) ==
  /\ up
  /\ phase[s] = "authed"
  /\ phase' = [phase EXCEPT ![s] = "none"]
  /\ UNCHANGED <<up, address, tables>>

Disconnect(s) ==
  /\ up
  /\ phase[s] = "connected"
  /\ phase' = [phase EXCEPT ![s] = "none"]
  /\ address' = [address EXCEPT ![s] = NoAddress]
  /\ \/ UNCHANGED tables
     \/ \E t \in Tables : tables' = [tables EXCEPT ![t] = @ \ {address[s]}]
  /\ UNCHANGED up

Next ==
  \/ Opening
  \/ OpenWithoutFlush
  \/ Stop
  \/ \E s \in Sessions : Verify(s) \/ Refuse(s) \/ Disconnect(s)
  \/ \E s \in Sessions, a \in Addresses : Connect(s, a)

Spec == Init /\ [][Next]_vars
=============================================================================
