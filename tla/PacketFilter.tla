---------------------------- MODULE PacketFilter ----------------------------
(***************************************************************************)
(* TRLocalPacketFilter.m and the kernel tables behind /dev/pf.  A table is *)
(* a set of addresses that outlives the process.  DIOCRADDADDRS of an      *)
(* address the table has, and DIOCRDELADDRS of one it has not, succeed and *)
(* report that 0 addresses changed, which the code takes for an error.     *)
(*                                                                         *)
(* An ioctl, or the open, that fails is done = FALSE.                      *)
(***************************************************************************)
CONSTANTS
  Addresses,  \* addresses of the server's pool
  Tables,     \* tables of the loaded pf rule set
  NoTable     \* no PFTable configured

ASSUME TableAssumption == NoTable \notin Tables

VARIABLES
  pfOpen,  \* whether ctx->pf is an object holding /dev/pf, and not nil
  tables   \* tables[t]: the addresses in kernel table t

pfVars == <<pfOpen, tables>>

PFTypeOK ==
  /\ pfOpen \in BOOLEAN
  /\ tables \in [Tables -> SUBSET Addresses]

\* Whatever an earlier process left behind may be in the tables.
PFInit ==
  /\ pfOpen = FALSE
  /\ tables \in [Tables -> SUBSET Addresses]

Flushed(t, done) == IF done THEN [tables EXCEPT ![t] = {}] ELSE tables

\* A message to nil does nothing and returns 0, which is PF_SUCCESS.
AddAddress(t, a, done) ==
  tables' = IF pfOpen /\ done THEN [tables EXCEPT ![t] = @ \cup {a}] ELSE tables

AddResult(t, a, done) == pfOpen => done /\ a \notin tables[t]

DeleteAddress_Flush(t, a, done) ==
  tables' = IF pfOpen THEN Flushed(t, done) ELSE tables

DeleteAddress(t, a, done) ==
  tables' = IF pfOpen /\ done THEN [tables EXCEPT ![t] = @ \ {a}] ELSE tables

DeleteResult(t, a, done) == pfOpen => done /\ a \in tables[t]
=============================================================================
