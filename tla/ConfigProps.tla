----------------------------- MODULE ConfigProps -----------------------------
(***************************************************************************)
(* What ConfigParser guarantees of the configuration the plugin goes on    *)
(* with, and what the tables and comments of the code say that it does     *)
(* not.                                                                    *)
(***************************************************************************)
EXTENDS ConfigParser

AllVariables == UNION {Variables(s) : s \in SectionNames}

SectionStates ==
  [section : SectionNames \cup {"none"},
   keys    : SUBSET (Words \X Spellings),
   context : SUBSET AllVariables]

\* Types.
ConfigTypeOK ==
  /\ outcome \in {"opening", "parsing", "config", "nil"}
  /\ held \in Seq(Tokens)
  /\ depth \in Nat
  /\ stack \in Seq(SectionStates)
  /\ settings \subseteq AllVariables
  /\ groups \in Seq(SUBSET AllVariables)
  /\ pfEnabled \in BOOLEAN
  /\ closed \in [SectionNames -> Nat]
  /\ opened \in Nat

(***************************************************************************)
(* The section stack of TRAuthLDAPConfig and the one inside lemon's        *)
(* automaton, which are pushed and popped by different code on different   *)
(* conditions, never part: else removeObject pops the stack past its       *)
(* bottom, which it does not test for (TRArray.m:131), or a section ends   *)
(* up in the wrong place.  The automaton's own stack of 100 entries, whose *)
(* overflow is silent, is never in danger.                                 *)
(***************************************************************************)
StacksAgree == Len(stack) = depth + 1 /\ depth <= 2

(***************************************************************************)
(* auth-ldap.m searches with the base and filter of every group it is      *)
(* given, without a test: a group that lacks one never gets into the       *)
(* list.                                                                   *)
(***************************************************************************)
GroupsComplete ==
  \A i \in 1..Len(groups) : {"BaseDN", "SearchFilter"} \subseteq groups[i]

(***************************************************************************)
(* Every group section that was closed is in the list, also when there are *)
(* several Authorization sections: the list is created once.               *)
(***************************************************************************)
NoGroupLost == Len(groups) = closed["Group"]

(***************************************************************************)
(* Whatever the plugin reads without a test for nil was given, provided    *)
(* that the file has the section: the URL, and base and filter of the user *)
(* search.                                                                 *)
(***************************************************************************)
SectionsSupplyKeys ==
  /\ closed["LDAP"] > 0 => "URL" \in settings
  /\ closed["Authorization"] > 0 => {"BaseDN", "SearchFilter"} \subseteq settings

(***************************************************************************)
(* pfEnabled, which makes the plugin open /dev/pf and fail without it, is  *)
(* set exactly when a table is configured somewhere.                       *)
(***************************************************************************)
PFEnabledExact ==
  outcome = "config" =>
    (pfEnabled <=> \/ "PFTable" \in settings
                   \/ \E i \in 1..Len(groups) : "PFTable" \in groups[i])

-----------------------------------------------------------------------------
(***************************************************************************)
(* The inductive invariant behind these: which sections the stack can      *)
(* hold, that a key in the hash of a section has its value, and where the  *)
(* tables that pfEnabled stands for are.                                   *)
(***************************************************************************)
StackShape ==
  /\ StacksAgree
  /\ stack[depth + 1].section = "none"
  /\ depth = 1 => stack[1].section \in {"LDAP", "Authorization"}
  /\ depth = 2 => /\ stack[1].section = "Group"
                  /\ stack[2].section = "Authorization"
  /\ \A i \in 1..Len(stack) :
       stack[i].section # "Group" => stack[i].context = {}

KeysHaveValues ==
  \A i \in 1..Len(stack) : \A k \in stack[i].keys :
    /\ stack[i].section = "Group" => k[1] \in stack[i].context
    /\ stack[i].section # "Group" => k[1] \in settings

PFTablesCounted ==
  pfEnabled <=> \/ "PFTable" \in settings
                \/ \E i \in 1..Len(groups) : "PFTable" \in groups[i]
                \/ \E i \in 1..Len(stack) : "PFTable" \in stack[i].context

ConfigInv ==
  /\ ConfigTypeOK
  /\ StackShape
  /\ KeysHaveValues
  /\ PFTablesCounted
  /\ GroupsComplete
  /\ NoGroupLost
  /\ SectionsSupplyKeys
  /\ Ends => depth > 0
  /\ outcome = "config" => depth = 0

=============================================================================
