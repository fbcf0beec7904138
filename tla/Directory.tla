------------------------------ MODULE Directory ------------------------------
(***************************************************************************)
(* The LDAP server, as the requests of TRLDAPConnection.m see it.  The     *)
(* server is not part of the repository: this module is external and says  *)
(* only what the plugin's searches, compares and binds depend on.          *)
(*                                                                         *)
(* A user name given to OpenVPN selects, through the <Authorization>       *)
(* SearchFilter, a set of accounts (normally one).  A group search selects *)
(* a set of entries, each with a member attribute.  An administrator may   *)
(* change all of it between any two requests of the plugin.                *)
(***************************************************************************)
CONSTANTS
  Users,              \* user names OpenVPN may pass in the environment
  Accounts,           \* directory entries a user search may return
  Entries,            \* directory entries a group search may return
  Passwords,          \* non-empty passwords
  EmptyPassword,      \* the zero-length password
  PasswordOf,         \* the password each account has
  Below,              \* Below[e]: the entries under e in the tree
  FilterMatches,      \* FilterMatches[v]: the member values that v matches when
                      \* it is put into a filter as it is: itself if it is
                      \* plain, none if a parenthesis or a backslash of it
                      \* makes the filter invalid, others too if it has a *
  Changes,            \* the kinds of administrative change that may happen
  Listable,           \* bound: the values that may join and leave each entry
  InitialDirectories  \* the directories a behaviour may start from

\* What a member attribute lists: DNs (RFC2307bis) or user names.
Values == Accounts \cup Users

ASSUME PasswordAssumption ==
  /\ PasswordOf \in [Accounts -> Passwords]
  /\ EmptyPassword \notin Passwords

ASSUME DirectoryAssumption ==
  /\ Changes \subseteq {"membership", "groups", "accounts"}
  /\ Below \in [Entries -> SUBSET Entries]
  /\ FilterMatches \in [Values -> SUBSET Values]
  /\ Listable \in [Entries -> SUBSET Values]
  /\ InitialDirectories \subseteq
       [accounts : [Users -> SUBSET Accounts],
        members  : [Entries -> SUBSET Values],
        present  : SUBSET Entries]

VARIABLES
  accounts,  \* accounts[u]: what the user search for u returns
  members,   \* members[e]: the values of the member attribute of e
  present    \* the group entries that exist

dirVars == <<accounts, members, present>>

DirTypeOK ==
  /\ accounts \in [Users -> SUBSET Accounts]
  /\ members \in [Entries -> SUBSET Values]
  /\ present \in SUBSET Entries

DirInit ==
  \E d \in InitialDirectories :
    /\ accounts = d.accounts
    /\ members = d.members
    /\ present = d.present

-----------------------------------------------------------------------------
(* What the server answers. *)

Exists(a) == \E u \in Users : a \in accounts[u]

\* A simple bind.  The comment at TRLDAPConnection.m:183-189 describes the
\* servers this models: a zero-length password binds anonymously and succeeds.
BindAccepted(a, p) ==
  \/ p = EmptyPassword
  \/ Exists(a) /\ p = PasswordOf[a]

\* A compare on the member attribute of e.
IsMember(e, v) == e \in present /\ v \in members[e]

\* A search, from e down, for an entry whose member attribute matches v.
IsFoundFrom(e, v) ==
  /\ e \in present
  /\ \E c \in ({e} \cup Below[e]) \cap present : members[c] \cap FilterMatches[v] # {}

-----------------------------------------------------------------------------
(* What an administrator does. *)

Toggle(S, x) == (S \ {x}) \cup ({x} \ S)

ChangeMembership ==
  /\ "membership" \in Changes
  /\ \E e \in Entries : \E v \in Listable[e] :
       members' = [members EXCEPT ![e] = Toggle(@, v)]
  /\ UNCHANGED <<accounts, present>>

ChangeGroups ==
  /\ "groups" \in Changes
  /\ \E e \in Entries : present' = Toggle(present, e)
  /\ UNCHANGED <<accounts, members>>

ChangeAccounts ==
  /\ "accounts" \in Changes
  /\ \E u \in Users, a \in Accounts :
       accounts' = [accounts EXCEPT ![u] = Toggle(@, a)]
  /\ UNCHANGED <<members, present>>

Administer == ChangeMembership \/ ChangeGroups \/ ChangeAccounts
=============================================================================
