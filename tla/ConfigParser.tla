---------------------------- MODULE ConfigParser ----------------------------
(***************************************************************************)
(* Reading the configuration file: the loop of TRConfig.m, the grammar of  *)
(* TRConfigParser.lemon as lemon's automaton runs it, and the callbacks of *)
(* TRAuthLDAPConfig.m, which keep a section stack of their own.            *)
(*                                                                         *)
(* The automaton reduces a rule only when it is handed the next token, so  *)
(* a callback runs one token late: held are the tokens of the rule that is *)
(* not reduced yet, depth the sections the automaton has open.             *)
(*                                                                         *)
(* A token is a kind, a word, and the way the word is capitalised: names   *)
(* are looked up without regard to case, the keys a section has seen are   *)
(* compared exactly.                                                       *)
(***************************************************************************)
EXTENDS Naturals, Sequences

CONSTANTS
  Words,       \* the words of a file, capitals apart
  Spellings,   \* the ways to capitalise a word
  Canonical,   \* the way the opcode tables do
  IntWords,    \* the words that are integers
  Tokens,      \* the tokens of a file
  MaxSections  \* bound: the sections a file opens

TokenKinds == {"KEY", "VALUE", "SECTION_START", "SECTION_NAME", "SECTION_END"}

ASSUME ParserAssumption ==
  /\ Canonical \in Spellings
  /\ Tokens \subseteq [kind : TokenKinds, word : Words, spelling : Spellings]
  /\ MaxSections \in Nat

SectionNames == {"LDAP", "Authorization", "Group"}

\* The opcode tables.
Variables(section) ==
  CASE section = "LDAP" ->
         {"URL", "Timeout", "BindDN", "Password", "FollowReferrals",
          "TLSEnable", "TLSCACertFile", "TLSCACertDir", "TLSCertFile",
          "TLSKeyFile", "TLSCipherSuite"}
    [] section = "Authorization" ->
         {"RequireGroup", "BaseDN", "SearchFilter", "PFTable", "PasswordIsCR"}
    [] section = "Group" ->
         {"MemberAttribute", "RFC2307bis", "UseCompareOperation",
          "BaseDN", "SearchFilter", "PFTable"}
    [] OTHER -> {}

Required_NoURL(section) == Variables(section) \cap {"BaseDN", "SearchFilter"}

Required(section) == Variables(section) \cap {"URL", "BaseDN", "SearchFilter"}

BoolKeys == {"FollowReferrals", "TLSEnable", "RequireGroup", "PasswordIsCR",
             "RFC2307bis", "UseCompareOperation"}

BoolWords == {"yes", "true", "1", "no", "false", "0"}

\* Which section may be opened within which.
Nesting == {<<"none", "LDAP">>, <<"none", "Authorization">>,
            <<"Authorization", "Group">>}

VARIABLES
  outcome,    \* "opening", "parsing", "config" (the object) or "nil"
  held,       \* the tokens of the rule under way
  depth,      \* the sections the automaton has open
  stack,      \* _sectionStack, its top first
  settings,   \* the keys the object has a value for
  groups,     \* _ldapGroups, for each the keys it has a value for
  pfEnabled,  \* _pfEnabled
  closed,     \* how many sections of each type were closed (for properties)
  opened      \* how many sections were started (for the bound)

resultVars == <<stack, settings, groups, pfEnabled, closed>>
vars == <<outcome, held, depth, resultVars, opened>>

Init ==
  /\ outcome = "opening"
  /\ held = <<>>
  /\ depth = 0
  /\ stack = <<[section |-> "none", keys |-> {}, context |-> {}]>>
  /\ settings = {}
  /\ groups = <<>>
  /\ pfEnabled = FALSE
  /\ closed = [s \in SectionNames |-> 0]
  /\ opened = 0

-----------------------------------------------------------------------------
(***************************************************************************)
(* The callbacks.  Each is split in what it accepts and what it then does; *)
(* what it refuses ends in errorStop, after which the object is released.  *)
(***************************************************************************)
Top == Head(stack)

Spelled(key) == <<key.word, key.spelling>>

KeyAccepted_AnyName(key, value) ==
  /\ Top.section # "none"
  /\ Spelled(key) \notin Top.keys

KeyAccepted(key, value) ==
  /\ key.word \in Variables(Top.section)
  /\ key.word \in BoolKeys => value.word \in BoolWords
  /\ key.word = "Timeout" => value.word \in IntWords
  /\ Spelled(key) \notin Top.keys

SetKey_DefaultTableOnly(key) ==
  LET inGroup == Top.section = "Group"
  IN  /\ stack' = <<[section |-> Top.section,
                     keys    |-> Top.keys \cup {Spelled(key)},
                     context |-> IF inGroup THEN Top.context \cup {key.word}
                                 ELSE Top.context]>> \o Tail(stack)
      /\ settings' = IF inGroup THEN settings ELSE settings \cup {key.word}
      /\ pfEnabled' = (pfEnabled \/ (~inGroup /\ key.word = "PFTable"))
      /\ UNCHANGED <<groups, closed>>

SetKey(key) ==
  LET inGroup == Top.section = "Group"
  IN  /\ stack' = <<[section |-> Top.section,
                     keys    |-> Top.keys \cup {Spelled(key)},
                     context |-> IF inGroup THEN Top.context \cup {key.word}
                                 ELSE Top.context]>> \o Tail(stack)
      /\ settings' = IF inGroup THEN settings ELSE settings \cup {key.word}
      /\ pfEnabled' = (pfEnabled \/ key.word = "PFTable")
      /\ UNCHANGED <<groups, closed>>

StartAccepted(type) == <<Top.section, type.word>> \in Nesting

StartSection_NewList(type) ==
  /\ stack' = <<[section |-> type.word, keys |-> {}, context |-> {}]>> \o stack
  /\ groups' = IF type.word = "Group" THEN <<>> ELSE groups
  /\ UNCHANGED <<settings, pfEnabled, closed>>

StartSection(type) ==
  /\ stack' = <<[section |-> type.word, keys |-> {}, context |-> {}]>> \o stack
  /\ UNCHANGED <<settings, groups, pfEnabled, closed>>

EndAccepted_NoRequired(end) ==
  end.word \in SectionNames /\ end.word = Top.section

\* validateRequiredVariables looks the names of the tables up in the hash of
\* the section, which holds keys as the file spells them.
EndAccepted(end) ==
  /\ end.word \in SectionNames
  /\ end.word = Top.section
  /\ \A v \in Required(Top.section) : <<v, Canonical>> \in Top.keys

EndSection_GroupStays ==
  /\ groups' = IF Top.section = "Group" THEN Append(groups, Top.context)
               ELSE groups
  /\ stack' = IF Top.section = "Group" THEN stack ELSE Tail(stack)
  /\ closed' = [closed EXCEPT ![Top.section] = @ + 1]
  /\ UNCHANGED <<settings, pfEnabled>>

EndSection ==
  /\ groups' = IF Top.section = "Group" THEN Append(groups, Top.context)
               ELSE groups
  /\ stack' = Tail(stack)
  /\ closed' = [closed EXCEPT ![Top.section] = @ + 1]
  /\ UNCHANGED <<settings, pfEnabled>>

-----------------------------------------------------------------------------
(***************************************************************************)
(* The automaton, given a token of kind next ("$" at the end of the file). *)
(***************************************************************************)
Holds(kinds) ==
  /\ Len(held) = Len(kinds)
  /\ \A i \in 1..Len(kinds) : held[i].kind = kinds[i]

Declares      == Holds(<<"KEY", "VALUE">>)
Names         == Holds(<<"SECTION_START", "SECTION_NAME">>)
Starts(next)  == Holds(<<"SECTION_START">>) /\ next # "SECTION_NAME"
Ends          == Holds(<<"SECTION_END">>)
Reduces(next) == Declares \/ Names \/ Starts(next) \/ Ends

\* The delegate does not call errorStop.  It does for every named section.
Accepted(next) ==
  \/ ~Reduces(next)
  \/ Declares /\ KeyAccepted(held[1], held[2])
  \/ Starts(next) /\ StartAccepted(held[1])
  \/ Ends /\ EndAccepted(held[1])

Reduce(next) ==
  \/ ~Reduces(next) /\ UNCHANGED resultVars
  \/ Declares /\ SetKey(held[1])
  \/ Starts(next) /\ StartSection(held[1])
  \/ Ends /\ EndSection

HeldAfter(next) == IF Reduces(next) THEN <<>> ELSE held

DepthAfter(next) ==
  IF Starts(next) THEN depth + 1 ELSE IF Ends THEN depth - 1 ELSE depth

\* The next token can be shifted, or the file can end.
Shiftable(next) ==
  \/ HeldAfter(next) = <<>> /\ next \in {"KEY", "SECTION_START"}
  \/ HeldAfter(next) = <<>> /\ next = "SECTION_END" /\ DepthAfter(next) > 0
  \/ HeldAfter(next) = <<>> /\ next = "$" /\ DepthAfter(next) = 0
  \/ Holds(<<"KEY">>) /\ next = "VALUE"
  \/ Holds(<<"SECTION_START">>) /\ next = "SECTION_NAME"

-----------------------------------------------------------------------------
\* initWithConfigFile: the file cannot be opened, or can.
OpenFile ==
  /\ outcome = "opening"
  /\ outcome' \in {"nil", "parsing"}
  /\ UNCHANGED <<held, depth, resultVars, opened>>

\* parseConfig: a token that leaves _error unset.
Feed(token) ==
  /\ outcome = "parsing"
  /\ token.kind = "SECTION_START" => opened < MaxSections
  /\ Accepted(token.kind) /\ Shiftable(token.kind)
  /\ Reduce(token.kind)
  /\ held' = Append(HeldAfter(token.kind), token)
  /\ depth' = DepthAfter(token.kind)
  /\ opened' = IF token.kind = "SECTION_START" THEN opened + 1 ELSE opened
  /\ UNCHANGED outcome

\* The lexer has no further token: the file ended, or has a character no
\* token starts with.
EndOfFile ==
  /\ outcome = "parsing"
  /\ Accepted("$") /\ Shiftable("$")
  /\ Reduce("$")
  /\ held' = <<>>
  /\ depth' = DepthAfter("$")
  /\ outcome' = "config"
  /\ UNCHANGED opened

\* errorStop, from a callback or from parseError: the loop ends, and with it
\* the initialisation; section stack and object are released.
Stop ==
  /\ outcome = "parsing"
  /\ \E next \in {t.kind : t \in Tokens} \cup {"$"} :
       ~Accepted(next) \/ ~Shiftable(next)
  /\ outcome' = "nil"
  /\ UNCHANGED <<held, depth, resultVars, opened>>

Finished == outcome \in {"config", "nil"} /\ UNCHANGED vars

Next ==
  \/ OpenFile
  \/ \E token \in Tokens : Feed(token)
  \/ EndOfFile
  \/ Stop
  \/ Finished

Spec == Init /\ [][Next]_vars
=============================================================================
