---------------------------- MODULE ConfigProofs ----------------------------
(***************************************************************************)
(* Proofs about ConfigParser, for every set of tokens, every spelling and  *)
(* any number of sections.                                                 *)
(***************************************************************************)
EXTENDS ConfigProps, TLAPS

(***************************************************************************)
(* The three things that happen to a stack with its top first.             *)
(***************************************************************************)
LEMMA PushTop ==
  ASSUME NEW S, NEW s \in Seq(S), NEW r \in S
  PROVE  /\ <<r>> \o s \in Seq(S)
         /\ Len(<<r>> \o s) = Len(s) + 1
         /\ (<<r>> \o s)[1] = r
         /\ \A i \in 1..Len(s) : (<<r>> \o s)[i + 1] = s[i]
  OBVIOUS

LEMMA PopTop ==
  ASSUME NEW S, NEW s \in Seq(S), s # <<>>
  PROVE  /\ Tail(s) \in Seq(S)
         /\ Len(Tail(s)) = Len(s) - 1
         /\ \A i \in 1..Len(s) - 1 : Tail(s)[i] = s[i + 1]
  OBVIOUS

LEMMA ReplaceTop ==
  ASSUME NEW S, NEW s \in Seq(S), s # <<>>, NEW r \in S
  PROVE  /\ <<r>> \o Tail(s) \in Seq(S)
         /\ Len(<<r>> \o Tail(s)) = Len(s)
         /\ (<<r>> \o Tail(s))[1] = r
         /\ \A i \in 2..Len(s) : (<<r>> \o Tail(s))[i] = s[i]
<1>1. Tail(s) \in Seq(S) /\ Len(Tail(s)) = Len(s) - 1
  BY PopTop
<1>2. \A i \in 2..Len(s) : (<<r>> \o Tail(s))[i] = s[i]
  <2> TAKE i \in 2..Len(s)
  <2>1. i - 1 \in 1..Len(s) - 1 /\ (i - 1) + 1 = i
    OBVIOUS
  <2>2. (<<r>> \o Tail(s))[i] = Tail(s)[i - 1]
    BY <1>1, <2>1, PushTop
  <2>3. Tail(s)[i - 1] = s[(i - 1) + 1]
    BY <2>1, PopTop
  <2> QED
    BY <2>1, <2>2, <2>3
<1> QED
  BY <1>1, <1>2, PushTop

-----------------------------------------------------------------------------
\* The part of the invariant that the callbacks are about.
ResultTypes ==
  /\ depth \in Nat
  /\ stack \in Seq(SectionStates)
  /\ settings \subseteq AllVariables
  /\ groups \in Seq(SUBSET AllVariables)
  /\ pfEnabled \in BOOLEAN
  /\ closed \in [SectionNames -> Nat]

ResultInv ==
  /\ ResultTypes
  /\ StackShape
  /\ KeysHaveValues
  /\ PFTablesCounted
  /\ GroupsComplete
  /\ NoGroupLost
  /\ SectionsSupplyKeys

LEMMA TopFacts ==
  ASSUME ResultInv
  PROVE  /\ stack # <<>>
         /\ Len(stack) = depth + 1
         /\ Top = stack[1]
         /\ Top \in SectionStates
         /\ Top.section \in SectionNames \cup {"none"}
         /\ Top.keys \subseteq Words \X Spellings
         /\ Top.context \subseteq AllVariables
<1>1. Len(stack) = depth + 1 /\ depth \in Nat /\ stack \in Seq(SectionStates)
  BY DEF ResultInv, ResultTypes, StackShape, StacksAgree
<1>2. stack # <<>> /\ Top = stack[1] /\ Top \in SectionStates
  BY <1>1 DEF Top
<1> QED
  BY <1>1, <1>2 DEF SectionStates

LEMMA VariablesKnown ==
  ASSUME NEW s, NEW v \in Variables(s)
  PROVE  s \in SectionNames /\ v \in AllVariables
  BY DEF Variables, SectionNames, AllVariables

LEMMA SetKeyInv ==
  ASSUME ResultInv, NEW key \in Tokens, NEW value,
         KeyAccepted(key, value), SetKey(key), depth' = depth
  PROVE  ResultInv'
<1> DEFINE inGroup == Top.section = "Group"
           context == IF inGroup THEN Top.context \cup {key.word} ELSE Top.context
           new == [section |-> Top.section,
                   keys    |-> Top.keys \cup {Spelled(key)},
                   context |-> context]
<1>1. /\ key.word \in AllVariables
      /\ Top.section \in SectionNames
      /\ Spelled(key) \in Words \X Spellings
      /\ Spelled(key)[1] = key.word
  BY ParserAssumption, VariablesKnown DEF KeyAccepted, Spelled
<1>2. new \in SectionStates
  BY <1>1, TopFacts DEF SectionStates
<1>3. stack' = <<new>> \o Tail(stack)
  BY DEF SetKey
<1>4. /\ settings' = IF inGroup THEN settings ELSE settings \cup {key.word}
      /\ pfEnabled' = (pfEnabled \/ key.word = "PFTable")
      /\ groups' = groups /\ closed' = closed
  BY DEF SetKey
<1> HIDE DEF inGroup, context, new
<1>5. /\ stack' \in Seq(SectionStates)
      /\ Len(stack') = Len(stack)
      /\ stack'[1] = new
      /\ \A i \in 2..Len(stack) : stack'[i] = stack[i]
  BY <1>2, <1>3, TopFacts, ReplaceTop DEF ResultInv, ResultTypes
<1>6. /\ new.section = stack[1].section
      /\ new.keys = stack[1].keys \cup {Spelled(key)}
      /\ new.context = context
      /\ inGroup <=> stack[1].section = "Group"
      /\ context = IF inGroup THEN stack[1].context \cup {key.word}
                   ELSE stack[1].context
  BY TopFacts DEF new, inGroup, context
<1>7. ResultTypes'
  BY <1>1, <1>4, <1>5 DEF ResultInv, ResultTypes
<1>8. \A i \in 1..Len(stack) : stack'[i].section = stack[i].section
  BY <1>5, <1>6
<1>9. StackShape'
  BY <1>4, <1>5, <1>6, <1>8 DEF ResultInv, StackShape, StacksAgree, ResultTypes
<1>10. KeysHaveValues'
  BY <1>1, <1>4, <1>5, <1>6, <1>8 DEF ResultInv, KeysHaveValues
<1>11. PFTablesCounted'
  <2>1. \A i \in 2..Len(stack) : stack'[i].context = stack[i].context
    BY <1>5
  <2> DEFINE inRest == \E i \in 2..Len(stack) : "PFTable" \in stack[i].context
  <2>2. \A i \in 1..Len(stack) : i = 1 \/ i \in 2..Len(stack)
    BY TopFacts DEF ResultInv, ResultTypes
  <2>3. 1 \in 1..Len(stack) /\ \A i \in 2..Len(stack) : i \in 1..Len(stack)
    BY TopFacts DEF ResultInv, ResultTypes
  <2>4. (\E i \in 1..Len(stack) : "PFTable" \in stack[i].context)
           <=> "PFTable" \in stack[1].context \/ inRest
    BY <2>2, <2>3
  <2>5. (\E i \in 1..Len(stack') : "PFTable" \in stack'[i].context)
           <=> "PFTable" \in new.context \/ inRest
    BY <1>5, <2>1, <2>2, <2>3
  <2>6. \/ inGroup /\ settings' = settings
           /\ new.context = stack[1].context \cup {key.word}
        \/ ~inGroup /\ settings' = settings \cup {key.word}
           /\ new.context = stack[1].context
    BY <1>4, <1>6
  <2> HIDE DEF inRest
  <2>7. "PFTable" \in settings' \/ "PFTable" \in new.context
          <=> \/ "PFTable" \in settings \/ "PFTable" \in stack[1].context
              \/ key.word = "PFTable"
    BY <2>6
  <2> QED
    BY <1>4, <2>4, <2>5, <2>7 DEF ResultInv, PFTablesCounted
<1>12. GroupsComplete' /\ NoGroupLost' /\ SectionsSupplyKeys'
  BY <1>4 DEF ResultInv, GroupsComplete, NoGroupLost, SectionsSupplyKeys
<1> QED
  BY <1>7, <1>9, <1>10, <1>11, <1>12 DEF ResultInv

LEMMA StartSectionInv ==
  ASSUME ResultInv, NEW type \in Tokens,
         StartAccepted(type), StartSection(type), depth' = depth + 1
  PROVE  ResultInv'
<1> DEFINE new == [section |-> type.word, keys |-> {}, context |-> {}]
<1>1. type.word \in SectionNames
  BY DEF StartAccepted, Nesting, SectionNames
<1>2. new \in SectionStates /\ new.section = type.word
      /\ new.keys = {} /\ new.context = {}
  BY <1>1 DEF SectionStates
<1>3. stack' = <<new>> \o stack /\ UNCHANGED <<settings, groups, pfEnabled, closed>>
  BY DEF StartSection
<1> HIDE DEF new
<1>4. /\ stack' \in Seq(SectionStates)
      /\ Len(stack') = Len(stack) + 1
      /\ stack'[1] = new
      /\ \A i \in 1..Len(stack) : stack'[i + 1] = stack[i]
  BY <1>2, <1>3, PushTop DEF ResultInv, ResultTypes
<1>5. Len(stack) = depth + 1 /\ depth \in 0..2
  BY DEF ResultInv, ResultTypes, StackShape, StacksAgree
<1>6. \A i \in 1..Len(stack') : i = 1 \/ (i - 1 \in 1..Len(stack)
                                      /\ stack'[i] = stack[i - 1])
  BY <1>4, <1>5
<1>7. ResultTypes'
  BY <1>3, <1>4 DEF ResultInv, ResultTypes
<1>8. StackShape'
  <2>1. CASE depth = 0
    <3>1. type.word \in {"LDAP", "Authorization"} /\ stack[1].section = "none"
      BY <2>1, TopFacts DEF StartAccepted, Nesting, ResultInv, StackShape
    <3> QED
      BY <2>1, <3>1, <1>2, <1>4, <1>5, <1>6 DEF ResultInv, StackShape, StacksAgree
  <2>2. CASE depth = 1
    <3>1. type.word = "Group" /\ stack[1].section = "Authorization"
          /\ stack[2].section = "none"
      BY <2>2, TopFacts DEF StartAccepted, Nesting, ResultInv, StackShape
    <3> QED
      BY <2>2, <3>1, <1>2, <1>4, <1>5, <1>6 DEF ResultInv, StackShape, StacksAgree
  <2>3. CASE depth = 2
    BY <2>3, TopFacts DEF StartAccepted, Nesting, ResultInv, StackShape
  <2> QED
    BY <1>5, <2>1, <2>2, <2>3
<1>9. KeysHaveValues'
  <2>1. \A i \in 1..Len(stack') :
          \/ stack'[i].keys = {}
          \/ \E j \in 1..Len(stack) : stack'[i] = stack[j]
    BY <1>2, <1>4, <1>6
  <2> SUFFICES ASSUME NEW i \in 1..Len(stack'), NEW k \in stack'[i].keys
               PROVE  /\ stack'[i].section = "Group" => k[1] \in stack'[i].context
                      /\ stack'[i].section # "Group" => k[1] \in settings'
    BY DEF KeysHaveValues
  <2>2. PICK j \in 1..Len(stack) : stack'[i] = stack[j]
    BY <2>1
  <2> QED
    BY <1>3, <2>2 DEF ResultInv, KeysHaveValues
<1>10. PFTablesCounted'
  <2>1. \A i \in 1..Len(stack) : i + 1 \in 1..Len(stack')
    BY <1>4, <1>5
  <2> QED
    BY <1>2, <1>3, <1>4, <1>6, <2>1 DEF ResultInv, PFTablesCounted
<1>11. GroupsComplete' /\ NoGroupLost' /\ SectionsSupplyKeys'
  BY <1>3 DEF ResultInv, GroupsComplete, NoGroupLost, SectionsSupplyKeys
<1> QED
  BY <1>7, <1>8, <1>9, <1>10, <1>11 DEF ResultInv

LEMMA EndSectionInv ==
  ASSUME ResultInv, depth > 0, NEW end \in Tokens,
         EndAccepted(end), EndSection, depth' = depth - 1
  PROVE  ResultInv'
<1>1. /\ Top.section \in SectionNames
      /\ \A v \in Required(Top.section) : <<v, Canonical>> \in Top.keys
  BY DEF EndAccepted
<1>2. /\ groups' = IF Top.section = "Group" THEN Append(groups, Top.context)
                   ELSE groups
      /\ stack' = Tail(stack)
      /\ closed' = [closed EXCEPT ![Top.section] = @ + 1]
      /\ UNCHANGED <<settings, pfEnabled>>
  BY DEF EndSection
<1>3. /\ Len(stack) = depth + 1 /\ depth \in 1..2 /\ depth' \in Nat
      /\ 1 \in 1..Len(stack) /\ Top = stack[1]
  BY TopFacts DEF ResultInv, ResultTypes, StackShape, StacksAgree
<1>4. /\ stack' \in Seq(SectionStates)
      /\ Len(stack') = Len(stack) - 1
      /\ \A i \in 1..Len(stack') : /\ i + 1 \in 1..Len(stack)
                                   /\ stack'[i] = stack[i + 1]
  BY <1>2, <1>3, PopTop DEF ResultInv, ResultTypes
\* A section is closed with a value for each of its required keys.
<1>5. \A v \in Required(Top.section) :
        IF Top.section = "Group" THEN v \in Top.context ELSE v \in settings
  <2> TAKE v \in Required(Top.section)
  <2>1. <<v, Canonical>> \in stack[1].keys /\ <<v, Canonical>>[1] = v
    BY <1>1, <1>3
  <2> QED
    BY <1>3, <2>1 DEF ResultInv, KeysHaveValues
<1>6. /\ groups \in Seq(SUBSET AllVariables)
      /\ Top.context \in SUBSET AllVariables
      /\ closed \in [SectionNames -> Nat]
  BY TopFacts DEF ResultInv, ResultTypes
<1>7. /\ groups' \in Seq(SUBSET AllVariables)
      /\ Top.section = "Group" =>
           /\ Len(groups') = Len(groups) + 1
           /\ groups'[Len(groups) + 1] = Top.context
           /\ \A i \in 1..Len(groups) : groups'[i] = groups[i]
      /\ Top.section # "Group" => groups' = groups
  BY <1>2, <1>6
<1>8. /\ closed' \in [SectionNames -> Nat]
      /\ \A s \in SectionNames :
           closed'[s] = IF s = Top.section THEN closed[s] + 1 ELSE closed[s]
  BY <1>1, <1>2, <1>6
<1>9. ResultTypes'
  BY <1>2, <1>3, <1>4, <1>7, <1>8 DEF ResultInv, ResultTypes
<1>10. StackShape'
  BY <1>3, <1>4 DEF ResultInv, StackShape, StacksAgree
<1>11. KeysHaveValues'
  <2> SUFFICES ASSUME NEW i \in 1..Len(stack'), NEW k \in stack'[i].keys
               PROVE  /\ stack'[i].section = "Group" => k[1] \in stack'[i].context
                      /\ stack'[i].section # "Group" => k[1] \in settings'
    BY DEF KeysHaveValues
  <2> QED
    BY <1>2, <1>4 DEF ResultInv, KeysHaveValues
<1>12. GroupsComplete'
  <2>1. Top.section = "Group" => {"BaseDN", "SearchFilter"} \subseteq Top.context
    BY <1>5 DEF Required, Variables
  <2> SUFFICES ASSUME NEW i \in 1..Len(groups')
               PROVE  {"BaseDN", "SearchFilter"} \subseteq groups'[i]
    BY DEF GroupsComplete
  <2>2. CASE i \in 1..Len(groups)
    BY <1>7, <2>2 DEF ResultInv, GroupsComplete
  <2>3. CASE i \notin 1..Len(groups)
    BY <1>6, <1>7, <2>1, <2>3
  <2> QED
    BY <2>2, <2>3
<1>13. NoGroupLost'
  BY <1>6, <1>7, <1>8 DEF ResultInv, NoGroupLost, SectionNames
<1>14. SectionsSupplyKeys'
  <2>1. Top.section = "LDAP" => "URL" \in settings
    BY <1>5 DEF Required, Variables
  <2>2. Top.section = "Authorization" =>
          {"BaseDN", "SearchFilter"} \subseteq settings
    BY <1>5 DEF Required, Variables
  <2> QED
    BY <1>2, <1>8, <2>1, <2>2 DEF ResultInv, SectionsSupplyKeys, SectionNames
\* A table of the group that is closed moves from the stack to the list.
<1>15. PFTablesCounted'
  <2>1. (\E i \in 1..Len(stack) : "PFTable" \in stack[i].context)
          <=> \/ "PFTable" \in Top.context
              \/ \E i \in 1..Len(stack') : "PFTable" \in stack'[i].context
    <3>1. \A i \in 1..Len(stack) :
            i = 1 \/ (i - 1 \in 1..Len(stack') /\ stack'[i - 1] = stack[i])
      BY <1>3, <1>4
    <3> QED
      BY <1>3, <1>4, <3>1
  <2>2. CASE Top.section = "Group"
    <3>1. (\E i \in 1..Len(groups') : "PFTable" \in groups'[i])
            <=> \/ "PFTable" \in Top.context
                \/ \E i \in 1..Len(groups) : "PFTable" \in groups[i]
      <4>1. /\ Len(groups) + 1 \in 1..Len(groups')
            /\ \A i \in 1..Len(groups) : i \in 1..Len(groups')
            /\ \A i \in 1..Len(groups') : i \in 1..Len(groups) \/ i = Len(groups) + 1
        BY <1>6, <1>7, <2>2
      <4> QED
        BY <1>7, <2>2, <4>1
    <3> QED
      BY <1>2, <2>1, <3>1 DEF ResultInv, PFTablesCounted
  <2>3. CASE Top.section # "Group"
    <3>1. Top.context = {}
      BY <1>3, <2>3 DEF ResultInv, StackShape
    <3> QED
      BY <1>2, <1>7, <2>1, <2>3, <3>1 DEF ResultInv, PFTablesCounted
  <2> QED
    BY <2>2, <2>3
<1> QED
  BY <1>9, <1>10, <1>11, <1>12, <1>13, <1>14, <1>15 DEF ResultInv

\* The rest of the invariant.
ParserInv ==
  /\ outcome \in {"opening", "parsing", "config", "nil"}
  /\ held \in Seq(Tokens)
  /\ opened \in Nat
  /\ Ends => depth > 0
  /\ outcome = "config" => depth = 0

LEMMA HeldFacts ==
  ASSUME held \in Seq(Tokens), NEW next
  PROVE  /\ Declares => Len(held) = 2 /\ held[1] \in Tokens /\ held[1].kind = "KEY"
         /\ Starts(next) => /\ Len(held) = 1 /\ held[1] \in Tokens
                            /\ held[1].kind = "SECTION_START"
         /\ Ends => /\ Len(held) = 1 /\ held[1] \in Tokens
                    /\ held[1].kind = "SECTION_END"
<1>1. Declares => Len(held) = 2 /\ held[1].kind = "KEY"
  BY DEF Declares, Holds
<1>2. Starts(next) => Len(held) = 1 /\ held[1].kind = "SECTION_START"
  BY DEF Starts, Holds
<1>3. Ends => Len(held) = 1 /\ held[1].kind = "SECTION_END"
  BY DEF Ends, Holds
<1>4. Len(held) \in {1, 2} => held[1] \in Tokens
  OBVIOUS
<1> QED
  BY <1>1, <1>2, <1>3, <1>4

(***************************************************************************)
(* A token, or the end of the file, whose callback the delegate accepts.   *)
(***************************************************************************)
LEMMA ReduceInv ==
  ASSUME ResultInv, ParserInv, NEW next, Accepted(next), Reduce(next),
         depth' = DepthAfter(next)
  PROVE  ResultInv'
<1>0. held \in Seq(Tokens) /\ (Ends => depth > 0)
  BY DEF ParserInv
<1>1. CASE ~Reduces(next)
  <2>1. UNCHANGED <<depth, stack, settings, groups, pfEnabled, closed>>
    BY <1>1 DEF Reduces, DepthAfter, Reduce, resultVars
  <2> QED
    BY <2>1
    DEF ResultInv, ResultTypes, StackShape, StacksAgree, KeysHaveValues,
        PFTablesCounted, GroupsComplete, NoGroupLost, SectionsSupplyKeys
<1>2. CASE Declares
  <2>1. held[1] \in Tokens /\ ~Starts(next) /\ ~Ends
    BY <1>0, <1>2, HeldFacts
  <2> QED
    BY <1>2, <2>1, SetKeyInv DEF Reduces, Accepted, Reduce, DepthAfter
<1>3. CASE Starts(next)
  <2>1. held[1] \in Tokens /\ ~Declares /\ ~Ends
    BY <1>0, <1>3, HeldFacts
  <2> QED
    BY <1>3, <2>1, StartSectionInv DEF Reduces, Accepted, Reduce, DepthAfter
<1>4. CASE Ends
  <2>1. held[1] \in Tokens /\ ~Declares /\ ~Starts(next)
    BY <1>0, <1>4, HeldFacts
  <2> QED
    BY <1>0, <1>4, <2>1, EndSectionInv DEF Reduces, Accepted, Reduce, DepthAfter
<1> QED
  BY <1>1, <1>2, <1>3, <1>4 DEF Accepted

LEMMA NextConfigInv == ConfigInv /\ [Next]_vars => ConfigInv'
<1> SUFFICES ASSUME ConfigInv, [Next]_vars PROVE ConfigInv'
  OBVIOUS
<1>1. ResultInv /\ ParserInv
  BY DEF ConfigInv, ConfigTypeOK, ResultInv, ResultTypes, ParserInv
<1>2. ASSUME ResultInv', ParserInv' PROVE ConfigInv'
  BY <1>2 DEF ConfigInv, ConfigTypeOK, ResultInv, ResultTypes, ParserInv
<1>3. ASSUME NEW token \in Tokens, Feed(token) PROVE ConfigInv'
  <2> DEFINE next == token.kind
  <2>1. /\ Accepted(next) /\ Shiftable(next) /\ Reduce(next)
        /\ depth' = DepthAfter(next) /\ outcome' = "parsing"
        /\ held' = Append(HeldAfter(next), token)
    BY <1>3 DEF Feed
  <2>2. opened' \in Nat
    BY <1>1, <1>3 DEF Feed, ParserInv
  <2>3. ResultInv'
    BY <1>1, <2>1, ReduceInv
  <2>4. HeldAfter(next) \in Seq(Tokens)
    BY <1>1 DEF HeldAfter, ParserInv
  <2> HIDE DEF next
  <2>5. held' \in Seq(Tokens) /\ held'[Len(held')] = token
    BY <2>1, <2>4
  <2>6. Ends' => depth' > 0
    <3> SUFFICES ASSUME Ends' PROVE depth' > 0
      OBVIOUS
    <3>1. Len(held') = 1 /\ held'[1].kind = "SECTION_END"
      BY DEF Ends, Holds
    <3>2. next = "SECTION_END"
      BY <2>5, <3>1 DEF next
    <3> QED
      BY <2>1, <3>2 DEF Shiftable
  <2>7. ParserInv'
    BY <2>1, <2>2, <2>5, <2>6 DEF ParserInv
  <2> QED
    BY <1>2, <2>3, <2>7
<1>4. CASE EndOfFile
  <2>1. /\ Accepted("$") /\ Shiftable("$") /\ Reduce("$")
        /\ depth' = DepthAfter("$") /\ held' = <<>> /\ opened' = opened
        /\ outcome' = "config"
    BY <1>4 DEF EndOfFile
  <2>2. ResultInv'
    BY <1>1, <2>1, ReduceInv
  <2>3. depth' = 0
    BY <2>1 DEF Shiftable
  <2>4. ~Ends'
    BY <2>1 DEF Ends, Holds
  <2>5. held' \in Seq(Tokens)
    BY <2>1
  <2>6. ParserInv'
    BY <1>1, <2>1, <2>3, <2>4, <2>5 DEF ParserInv
  <2> QED
    BY <1>2, <2>2, <2>6
<1>5. CASE OpenFile \/ Stop \/ Finished \/ UNCHANGED vars
  <2>1. /\ UNCHANGED <<held, depth, stack, settings, groups, pfEnabled, closed, opened>>
        /\ outcome' \in {"nil", "parsing", outcome}
    BY <1>5 DEF OpenFile, Stop, Finished, vars, resultVars
  <2>2. ParserInv'
    BY <1>1, <2>1 DEF ParserInv, Ends, Holds
  <2>3. ResultInv'
    BY <1>1, <2>1
    DEF ResultInv, ResultTypes, StackShape, StacksAgree, KeysHaveValues,
        PFTablesCounted, GroupsComplete, NoGroupLost, SectionsSupplyKeys
  <2> QED
    BY <1>2, <2>2, <2>3
<1> QED
  BY <1>3, <1>4, <1>5 DEF Next

LEMMA InitConfigInv == Init => ConfigInv
<1> SUFFICES ASSUME Init PROVE ConfigInv
  OBVIOUS
<1> DEFINE bottom == [section |-> "none", keys |-> {}, context |-> {}]
<1>1. bottom \in SectionStates /\ bottom.keys = {} /\ bottom.context = {}
      /\ bottom.section = "none"
  BY DEF SectionStates
<1>2. stack = <<bottom>> /\ depth = 0 /\ groups = <<>> /\ settings = {}
      /\ held = <<>> /\ pfEnabled = FALSE
      /\ closed = [s \in SectionNames |-> 0]
      /\ outcome = "opening" /\ opened = 0
  BY DEF Init
<1> HIDE DEF bottom
<1>3. stack \in Seq(SectionStates) /\ Len(stack) = 1 /\ stack[1] = bottom
  BY <1>1, <1>2
<1>4. ConfigTypeOK
  <2>1. held \in Seq(Tokens) /\ groups \in Seq(SUBSET AllVariables)
    BY <1>2
  <2>2. closed \in [SectionNames -> Nat]
    BY <1>2
  <2>3. settings \subseteq AllVariables /\ pfEnabled \in BOOLEAN
        /\ depth \in Nat /\ opened \in Nat
    BY <1>2
  <2> QED
    BY <1>2, <1>3, <2>1, <2>2, <2>3 DEF ConfigTypeOK
<1>5. StackShape /\ KeysHaveValues
  BY <1>1, <1>2, <1>3 DEF StackShape, StacksAgree, KeysHaveValues
<1>6. PFTablesCounted /\ GroupsComplete
  BY <1>1, <1>2, <1>3 DEF PFTablesCounted, GroupsComplete
<1>7. NoGroupLost /\ SectionsSupplyKeys
  BY <1>2 DEF NoGroupLost, SectionsSupplyKeys, SectionNames
<1>8. ~Ends
  BY <1>2 DEF Ends, Holds
<1> QED
  BY <1>2, <1>4, <1>5, <1>6, <1>7, <1>8 DEF ConfigInv

(***************************************************************************)
(* The inductive invariant of ConfigParser.                                *)
(***************************************************************************)
THEOREM ConfigInvariant == Spec => []ConfigInv
  BY InitConfigInv, NextConfigInv, PTL DEF Spec

(***************************************************************************)
(* The section stack of TRAuthLDAPConfig and lemon's stay in step, so that *)
(* removeObject never pops the bottom, and nesting is at most two deep.    *)
(***************************************************************************)
THEOREM SectionStackBalanced == Spec => []StacksAgree
<1>1. ConfigInv => StacksAgree
  BY DEF ConfigInv, StackShape
<1> QED
  BY <1>1, ConfigInvariant, PTL

(***************************************************************************)
(* Types, of any number of sections and groups.                            *)
(***************************************************************************)
THEOREM ConfigTypeCorrect == Spec => []ConfigTypeOK
<1>1. ConfigInv => ConfigTypeOK
  BY DEF ConfigInv
<1> QED
  BY <1>1, ConfigInvariant, PTL

(***************************************************************************)
(* Every group the plugin gets has the base and the filter it searches     *)
(* with.                                                                   *)
(***************************************************************************)
THEOREM GroupsAsConfigured == Spec => []GroupsComplete
<1>1. ConfigInv => GroupsComplete
  BY DEF ConfigInv
<1> QED
  BY <1>1, ConfigInvariant, PTL

(***************************************************************************)
(* No group section that was closed is lost, whatever Authorization        *)
(* sections are opened behind it.                                          *)
(***************************************************************************)
THEOREM NoGroupIsLost == Spec => []NoGroupLost
<1>1. ConfigInv => NoGroupLost
  BY DEF ConfigInv
<1> QED
  BY <1>1, ConfigInvariant, PTL

(***************************************************************************)
(* A section that was closed has set the keys the plugin reads without a   *)
(* test for nil.                                                           *)
(***************************************************************************)
THEOREM RequiredKeysSet == Spec => []SectionsSupplyKeys
<1>1. ConfigInv => SectionsSupplyKeys
  BY DEF ConfigInv
<1> QED
  BY <1>1, ConfigInvariant, PTL

(***************************************************************************)
(* The packet filter is enabled exactly when a table is configured.        *)
(***************************************************************************)
THEOREM PFEnabledAsConfigured == Spec => []PFEnabledExact
<1>1. ConfigInv => PFEnabledExact
  <2> SUFFICES ASSUME ConfigInv, outcome = "config" PROVE PFEnabledExact
    BY DEF PFEnabledExact
  <2>1. Len(stack) = 1 /\ stack[1].context = {}
    BY DEF ConfigInv, ConfigTypeOK, StackShape, StacksAgree
  <2>2. ~\E i \in 1..Len(stack) : "PFTable" \in stack[i].context
    BY <2>1
  <2> QED
    BY <2>2 DEF ConfigInv, PFTablesCounted, PFEnabledExact
<1> QED
  BY <1>1, ConfigInvariant, PTL
=============================================================================
