----------------------------- MODULE LemonInput -----------------------------
(***************************************************************************)
(* How lemon reads a grammar file: parseonetoken of tools/lemon.c, which   *)
(* the scanner calls with one token after the other.                       *)
(*                                                                         *)
(* A token is [c |-> class, x |-> text, ids |-> names].  The class is what *)
(* the first characters tell: "id", "number", "or" for |NAME and /NAME     *)
(* (its text is the name), "{" for a block of C code (ids are the          *)
(* identifiers in it), "string", "other", or the punctuation itself.       *)
(***************************************************************************)
EXTENDS Integers, Sequences

CONSTANTS
  UpperNames,   \* the names whose first letter is a capital: terminals
  MaxRhs,       \* MAXRHS
  NameHash(_),  \* strhash
  TableSize     \* the slots an associative array starts with, 128 in the code

VARIABLES
  phase,   \* which of the passes of main() is next
  input,   \* the tokens of the file
  ps,      \* struct pstate
  gp       \* what the file has defined so far: the grammar

inputVars == <<phase, input, ps, gp>>

None == ""

NoCode == [c |-> None, x |-> None, ids |-> {}]

IsUpper(t) == t.c = "id" /\ t.x \in UpperNames
IsLower(t) == t.c = "id" /\ t.x \notin UpperNames
IsLowerName(x) == x \notin UpperNames \cup {None}

\* Symbol_new and what main() has created before the file is read.
NewSymbol(name) ==
  [name |-> name, prec |-> -1, assoc |-> None, fallback |-> None, useCnt |-> 1]

SymbolTable == INSTANCE AssocTable WITH Hash <- NameHash

SymbolNew(g, name) ==
  IF SymbolTable!Found(g.table, name)
  THEN [g EXCEPT !.symbols[SymbolTable!Lookup(g.table, name)].useCnt = @ + 1]
  ELSE [g EXCEPT !.symbols = Append(@, NewSymbol(name)),
                 !.table = SymbolTable!Inserted(@, name)]

SymbolFound(name) == SymbolTable!Found(gp.table, name)

Names == {gp.symbols[i].name : i \in DOMAIN gp.symbols}

\* The symbol a pointer to it leads to.
Number(g, name) == CHOOSE i \in DOMAIN g.symbols : g.symbols[i].name = name
Symbol(name) == gp.symbols[Number(gp, name)]

InputInit(files) ==
  /\ phase = "reading"
  /\ input \in files
  /\ ps = [state |-> "DECL_OR_RULE", pos |-> 1, lhs |-> None, lhsalias |-> None,
           rhs |-> <<>>, alias |-> <<>>, slot |-> <<None, None>>,
           assoc |-> None, fallback |-> None, preccounter |-> 0, errorcnt |-> 0]
  /\ gp = LET empty == [symbols |-> <<>>, table |-> SymbolTable!NewTable(TableSize),
                        rules |-> <<>>, args |-> [s \in {} |-> <<>>], wildcard |-> None]
           IN  [SymbolNew(SymbolNew(empty, "$"), "error") EXCEPT !.symbols[2].useCnt = 0]

-----------------------------------------------------------------------------
token == input[ps.pos]

Read == [ps EXCEPT !.pos = @ + 1]

At(state) ==
  /\ phase = "reading"
  /\ ps.pos \in DOMAIN input
  /\ ps.state = state
  /\ UNCHANGED <<phase, input>>

Goto(state) == ps' = [Read EXCEPT !.state = state]

\* ErrorMsg and errorcnt++.
Refuse(state) == ps' = [Read EXCEPT !.state = state, !.errorcnt = @ + 1]

NoteSymbol(name) == gp' = SymbolNew(gp, name)

HasRule == gp.rules # <<>>
LastRule == gp.rules[Len(gp.rules)]

\* The left-hand side of a rule.
Begun_KeepsRhs(name) ==
  [Read EXCEPT !.state = "ARROW", !.lhs = name, !.lhsalias = None]

Begun(name) ==
  [Read EXCEPT !.state = "ARROW", !.lhs = name, !.lhsalias = None,
               !.rhs = <<>>, !.alias = <<>>]

\* WAITING_FOR_DECL_OR_RULE, and INITIALIZE before the first token.
DeclOrRule ==
  /\ At("DECL_OR_RULE")
  /\ \/ token.c = "%" /\ Goto("DECL_KEYWORD") /\ UNCHANGED gp
     \/ /\ IsLower(token)
        /\ ps' = Begun(token.x)
        /\ NoteSymbol(token.x)
     \/ /\ token.c = "{" /\ HasRule /\ LastRule.code = NoCode
        /\ gp' = [gp EXCEPT !.rules[Len(gp.rules)].code = token]
        /\ ps' = Read
     \/ /\ token.c = "{" /\ (HasRule => LastRule.code # NoCode)
        /\ Refuse("DECL_OR_RULE") /\ UNCHANGED gp
     \/ token.c = "[" /\ Goto("PRECEDENCE_MARK_1") /\ UNCHANGED gp
     \/ /\ token.c \notin {"%", "{", "["} /\ ~IsLower(token)
        /\ Refuse("DECL_OR_RULE") /\ UNCHANGED gp

PrecedenceMark1 ==
  /\ At("PRECEDENCE_MARK_1")
  /\ \/ /\ IsUpper(token) /\ HasRule /\ LastRule.precsym = None
        /\ gp' = [SymbolNew(gp, token.x) EXCEPT !.rules[Len(gp.rules)].precsym = token.x]
        /\ Goto("PRECEDENCE_MARK_2")
     \/ /\ ~IsUpper(token) \/ (HasRule => LastRule.precsym # None)
        /\ Refuse("PRECEDENCE_MARK_2") /\ UNCHANGED gp

PrecedenceMark2 ==
  /\ At("PRECEDENCE_MARK_2")
  /\ IF token.c = "]" THEN Goto("DECL_OR_RULE") ELSE Refuse("DECL_OR_RULE")
  /\ UNCHANGED gp

WaitingForArrow ==
  /\ At("ARROW")
  /\ \/ token.c = "::=" /\ Goto("IN_RHS")
     \/ token.c = "(" /\ Goto("LHS_ALIAS_1")
     \/ token.c \notin {"::=", "("} /\ Refuse("RESYNC_AFTER_RULE_ERROR")
  /\ UNCHANGED gp

LhsAlias1 ==
  /\ At("LHS_ALIAS_1")
  /\ \/ token.c = "id" /\ ps' = [Read EXCEPT !.lhsalias = token.x, !.state = "LHS_ALIAS_2"]
     \/ token.c # "id" /\ Refuse("RESYNC_AFTER_RULE_ERROR")
  /\ UNCHANGED gp

\* LHS_ALIAS_2, LHS_ALIAS_3, RHS_ALIAS_2: one token is expected.
Punctuation(state, class, next) ==
  /\ At(state)
  /\ IF token.c = class THEN Goto(next) ELSE Refuse("RESYNC_AFTER_RULE_ERROR")
  /\ UNCHANGED gp

LhsAlias2 == Punctuation("LHS_ALIAS_2", ")", "LHS_ALIAS_3")
LhsAlias3 == Punctuation("LHS_ALIAS_3", "::=", "IN_RHS")
RhsAlias2 == Punctuation("RHS_ALIAS_2", ")", "IN_RHS")

\* A right-hand side is a sequence of symbols, each a sequence of names: more
\* than one make a MULTITERMINAL.
InRhs ==
  LET n == Len(ps.rhs)
  IN
  /\ At("IN_RHS")
  /\ \/ /\ token.c = "."
        /\ gp' = [gp EXCEPT !.rules =
                    Append(@, [lhs |-> ps.lhs, lhsalias |-> ps.lhsalias,
                               rhs |-> ps.rhs, rhsalias |-> ps.alias,
                               code |-> NoCode, precsym |-> None])]
        /\ Goto("DECL_OR_RULE")
     \/ /\ token.c = "id" /\ n < MaxRhs
        /\ ps' = [Read EXCEPT !.rhs = Append(@, <<token.x>>),
                            !.alias = Append(@, None)]
        /\ NoteSymbol(token.x)
     \/ /\ token.c = "id" /\ n >= MaxRhs
        /\ Refuse("RESYNC_AFTER_RULE_ERROR") /\ UNCHANGED gp
     \/ /\ token.c = "or" /\ n > 0
        /\ ps' = [Read EXCEPT !.rhs[n] = Append(@, token.x),
                            !.errorcnt = IF \E x \in {token.x, ps.rhs[n][1]} : IsLowerName(x)
                                         THEN @ + 1 ELSE @]
        /\ NoteSymbol(token.x)
     \/ token.c = "(" /\ n > 0 /\ Goto("RHS_ALIAS_1") /\ UNCHANGED gp
     \/ /\ token.c \notin {".", "id"} /\ (token.c \in {"or", "("} => n = 0)
        /\ Refuse("RESYNC_AFTER_RULE_ERROR") /\ UNCHANGED gp

RhsAlias1 ==
  /\ At("RHS_ALIAS_1")
  /\ \/ /\ token.c = "id"
        /\ ps' = [Read EXCEPT !.alias[Len(ps.alias)] = token.x, !.state = "RHS_ALIAS_2"]
     \/ token.c # "id" /\ Refuse("RESYNC_AFTER_RULE_ERROR")
  /\ UNCHANGED gp

-----------------------------------------------------------------------------
\* The declarations that set a text of struct lemon.
TextKeywords ==
  {"name", "include", "code", "token_destructor", "default_destructor",
   "token_prefix", "syntax_error", "parse_accept", "parse_failure",
   "stack_overflow", "extra_argument", "token_type", "default_type",
   "stack_size", "start_symbol"}

Associativities == {"left", "right", "nonassoc"}

SymbolKeywords == {"destructor", "type", "fallback", "wildcard"}

DeclKeyword ==
  LET word == IF token.c = "id" THEN token.x ELSE None
  IN
  /\ At("DECL_KEYWORD")
  /\ \/ /\ word \in TextKeywords
        /\ ps' = [Read EXCEPT !.slot = <<word, None>>, !.state = "DECL_ARG"]
     \/ /\ word \in Associativities
        /\ ps' = [Read EXCEPT !.preccounter = @ + 1, !.assoc = word,
                            !.state = "PRECEDENCE_SYMBOL"]
     \/ /\ word \in SymbolKeywords
        /\ ps' = [Read EXCEPT !.state = word, !.fallback = None]
     \/ /\ word \notin TextKeywords \cup Associativities \cup SymbolKeywords
        /\ Refuse("RESYNC_AFTER_DECL_ERROR")
  /\ UNCHANGED gp

\* Symbol_new counts a use, %type does not when it knows the symbol.
DestructorSymbol ==
  /\ At("destructor")
  /\ \/ /\ token.c = "id"
        /\ ps' = [Read EXCEPT !.slot = <<"destructor", token.x>>, !.state = "DECL_ARG"]
        /\ NoteSymbol(token.x)
     \/ token.c # "id" /\ Refuse("RESYNC_AFTER_DECL_ERROR") /\ UNCHANGED gp

DatatypeSymbol ==
  LET slot == <<"type", token.x>>
  IN
  /\ At("type")
  /\ \/ /\ token.c = "id" /\ slot \notin DOMAIN gp.args
        /\ ps' = [Read EXCEPT !.slot = slot, !.state = "DECL_ARG"]
        /\ IF SymbolFound(token.x) THEN UNCHANGED gp ELSE NoteSymbol(token.x)
     \/ /\ token.c = "id" => slot \in DOMAIN gp.args
        /\ Refuse("RESYNC_AFTER_DECL_ERROR") /\ UNCHANGED gp

PrecedenceSymbol ==
  /\ At("PRECEDENCE_SYMBOL")
  /\ \/ token.c = "." /\ Goto("DECL_OR_RULE") /\ UNCHANGED gp
     \/ /\ IsUpper(token)
        /\ LET g == SymbolNew(gp, token.x)
               i == Number(g, token.x)
           IN  IF g.symbols[i].prec >= 0
               THEN Refuse("PRECEDENCE_SYMBOL") /\ gp' = g
               ELSE /\ gp' = [g EXCEPT !.symbols[i].prec = ps.preccounter,
                                      !.symbols[i].assoc = ps.assoc]
                    /\ ps' = Read
     \/ /\ token.c # "." /\ ~IsUpper(token)
        /\ Refuse("PRECEDENCE_SYMBOL") /\ UNCHANGED gp

\* A second argument for the same slot is appended to the first.
DeclArg ==
  /\ At("DECL_ARG")
  /\ \/ /\ token.c \in {"{", "string", "id", "number"}
        /\ gp' = [gp EXCEPT !.args =
                    [s \in DOMAIN @ \cup {ps.slot} |->
                       IF s # ps.slot THEN @[s]
                       ELSE Append(IF s \in DOMAIN @ THEN @[s] ELSE <<>>, token.x)]]
        /\ Goto("DECL_OR_RULE")
     \/ /\ token.c \notin {"{", "string", "id", "number"}
        /\ Refuse("RESYNC_AFTER_DECL_ERROR") /\ UNCHANGED gp

FallbackId ==
  /\ At("fallback")
  /\ \/ token.c = "." /\ Goto("DECL_OR_RULE") /\ UNCHANGED gp
     \/ /\ IsUpper(token)
        /\ LET g == SymbolNew(gp, token.x)
               i == Number(g, token.x)
           IN  \/ /\ ps.fallback = None
                  /\ ps' = [Read EXCEPT !.fallback = token.x]
                  /\ gp' = g
               \/ /\ ps.fallback # None /\ g.symbols[i].fallback # None
                  /\ Refuse("fallback") /\ gp' = g
               \/ /\ ps.fallback # None /\ g.symbols[i].fallback = None
                  /\ gp' = [g EXCEPT !.symbols[i].fallback = ps.fallback]
                  /\ ps' = Read
     \/ token.c # "." /\ ~IsUpper(token) /\ Refuse("fallback") /\ UNCHANGED gp

WildcardId ==
  /\ At("wildcard")
  /\ \/ token.c = "." /\ Goto("DECL_OR_RULE") /\ UNCHANGED gp
     \/ /\ IsUpper(token)
        /\ IF gp.wildcard = None THEN ps' = Read ELSE Refuse("wildcard")
        /\ gp' = [SymbolNew(gp, token.x) EXCEPT !.wildcard = IF @ = None THEN token.x ELSE @]
     \/ token.c # "." /\ ~IsUpper(token) /\ Refuse("wildcard") /\ UNCHANGED gp

\* RESYNC_AFTER_RULE_ERROR falls through to RESYNC_AFTER_DECL_ERROR.
Resync ==
  /\ \E state \in {"RESYNC_AFTER_RULE_ERROR", "RESYNC_AFTER_DECL_ERROR"} : At(state)
  /\ \/ token.c = "." /\ Goto("DECL_OR_RULE")
     \/ token.c = "%" /\ Goto("DECL_KEYWORD")
     \/ token.c \notin {".", "%"} /\ ps' = Read
  /\ UNCHANGED gp

ParseOneToken ==
  \/ DeclOrRule \/ PrecedenceMark1 \/ PrecedenceMark2
  \/ WaitingForArrow \/ LhsAlias1 \/ LhsAlias2 \/ LhsAlias3
  \/ InRhs \/ RhsAlias1 \/ RhsAlias2
  \/ DeclKeyword \/ DestructorSymbol \/ DatatypeSymbol \/ PrecedenceSymbol
  \/ DeclArg \/ FallbackId \/ WildcardId \/ Resync

\* The file is read; main() gives up after errors and without a rule.
EndOfFile ==
  /\ phase = "reading"
  /\ ps.pos > Len(input)
  /\ phase' = IF ps.errorcnt > 0 \/ ~HasRule THEN "exit" ELSE "symbols"
  /\ UNCHANGED <<input, ps, gp>>
=============================================================================
