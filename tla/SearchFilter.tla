---------------------------- MODULE SearchFilter ----------------------------
(***************************************************************************)
(* The filter of a search: the configured template with the quoted name    *)
(* of the user in each of its places (auth-ldap.m, and the same once more  *)
(* in TRLDAPSearchFilter.m), and the TRString it is made with.             *)
(*                                                                         *)
(* A TRString is its text and numBytes, the size it takes its memory to    *)
(* have: the final zero byte counts, and 0 is a string without a text yet. *)
(***************************************************************************)
EXTENDS Integers, SequencesExt

VARIABLES
  building,  \* where the code is
  order,     \* what is to be built: [maker, template, username]
  unquoted,  \* what is still to be quoted
  quoted,    \* the quoted name
  template,  \* what is still to be searched for the format
  filter     \* the result

filterVars == <<building, order, unquoted, quoted, template, filter>>

-----------------------------------------------------------------------------
(* TRString.m *)

Fresh == [numBytes |-> 0, bytes |-> <<>>]
NoString == [numBytes |-> -1, bytes |-> <<>>]

\* strlcpy: what fits in size bytes with a zero byte
Strlcpy(text, size) == SubSeq(text, 1, IF Len(text) < size THEN Len(text) ELSE size - 1)

InitWithCString(text) == [numBytes |-> Len(text) + 1, bytes |-> text]

InitWithString(string) ==
  [numBytes |-> string.numBytes, bytes |-> Strlcpy(string.bytes, string.numBytes)]

\* The first length bytes of a text; the zero byte is not counted if it is next.
InitWithBytes(data, length) ==
  IF length < Len(data)
  THEN InitWithCString(SubSeq(data, 1, length))
  ELSE [numBytes |-> length, bytes |-> data]

AppendCString(string, text) ==
  IF string.numBytes = 0 THEN InitWithCString(text)
  ELSE [numBytes |-> string.numBytes + Len(text), bytes |-> string.bytes \o text]

AppendString(string, other) ==
  IF string.numBytes = 0 THEN InitWithString(other)
  ELSE [numBytes |-> string.numBytes + other.numBytes - 1,
        bytes |-> string.bytes \o other.bytes]

\* Where the first match starts that satisfies Matches(i), or the length.
FirstMatch(string, Matches(_)) ==
  LET at == {i \in DOMAIN string.bytes : Matches(i)}
  IN  IF at = {} THEN Len(string.bytes) ELSE (CHOOSE i \in at : \A j \in at : i <= j) - 1

IndexToCString(string, text) ==
  FirstMatch(string, LAMBDA i : /\ i + Len(text) - 1 <= Len(string.bytes)
                                /\ SubSeq(string.bytes, i, i + Len(text) - 1) = text)

IndexFromCString(string, text) ==
  LET to == IndexToCString(string, text)
  IN  IF to = Len(string.bytes) THEN to ELSE to + Len(text)

IndexToCharset(string, set) == FirstMatch(string, LAMBDA i : string.bytes[i] \in set)

IndexFromCharset(string, set) ==
  LET to == IndexToCharset(string, set)
  IN  IF to = Len(string.bytes) THEN to ELSE to + 1

\* No string if the index is that of the zero byte.
SubstringToIndex(string, index) ==
  IF index = Len(string.bytes) THEN NoString
  ELSE InitWithCString(Strlcpy(string.bytes, index + 1))

SubstringFromIndex(string, index) ==
  IF index = Len(string.bytes) THEN NoString
  ELSE InitWithCString(Strlcpy(SubSeq(string.bytes, index + 1, Len(string.bytes)),
                               string.numBytes - index))

-----------------------------------------------------------------------------
(* Mutation: a backslash in a name is passed on. *)
specialChars_NoBackslash == {"*", "(", ")"}

specialChars == {"*", "(", ")", "\\"}

Formats == [plugin |-> <<"%", "u">>, object |-> <<"%", "s">>]

\* The configured template is a token, behind which its line goes on.
FilterInit(orders) ==
  /\ order \in orders
  /\ building = "quoting"
  /\ unquoted = InitWithCString(order.username)
  /\ quoted = Fresh
  /\ template = InitWithString(InitWithBytes(Append(order.template, "\n"),
                                             Len(order.template)))
  /\ filter = Fresh

Quotable == unquoted # NoString /\ IndexToCharset(unquoted, specialChars) < Len(unquoted.bytes)

\* A turn of the loop of quoteForSearch, and of escapeForSearch.
QuoteCharacter ==
  /\ building = "quoting" /\ Quotable
  /\ LET index == IndexToCharset(unquoted, specialChars)
         part == SubstringToIndex(unquoted, index)
         c == SubstringFromIndex(unquoted, index).bytes[1]
     IN  quoted' = AppendCString(AppendCString(AppendString(quoted, part), <<"\\">>), <<c>>)
  /\ unquoted' = SubstringFromIndex(unquoted, IndexFromCharset(unquoted, specialChars))
  /\ UNCHANGED <<building, order, template, filter>>

QuoteRest ==
  /\ building = "quoting" /\ ~Quotable
  /\ quoted' = IF unquoted = NoString THEN quoted ELSE AppendString(quoted, unquoted)
  /\ building' = "filling"
  /\ UNCHANGED <<order, unquoted, template, filter>>

Format == Formats[order.maker]

HasPlace == template # NoString /\ IndexToCString(template, Format) < Len(template.bytes)

\* A turn of the loop of createSearchFilter, and of getFilter.
FillPlace ==
  /\ building = "filling" /\ HasPlace
  /\ LET part == SubstringToIndex(template, IndexToCString(template, Format))
     IN  filter' = AppendString(AppendString(filter, part), quoted)
  /\ template' = SubstringFromIndex(template, IndexFromCString(template, Format))
  /\ UNCHANGED <<building, order, unquoted, quoted>>

FillRest ==
  /\ building = "filling" /\ ~HasPlace
  /\ filter' = IF template = NoString THEN filter ELSE AppendString(filter, template)
  /\ building' = "built"
  /\ UNCHANGED <<order, unquoted, quoted, template>>

\* The same code stands in two places, for the plugin and for a filter object.
QuoteForSearch == order.maker = "plugin" /\ (QuoteCharacter \/ QuoteRest)
CreateSearchFilter == order.maker = "plugin" /\ (FillPlace \/ FillRest)

EscapeForSearch == order.maker = "object" /\ (QuoteCharacter \/ QuoteRest)
GetFilter == order.maker = "object" /\ (FillPlace \/ FillRest)

FilterNext == QuoteForSearch \/ CreateSearchFilter \/ EscapeForSearch \/ GetFilter
=============================================================================
