--------------------------- MODULE MCConfigParser ---------------------------
(***************************************************************************)
(* Files for TLC: keys of each kind and of each section, one of them in    *)
(* two spellings; a key, a section and a value the tables do not know.     *)
(***************************************************************************)
EXTENDS ConfigProps

MCSpellings == {"as in the table", "other"}

MCCanonical == "as in the table"

MCIntWords == {"1", "15"}

Plain(kind, words) ==
  [kind : {kind}, word : words, spelling : {MCCanonical}]

MCTokens ==
  Plain("KEY", {"URL", "TLSEnable", "Timeout", "SearchFilter", "PFTable", "Fred"})
    \cup [kind : {"KEY"}, word : {"BaseDN"}, spelling : MCSpellings]
    \cup Plain("VALUE", {"yes", "15"})
    \cup Plain("SECTION_START", SectionNames \cup {"Fred"})
    \cup Plain("SECTION_NAME", {"Fred"})
    \cup Plain("SECTION_END", SectionNames \cup {"Fred"})

MCWords == {t.word : t \in MCTokens}
=============================================================================
