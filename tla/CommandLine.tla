---------------------------- MODULE CommandLine ----------------------------
(***************************************************************************)
(* The command line of lemon, which names the grammar file and the macros  *)
(* of its %ifdef: the options of main() and option.c of tools/lemon.c.     *)
(* An argument is a sequence of characters.                                *)
(***************************************************************************)
EXTENDS Integers, SequencesExt

VARIABLES
  main,     \* where main() is: "options", "file" once one is to be read, "exit"
  argv,     \* the arguments behind the name of the program
  settings  \* what the options have set

commandVars == <<main, argv, settings>>

NoSettings ==
  [flags |-> {}, azDefine |-> {}, user_templatename |-> <<>>, user_outputname |-> <<>>,
   errcnt |-> 0]

Flags == {"b", "c", "g", "m", "l", "p", "q", "r", "s", "x"}
TakingText == {"D", "T", "O"}

FirstEquals(text) == CHOOSE k \in DOMAIN text :
                       text[k] = "=" /\ \A j \in 1..k - 1 : text[j] # "="
BeforeEquals(text) ==
  IF Contains(text, "=") THEN SubSeq(text, 1, FirstEquals(text) - 1) ELSE text
AfterEquals(text) == SubSeq(text, FirstEquals(text) + 1, Len(text))

Refused(s) == [s EXCEPT !.errcnt = @ + 1]

\* handle_D_option cuts a value off; the others take the text as it is.
WithText(s, label, text) ==
  CASE label = "D" -> [s EXCEPT !.azDefine = @ \cup {BeforeEquals(text)}]
    [] label = "T" -> [s EXCEPT !.user_templatename = text]
    [] label = "O" -> [s EXCEPT !.user_outputname = text]

\* The label need only begin the argument: what follows that of a flag is ignored.
handleflags(s, arg) ==
  LET label == IF Len(arg) > 1 THEN arg[2] ELSE "none" IN
  CASE label \in Flags ->
         [s EXCEPT !.flags = IF arg[1] = "-" THEN @ \cup {label} ELSE @ \ {label}]
    [] label \in TakingText -> WithText(s, label, SubSeq(arg, 3, Len(arg)))
    [] OTHER -> Refused(s)

handleswitch(s, arg) ==
  LET label == BeforeEquals(arg) IN
  IF Len(label) = 1 /\ label[1] \in TakingText
  THEN WithText(s, label[1], AfterEquals(arg))
  ELSE Refused(s)

Signed(arg) == arg # <<>> /\ arg[1] \in {"-", "+"}

\* What an argument makes of the settings.
Option(s, arg) ==
  IF Signed(arg) THEN handleflags(s, arg)
  ELSE IF Contains(arg, "=") THEN handleswitch(s, arg) ELSE s

OptInit ==
  LET upto[k \in 0..Len(argv)] ==
        IF k = 0 THEN NoSettings ELSE Option(upto[k - 1], argv[k])
  IN  upto[Len(argv)]

\* argindex and OptNArgs: the arguments that are not options, and all behind "--".
Operands ==
  {k \in DOMAIN argv : \/ ~Signed(argv[k]) /\ ~Contains(argv[k], "=")
                       \/ \E j \in 1..k - 1 : argv[j] = <<"-", "-">>}

CommandInit(commands) ==
  main = "options" /\ argv \in commands /\ settings = NoSettings

\* main() as far as the call of Parse
ReadOptions ==
  /\ main = "options"
  /\ settings' = OptInit
  /\ main' = IF settings'.errcnt = 0 /\ "x" \notin settings'.flags /\ Cardinality(Operands) = 1
             THEN "file" ELSE "exit"
  /\ UNCHANGED argv
=============================================================================
