# A model of openvpn-auth-ldap

TLA+ modules, TLC runs and TLAPS proofs for the OpenVPN LDAP plugin. Paths are
relative to the repository; line numbers are of the commit it is at. The model
is of a build with packet filter support (`HAVE_PF`).

## The system

| Component | State | Operations | Talks to |
|---|---|---|---|
| Plugin entry points, `src/auth-ldap.m` | `ldap_ctx`: configuration, `/dev/pf` object; the locals of a call | `openvpn_plugin_open_v1`, `_func_v1` (verify, connect, disconnect), `_close_v1` | everything below; called by the host |
| LDAP connection, `TRLDAPConnection.m`, `TRLDAPEntry.m` | one libldap handle, its timeout | initialise, options, StartTLS, bind, search, compare, release | the LDAP server, synchronously |
| Packet filter, `TRLocalPacketFilter.m`, `TRPFAddress.m` | a descriptor of `/dev/pf`; the kernel's tables | open, flush, add, delete, list | the kernel (ioctls) |
| Configuration, `TRAuthLDAPConfig.m`, `TRConfig.m`, `TRConfigParser.lemon`, `TRConfigLexer.re`, `TRConfigToken.m`, `TRLDAPGroupConfig.m` | section stack, variables seen, the values | lex, parse, open / close section, set key, report errors | read once by `open_v1` |
| Challenge/response, `openvpn-cr.c`, `base64.c` | none | split, decode | the verify call |
| Object support, `TRObject.m`, `TRAutoreleasePool.m` | reference counts, a stack of pools per thread | retain, release, autorelease | every class |
| Containers, `TRArray.m`, `TRHash.m`, `hash.c` | linked list, extendible hash table | add, look up, remove, enumerate | configuration, entries |
| Strings and filters, `TRString.m`, `TRLDAPSearchFilter.m` | bytes | append, search, substring, quote, convert | searches, configuration |
| Host, `testplugin.c` (OpenVPN in production) | sessions and pool addresses | calls the entry points | the plugin |
| Parser generator, `tools/lemon.c`, and the engine of its parsers, `tools/lempar.c` | grammar, automaton, tables; a parser's stack | read a grammar, build and write the tables; shift, reduce, recover | reads `TRConfigParser.lemon` when the plugin is built; the parser it writes is the configuration's |
| Logging, allocation, `TRLog.m`, `xmalloc.c` | - | - | - |
| Unused: `TRLDAPAccountRepository.m`, `TRVPNSession.m` | - | - | not reached by the entry points |

What is hard here is not concurrency inside the plugin, which runs one call at a
time, but what happens *around* its steps:

* each call makes up to a dozen requests, each of which may fail, and each
  failure must leave the right handles released and the right verdict;
* the directory changes between two requests of a call, and between the calls of
  a session, while every call looks everything up again;
* the kernel's tables outlive the process, which may die between any two steps;
* the calls of several sessions alternate on the same tables;
* `nil` means "error", "nothing" and "not configured", and a message to `nil`
  succeeds.

What makes the components correct: the verdict is the one the configuration
says and fails closed; a connected client is in the table it joined, and nobody
else is; no path leaves a handle open, and handles carry credentials only as
configured; every call ends. The lexer gives each line its tokens whatever is
around it and drops nothing at the end; the parser accepts and rejects what its tables say and loses nothing; those tables say what the grammar says; the
hash table is a map; an answer to a challenge yields what was encoded or is refused.

## The modules

| Module | Models |
|---|---|
| `Directory` | the LDAP server (external): which accounts a user search returns, the entries a group search returns, their members, what is under them in the tree, which exist; an administrator changing any of it |
| `LDAPConnection` | `TRLDAPConnection.m`: `conn[h]` for the two handles "main" and "auth", each open or not, under TLS or not, bound as whom; what each request does to it and what it returns |
| `PacketFilter` | `TRLocalPacketFilter.m` and the kernel's tables |
| `AuthLDAP` | `auth-ldap.m` between those and the host (`testplugin.c`, for several sessions and any number of rounds) |
| `AccessControl` | the abstract specification: calls as atomic steps on tables and sessions |
| `AuthLDAPProps` | every property, the inductive invariant, the refinement mapping |
| `AuthLDAPProofs` | the theorems: types and tables, LDAP handles, what a success proves, the refinement, and what holds where nothing fails |
| `MCAuthLDAP` | small instances: configurations and directories for TLC |
| `ConfigParser` | `TRConfig.m`, the grammar of `TRConfigParser.lemon` and the callbacks of `TRAuthLDAPConfig.m` |
| `ConfigProps`, `ConfigProofs`, `MCConfigParser` | its properties and inductive invariant, theorems, and tokens for TLC |
| `ConfigLexer` | `TRConfigLexer.re`: its rules and start conditions, what re2c makes of them, the end of the buffer |
| `LexerProps`, `LexerProofs`, `MCConfigLexer` | its properties, theorems, and lines for TLC |
| `HashTable` | `TRHash.m` and what it calls of `hash.c` |
| `Dictionary` | the abstract specification of `TRHash`: a map |
| `HashProps` | its properties with the refinement mapping |
| `ObjectPool` | `TRObject.m`, `TRAutoreleasePool.m` and `TRArray.m` with its enumerators: everything that holds references |
| `ContainerProps`, `MCContainers` | a hash table or a thread with objects in one specification, the properties of the latter; a small table and few objects for TLC |
| `PoolProofs`, `HashProofs` | theorems about objects, and about the hash table |
| `SearchFilter` | `quoteForSearch`, `createSearchFilter`, the same in `TRLDAPSearchFilter.m`, and the parts of `TRString.m` they use |
| `ConfigToken` | `TRConfigToken.m`: a token asked for its value, and `intValue` of `TRString.m` |
| `StringProps` | the properties of these two, with a reference reading of filters and numbers |
| `CommandLine` | `option.c` and the options of `main()` in `lemon.c`: the macros and the file |
| `LemonScanner` | `lemon.c` from the command line and the text of a grammar file to its tokens: `preprocess_input`, `Parse`, `Strsafe` |
| `LemonInput` | `parseonetoken`, from those tokens to rules, symbols and declarations |
| `AssocTable` | the hashed arrays of `lemon.c` (symbols, states, strings), which grow |
| `Lemon` | the passes of `main()` after that: FIRST sets, states, follow sets, conflicts, compression, numbering, tables |
| `ActionTable` | `acttab`, the array in which the actions of all states are overlaid |
| `ParserTables` | what `Lemon` writes and `Lempar` reads: a parser's tables, how actions are looked up in them, and when they are sound |
| `Lempar` | the parser of `lempar.c` on any tables, and a host that calls it |
| `LemparProps`, `LemparProofs` | its properties, and theorems about it |
| `LemonProps`, `MCLemon` | generator and parser in one specification, properties of the former and of both together, with a reference made from the text of the grammar (its language, canonical LR(1)); grammars for TLC |
| `Challenge` | `extract_openvpn_cr` and `base64.c` |
| `TextProps`, `MCText` | properties of `LemonScanner` and `Challenge`, with a reference reading, and all code on texts in one specification; texts for TLC |
| `TextProofs` | theorems about filters, answers, conversions and the directives of a grammar file |
| `TableProofs` | theorems about `ActionTable` and `AssocTable` |

`AuthLDAP` extends `LDAPConnection` (which extends `Directory`) and
`PacketFilter`, so that a step of a call changes the call's locals, the handles
and the tables together.

### State and actions

`pc` is the line a call is at; the header of `AuthLDAP.tla` draws the path. Each
LDAP request and each ioctl is one action, since the environment acts between
them; code between two requests belongs to the action that precedes it. Locals
keep their role: `account` is `ldapUser`, `secret` is what `auth_password`
points to, `groupIndex`, `pending` and `found` are the enumerators and the result
of `find_ldap_group`, `handle` says which of the two connections `connect_ldap`
is making. `toFlush` is what `pf_open` has still to flush, and
`conf` what `auth-ldap.m` reads of the configuration object.

* `OpenConfig`, `OpenDevice`, `FlushNext`, `AbortWithoutPool`: `open_v1` and
  `pf_open`. The enumerator of the groups is autoreleased; `hostPool` says
  whether the calling thread has a pool. It has none under OpenVPN and under
  `testplugin`, and has one under the test runner. Without a pool, an open with
  both a `PFTable` and a `<Group>` ends the process (see *Findings*); runs take
  both values, so that the rest of the packet filter code is checked too.
* `CheckUsername`, `OpenConnection`, `ConfigureConnection`, `SecureConnection`,
  `BindConnection`, `FindUser`, `ExtractPassword`, `UserBind`, `SearchGroup`,
  `CheckMember`, `Decide`, `UpdateTable`, `Return`: `func_v1`, with
  `connect_ldap` shared by its two callers.
* `CallVerify`, `CallConnect`, `CallDisconnect`, `Close`: the host. A connect
  gets a pool address nobody has, or none. A refused session is over.
* `DirectoryChange`, `Crash`: the environment; `InitializeFails`: the process ends where
  `initWithURL:` gets no handle from libldap (see *Observations*).

`done = FALSE` stands for every way a request fails without an answer; they
share a branch in the code. Two history variables exist for properties only:
`joined[s]`, the table a successful connect of `s` used, and `changed`, whether
the directory changed during the call.

A search is abstracted to the set it selects; how the text of its filter is made is
`SearchFilter`'s. Membership is checked by one of two operations (`MemberCheckResult`), which differ.
A compare (`CompareResult`) is about one entry and one value. With `UseCompareOperation` false the code
searches the subtree below the group's entry with the filter `(attribute=value)`
(`auth-ldap.m:407`, `412`), in which nothing of the value is escaped (`SearchResult`, `IsFoundFrom`). The
constant `FilterMatches` is what a value matches as such a filter: itself if it is plain, nothing
if a parenthesis or a backslash in it makes the filter invalid, others if it has a `*`; `Below`
are the entries under another. The value is the user's DN, or the name the client gave
(`SearchValue`, `ldapUser`), as `RFC2307bis` says.

`PasswordIsCR`: `resp` is a local of a block that has ended when the
bind reads it (`auth-ldap.m:431-442`); `Secrets` lets the bind see the password or
a string that is nobody's.

### The configuration parser

`ConfigParser` stands beside the other modules: it is over before the plugin
handles a call, and what it promises is what `ConfigType` of `AuthLDAP` takes for
granted: groups with a base and a filter, and `PFEnabled` as a function of the
tables.

lemon reduces a rule when it is handed the *next* token, so each callback runs
one token late, and the one of the last section at the end of the file. `held`
are the tokens of the rule under way, `depth` counts the sections on lemon's
stack, `stack` is `_sectionStack`. An operator `...Accepted` says when a callback
does not call `errorStop`, an action says what it does then; a callback that
does not accept, and a token lemon has no action for, are `Stop`. The
automaton's tables (which tokens it reduces on, where it reports an error) are
those lemon generates for this grammar: only at the end of the file does the top
level reduce, in every other complete rule any token does.

A token's `word` is what `strcasecmp` sees, its `spelling` what the hash of a
section tells apart. A file may end after any token, which includes the lexer
meeting a character it does not know. `ConfigParser` takes any sequence of tokens
and an end anywhere, so whatever the lexer returns is one of its inputs, and no
module that composes the two is needed.

### The lexer

A byte is its class in `Chars`, as far as some rule tells bytes apart ("k" is any
byte of a key, "other" one that only a comment, a value or a string may hold).
`Rules(p)` is the list of rules of the block `label` with where a match from `p`
would end; `Matches` is re2c's choice, the longest and then the first. One action
per rule: those that return a token (`Return`) and those that go on in the same
call of `scan` (`Skip`). Two variables say where the scan is: `label`, the block
it is in, and `condition`, what `BEGIN` last set. They differ, since `SKIP` goes
to a block without `BEGIN`: the line after `<Group>` begins in block INITIAL, but
a call of `scan` after a value begins in VALUE again.

`_limit` is the *last byte* of the file. `fill:` is called when the rules need a
byte from there on; it sets `_eoi` at that byte and asserts that they do not go
beyond it. `Looked(p)` are the bytes at which a block's repetitions end, which
decides both. As `_eoi` is only tested between two rules, a token that ends at
the last byte is still returned. `tokens[i]` is a part of the file
(`from..to`) and a line number; its text is copied from the buffer unchanged.

What the model shows of files that are not well-formed (no document of the
repository says what should happen, so none is a finding): an unknown byte at
the start of a word ends the configuration as if the file ended there (status
"unknown"); `<Group` without anything after it, a blank before a section's name,
and an empty string meet a block without a matching rule, for which re2c
generates what nobody defined ("no rule"); a string that is not closed, a bare word or a comment at the
very end of the file makes the rules look past the last byte ("assert"; the last
word of a file needs the newline, the `>` or the quote); a one-byte last value is
dropped; a string that begins with `#` is taken for a comment; the lines of
a string of several are not counted.

### The hash table

`hash` is the `hash_t`, its chains sequences of nodes and `PlaceOf` the place at which a search ends, so that the order in which
splitting (`GrowTable`, which reverses it) and merging (`ShrinkTable`, which
appends) leave the nodes is kept, as a scan depends on it. A client's operation is
one action: `setObject:forKey:` removes, may shrink, inserts and may grow. A
growth that cannot allocate leaves the table as it is (`HashInsert` gives both
results). `scan` is an enumerator's or `dealloc`'s, `pending` a history of the keys
it has not returned. An enumerator is not used after a change of the table
(`StaleScan`), and a full table is not added to; both are the clients' duty and
kept by the ones there are (`TRLDAPConnection.m:324-345` stops at the capacity).

The comment at `hash.c:281` says the table shrinks at a load of one half. The
test is also that it holds more than `INIT_SIZE` nodes (`hash.c:598`), so a
table of 128 chains never gets back to 64. This costs memory only.

### Objects, arrays and pools

In `ObjectPool` an object is a place with a count; `release` is a stack of messages still
to be sent (`releases`), so that a `dealloc` that releases what the object holds, and
that in turn, takes as many steps as in the code. A client may retain, release and
autorelease what it owns in any order, hold one object several times, make pools within
pools, add to an array while it is enumerated, and let go of an array while an
enumerator of it is in a pool. `objectEnumerator` retains the array (`array`), `objectReverseEnumerator`
does not (`TRArray.m:245-255`): `nodes` is the array an enumerator walks, and becomes `Nil`
when that is deallocated. The client does not ask a reverse enumerator for another object then; the next
node would be freed memory. `find_ldap_group` enumerates an array that the configuration holds.
This and the other rules a client keeps to are in the header of the module; none of them is
checked by the code. `list[a]` keeps the empty node at the bottom, at which a
forward enumerator arrives and where a backward one must not start.

### Strings and filters

A `TRString` in `SearchFilter` is its text *and* `numBytes`, as the methods size
their buffers by the latter. `initWithBytes:` makes the length exclude the zero byte
when one follows the bytes. The template of a filter is a token, behind which
the line goes on, so that case does not arise here. A turn of a loop is an action. `FilterExact`
does not say what the text is, but what libldap makes of it: `Understood` reads the
filter, `Meant` reads the template as the administrator wrote it, with each character of the
name standing for itself wherever the format is. Both are `Filled`, which knows nothing of how
the code splits a template. Where a backslash is right in front of a format
(`PlaceEscaped`), it takes the first character of the name with it; such a template is a mistake
of the administrator's, which `FilterExact` leaves out and `MCText` has. `ConfigToken` has the
value a token keeps in a union with its type.

### The parser generator

The tables of the configuration parser are not written by hand: what the plugin
accepts is what `lemon.c` makes of `TRConfigParser.lemon`, run by `lempar.c`. That is
why this build tool is part of the model. A behaviour of `Lemon` reads one file, goes
through the passes of `main()` (`phase`), and, if there was no error, a host
drives the parser that was written with every sequence of tokens up to a bound,
including the end of the input at any point and `ParseFree` between two tokens.
It ends when the file is refused or the host frees the parser.

* `ParseOneToken` has a disjunct for each case of the `switch` of
  `parseonetoken`; `ps` is `struct pstate`, `gp` what is kept of the grammar.
* State construction is `getstate` and `buildshifts` with the recursion made
  explicit (`frames`); links of the propagation graph are added and followed one
  at a time, each visit clears a node's mark (`todo`).
* `ActionTable` keeps the search for a hole as it is in the code, including its
  two oddities: a free slot "answers" for lookahead -1, and a search that finds
  nothing writes behind everything else.
* `Lempar` has one action per turn of the loop of `Parse`. The value of a
  symbol is the set of the tokens it is made from, so that a value that is
  destroyed twice or lost shows.
* Generator and parser share `parser` only, the tables: `Lemon` sets it once, in its
  last step, and `Lempar` never changes it. What the one has to promise the other is
  `TablesOK` (numbers are in range, a rule uses or destroys symbols of its own, none
  twice) and `NothingLeaks` (no value is without a destructor, none is left out by a rule).
  `TablesExact` says that it does, of grammars with all destructors, and that the configurations
  of lemon's states explain the tables (`Explains`): each shift moves their dots, a rule is
  reduced only behind all of its right-hand side, and a state goes on with the nonterminal of
  whatever it predicts. `LemparProps` says what follows from both, without a grammar.

`LemonScanner` takes the file apart character by character, except that runs of
letters nothing tells apart are one character. It runs to its end, or to the exit
for an unterminated `%ifdef`; phase `"past"` is a scan that has stepped over the
NUL at the end of the file, after which nothing is defined. `Challenge` reads
the string of a client character by character; `"overrun"` is a write past
`tokenIndexes`. `CommandLine` comes before the scanner: the macros of a file are those of its
command line. `TextProps` puts scanner, answers, filters and tokens into one specification, of which a
behaviour runs one, as they share nothing but the kind of property.

## The runs

| Run | Configuration | Shows |
|---|---|---|
| `steady` | 5 configurations, 4 directories, 2 users with an account each, 2 sessions, 2 addresses, 2 tables, 2 groups that compare or search; crashes and restarts with any configuration; no failed request, no directory change | `VerdictExact`, `NoOrphan` |
| `adverse` | 2 sessions of one user, 2 configurations, every request may fail, every directory change, crashes | `TypeOK`, `NoFalseAdmit`, `ConnectedIsListed`, `NoConnectionLeak`, `CredentialsProtected`, `SearchesAsConfigured`, `ImplementsAccessControl` |
| `live` | 1 session, 2 configurations, failures and directory changes, fairness | `EntryPointsReturn` |
| `pool` | one configuration with groups and tables, no host pool | `PoolAvailable` is violated |
| `orphan` | a default table, accounts may change, no host pool | `NoOrphan` is violated |
| `first_match` | required membership, first group empty | `FirstMatch` is violated |
| `search` | required membership, the first group searches; the DN of its member has a parenthesis | `MemberBySearch` is violated |
| `config` | files of at most four sections over eight keys, three kinds of value, an unknown key and section | `ConfigTypeOK`, `StacksAgree`, `GroupsComplete`, `NoGroupLost`, `SectionsSupplyKeys`, `PFEnabledExact` |
| `lexer` | files of at most three lines of 18 forms, with and without the last newline | `TokensExact`, `NothingDropped`, `ScanEnds` |
| `hash` | a table of two chains at first, nine keys, one with two values; or two strings, an array and an enumerator, two pools of buckets with one entry | `HashVerify`, `ScanExact`, `ReferencesBalanced`, `ImplementsDictionary`; `CountsExact`, `EnumeratorsExact` |
| `lemon` | 21 grammars, of which 12 are parsed with, and 180 files with a fault | `RulesAsWritten`, `LookaheadsExact`, `TablesExact`, `TablesFind`, `SentencesExact`, `AssertsHold`, `PrecedenceRespected`, `TokensFreedOnce`, `ErrorsSpaced`, `ParseReturns` |
| `text` | about 41,000 texts | `PreprocessExact`, `TokensAsWritten`, `AnswersExact`, `FilterExact`, `ConversionsExact` |

**Bounds of the parser.** `MaxSections` is the only one: without it the list of
groups and the counts of closed sections grow. Four sections allow an `<LDAP>`,
an `<Authorization>` and two groups, or any section twice. Files are not bounded
in length otherwise: a section takes any number of keys until one repeats.

**Bounds of the lexer.** Twelve forms of line are well-formed, and between them
use every rule and every start condition a line can end in; `TokensExact`
compares with `TokensOf`, the tokens of each such line given by hand, which TLC finds to be
written in it as `LinesAssumption` says. Three lines
put each form before, after and between any two others. Six forms are malformed:
they are there for `NothingDropped` and `ScanEnds`. `ScanEnds` assumes weak fairness of the scanner's own
steps: it waits for nothing.

**Bounds of the table.** `InitSize` is 2 for 64 and the hash the identity, so
that nine keys grow the table twice, to 8 chains, and removals shrink it again;
each split exposes another bit of the hash. `MaxOverload` bounds by how much
failed growths let the table exceed its high mark.

**Bounds of objects.** `BUCKET_SIZE` is 1 for 1024: each second entry of a pool needs a new
bucket. `MaxPools` 2 and `MaxEntries` 2 allow two entries in one pool, one in each, and one
object in both; `MaxOwned` 1 bounds only what the client itself owns, an object can be in
the array twice and in a pool twice besides. `MaxLength` 2 is the shortest array whose order
shows. The two strings are interchangeable.

**Bounds of lemon.** The grammars are those of the configuration and one for each
pass, declaration and branch there is: operators of both associativities, symbols
that can be empty, LALR(1) but not SLR(1), conflicts settled by shifting, by order and
by precedence, `error` symbols, wildcard, `%fallback`, choices of tokens, destructors,
unreachable rules, start symbols declared, unknown and recursive. The faulty files are
one sound file with a token left out, replaced or doubled at each place, and what no
such change reaches. `MaxRhs` is 4 for 1000, `TableSize` 2 for 128 (so that both
tables grow several times), `StackDepth` 6 for 100 (so that it overflows); `Slack` is
that of the code. A parser is passed all sequences of 3 to 6 tokens (`Driven`, of which `MaxTokens` is the
greatest), more where recovery needs them. `LookaheadsExact` and `SentencesExact` are exact for these grammars,
not one-sided: their references are canonical LR(1) states and the sets of
sentences and of their beginnings.

**Bounds of the texts.** Files of at most five lines out of `%ifdef` that holds and one that
does not, `%ifndef`, `%endif` and another line, and some with directives in odd
places; every three pieces of 14 that may stand outside of a block; blocks of
every four pieces of ten, which is what it takes to nest a comment, a literal
with an escaped quote or a brace in a block. `FirstSize` is 1 for 1024 so that the table of strings
grows. `MAXTOKENLENGTH` is 8 for 1024 and `MaxIndexes` 6 for 15; passwords and
responses have up to eight bytes, one more than their place holds. Command lines of up to
three of 16 arguments, with two files that depend on their macros; all other files have the
same one. Templates have up to two of nine parts with any name, and up to three with two of
the names; among the parts are both formats, beginnings of one and a lone backslash. Names have up
to three of five characters, one has parentheses around a format. `INT_MAX` is 12 and `LONG_MAX` 112, so that numbers of three digits lie
on both sides of each; tokens of up to three characters.

**Bounds of the plugin.** Nothing is counted, so the state space is finite without constraints:
phases, handles, tables and locals range over fixed sets. Two sessions and two
addresses are what it takes for one session's call to disturb another, and for
an address to be reused. Two groups of one or both of two entries give: no match, first,
second, both, a group without an entry, two groups with one table, and a group
without one. One entry is under the other, so that a search for members meets an entry that
is not the group's (`SharedConfig`) or is (`FullConfig`); one of the two DNs has a parenthesis. Groups
list DNs in one entry and names in the other. The five configurations cover every
branch on `tlsEnabled`, `bindDN`, `passWordIsCR`, `requireGroup`, `ldapGroups`,
`memberRFC2307BIS`, `useCompareOperation`, `pfTable` and `pfEnabled`. In `adverse` both sessions have the same user, so
sessions are interchangeable, and so are addresses: symmetry is sound there
(no liveness is checked and no expression distinguishes them).

**Why `steady` has one account per user and no faults.** `VerdictExact` says what
the verdict is, not only what it is not; it is false under failures (a failed
group search reads as "no member"), and with several accounts for a user each
call may pick another one (`lastObject`, `auth-ldap.m:345`). It is about users whom every group
that searches for members `Recognises`: their value matches itself and nothing else, and the
search meets no entries but the group's. `search` is about a user who is not. `NoFalseAdmit`
needs half of that, and only of groups that search (`ListsOrErrs`): one that does not
`Discern` the user may take a non-member for a member, and `NoFalseAdmit` allows that group to.

**Fairness.** `FairSpec` assumes weak fairness of the plugin's own code: of
`TimedStep`, each step of a call but the one that waits for StartTLS, and of `OpenPF`. Nothing is
assumed of the host, the administrator or a crash. What this rests on: `LDAP_OPT_NETWORK_TIMEOUT`
(`TRLDAPConnection.m:136`) limits the connecting; binds, searches and compares are given the
configured timeout; an ioctl returns. `ldap_start_tls_s` (`:163`) waits for the server's
answer *without* a limit, since `LDAP_OPT_TIMEOUT` is never set, so `EntryPointsReturn` says that
calls return *if* a call is not at StartTLS for ever (`[]<>(pc # "starttls")`). With an `ldaps` URL the
handshake is part of connecting, and its limit is libldap's.

In `lemon`, weak fairness of a turn of the loop of `Parse`: the loop waits for nothing.

Deadlock is checked in every run but `lemon` and `text`, where the program reads its
file or string and ends: the host can always make another call, the
parser has a step for every token and the lexer for every byte until they are
finished, and a table until it is freed.

## Findings

* `pool`: with a `PFTable` and a `<Group>`, opening the plugin ends the process.
  `pf_open` autoreleases an enumerator (`auth-ldap.m:196`, `TRArray.m:189`) and
  no pool exists there: `assert(stack != NULL)` at `TRAutoreleasePool.m:203`.
* `orphan`: a disconnect whose user search returns nothing any more leaves the
  address in the table (`auth-ldap.m:566-572`). A host thread with a pool would see
  the same for a user whose group changed while connected (`auth-ldap.m:509`).
* `first_match`: a group whose search is empty ends the walk over the groups
  (`auth-ldap.m:400`, `TRLDAPConnection.m:312`), against the comment at
  `auth-ldap.m:384-388`.
* `search`: with `UseCompareOperation` false, a member whose DN has a parenthesis, or a comma
  escaped by a backslash, is found in no group, as the DN goes into the filter as it is
  (`auth-ldap.m:407`); `auth-ldap.conf:55-57` offers the search in place of the compare.

### Observations

What the code does that is worth knowing, and that contradicts no statement of
the repository, is outside of the model or not worth a run of its own.

Plugin: a missing user name reaches `strlen` before the test for it
(`auth-ldap.m:548`, `553`; `CheckUsername` models the end of the process). A failed open
of `/dev/pf` drops the object without a release (`auth-ldap.m:183`). Where `ldap_initialize` gives
no handle, `initWithURL:` releases the connection, and `dealloc` unbinds NULL
(`TRLDAPConnection.m:127`, `151`), for which libldap ends the process. A server that accepts the
connection and never answers StartTLS blocks the host (`TRLDAPConnection.m:163`). With
`UseCompareOperation` false, an entry below the group's that lists the user counts for the group's, and
a `*` in the user's DN or name matches those of others (`auth-ldap.m:407`, `412`). Each
call picks one of several accounts again (`auth-ldap.m:345`). Options are set on
libldap's global defaults, so the first handle of a process is made without them
(`TRLDAPConnection.m:87`). `BindDN` without a password passes `[nil length] - 1`
for a length (`TRLDAPConnection.m:181`). An address that does not parse is `nil`
(`auth-ldap.m:474`), and a message to it leaves the buffer that is handed to the
kernel uninitialised (`TRLocalPacketFilter.m:204`, `215`).

Configuration: a key is known by its name without regard to case (`TRAuthLDAPConfig.m:210`), a repeated
one by its exact spelling (`:803`). So `BaseDN` followed by `basedn` is accepted, although the comment at
`:801` wants to "prevent multiple occurances of a single-use key", and the second value wins; a
required key in another spelling than the table's is reported as missing (`:508`). The run `config` has keys in two
spellings. The columns "multi" and "required" of the section table are never
read (`TRAuthLDAPConfig.m:106-112`). `intValue` refuses `INT_MAX`
and `INT_MIN`, which it cannot tell from overflow (`TRString.m:199`, `204`), and takes the empty text for 0; whether the length of a string made from bytes counts a zero byte depends on
the bytes (`TRString.m:128`).

Objects: `quoteForSearch` and `escapeForSearch` make their result twice and lose the first
one (`auth-ldap.m:81`, `89`; `TRLDAPSearchFilter.m:74`, `82`), an empty string per call. Pools must be
released innermost first, as each pops the top of the stack whichever pool it is
(`TRAutoreleasePool.m:187`), not "in the same order they were allocated" (`:131`). The comment of
`objectEnumerator` says that the caller releases the enumerator (`TRArray.m:184-186`); it is
autoreleased. `objectReverseEnumerator` does not retain the array it walks, as
`objectEnumerator` does (`TRArray.m:245-255`, `221`): an array that is let go of while it is enumerated
in reverse is used after it was freed. No code of the repository does so.

lemon's command line: `--` is an option that does not exist, so what `OptNArgs` and
`argindex` do behind it is never done; a file whose name has a `=` is taken for an option.

Challenge: the label is tested as a prefix (`SCRV1x:...` is accepted);
`strncpy` fills with zeros beyond the label's place, over the password that is set after it; decoding stops
silently at the first character base64 does not have; the array of 15 token
starts is not guarded; the length test rounds up to whole triples, so it refuses a byte or
two early.

lemon: the search for a hole stops at `nActionAlloc - mxLookahead`
(`lemon.c:590`), not, as the comment above it says, at `nAction`, and what it stops at is
not tested. A slot may be free there and its offset be taken: then two states share an
offset and one takes the action of the other, against `lemon.c:557` ("No possible
lookahead value that is not in the aLookahead[] transaction is allowed to match").
Nine tokens are enough: of `%left A B C D E F G H I.` and `s ::= I A A A A A A.` lemon
makes a parser whose states 0 and 2 both have offset 4, so that it shifts the
`A` it should refuse, and accepts the sentence `A`. The grammars of the run `lemon` are too
small for it; `TableProofs` says when it cannot happen. The grammar of the
configuration file is one of them, so that the plugin's parser is not concerned.

lemon, elsewhere: symbols that share type and destructor are merged for the switch
of the destructors, and the second one's is cleared before `translate_code` asks
whether it has one (`lemon.c:3944-3957`), so a nonterminal a rule leaves unlabelled is
not destroyed unless there is a `%default_destructor`; a choice of tokens without a label is never
destroyed; the assertion at `lemon.c:1101-1115` fails for a start symbol that is left-recursive;
a default action together with `%fallback` changes which tokens reach their
substitute, and a cycle of substitutes is followed for ever; a file that ends inside a rule
drops it silently; an unterminated comment in a block of code steps over the end
of the buffer; `/*/` is a whole comment outside of a block and not inside; the line in the message for
an unterminated string is always 0 (`lemon.c:2513`, `2578`); an extra `%endif`
is ignored, and a macro's name may stand on the next line; `%nonassoc` resolves
as a conflict that is counted; with an `error` symbol the end of the input may be discarded, with neither
`%parse_accept` nor `%parse_failure`; an overflow of the stack loses the value that
was to be pushed and the token under way; a failed allocation while a table grows is
not noticed by `Symbol_new`.

## What is proved

For every value of the constants that satisfies the named assumptions
(`PasswordAssumption`, `DirectoryAssumption`, `ConnectionAssumption`,
`TableAssumption`, `PluginAssumption`: the sentinels are not members of the sets
they stand outside of, configurations and directories are well-formed):

* `TypeCorrect`: `Spec => []TypeOK`. The part that is not shallow is that
  `groupIndex` and `found` stay within the configured groups.
* `ConnectedStaysListed`: `Spec => []ConnectedIsListed`.
* `InductiveInvariant`: `Spec => []IInv`, from which both follow.

`ConnectedIsListed` is not inductive: a disconnect of another session with the
same address, a flush while somebody is connected, or a connect that succeeds on
a device that is not open would break it. `IInv` rules these out by
`AddressesUnique` (the host's pool), `JoinedIsConnected` and `QuietWhenDown` (tables
are flushed only when nobody has joined one), `DeviceReady` (an open plugin with a
configured table holds `/dev/pf`), and `CallContext`, what each line of a call
may rely on; `TypeOK` in turn needs `CallContext` to know that the walk starts at a
group that exists. `AuthLDAPProofs` has one lemma per action; `CallFrame` treats
at once the eleven actions that touch only the locals of a call and its handles.

* `HandlesReleased`, `CredentialsStayProtected`, `SearchesRunAsConfigured`: `Spec => []P` for `NoConnectionLeak`,
  `CredentialsProtected` and `SearchesAsConfigured`. None is inductive, as what a
  request sends depends on what the requests before it left; all follow from
  `ConnInv`, which says for each line of a call what both handles are, and
  which `HandleInvariant` proves from `IInv`.

* `FailsClosed`: `Spec => []NoFalseAdmit`. What a success means is
  decided by requests several steps apart, so `AdmitInv` says what the call knows at
  each line: `AdmitControl` whatever the directory does (the result is not
  set before `cleanup`, the string a bind sends is the one given or nobody's, `found`
  is set by the walk only), `AdmitFacts` as long as the directory is what it was
  (the account is one the user search returns, the password is the
  account's once the bind has succeeded, `found` is a group one of whose entries answered that it
  has the user). `AnswersOnlyForListed` is what such an answer is worth: a compare proves the
  membership, a search does if the group discerns the user, that is, if the user's value matches
  nothing but itself and the entries under the group's are the group's too.
  The step from the bind to the verdict is where `PasswordIsCR` matters: that
  `secret` may be `Garbage` does no harm, as `Garbage` is nobody's password.
* `PluginRefines`: `Spec => ImplementsAccessControl`. Each call
  is mapped to one step of `AccessControl`, taken when its result is settled: the
  step that enters `cleanup` is an abstract verify, connect, disconnect or
  failure, every other step of a call a stutter, and `Return`, which tells the host,
  too. That needs `IInv` (which addresses are free, who is in which table),
  `AdmitControl` (a result is not set early) and `CallPhase` (the host has not got
  further with the session than the call under way, so that `phaseBar` moves once).

* `NoOrphanWhenSteady`, `VerdictExactWhenSteady`: `Spec => []P` for
  `NoOrphan` and `VerdictExact`, under `Steady`: no request fails, nobody changes the
  directory, a user has at most one account. `VerdictExact` is a statement about groups that all have an entry and, where they
  search, recognise the user (see *Why `steady`...*). Crashes and restarts with other
  configurations are included. Neither is inductive, and they need each other: a connect
  succeeds since its address is in no table yet, which is `NoOrphan`, and `NoOrphan`
  holds since every disconnect succeeds. A disconnect asks the directory again for
  the table to remove its address from; that it finds the one the connect found is
  `SessionInv`, and rests on `WalkUnique`: the walk over the groups, of which
  `WalkInv` says at each line how far it got, ends in one way only.
  `BindSettlesPassword` is the verdict of the bind, `FlushInv` what `pf_open` has
  still to flush. `WalkFindsFirst` is where `AllGroupsPresent` is needed: without it the
  walk may end early (see *Findings*, `first_match`). `RecognisedAnswers` is where `Recognises` is:
  then, and not otherwise (`search`), a group answers exactly if it lists the user.

For `ConfigParser` (`ParserAssumption`: the table's spelling is a spelling, tokens
are well-formed), `ConfigProofs` proves `ConfigInvariant`, `Spec => []ConfigInv`,
and from it `SectionStackBalanced`, `GroupsAsConfigured`, `RequiredKeysSet` and
`PFEnabledAsConfigured`, as well as the types, `ConfigTypeCorrect`, and `NoGroupIsLost`, for
every set of tokens and any number of sections. None but the types is inductive. That a closed group is complete rests on `KeysHaveValues` (a key in
the hash of a section has set its value, in the group for a `<Group>` and in the
configuration object otherwise); that the stack is never popped too far on `Ends`
only being reached inside a section; `pfEnabled` on where a table can be between
its key and the end of its group (`PFTablesCounted`). `PushTop`, `PopTop` and
`ReplaceTop` say what happens to a sequence used as a stack; there is one lemma per
callback.

For `ConfigLexer` (`FilesAssumption`: files are not empty; `initWithFD:` asserts
that `mmap` succeeds, which it does not for an empty one), `LexerProofs` proves
`LexTypeCorrect` (of `LexTypeOK`, which no run repeats), `NothingLost` and `TokensReturned`,
for files of any length and content. The
first two are about what is left of the file, so their proof has one lemma for
each block of rules (`InitialMatch` ... `StringMatch`): whatever rule wins, the
match leaves nothing but blanks if the rules of the block have looked at the last
byte, and does not pass that byte if they have not. `WhileEnds` gives what
`CHOOSE` in a repetition returns, from the least element of a set of numbers.
`LexInv` adds to the type that a scan goes on only before the end was noticed.

`TokensReturned`: `Spec => []TokensExact`, for any set of well-formed lines of any length
and with any number of values. `LinesAssumption` says what a line and its tokens are, in the
words of the file format and not of the rules: what may be in a token of each kind and what
follows it (`Written`), which kinds follow each other (`Kinds`), and that only blanks are
between them and only a comment behind the last (`MadeOf`). Such a line has a layout in the
file (`LayoutExists`: its tokens, and the first and last byte of each with what encloses it).
`ReadInv` says where the lexer is: between two tokens of a line, behind the `<` of a section
or behind the quote of a value, with the block of rules that suits what comes next, and with
just the tokens before that place returned. One lemma for each thing that can be at the
cursor (`ReadBlanks` ... `ReadEnd`) says which rule has the longest match, and which byte is
the last one looked at; one for each place (`KeyAt` ... `NewlineAfter`) says which place the
step goes to. A start condition that outlives its line does no harm: a line begins in INITIAL
whatever `condition` is, and where a scan begins in VALUE behind a section, nothing is left of
the line but blanks and a comment, which that block skips too. The end is noticed when the
last byte is looked at, by a rule that returns the last token of the file or that skips what
is behind it, and then no token is left (`NoneLeft`).

`TableProofs` proves what the two tables of lemon promise, for every hash function and
every set of actions, without a specification around them: they are values, and the
theorems are about the operators that make one from another. `AssocOK` (each number
is in the chain of its key and nowhere else, and keys differ) and `TableOK` (slots
are those allocated, a used slot has a lookahead, nothing lies behind `nAction`) hold
of the empty table and are kept; under them

* `LookupFindsKey` and `InsertionKeepsKeys`: a lookup finds what was put in under its
  key, and an insertion, through a growth or not, keeps every number;
* `ActionsAreFound`: `acttab_insert` returns an offset at which the whole set is found,
  and every set found before still is. What is needed is that the place of every
  lookahead lies inside the allocation (`GrownOK`, `PlaceShift`) and that the slots
  written are either free or hold the same already (`WrittenInto`, `WrittenAgain`);
* `NoOtherActionIsFound`: nothing else answers at that offset, and nothing of the set
  at the offsets used before, *if* a duplicate or a hole was found. `HoleBehind` gives
  what makes the search succeed: a free slot behind all others whose offset nobody
  uses. Where no such slot lies below the bound, the statement is false; see
  Observations.

`PoolProofs` (`PoolAssumption`: strings, arrays and enumerators are different things,
bounds and bucket size are positive) is about `ContainerSpec`, for any objects, bucket
size and depth of pools:

* `CountsAreExact`: `ContainerSpec => []CountsExact`. It is inductive together with the
  types (`PoolTypeOK`), with what `dealloc` leaves behind (`HoldersOK`: an array without a count is
  empty, an enumerator without one has no array, and no enumerator walks an array that is gone) and with `FiniteHolders`, since a
  cardinality says nothing of a set that may be infinite. References are counted as places (in
  a bucket, an array, the releases under way), so that a step moves, adds or takes away one
  place, and `SameSize` and the `Places...` lemmas say what that does to the count.
* `NoDanglingReference`: whatever is referred to by somebody who will give the reference up, or
  is about to be sent a release, has not been deallocated; this is what the counts are for. The
  nodes a reverse enumerator walks are not among this: it has no reference.
* `EnumeratorsAreExact`: `ContainerSpec => []EnumeratorsExact`, for arrays of any length, from
  `EnumeratorAt`, which says where an enumerator is after each object it returned. A forward one
  has its array for as long as it is there itself (`ForwardHasArray`), a reverse one is spoken of as long as its array is there.

`HashProofs` (`HashAssumption`: the first size is a power of two, what a client sets are keys
and values; the hash function and the number of keys are anything) is about `ContainerSpec` too:

* `TableVerified`, `HashReferencesBalance`, `ScansAreExact`: `[]P` for `HashVerify`,
  `ReferencesBalanced` and `ScanExact`. The inductive invariant is `HashInv`. `TableAt` is its part
  about the table: the fields are those of one of the `Sizes` (the first size doubled over and
  over), each node is in the chain of its hash value, no key is in a chain twice, `nodecount` is
  the number of keys. `GrowTableIs` needs `ModDouble`, what a wider mask makes
  of a hash value, and `RankIs`, that pushing nodes one by one loses none; `ShrinkTableIs` that a table above the
  first size has an even number of chains of which each pair has one hash value in common.
  `HashDeleteWithout` is where the test `nodecount > INIT_SIZE` of `hash.c:598` matters: it
  keeps the table from shrinking below its first size.
* `ScansOK`, the part about scans: what an enumerator has yet to return are the keys at and behind
  its node (`Ahead`), in the order of chains and places. `HashScanNextIs` is a step of it;
  `ScanWithout` says that the deletion of a node the scan is past moves no key to the
  other side, which is what `dealloc` relies on.
* `TableImplementsDictionary`: `ContainerSpec => ImplementsDictionary`, as each operation gives
  a table that is `With` or `Without` one key and equal for the others.

`LemparProofs` (`LemparAssumption`: the stack holds something) is about `EngineSpec`, the parser
of `lempar.c` alone: on any tables that are sound (`TablesOK`), whatever grammar they are from,
with a stack of any depth, passed any number of any tokens:

* `StackBounded`: the stack never holds more than its depth, the first part of `AssertsHold`; no
  entry is written behind `yystack`.
* `ReportsAreSpaced`: `EngineSpec => ErrorsSpaced`. What is counted in the property, tokens shifted
  since a report, is not what the code counts: `yyerrcnt` is set to three whether or not the
  error is reported and counts down to below zero. `ErrorInv` relates the two: as long as fewer
  than three tokens were shifted, they and `yyerrcnt` make three. It holds for a parser that has
  not begun anew only; a new sentence starts with no report to keep a distance from.
* `AssertionsHold`: `EngineSpec => []AssertsHold` for tables that some configurations explain
  (`Explains`): the stack has the right-hand side of a rule on it whenever the rule is reduced,
  and neither an assertion of the code fails nor is a state looked up that there is none of. The
  inductive invariant is `PathInv`: the states on the stack are a `Path`, each moves the dots
  of the one below over the symbol on top, so that a configuration with its dot at n came from
  n entries below, where the rule was predicted (`PathBelow`). It holds at every depth,
  through error recovery and after an overflow, where the stack is emptied. How lemon finds
  its states is not needed, only that there are such configurations; `TablesExact` checks
  that those of its own states are, for each grammar of the run.
* `TokensAreFreedOnce`: `EngineSpec /\ []AssertsHold => []TokensFreedOnce`, and
  `ExplainedTokensAreFreedOnce`, the same without that hypothesis for explained tables.
  `TokensInv` gives each
  token one share, on the stack, under way, with an action, destroyed, or lost, and says that the
  values of two entries are apart (`Apart`), so that destroying a list of entries destroys each
  value once (`DestroyIs`). `Moved` is the argument for all steps: a step takes what was
  held to a new place, to the destructor, or to the lost, each to one. `SplitValues` and
  `ThreeParts` divide the stack at a rule and its right-hand side by what the rule's code does
  with each symbol. `LeaksInv` is the second part: with `NothingLeaks` only a full stack loses
  values. It needs the bottom of the stack to be state 0, since accepting drops the value of
  the start symbol.

`TextProofs` (`OrdersAssumption`: templates and names are texts of characters, and the formats
are the two of the code; `SendingsAssumption`: passwords and responses are bytes, what is typed is
characters; `AnswerAssumption`: the place for a token has a size; `TextsAssumption`: tokens of the
configuration are characters; `InvocationsAssumption`: arguments and grammar files are characters;
`TokenAssumption`: a `long` is no smaller than an `int`) is about
`Spec` of `TextProps`:

* `FiltersAreExact`: `Spec => []FilterExact`, for templates and names of any length over any
  characters. The reading of a filter is defined from left to right, while the code builds the
  filter by appending to what it has. What makes the two meet is `Stands`: a text stands for
  some roles if it does so in front of any other text (`StandsThen`); a quoted name does
  (`PlainStands`, `CharacterStands`), and so does a part of a template between two formats unless it ends in a
  backslash, which is where `PlaceEscaped` comes from. `PlaceFilled` and `CutAtPlace` say
  where `indexToCString:` cuts a template, also one with half a format in front of a whole
  one. `Quoting` and `Filling` are the invariants of the two loops; every string on the way
  is `Whole`: its length is that of its text, on which each copy of the code depends. The reading is a recursive function whose
  properties are found by induction over lengths, done by hand on a set of numbers
  (`Climbing`, `ReadingExists`).
* `AnswersAreExact`: `Spec => []AnswersExact`, for passwords and responses of any bytes and any
  length, and anything typed. The inductive invariant is `AnswerInv`: while the text is searched,
  `tokenIndexes` lists, in order, what is one behind each colon passed (`Started`, `Lists`), and
  afterwards what was decoded is what was encoded. Base64 has no colon, so a text made for a
  password and a response has those of its label and gaps only (`GenuineFormed`), and the starts are
  where its parts are (`StaticReadable`, `DynamicReadable`). From there `Base64decode` stops at
  a colon or the end and gives back the bytes, four characters at a time (`QuadIs`, `PrefixIs`,
  `BytesKept`, `ReadsBack`); whether one or two are left over at the end is where the padding
  matters. That the length test in front of decoding is enough for whatever is typed, padded or not,
  is `DecodedFits`.
* `ConversionsAreExact`: `Spec => []ConversionsExact`, for texts of any length and limits of any size.
  `ConversionInv` says that what a token keeps, and what it answered last, is what its text is
  converted to for the type at hand. `NumberIsRead` is that the code reads the number of the reference,
  held within a `long` (`Held`), or none where there is none: both divide a text into the same
  parts (`PartsAre`, `ReferenceParts`), and the weights of the digits add up to what ten times
  the digits before and the next one makes (`WeighedIsDecimal`).
* `FilesAreReadAsDirected`: `Spec => []PreprocessExact`, for files and command lines of any length.
  The code counts directives, and only while a block is left out; the reference looks for the
  `%endif` of each block. `Depth(i, j)` is what the two have in common: the directives between two
  places, those that end a block counted negatively. `Seen` is the invariant of the loop: `exclude`
  is one more than the depth of the place it is at, seen from `start`, and between the two it was never
  negative, so the block that begins at `start` has not ended, and where it ends every block within
  it that is left out has ended too (`BlockEnds`, from `LeftHasEnded`). What was blanked is exactly
  what is gone (`Gone`), and since a block or a line of a directive that is blanked ends before
  the next line begins, the code still finds each directive to come, and its macro, in the blanked
  text (`NothingGoneAhead`, `FoundAhead`, `DirectiveSeen`). The macros are those of the command
  line by an induction over its arguments (`MacrosAre`).

Only model-checked: of lemon `RulesAsWritten`, `LookaheadsExact`, `TablesExact`, `TablesFind`,
`SentencesExact` and `PrecedenceRespected`, whose references are recursive, and of the texts
`TokensAsWritten`, whose reference is a recursive descent. Liveness
(`EntryPointsReturn`, `ScanEnds`, `ParseReturns`) stays with TLC, as the prover does not do
liveness under fairness or `ENABLED`.

## Not modelled

* `containsObject:` of `TRArray.m`, the hash of a string, and the functions of `hash.c` that nothing
  calls. Objective-C objects of all other classes are values: that a method of the plugin releases
  what it allocated is not stated, except for the LDAP handles.
* Answers that arrive after their request was given up (libldap keeps answers apart by message
  id), process-wide LDAP options, addresses that do not parse and the growing buffers of
  `TRLocalPacketFilter.m` (see *Observations*).
* `makeheaders.c` (copies declarations into headers while the plugin is
  built), lemon's listings, what its flags switch off, and the copying of the template.
* Logging and allocation wrappers, the two unused classes, the test harness.

Three listed hazards have no property. The unguarded array at `openvpn-cr.c:34`: behind it
nothing is defined, and `AnswersExact` speaks of the runs that do not get there. StartTLS
(`TRLDAPConnection.m:163`): see *Fairness*. The bound of the search for holes (`lemon.c:590`): no
grammar of the run reaches it; see *Observations*.
