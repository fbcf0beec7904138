----------------------------- MODULE MCAuthLDAP -----------------------------
(***************************************************************************)
(* Small instances of AuthLDAP for TLC: two users with an account each,    *)
(* two groups over two entries, one under the other in the tree, two       *)
(* tables, two addresses.                                                  *)
(***************************************************************************)
EXTENDS AuthLDAPProps, TLC

CONSTANTS u1, u2, a1, a2, eng, ops, p1, p2, t1, t2, x1, x2, s1, s2

MCPasswordOf == (a1 :> p1) @@ (a2 :> p2)

MCPasswordOfOne == a1 :> p1

MCLogin == (s1 :> u1) @@ (s2 :> u2)
MCLoginSame == (s1 :> u1) @@ (s2 :> u1)
MCLoginOne == s1 :> u1

\* The entry eng is under ops.
MCBelow == [e \in Entries |-> IF e = ops THEN {eng} ELSE {}]

\* The DN of a2 has a parenthesis; the other values are plain.
MCFilterMatches == [v \in Values |-> IF v = a2 THEN {} ELSE {v}]

\* DNs come and go in eng, names in ops.
MCListable == [e \in Entries |-> IF e = eng THEN Accounts ELSE Users]

Group(e, t) == [entries |-> {e}, table |-> t, compare |-> TRUE, rfc2307bis |-> TRUE]

BySearch(g) == [g EXCEPT !.compare = FALSE]

ByName(g) == [g EXCEPT !.rfc2307bis = FALSE]

\* Of both entries.
Wide(g) == [g EXCEPT !.entries = {eng, ops}]

\* Every feature on; the second group, of names, has no table of its own.
FullConfig ==
  [groups |-> <<Group(eng, t1), Wide(ByName(BySearch(Group(ops, NoTable))))>>, table |-> t2,
   requireGroup |-> FALSE, cr |-> FALSE, tls |-> TRUE, bindDN |-> TRUE]

\* Membership required, one table per group, none by default.
StrictConfig ==
  [groups |-> <<BySearch(Group(eng, t1)), ByName(Group(ops, t2))>>, table |-> NoTable,
   requireGroup |-> TRUE, cr |-> TRUE, tls |-> FALSE, bindDN |-> FALSE]

\* Both groups share a table; a search at ops meets eng, too.
SharedConfig ==
  [groups |-> <<Group(eng, t1), BySearch(Group(ops, t1))>>, table |-> t2,
   requireGroup |-> TRUE, cr |-> FALSE, tls |-> TRUE, bindDN |-> FALSE]

\* No group, only the default table.
PlainConfig ==
  [groups |-> <<>>, table |-> t2,
   requireGroup |-> TRUE, cr |-> FALSE, tls |-> FALSE, bindDN |-> TRUE]

\* No packet filter.
NoPFConfig ==
  [groups |-> <<Group(eng, NoTable)>>, table |-> NoTable,
   requireGroup |-> TRUE, cr |-> FALSE, tls |-> FALSE, bindDN |-> FALSE]

Directory(m1, m2, there) ==
  [accounts |-> (u1 :> {a1}) @@ (u2 :> {a2}),
   members  |-> (eng :> m1) @@ (ops :> m2),
   present  |-> there]

AllEntries == {eng, ops}

\* Both in eng, one in each, both groups for the first, nobody anywhere.
SteadyDirectories ==
  {Directory({a1, a2}, {}, AllEntries),
   Directory({a1}, {a2, u2}, AllEntries),
   Directory({a1, u1}, {a1, u1}, AllEntries),
   Directory({}, {}, AllEntries)}

SmallDirectory ==
  {[accounts |-> (u1 :> {a1}),
    members  |-> (eng :> {a1}) @@ (ops :> {}),
    present  |-> AllEntries]}

OneDirectory == {Directory({a1}, {a2}, AllEntries)}

\* The first group has no entry.
GapDirectory == {Directory({}, {a1, a2}, {ops})}

\* Group membership decides on the verdict only.
RequiredConfig ==
  [groups |-> <<Group(eng, NoTable), Group(ops, NoTable)>>, table |-> NoTable,
   requireGroup |-> TRUE, cr |-> FALSE, tls |-> TRUE, bindDN |-> TRUE]

\* The first group by search; it lists the user whose DN makes no filter.
SearchConfig == [RequiredConfig EXCEPT !.groups[1] = BySearch(@)]
SearchDirectory == {Directory({a2}, {}, AllEntries)}

RequiredOnly == {RequiredConfig}
SearchOnly == {SearchConfig}
PlainOnly == {PlainConfig}

AllConfigs == {FullConfig, StrictConfig, SharedConfig, PlainConfig, NoPFConfig}
FullOnly == {FullConfig}
TwoConfigs == {FullConfig, StrictConfig}

\* Where both sessions have the same user, sessions and addresses are alike.
Symmetry == Permutations({s1, s2}) \cup Permutations({x1, x2})

NoChanges == {}
AccountChanges == {"accounts"}
AllChanges == {"membership", "groups", "accounts"}
=============================================================================
