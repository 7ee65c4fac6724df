-------------------------- MODULE VersionCollection --------------------------
(***************************************************************************)
(* The Provider Version Collection of spec.md 4.4 and 9 (NewCollection,    *)
(* Add, List; the code is not under src/).  A collection maps a version to *)
(* the set of its platforms, so re-adding a platform is a no-op.  List     *)
(* returns the versions in ascending component-wise numeric order, a       *)
(* malformed version after every valid one, each with its platforms in     *)
(* ascending (os, arch) order.                                             *)
(*                                                                         *)
(* Parsing a version's text is given as a table: ParsedVersion[v] is      *)
(* [ok |-> TRUE, parts |-> its numeric components], or ok FALSE for a      *)
(* malformed text; PlatformKey[p] is <<os, arch>>, each the rank of its    *)
(* name in alphabetical order.                                             *)
(***************************************************************************)
EXTENDS Naturals, Sequences

CONSTANTS
  ParsedVersion,  \* version -> [ok, parts], the parse of its text
  PlatformKey     \* platform -> <<os rank, arch rank>>

NewCollection == [v \in {} |-> {}]

\* Add(provider): group by version, deduplicate by (os, arch)
CollectionAdd(c, pv) ==
  [v \in DOMAIN c \union {pv[1]} |->
     (IF v \in DOMAIN c THEN c[v] ELSE {}) \union (IF v = pv[1] THEN {pv[2]} ELSE {})]

\* component-wise numeric comparison; a version that is a prefix of another
\* comes first ("1.10" before "1.10.0")
RECURSIVE PartsLess(_, _)
PartsLess(a, b) ==
  CASE a = <<>> -> b # <<>>
    [] b = <<>> -> FALSE
    [] OTHER    -> \/ Head(a) < Head(b)
                   \/ Head(a) = Head(b) /\ PartsLess(Tail(a), Tail(b))

\* malformed versions sort after all valid ones
VersionLess(a, b) ==
  LET x == ParsedVersion[a]  y == ParsedVersion[b] IN
  IF x.ok /\ y.ok THEN PartsLess(x.parts, y.parts) ELSE x.ok /\ ~y.ok

PlatformLess(p, q) ==
  LET x == PlatformKey[p]  y == PlatformKey[q] IN
  x[1] < y[1] \/ (x[1] = y[1] /\ x[2] < y[2])

RECURSIVE InsertVersion(_, _)
InsertVersion(v, s) ==
  IF s = <<>> \/ VersionLess(v, Head(s)) THEN <<v>> \o s
  ELSE <<Head(s)>> \o InsertVersion(v, Tail(s))

RECURSIVE SortVersions(_)
SortVersions(S) ==
  IF S = {} THEN <<>>
  ELSE LET v == CHOOSE x \in S : TRUE IN InsertVersion(v, SortVersions(S \ {v}))

RECURSIVE InsertPlatform(_, _)
InsertPlatform(p, s) ==
  IF s = <<>> \/ PlatformLess(p, Head(s)) THEN <<p>> \o s
  ELSE <<Head(s)>> \o InsertPlatform(p, Tail(s))

RECURSIVE SortPlatforms(_)
SortPlatforms(S) ==
  IF S = {} THEN <<>>
  ELSE LET p == CHOOSE x \in S : TRUE IN InsertPlatform(p, SortPlatforms(S \ {p}))

\* List(): one ProviderVersion per version, in order
CollectionList(c) ==
  LET vs == SortVersions(DOMAIN c) IN
  [i \in 1..Len(vs) |-> [version |-> vs[i], platforms |-> SortPlatforms(c[vs[i]])]]

\* the (version, platform) pairs a collection holds
CollectedPairs(c) == UNION {{<<v, p>> : p \in c[v]} : v \in DOMAIN c}
=============================================================================
