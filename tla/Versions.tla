------------------------------- MODULE Versions -------------------------------
(***************************************************************************)
(* main/versions.js: which of two dapp versions is the newer.  A version is  *)
(* the sequence of its segments, "1.0.5-beta" <<1, 0, 5, beta>>.  A number   *)
(* stands for its digits; words are numbered from FirstWord on, in the order *)
(* of strings, in which digits come before letters.                         *)
(***************************************************************************)
EXTENDS Integers, Sequences

CONSTANTS FirstWord, Samples   \* the first word; versions to compare

ASSUME VersionsAssumption == FirstWord \in Nat \ {0} /\ Samples \subseteq Seq(Nat) \ {<<>>}

VARIABLE triple   \* three versions that are compared
versionsVars == <<triple>>

IsNumber(segment) == segment < FirstWord
Missing(v, i) == i > Len(v)
Segment(v, i) == IF Missing(v, i) THEN 0 ELSE v[i]
Sign(x, y) == IF x = y THEN 0 ELSE IF x < y THEN -1 ELSE 1

\* A missing segment counts as 0 and nothing else.
BadVerdict(a, b, i) == Sign(Segment(a, i), Segment(b, i))

\* A release, whose segments have ended, outranks its own pre-release.
Verdict(a, b, i) ==
  CASE Missing(a, i) /\ ~IsNumber(Segment(b, i)) -> 1
    [] Missing(b, i) /\ ~IsNumber(Segment(a, i)) -> -1
    [] OTHER -> Sign(Segment(a, i), Segment(b, i))

\* The first segment that tells them apart decides.
compareVersions(a, b) ==
  LET apart == {i \in 1..(Len(a) + Len(b)) : (~Missing(a, i) \/ ~Missing(b, i)) /\ Verdict(a, b, i) # 0}
  IN IF apart = {} THEN 0 ELSE Verdict(a, b, CHOOSE i \in apart : \A j \in apart : i <= j)

VersionsInit == triple \in Samples \X Samples \X Samples
VersionsNext == UNCHANGED triple
VersionsSpec == VersionsInit /\ [][VersionsNext]_versionsVars

-----------------------------------------------------------------------------
(* Properties.                                                              *)

\* Two versions have their numbers at the same places.
Aligned(a, b) ==
  LET numbers(v) == {i \in 1..Len(v) : IsNumber(v[i])} IN numbers(a) = numbers(b)

\* Among versions with their numbers at the same places, compareVersions is an order: the newer of two is
\* the newer from either side, what is newer than a newer one is newer, and a release is newer than its own
\* pre-releases. (Without that it is not: 1-b.0 equals 1-b, which is newer than 1-b.c, and that than 1-b.0.)
VersionsOrdered ==
  LET a == triple[1]
      b == triple[2]
      c == triple[3]
  IN /\ compareVersions(a, b) + compareVersions(b, a) = 0
     /\ Aligned(a, b) /\ Aligned(b, c) /\ compareVersions(a, b) >= 0 /\ compareVersions(b, c) >= 0
          => compareVersions(a, c) >= 0
     /\ Aligned(a, b) /\ IsNumber(a[Len(a)]) /\ Len(a) < Len(b) /\ SubSeq(b, 1, Len(a)) = a
          => compareVersions(a, b) = 1
=============================================================================
