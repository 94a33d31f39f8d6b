----------------------------- MODULE ProcessProofs ------------------------------
(***************************************************************************)
(* Proofs about what the app's processes keep (module MCProcesses): for any *)
(* versions, calls, stores, ports and folders.                              *)
(***************************************************************************)
EXTENDS MCProcesses, NodeProofs, WellFoundedInduction

-----------------------------------------------------------------------------
(* Helpers.                                                                 *)

\* A set of numbers that has one has a least one.
LEMMA LeastNat == ASSUME NEW S, S \subseteq Nat, S # {} PROVE \E n \in S : \A m \in S : n <= m
<1> DEFINE R == {ss \in Nat \X Nat : ss[1] < ss[2]}
<1>1. IsWellFoundedOn(R, Nat)
  BY NatLessThanWellFounded DEF OpToRel
<1>2. PICK n \in S : \A m \in S : ~ (<<m, n>> \in R)
  BY <1>1, WFMin, Zenon
<1>3. \A x, y \in Nat : x < y => <<x, y>> \in R
  OBVIOUS
<1> HIDE DEF R
<1>4. ASSUME NEW m \in S PROVE n <= m
  <2>1. n \in Nat /\ m \in Nat
    OBVIOUS
  <2>2. ~ (m < n)
    BY <1>2, <1>3, <2>1, Zenon
  <2> QED BY <2>1, <2>2
<1> QED BY <1>4, Zenon

\* A set of numbers that has 0, and the next of each it has, has them all.
LEMMA FromZero ==
  ASSUME NEW S, S \subseteq Nat, 0 \in S, \A n \in S : n + 1 \in S
  PROVE  \A n \in Nat : n \in S
<1> SUFFICES ASSUME NEW k \in Nat, k \notin S PROVE FALSE
  OBVIOUS
<1>1. Nat \ S \subseteq Nat /\ Nat \ S # {}
  OBVIOUS
<1>2. PICK n \in Nat \ S : \A m \in Nat \ S : n <= m
  BY <1>1, LeastNat, Zenon
<1>3. n # 0 /\ n - 1 \in Nat
  BY <1>2
<1>4. n - 1 \in S
  BY <1>2, <1>3
<1> QED BY <1>2, <1>4

-----------------------------------------------------------------------------
(* The updater.                                                             *)

\* Every check and the status have of the feed what it has shown; a hash is that of the file beside it.
UpdaterInv ==
  /\ UpdaterTypeOK /\ DownloadedIsAnnounced
  /\ feed.file > 0 => <<feed.version, feed.file>> \in rows
  /\ feed.sha256 \in {0, feed.file}
  /\ \A c \in Check :
       /\ checking[c].got.file > 0 => <<checking[c].got.version, checking[c].got.file>> \in rows
       /\ checking[c].got.sha256 \in {0, checking[c].got.file}
  /\ update.file > 0 => <<update.version, update.file>> \in rows
  /\ update.sha256 \in {0, update.file}

LEMMA UpdaterStarts == UpdaterInit => UpdaterInv
<1> SUFFICES ASSUME UpdaterInit PROVE UpdaterInv
  OBVIOUS
<1>1. 0 \in Version /\ 1 \in Version /\ 2 \in Version
  BY UpdaterAssumption DEF UpdaterAssumption, Version
<1> QED
  BY <1>1 DEF UpdaterInit, UpdaterInv, UpdaterTypeOK, DownloadedIsAnnounced, NoCheck, NoLoad, StoreFeed

LEMMA UpdaterKeeps == UpdaterInv /\ [UpdaterNext]_updaterVars => UpdaterInv'
<1> SUFFICES ASSUME UpdaterInv, [UpdaterNext]_updaterVars PROVE UpdaterInv'
  OBVIOUS
<1> USE DEF UpdaterInv, UpdaterTypeOK, DownloadedIsAnnounced, StoreFeed
<1>1. Version \subseteq Nat /\ 0 \in Version
  BY UpdaterAssumption DEF UpdaterAssumption, Version
<1>2. CASE UNCHANGED updaterVars
  BY <1>2 DEF updaterVars, IntactOnDisk
<1>3. CASE Release
  <2>1. UNCHANGED <<update, checking, loading, saved, bare>>
        /\ rows' = IF feed'.file > 0 THEN rows \cup {<<feed'.version, feed'.file>>} ELSE rows
    BY <1>3, Zenon DEF Release
  <2>2. feed' \in StoreFeed /\ feed'.sha256 \in {0, feed'.file}
    <3>1. CASE feed' = Row("built", feed.version)
      BY <1>1, <3>1 DEF Row
    <3>2. ASSUME NEW kind \in RowKind, feed.version < LastVersion, feed' = Row(kind, feed.version + 1)
          PROVE  feed' \in StoreFeed /\ feed'.sha256 \in {0, feed'.file}
      <4>1. feed.version + 1 \in Version
        BY <3>2, UpdaterAssumption DEF UpdaterAssumption, Version
      <4>2. kind \in {"built", "old", "none", "bare"}
        BY UpdaterAssumption DEF UpdaterAssumption, RowKinds
      <4> QED BY <1>1, <3>2, <4>1, <4>2 DEF Row
    <3> QED BY <1>3, <3>1, <3>2 DEF Release
  <2>3. rows \subseteq rows' /\ rows' \subseteq Version \X Version /\ (feed'.file > 0 => <<feed'.version, feed'.file>> \in rows')
    BY <2>1, <2>2
  <2> QED BY <2>1, <2>2, <2>3 DEF IntactOnDisk
<1>4. ASSUME NEW c \in Check, CheckReads(c) PROVE UpdaterInv'
  <2>1. checking' = [checking EXCEPT ![c] = [on |-> TRUE, got |-> feed]]
        /\ UNCHANGED <<feed, rows, update, loading, saved, bare>>
    BY <1>4 DEF CheckReads
  <2> QED BY <2>1 DEF IntactOnDisk
<1>5. ASSUME NEW c \in Check, CheckEnds(c) PROVE UpdaterInv'
  <2> DEFINE body == checking[c].got
  <2>1. body \in StoreFeed /\ (body.file > 0 => <<body.version, body.file>> \in rows) /\ body.sha256 \in {0, body.file}
    BY DEF CheckEnds
  <2>2. checking' = [checking EXCEPT ![c] = NoCheck] /\ UNCHANGED <<feed, rows, loading, saved, bare>>
    BY <1>5 DEF CheckEnds
  <2>3. \A k \in Check : checking'[k] = NoCheck \/ checking'[k] = checking[k]
    BY <2>2
  <2>4. checking' \in [Check -> [on : BOOLEAN, got : StoreFeed]]
    BY <1>1, <2>2 DEF NoCheck
  <2>5. CASE update' = update
    BY <1>1, <2>2, <2>3, <2>4, <2>5 DEF NoCheck, IntactOnDisk
  <2>6. CASE update' = [version |-> body.version, file |-> body.file, sha256 |-> body.sha256,
                        available |-> body.version > 1 /\ body.file > 0, downloaded |-> Kept(body)]
    <3>1. Kept(body) \in Version /\ (Kept(body) > 0 => update.version = body.version /\ Kept(body) = update.downloaded)
      BY <1>1 DEF Kept
    <3> HIDE DEF body
    <3>2. /\ update' \in [version : Version, file : Version, sha256 : Version, available : BOOLEAN, downloaded : Version]
          /\ update'.version = body.version /\ update'.file = body.file /\ update'.sha256 = body.sha256
          /\ update'.downloaded = Kept(body)
      BY <1>1, <2>1, <2>6, <3>1
    <3>3. DownloadedIsAnnounced'
      BY <1>1, <2>2, <3>1, <3>2 DEF IntactOnDisk
    <3> QED BY <1>1, <2>1, <2>2, <2>3, <2>4, <3>2, <3>3 DEF NoCheck
  <2> QED BY <1>5, <2>5, <2>6 DEF CheckEnds
<1>6. ASSUME NEW d \in Download, DownloadStarts(d) PROVE UpdaterInv'
  <2>1. PICK intact \in BOOLEAN : loading' = [loading EXCEPT ![d] = [on |-> TRUE, file |-> update.file, intact |-> intact]]
    BY <1>6 DEF DownloadStarts
  <2>2. UNCHANGED <<feed, rows, update, checking, saved, bare>>
    BY <1>6 DEF DownloadStarts
  <2> QED BY <1>1, <2>1, <2>2 DEF IntactOnDisk
<1>7. ASSUME NEW d \in Download, DownloadEnds(d) PROVE UpdaterInv'
  <2> DEFINE file == loading[d].file
  <2>1. loading' = [loading EXCEPT ![d] = NoLoad] /\ UNCHANGED <<feed, rows, checking>> /\ file \in Version
    BY <1>7 DEF DownloadEnds
  <2>2. loading' \in [Download -> [on : BOOLEAN, file : Version, intact : BOOLEAN]]
    BY <1>1, <2>1 DEF NoLoad
  <2>3. CASE UNCHANGED <<saved, update, bare>>
    BY <1>1, <2>1, <2>2, <2>3 DEF IntactOnDisk
  <2>4. CASE /\ Verified(d)
             /\ saved' = {f \in saved : f.file # file} \cup {[file |-> file, intact |-> loading[d].intact]}
             /\ update' = [update EXCEPT !.downloaded = file]
             /\ bare' = IF update.sha256 = 0 THEN bare \cup {file} ELSE bare \ {file}
    <3>1. /\ saved' \subseteq [file : Version, intact : BOOLEAN] /\ bare' \subseteq Version
          /\ [file |-> file, intact |-> loading[d].intact] \in saved'
      BY <2>1, <2>4
    <3>2. /\ update' \in [version : Version, file : Version, sha256 : Version, available : BOOLEAN, downloaded : Version]
          /\ update'.version = update.version /\ update'.file = update.file /\ update'.sha256 = update.sha256
          /\ update'.downloaded = file
      BY <2>1, <2>4
    <3>3. DownloadedIsAnnounced'
      <4>1. CASE update.sha256 = 0
        <5>1. file \in bare'
          BY <2>4, <4>1
        <5> QED BY <3>2, <5>1
      <4>2. CASE update.sha256 # 0
        <5>1. update.sha256 > 0 /\ update.sha256 = update.file
          <6>1. update.sha256 \in Nat /\ update.sha256 \in {0, update.file}
            BY <1>1, UpdaterAssumption DEF UpdaterAssumption, Version
          <6> QED BY <4>2, <6>1
        <5>2. loading[d].intact = TRUE /\ file = update.file
          BY <2>4, <5>1 DEF Verified
        <5> QED BY <2>1, <3>1, <3>2, <5>1, <5>2 DEF IntactOnDisk
      <4> QED BY <4>1, <4>2
    <3> QED BY <2>1, <2>2, <3>1, <3>2, <3>3
  <2> QED BY <1>7, <2>3, <2>4 DEF DownloadEnds
<1> QED BY <1>2, <1>3, <1>4, <1>5, <1>6, <1>7 DEF UpdaterNext

-----------------------------------------------------------------------------
(* The icons.                                                               *)

\* A fetch that is on its way during an update knows it; what the others have got is the icon there is until
\* the node has updated the dapp, and so is what is cached of them, or the update is one that was missed.
IconsInv ==
  /\ IconsTypeOK
  /\ updatePc \in {"asked", "late"} => icon < MaxIconUpdates
  /\ updatePc # "done" /\ mainIcon # Unknown /\ mainIcon # icon => overtaken \/ missed
  /\ \A f \in IconFetch :
       \/ fetches[f] = NoFetch
       \/ /\ fetches[f].for # "nobody" /\ (updatePc # "idle" => fetches[f].late)
          /\ fetches[f].late \/ fetches[f].got \in {Unknown, Blank, icon}

\* The numbers of icons, and what is not one.
LEMMA IconNumbers ==
  /\ 0..MaxIconUpdates \subseteq -2..MaxIconUpdates /\ 0 \in 0..MaxIconUpdates /\ 0 \in 0..MaxIconFails
  /\ Unknown \in -2..MaxIconUpdates /\ Blank \in -2..MaxIconUpdates
  /\ Unknown # Blank /\ Unknown \notin 0..MaxIconUpdates /\ Blank \notin 0..MaxIconUpdates
  /\ -2..MaxIconUpdates = {Unknown, Blank} \cup 0..MaxIconUpdates
BY IconsAssumption DEF IconsAssumption, Unknown, Blank

LEMMA IconsStart == IconsInit => IconsInv
<1> SUFFICES ASSUME IconsInit PROVE IconsInv
  OBVIOUS
<1>1. NoFetch \in [for : {"nobody", "home", "tab"}, got : -2..MaxIconUpdates, late : BOOLEAN]
  BY IconNumbers DEF NoFetch
<1> QED BY <1>1, IconNumbers DEF IconsInit, IconsInv, IconsTypeOK

LEMMA IconsKeep == IconsInv /\ [IconsNext]_iconVars => IconsInv'
<1> SUFFICES ASSUME IconsInv, [IconsNext]_iconVars PROVE IconsInv'
  OBVIOUS
<1> USE IconNumbers DEF IconsInv, IconsTypeOK
<1>1. CASE UNCHANGED iconVars
  BY <1>1 DEF iconVars
<1>2. ASSUME NEW f \in IconFetch, NEW who \in {"home", "tab"}, AskIcon(f, who) PROVE IconsInv'
  <2>1. CASE fetches' = fetches
    BY <1>2, <2>1 DEF AskIcon
  <2>2. CASE fetches' = [fetches EXCEPT ![f] = [for |-> who, got |-> Unknown, late |-> Late]] /\ tabIcon' = tabIcon
    BY <1>2, <2>2 DEF AskIcon, NoFetch, Late
  <2> QED BY <1>2, <2>1, <2>2 DEF AskIcon
<1>3. ASSUME NEW f \in IconFetch, NodeSends(f) PROVE IconsInv'
  <2>1. UNCHANGED <<icon, updatePc, mainIcon, tabIcon, overtaken, missed>> /\ fetches[f] # NoFetch
    BY <1>3 DEF NodeSends, NoFetch
  <2>2. PICK got \in {icon, Blank} : fetches' = [fetches EXCEPT ![f].got = got]
    BY <1>3 DEF NodeSends
  <2>3. iconFails' \in 0..MaxIconFails
    BY <1>3, IconsAssumption DEF IconsAssumption, NodeSends
  <2>4. fetches'[f] = [fetches[f] EXCEPT !.got = got] /\ fetches'[f] # NoFetch
    BY <2>1, <2>2 DEF NoFetch
  <2> QED BY <2>1, <2>2, <2>3, <2>4
<1>4. ASSUME NEW f \in IconFetch, IconBack(f) PROVE IconsInv'
  <2> DEFINE one == fetches[f]
  <2>1. fetches' = [fetches EXCEPT ![f] = NoFetch] /\ UNCHANGED <<icon, updatePc, iconFails>>
        /\ tabIcon' \in {tabIcon, one.got} /\ one.got # Unknown /\ one # NoFetch
    BY <1>4 DEF IconBack, NoFetch
  <2>2. fetches' \in [IconFetch -> [for : {"nobody", "home", "tab"}, got : -2..MaxIconUpdates, late : BOOLEAN]]
    BY <2>1 DEF NoFetch
  <2>3. one \in [for : {"nobody", "home", "tab"}, got : -2..MaxIconUpdates, late : BOOLEAN]
        /\ (one.late \/ one.got \in {Unknown, Blank, icon}) /\ (updatePc # "idle" => one.late)
    BY <2>1
  <2>4. CASE one.got = Blank
    <3>1. mainIcon' = mainIcon /\ overtaken' = overtaken /\ missed' = missed
      BY <1>4, <2>4 DEF IconBack
    <3>2. \A g \in IconFetch : fetches'[g] = NoFetch \/ fetches'[g] = fetches[g]
      BY <2>1
    <3> HIDE DEF one
    <3> QED BY <2>1, <2>2, <2>3, <3>1, <3>2
  <2>5. CASE one.got # Blank
    <3>1. mainIcon' = one.got /\ overtaken' = one.late /\ missed' = FALSE
      BY <1>4, <2>5 DEF IconBack
    <3>2. \A g \in IconFetch : fetches'[g] = NoFetch \/ fetches'[g] = fetches[g]
      BY <2>1
    <3> HIDE DEF one
    <3> QED BY <2>1, <2>2, <2>3, <2>5, <3>1, <3>2
  <2> QED BY <2>4, <2>5
<1>5. CASE UpdateDapp
  BY <1>5 DEF UpdateDapp, NoFetch
<1>6. CASE NodeUpdates
  <2>1. /\ updatePc \in {"asked", "late"} /\ icon' = icon + 1
        /\ updatePc' = (IF updatePc = "asked" THEN "done" ELSE "idle") /\ missed' = (missed \/ updatePc = "late")
        /\ UNCHANGED <<mainIcon, fetches, tabIcon, overtaken, iconFails>>
    BY <1>6 DEF NodeUpdates
  <2>2. icon' \in 0..MaxIconUpdates
    BY <2>1, IconsAssumption DEF IconsAssumption
  <2>3. missed' \in BOOLEAN /\ (updatePc' # "done" => missed')
    BY <2>1
  <2>4. \A f \in IconFetch : fetches[f] = NoFetch \/ fetches[f].late
    BY <2>1
  <2> QED BY <2>1, <2>2, <2>3, <2>4
<1>7. CASE UpdateBack \/ UpdateRefused \/ CacheFull
  BY <1>7 DEF UpdateBack, UpdateRefused, Evict, CacheFull, NoFetch
<1>8. CASE UpdateLost
  BY <1>8 DEF UpdateLost
<1> QED BY <1>1, <1>2, <1>3, <1>4, <1>5, <1>6, <1>7, <1>8 DEF IconsNext

-----------------------------------------------------------------------------
(* The versions.                                                            *)

\* What decides between two versions at place i, seen from the other side.
LEMMA VerdictTurns ==
  ASSUME NEW a \in Seq(Nat), NEW b \in Seq(Nat), NEW i \in Nat \ {0}, ~Missing(a, i) \/ ~Missing(b, i)
  PROVE  Verdict(a, b, i) \in {-1, 0, 1} /\ Verdict(a, b, i) + Verdict(b, a, i) = 0
<1>1. Segment(a, i) \in Nat /\ Segment(b, i) \in Nat
  BY DEF Segment, Missing
<1>2. Missing(a, i) => IsNumber(Segment(a, i))
  BY VersionsAssumption DEF VersionsAssumption, Segment, IsNumber
<1>3. Missing(b, i) => IsNumber(Segment(b, i))
  BY VersionsAssumption DEF VersionsAssumption, Segment, IsNumber
<1> DEFINE x == Segment(a, i)
           y == Segment(b, i)
<1>4. Sign(x, y) \in {-1, 0, 1} /\ Sign(x, y) + Sign(y, x) = 0
  BY <1>1 DEF Sign
<1> HIDE DEF x, y
<1>5. CASE Missing(a, i)
  BY <1>2, <1>4, <1>5 DEF Verdict, x, y
<1>6. CASE Missing(b, i)
  BY <1>3, <1>4, <1>6 DEF Verdict, x, y
<1>7. CASE ~Missing(a, i) /\ ~Missing(b, i)
  BY <1>4, <1>7 DEF Verdict, x, y
<1> QED BY <1>5, <1>6, <1>7

\* The places at which two versions differ.
Apart(a, b) == {i \in 1..(Len(a) + Len(b)) : (~Missing(a, i) \/ ~Missing(b, i)) /\ Verdict(a, b, i) # 0}

\* The first of them decides.
LEMMA FirstDecides ==
  ASSUME NEW a \in Seq(Nat), NEW b \in Seq(Nat)
  PROVE  \/ Apart(a, b) = {} /\ compareVersions(a, b) = 0
         \/ \E i \in Apart(a, b) : (\A j \in Apart(a, b) : i <= j) /\ compareVersions(a, b) = Verdict(a, b, i)
<1>1. compareVersions(a, b) =
        IF Apart(a, b) = {} THEN 0 ELSE Verdict(a, b, CHOOSE i \in Apart(a, b) : \A j \in Apart(a, b) : i <= j)
  BY DEF compareVersions, Apart
<1>2. Apart(a, b) \subseteq Nat
  BY DEF Apart
<1>3. CASE Apart(a, b) # {}
  <2>1. \E i \in Apart(a, b) : \A j \in Apart(a, b) : i <= j
    BY <1>2, <1>3, LeastNat
  <2> DEFINE first == CHOOSE i \in Apart(a, b) : \A j \in Apart(a, b) : i <= j
  <2>2. first \in Apart(a, b) /\ \A j \in Apart(a, b) : first <= j
    BY <2>1
  <2> HIDE DEF first
  <2>3. compareVersions(a, b) = Verdict(a, b, first)
    BY <1>1, <1>3 DEF first
  <2> QED BY <2>2, <2>3
<1> QED BY <1>1, <1>3

\* What place i says of two versions: nothing when neither has it.
Says(a, b, i) == IF Missing(a, i) /\ Missing(b, i) THEN 0 ELSE Verdict(a, b, i)

LEMMA SaysOne == ASSUME NEW a \in Seq(Nat), NEW b \in Seq(Nat), NEW i \in Nat \ {0}
                 PROVE  Says(a, b, i) \in {-1, 0, 1} /\ Says(a, b, i) + Says(b, a, i) = 0
<1>1. CASE Missing(a, i) /\ Missing(b, i)
  <2>1. Says(a, b, i) = 0 /\ Says(b, a, i) = 0
    BY <1>1 DEF Says
  <2> QED BY <2>1
<1>2. CASE ~Missing(a, i) \/ ~Missing(b, i)
  BY <1>2, VerdictTurns DEF Says
<1> QED BY <1>1, <1>2

\* compareVersions goes by the first place that says something.
LEMMA FirstSays ==
  ASSUME NEW a \in Seq(Nat), NEW b \in Seq(Nat)
  PROVE  \/ compareVersions(a, b) = 0 /\ \A j \in Nat \ {0} : Says(a, b, j) = 0
         \/ \E i \in Nat \ {0} : /\ compareVersions(a, b) = Says(a, b, i) /\ Says(a, b, i) # 0
                                 /\ \A j \in Nat \ {0} : j < i => Says(a, b, j) = 0
<1>1. \A j \in Nat \ {0} : Says(a, b, j) # 0 <=> j \in Apart(a, b)
  <2> TAKE j \in Nat \ {0}
  <2>1. ~Missing(a, j) \/ ~Missing(b, j) => j \in 1..(Len(a) + Len(b))
    BY DEF Missing
  <2> QED BY <2>1 DEF Says, Apart
<1>2. CASE Apart(a, b) = {} /\ compareVersions(a, b) = 0
  BY <1>1, <1>2
<1>3. ASSUME NEW i \in Apart(a, b), \A j \in Apart(a, b) : i <= j, compareVersions(a, b) = Verdict(a, b, i)
      PROVE  \E k \in Nat \ {0} : /\ compareVersions(a, b) = Says(a, b, k) /\ Says(a, b, k) # 0
                                  /\ \A j \in Nat \ {0} : j < k => Says(a, b, j) = 0
  <2>1. i \in Nat \ {0} /\ Says(a, b, i) = Verdict(a, b, i)
    BY DEF Apart, Says
  <2>2. Says(a, b, i) # 0
    BY <1>1, <2>1
  <2>3. ASSUME NEW j \in Nat \ {0}, j < i PROVE Says(a, b, j) = 0
    <3>1. j \notin Apart(a, b)
      BY <1>3, <2>1, <2>3
    <3> QED BY <1>1, <3>1
  <2> QED BY <1>3, <2>1, <2>2, <2>3
<1> QED BY <1>2, <1>3, FirstDecides

\* The first place that says something is one place.
LEMMA FirstIsOne ==
  ASSUME NEW a \in Seq(Nat), NEW b \in Seq(Nat), NEW i \in Nat \ {0}, Says(a, b, i) # 0,
         \A j \in Nat \ {0} : j < i => Says(a, b, j) = 0
  PROVE  compareVersions(a, b) = Says(a, b, i)
<1>1. PICK k \in Nat \ {0} : /\ compareVersions(a, b) = Says(a, b, k) /\ Says(a, b, k) # 0
                             /\ \A j \in Nat \ {0} : j < k => Says(a, b, j) = 0
  BY FirstSays
<1>2. ~(i < k) /\ ~(k < i)
  BY <1>1
<1>3. i = k
  BY <1>2
<1> QED BY <1>1, <1>3

\* Newer from one side is older from the other.
LEMMA ComparesBack ==
  ASSUME NEW a \in Seq(Nat), NEW b \in Seq(Nat)
  PROVE  compareVersions(a, b) + compareVersions(b, a) = 0
<1>1. CASE compareVersions(b, a) = 0 /\ \A j \in Nat \ {0} : Says(b, a, j) = 0
  <2>1. \A j \in Nat \ {0} : Says(a, b, j) = 0
    BY <1>1, SaysOne
  <2> QED BY <1>1, <2>1, FirstSays
<1>2. ASSUME NEW i \in Nat \ {0}, compareVersions(b, a) = Says(b, a, i), Says(b, a, i) # 0,
             \A j \in Nat \ {0} : j < i => Says(b, a, j) = 0
      PROVE  compareVersions(a, b) + compareVersions(b, a) = 0
  <2>1. Says(a, b, i) + Says(b, a, i) = 0 /\ Says(b, a, i) \in {-1, 0, 1}
    BY SaysOne
  <2>2. \A j \in Nat \ {0} : j < i => Says(a, b, j) = 0
    BY <1>2, SaysOne
  <2>3. compareVersions(a, b) = Says(a, b, i)
    BY <1>2, <2>1, <2>2, FirstIsOne
  <2> QED BY <1>2, <2>1, <2>3
<1> QED BY <1>1, <1>2, FirstSays

\* Place by place, versions with their numbers at the same places are ordered.
LEMMA SaysInOrder ==
  ASSUME NEW a \in Seq(Nat), NEW b \in Seq(Nat), NEW c \in Seq(Nat), Aligned(a, b), Aligned(b, c),
         NEW i \in Nat \ {0}, Says(a, b, i) >= 0, Says(b, c, i) >= 0
  PROVE  Says(a, c, i) >= 0 /\ (Says(a, b, i) > 0 \/ Says(b, c, i) > 0 => Says(a, c, i) > 0)
<1> DEFINE Number(v) == ~Missing(v, i) /\ IsNumber(Segment(v, i))
           Word(v) == ~Missing(v, i) /\ ~IsNumber(Segment(v, i))
<1>1. \A v \in Seq(Nat) : Number(v) <=> i \in {j \in 1..Len(v) : IsNumber(v[j])}
  BY DEF Missing, Segment
<1>2. (Number(a) <=> Number(b)) /\ (Number(b) <=> Number(c))
  BY <1>1 DEF Aligned
<1>3. Segment(a, i) \in Nat /\ Segment(b, i) \in Nat /\ Segment(c, i) \in Nat
  BY DEF Segment, Missing
<1>4. CASE Number(a)
  BY <1>2, <1>3, <1>4 DEF Says, Verdict, Sign
<1>5. CASE ~Number(a)
  BY <1>2, <1>3, <1>5 DEF Says, Verdict, Sign
<1> QED BY <1>4, <1>5

\* What is newer than a newer one is newer.
LEMMA ComparesOn ==
  ASSUME NEW a \in Seq(Nat), NEW b \in Seq(Nat), NEW c \in Seq(Nat), Aligned(a, b), Aligned(b, c),
         compareVersions(a, b) >= 0, compareVersions(b, c) >= 0
  PROVE  compareVersions(a, c) >= 0
<1>1. \A i \in Nat \ {0} : Says(a, b, i) \in {-1, 0, 1} /\ Says(b, c, i) \in {-1, 0, 1} /\ Says(a, c, i) \in {-1, 0, 1}
  BY SaysOne
<1>2. ASSUME NEW k \in Nat \ {0}, Says(a, c, k) = -1, \A j \in Nat \ {0} : j < k => Says(a, c, j) = 0
      PROVE  FALSE
  <2>1. ASSUME NEW i \in Nat \ {0}, Says(a, b, i) >= 0, Says(b, c, i) >= 0, Says(a, b, i) = 1 \/ Says(b, c, i) = 1
        PROVE  k < i
    <3>1. Says(a, c, i) > 0
      BY <2>1, SaysInOrder
    <3> QED BY <1>2, <2>1, <3>1
  <2>2. Says(a, b, k) = -1 \/ Says(b, c, k) = -1
    <3>1. ~(Says(a, b, k) >= 0 /\ Says(b, c, k) >= 0)
      BY <1>2, SaysInOrder
    <3>2. Says(a, b, k) \in {-1, 0, 1} /\ Says(b, c, k) \in {-1, 0, 1}
      BY <1>1
    <3> QED BY <3>1, <3>2
  <2>3. \A u, v \in {a, b, c} : \A i \in Nat \ {0} : Says(u, v, i) # 0 /\ Says(u, v, i) # -1 => Says(u, v, i) = 1
    <3>1. \A u, v \in {a, b, c} : \A i \in Nat \ {0} : Says(u, v, i) \in {-1, 0, 1}
      BY SaysOne
    <3> QED BY <3>1
  <2>4. CASE \A j \in Nat \ {0} : Says(a, b, j) = 0
    <3>1. PICK j \in Nat \ {0} : Says(b, c, j) = 1 /\ \A i \in Nat \ {0} : i < j => Says(b, c, i) = 0
      <4>1. Says(b, c, k) # 0
        BY <2>2, <2>4
      <4>2. PICK j \in Nat \ {0} : compareVersions(b, c) = Says(b, c, j) /\ Says(b, c, j) # 0
                                   /\ \A i \in Nat \ {0} : i < j => Says(b, c, i) = 0
        BY <4>1, FirstSays
      <4>3. Says(b, c, j) = 1
        BY <2>3, <4>2
      <4> QED BY <4>2, <4>3
    <3>2. k < j
      BY <2>1, <2>4, <3>1
    <3> QED BY <2>2, <2>4, <3>1, <3>2
  <2>5. ASSUME NEW i \in Nat \ {0}, Says(a, b, i) = 1, \A j \in Nat \ {0} : j < i => Says(a, b, j) = 0
        PROVE  FALSE
    <3>1. CASE \A j \in Nat \ {0} : Says(b, c, j) = 0
      <4>1. k < i
        BY <2>1, <2>5, <3>1
      <4> QED BY <2>2, <2>5, <3>1, <4>1
    <3>2. ASSUME NEW j \in Nat \ {0}, Says(b, c, j) = 1, \A m \in Nat \ {0} : m < j => Says(b, c, m) = 0
          PROVE  FALSE
      <4>1. i < j => k < i
        BY <2>1, <2>5, <3>2
      <4>2. j < i => k < j
        BY <2>1, <2>5, <3>2
      <4>3. i = j => k < i
        BY <2>1, <2>5, <3>2
      <4>4. k < i /\ k < j
        BY <4>1, <4>2, <4>3
      <4> QED BY <2>2, <2>5, <3>2, <4>4
    <3>3. \A j \in Nat \ {0} : compareVersions(b, c) = Says(b, c, j) /\ Says(b, c, j) # 0 => Says(b, c, j) = 1
      BY <2>3
    <3> QED BY <3>1, <3>2, <3>3, FirstSays
  <2> QED BY <1>1, <2>4, <2>5, FirstSays
<1>3. CASE compareVersions(a, c) = 0
  BY <1>3
<1>4. ASSUME NEW k \in Nat \ {0}, compareVersions(a, c) = Says(a, c, k), Says(a, c, k) # 0,
             \A j \in Nat \ {0} : j < k => Says(a, c, j) = 0
      PROVE  compareVersions(a, c) >= 0
  <2>1. Says(a, c, k) # -1
    BY <1>2, <1>4
  <2>2. Says(a, c, k) = 1
    BY <1>1, <1>4, <2>1
  <2> QED BY <1>4, <2>2
<1> QED BY <1>3, <1>4, FirstSays

\* A release is newer than its own pre-releases.
LEMMA ReleaseOutranks ==
  ASSUME NEW a \in Seq(Nat), NEW b \in Seq(Nat), Aligned(a, b), Len(a) < Len(b), SubSeq(b, 1, Len(a)) = a
  PROVE  compareVersions(a, b) = 1
<1> DEFINE i == Len(a) + 1
<1>1. i \in Nat \ {0} /\ i \in 1..Len(b) /\ i \notin 1..Len(a) /\ Missing(a, i) /\ ~Missing(b, i)
  BY DEF Missing
<1>2. ~IsNumber(b[i])
  BY <1>1 DEF Aligned
<1>3. Says(a, b, i) = 1
  BY <1>1, <1>2 DEF Says, Verdict, Segment
<1>4. ASSUME NEW j \in Nat \ {0}, j < i PROVE Says(a, b, j) = 0
  <2>1. j \in 1..Len(a) /\ a[j] = b[j]
    BY <1>4
  <2> QED BY <2>1 DEF Says, Verdict, Segment, Missing, Sign
<1> HIDE DEF i
<1> QED BY <1>1, <1>3, <1>4, FirstIsOne

LEMMA VersionsInOrder == VersionsInit => VersionsOrdered
<1> SUFFICES ASSUME VersionsInit PROVE VersionsOrdered
  OBVIOUS
<1>1. triple[1] \in Seq(Nat) /\ triple[2] \in Seq(Nat) /\ triple[3] \in Seq(Nat)
  BY VersionsAssumption DEF VersionsAssumption, VersionsInit
<1> QED BY <1>1, ComparesBack, ComparesOn, ReleaseOutranks DEF VersionsOrdered

-----------------------------------------------------------------------------
(* The media of Keets.                                                      *)

\* A store is left only when it is closed, so that whatever is not the store there is has been
\* released; and what is opened is over before the close is.
MediaInv ==
  /\ MediaTypeOK /\ OfTheStore /\ MediaReleased
  /\ \A s \in Stores : s # store => corestore[s] \in {"no", "closed"}
  /\ opening.at = "leave" => store \in Stores /\ store < MaxStores /\ corestore[store] = "closed"
  /\ opening.at \in {"ready", "restore"} => store \in Stores
  /\ opening.at \in {"no", "restore"} /\ store # 0 => corestore[store] \in {"open", "closed"}
  /\ closing = "done" => opening.at = "no"

LEMMA StoreNumbers ==
  /\ Stores \subseteq 0..MaxStores /\ 0 \in 0..MaxStores /\ 0..MaxStores = {0} \cup Stores /\ 0 \notin Stores
  /\ 0 < MaxStores => 1 \in Stores
  /\ \A s \in 0..MaxStores : s < MaxStores => s + 1 \in Stores
  /\ \A s \in Stores : s \in Nat /\ s # NoLink /\ s # LinkWaits
BY MediaAssumption DEF MediaAssumption, Stores, NoLink, LinkWaits

LEMMA MediaStarts == MediaInit => MediaInv
<1> SUFFICES ASSUME MediaInit PROVE MediaInv
  OBVIOUS
<1>1. NotOpening \in [at : {"no", "leave", "ready", "restore"}, scopes : SUBSET Scope, keys : SUBSET Mirror]
      /\ NotOwned \in [st : {"no", "getting", "ready"}, of : 0..MaxStores]
      /\ NoCall \in [at : {"idle", "store", "drive"}, key : Key \cup {""}, of : 0..MaxStores, pin : BOOLEAN]
      /\ NotOpening.at = "no" /\ NotOwned.st = "no"
  BY StoreNumbers DEF NotOpening, NotOwned, NoCall
<1>2. MediaTypeOK
  BY <1>1, StoreNumbers DEF MediaInit, MediaTypeOK
<1> QED BY <1>1, <1>2, StoreNumbers DEF MediaInit, MediaInv, OfTheStore, MediaReleased

\* The next store takes the place of one that is closed, or is the first.
LEMMA NextStore ==
  ASSUME MediaInv, NEW s \in Stores, NewStore(s), store = 0 \/ corestore[store] = "closed",
         opening' \in [at : {"ready"}, scopes : SUBSET Scope, keys : SUBSET Mirror],
         link' \in {LinkWaits, NoLink}, mediaCall' \in [Call -> [at : {"idle", "store", "drive"}, key : Key \cup {""},
                                                                 of : 0..MaxStores, pin : BOOLEAN]],
         UNCHANGED <<pins, closing>>, closing # "done"
  PROVE  MediaInv'
<1>1. s \in 0..MaxStores
  BY StoreNumbers
<1>2. MediaTypeOK'
  <2>1. opening' \in [at : {"no", "leave", "ready", "restore"}, scopes : SUBSET Scope, keys : SUBSET Mirror]
    OBVIOUS
  <2>2. NotOwned \in [st : {"no", "getting", "ready"}, of : 0..MaxStores]
    BY StoreNumbers DEF NotOwned
  <2>3. corestore' \in [Stores -> {"no", "opening", "open", "closed"}]
    BY DEF MediaInv, MediaTypeOK, NewStore
  <2> QED BY <1>1, <2>1, <2>2, <2>3, StoreNumbers DEF MediaInv, MediaTypeOK, NewStore
<1>3. OfTheStore' /\ MediaReleased'
  BY DEF MediaInv, OfTheStore, MediaReleased, NewStore, NotOwned
<1>4. \A z \in Stores : z # s => corestore'[z] \in {"no", "closed"}
  BY StoreNumbers DEF MediaInv, MediaTypeOK, NewStore
<1> QED BY <1>2, <1>3, <1>4 DEF MediaInv, NewStore

\* What a caller of readyStore() does to the store, whatever it waits for.
LEMMA StoreNeeded ==
  ASSUME MediaInv, closing = "no", opening.at = "no", ~StoreOpen, store < MaxStores, OpensStore, UNCHANGED <<pins, closing>>,
         link' \in {link, LinkWaits}, mediaCall' \in [Call -> [at : {"idle", "store", "drive"}, key : Key \cup {""},
                                                               of : 0..MaxStores, pin : BOOLEAN]]
  PROVE  MediaInv'
<1>1. CASE store = 0
  <2>1. 1 \in Stores
    BY <1>1, StoreNumbers
  <2>2. opening' = [NotOpening EXCEPT !.at = "ready"] /\ NewStore(1)
    BY <1>1 DEF OpensStore
  <2>3. link' \in {LinkWaits, NoLink}
    BY <1>1 DEF MediaInv, OfTheStore, NoLink
  <2> QED BY <1>1, <2>1, <2>2, <2>3, NextStore DEF NotOpening
<1>2. CASE store # 0
  <2>1. opening' \in [at : {"leave"}, scopes : SUBSET Scope, keys : SUBSET Mirror]
        /\ UNCHANGED <<store, corestore, owned, drives>>
    <3> DEFINE scopes == {x \in Scope : owned[x].st # "no"}
               keys == {k \in Mirror : drives[k] # 0}
    <3>1. opening' = [at |-> "leave", scopes |-> scopes, keys |-> keys] /\ UNCHANGED <<store, corestore, owned, drives>>
      BY <1>2 DEF OpensStore
    <3>2. scopes \in SUBSET Scope /\ keys \in SUBSET Mirror
      OBVIOUS
    <3> HIDE DEF scopes, keys
    <3> QED BY <3>1, <3>2
  <2>2. store \in Stores /\ corestore[store] = "closed"
    BY <1>2, StoreNumbers DEF MediaInv, MediaTypeOK, StoreOpen
  <2>3. MediaTypeOK'
    BY <2>1 DEF MediaInv, MediaTypeOK
  <2> QED BY <1>2, <2>1, <2>2, <2>3 DEF MediaInv, OfTheStore, MediaReleased
<1> QED BY <1>1, <1>2

LEMMA MediaAsked ==
  ASSUME MediaInv, Connected \/ \E c \in Call, k \in Key, pin \in BOOLEAN : Asks(c, k, pin)
  PROVE  MediaInv'
<1> DEFINE Calls == [Call -> [at : {"idle", "store", "drive"}, key : Key \cup {""}, of : 0..MaxStores, pin : BOOLEAN]]
<1>1. CASE Connected
  <2>1. closing = "no" /\ UNCHANGED <<pins, mediaCall, closing>> /\ mediaCall \in Calls
    BY <1>1 DEF Connected, NeedsStore, AssertOpen, MediaInv, MediaTypeOK
  <2>2. CASE opening.at # "no"
    BY <1>1, <2>1, <2>2 DEF Connected, NeedsStore, MediaInv, MediaTypeOK, OfTheStore, MediaReleased
  <2>3. CASE opening.at = "no" /\ StoreOpen
    <3>1. link' = store /\ store \in Stores /\ UNCHANGED <<owned, store, corestore, opening, drives>>
      BY <1>1, <2>3, StoreNumbers DEF Connected, NeedsStore, StoreOpen, MediaInv, MediaTypeOK
    <3> QED BY <2>1, <3>1 DEF MediaInv, MediaTypeOK, OfTheStore, MediaReleased
  <2>4. CASE opening.at = "no" /\ ~StoreOpen
    <3>1. store < MaxStores /\ OpensStore /\ link' = LinkWaits
      BY <1>1, <2>4 DEF Connected, NeedsStore
    <3> QED BY <2>1, <2>4, <3>1, StoreNeeded
  <2> QED BY <2>2, <2>3, <2>4
<1>2. ASSUME NEW c \in Call, NEW k \in Key, NEW pin \in BOOLEAN, Asks(c, k, pin) PROVE MediaInv'
  <2>1. closing = "no" /\ UNCHANGED <<pins, link, closing>>
    BY <1>2 DEF Asks, NeedsStore, AssertOpen
  <2>2. \A of \in 0..MaxStores : \A at \in {"drive", "store"} :
          [mediaCall EXCEPT ![c] = [at |-> at, key |-> k, of |-> of, pin |-> pin]] \in Calls
    BY DEF MediaInv, MediaTypeOK
  <2>3. store \in 0..MaxStores /\ 0 \in 0..MaxStores
    BY StoreNumbers DEF MediaInv, MediaTypeOK
  <2>4. CASE opening.at # "no"
    <3>1. mediaCall' \in Calls /\ UNCHANGED <<store, corestore, opening, owned, drives>>
      BY <1>2, <2>2, <2>3, <2>4 DEF Asks, NeedsStore
    <3> QED BY <2>1, <3>1 DEF MediaInv, MediaTypeOK, OfTheStore, MediaReleased
  <2>5. CASE opening.at = "no" /\ StoreOpen
    <3>1. mediaCall' = [mediaCall EXCEPT ![c] = [at |-> "drive", key |-> k, of |-> store, pin |-> pin]]
          /\ Owns({k}) /\ UNCHANGED <<store, corestore, opening, drives>>
      BY <1>2, <2>5 DEF Asks, NeedsStore
    <3>3. mediaCall' \in Calls
      BY <2>2, <2>3, <3>1
    <3>2. MediaTypeOK' /\ OfTheStore'
      BY <2>1, <3>1, <3>3 DEF Owns, MediaInv, MediaTypeOK, OfTheStore
    <3> QED BY <2>1, <3>1, <3>2 DEF MediaInv, MediaReleased
  <2>6. CASE opening.at = "no" /\ ~StoreOpen
    <3>1. store < MaxStores /\ OpensStore
          /\ mediaCall' = [mediaCall EXCEPT ![c] = [at |-> "store", key |-> k, of |-> 0, pin |-> pin]]
      BY <1>2, <2>6 DEF Asks, NeedsStore
    <3>2. mediaCall' \in Calls
      BY <2>2, <2>3, <3>1
    <3> QED BY <2>1, <2>6, <3>1, <3>2, StoreNeeded
  <2> QED BY <2>4, <2>5, <2>6
<1> QED BY <1>1, <1>2

\* The store is opened, or not, and what was open is restored.
LEMMA MediaOpens ==
  ASSUME MediaInv, OldClosed \/ StoreReady \/ Restored \/ \E k \in Mirror : RestoreMirror(k)
  PROVE  MediaInv'
<1> USE DEF MediaInv, MediaTypeOK
<1>1. CASE OldClosed
  <2>1. store + 1 \in Stores /\ NewStore(store + 1) /\ link' \in {LinkWaits, NoLink} /\ closing # "done"
    BY <1>1, StoreNumbers DEF OldClosed, OfTheStore
  <2>2. opening' \in [at : {"ready"}, scopes : SUBSET Scope, keys : SUBSET Mirror]
    BY <1>1 DEF OldClosed
  <2> QED BY <1>1, <2>1, <2>2, NextStore DEF OldClosed
<1>2. CASE StoreReady
  <2>1. store \in Stores /\ closing # "done" /\ UNCHANGED <<store, owned, drives, pins, closing>>
    BY <1>2 DEF StoreReady
  <2>2. CASE OpeningFails
    <3>1. NotOpening \in [at : {"no"}, scopes : SUBSET Scope, keys : SUBSET Mirror]
      BY DEF NotOpening
    <3>2. MediaTypeOK'
      BY <2>1, <2>2, <3>1, StoreNumbers DEF OpeningFails, NoCall
    <3> QED BY <2>1, <2>2, <3>1, <3>2, StoreNumbers DEF OpeningFails, OfTheStore, MediaReleased
  <2>3. CASE /\ corestore' = [corestore EXCEPT ![store] = "open"]
             /\ opening' = [opening EXCEPT !.at = "restore", !.keys = @ \cup pins]
             /\ UNCHANGED <<mediaCall, link>>
    <3>1. opening' \in [at : {"restore"}, scopes : SUBSET Scope, keys : SUBSET Mirror]
      BY <2>3
    <3>2. MediaTypeOK'
      BY <2>1, <2>3, <3>1
    <3> QED BY <2>1, <2>3, <3>1, <3>2 DEF OfTheStore, MediaReleased
  <2> QED BY <1>2, <2>2, <2>3 DEF StoreReady
<1>3. CASE Restored
  <2>1. store \in Stores /\ closing # "done" /\ UNCHANGED <<store, corestore, drives, pins, closing>>
        /\ corestore[store] \in {"open", "closed"}
    BY <1>3, StoreNumbers DEF Restored
  <2>2. opening' = NotOpening /\ NotOpening \in [at : {"no"}, scopes : SUBSET Scope, keys : SUBSET Mirror]
    BY <1>3 DEF Restored, NotOpening
  <2>3. link' \in {link, store}
    BY <1>3 DEF Restored
  <2>4. mediaCall' \in [Call -> [at : {"idle", "store", "drive"}, key : Key \cup {""}, of : 0..MaxStores, pin : BOOLEAN]]
    <3>1. store \in 0..MaxStores /\ NoCall \in [at : {"idle", "store", "drive"}, key : Key \cup {""}, of : 0..MaxStores, pin : BOOLEAN]
      BY StoreNumbers DEF NoCall
    <3> DEFINE waiting == {c \in Call : mediaCall[c].at = "store"}
    <3>2. CASE AssertOpen
      <4>1. mediaCall' = [c \in Call |-> IF c \in waiting THEN [mediaCall[c] EXCEPT !.at = "drive", !.of = store]
                                         ELSE mediaCall[c]]
        BY <1>3, <3>2 DEF Restored
      <4> HIDE DEF waiting
      <4>2. \A c \in Call : mediaCall'[c] \in [at : {"idle", "store", "drive"}, key : Key \cup {""}, of : 0..MaxStores, pin : BOOLEAN]
        BY <3>1, <4>1
      <4> QED BY <4>1, <4>2
    <3>3. CASE ~AssertOpen
      <4>1. mediaCall' = [c \in Call |-> IF c \in waiting THEN NoCall ELSE mediaCall[c]]
        BY <1>3, <3>3 DEF Restored
      <4> HIDE DEF waiting
      <4> QED BY <3>1, <4>1
    <3> QED BY <3>2, <3>3
  <2>5. owned' \in [Scope -> [st : {"no", "getting", "ready"}, of : 0..MaxStores]]
        /\ \A s \in Scope : owned'[s] = owned[s] \/ owned'[s].of = store
    <3>1. CASE AssertOpen
      <4>1. PICK keys : Owns(keys)
        BY <1>3, <3>1 DEF Restored
      <4> QED BY <2>1, <4>1, StoreNumbers DEF Owns
    <3>2. CASE ~AssertOpen
      BY <1>3, <3>2 DEF Restored
    <3> QED BY <3>1, <3>2
  <2>6. MediaTypeOK'
    BY <2>1, <2>2, <2>3, <2>4, <2>5
  <2> QED BY <2>1, <2>2, <2>3, <2>5, <2>6 DEF OfTheStore, MediaReleased
<1>4. ASSUME NEW k \in Mirror, RestoreMirror(k) PROVE MediaInv'
  <2>1. opening' = [opening EXCEPT !.keys = @ \ {k}] /\ opening.at = "restore"
        /\ UNCHANGED <<store, corestore, owned, pins, link, mediaCall, closing>>
    BY <1>4 DEF RestoreMirror
  <2>2. drives' = drives \/ drives' = [drives EXCEPT ![k] = store]
    BY <1>4 DEF RestoreMirror
  <2>3. MediaTypeOK'
    BY <2>1, <2>2
  <2>4. OfTheStore'
    BY <2>1, <2>2 DEF OfTheStore
  <2> QED BY <2>1, <2>3, <2>4 DEF MediaReleased
<1> QED BY <1>1, <1>2, <1>3, <1>4

\* A drive gets ready, or not, in the store there is.
LEMMA DriveReady ==
  ASSUME MediaInv, NEW k \in Key, drives' \in {drives, [drives EXCEPT ![k] = store]},
         owned' \in [Scope -> [st : {"no", "getting", "ready"}, of : 0..MaxStores]],
         \A s \in Scope : owned'[s].st = "no" \/ owned'[s].of = store,
         NEW ended, NEW ok, Ends(ended, ok), UNCHANGED <<store, corestore, opening, link, closing>>
  PROVE  MediaInv'
<1> USE DEF MediaInv, MediaTypeOK
<1>1. mediaCall' \in [Call -> [at : {"idle", "store", "drive"}, key : Key \cup {""}, of : 0..MaxStores, pin : BOOLEAN]]
  BY StoreNumbers DEF Ends, NoCall
<1>2. pins' \subseteq Mirror
  BY DEF Ends
<1>3. MediaTypeOK'
  <2>1. drives' \in [Key -> 0..MaxStores]
    OBVIOUS
  <2> QED BY <1>1, <1>2, <2>1
<1>4. OfTheStore'
  BY DEF OfTheStore
<1> QED BY <1>3, <1>4 DEF MediaReleased

LEMMA MediaDrives ==
  ASSUME MediaInv,
         \/ \E s \in Scope : RestoreOwn(s) \/ OwnReady(s)
         \/ \E c \in Call : MirrorReady(c) \/ AlreadyOpen(c)
  PROVE  MediaInv'
<1>1. ASSUME NEW s \in Scope, RestoreOwn(s) PROVE MediaInv'
  <2> USE DEF MediaInv, MediaTypeOK
  <2>1. store \in Stores /\ closing # "done" /\ UNCHANGED <<store, pins, closing>> /\ opening.at = "restore"
    BY <1>1 DEF RestoreOwn
  <2>2. CASE OpeningFails /\ UNCHANGED <<drives, owned>>
    <3>1. NotOpening \in [at : {"no"}, scopes : SUBSET Scope, keys : SUBSET Mirror]
      BY DEF NotOpening
    <3>2. MediaTypeOK'
      BY <2>1, <2>2, <3>1, StoreNumbers DEF OpeningFails, NoCall
    <3> QED BY <2>1, <2>2, <3>1, <3>2, StoreNumbers DEF OpeningFails, OfTheStore, MediaReleased
  <2>3. CASE /\ drives' = [drives EXCEPT ![s] = store]
             /\ owned' = [owned EXCEPT ![s] = [st |-> "ready", of |-> store]]
             /\ opening' = [opening EXCEPT !.scopes = @ \ {s}]
             /\ UNCHANGED <<corestore, mediaCall, link>>
    <3>1. opening' \in [at : {"restore"}, scopes : SUBSET Scope, keys : SUBSET Mirror]
      BY <2>1, <2>3
    <3>2. MediaTypeOK'
      BY <2>1, <2>3, <3>1, StoreNumbers
    <3>3. OfTheStore'
      BY <2>1, <2>3 DEF OfTheStore
    <3> QED BY <2>1, <2>3, <3>1, <3>2, <3>3 DEF MediaReleased
  <2> QED BY <1>1, <2>2, <2>3 DEF RestoreOwn
<1>2. ASSUME NEW s \in Scope, OwnReady(s) PROVE MediaInv'
  <2>1. PICK ok \in {FALSE, InStore(owned[s].of)} :
          /\ owned' = [owned EXCEPT ![s] = IF ok THEN [@ EXCEPT !.st = "ready"] ELSE NotOwned]
          /\ drives' = IF ok THEN [drives EXCEPT ![s] = owned[s].of] ELSE drives
          /\ Ends({c \in Call : mediaCall[c].at = "drive" /\ mediaCall[c].key = s}, ok)
    BY <1>2 DEF OwnReady
  <2>2. UNCHANGED <<store, corestore, opening, link, closing>> /\ owned[s].of = store /\ s \in Key
    BY <1>2 DEF OwnReady, MediaInv, OfTheStore, Key
  <2>3. drives' \in {drives, [drives EXCEPT ![s] = store]}
    BY <2>1, <2>2
  <2>4. owned' \in [Scope -> [st : {"no", "getting", "ready"}, of : 0..MaxStores]]
        /\ \A x \in Scope : owned'[x].st = "no" \/ owned'[x].of = store
    <3>1. PICK d \in {[owned[s] EXCEPT !.st = "ready"], NotOwned} : owned' = [owned EXCEPT ![s] = d]
      BY <2>1
    <3>2. d \in [st : {"no", "getting", "ready"}, of : 0..MaxStores] /\ (d.st = "no" \/ d.of = store)
      <4>1. CASE d = NotOwned
        BY <4>1, StoreNumbers DEF NotOwned
      <4>2. CASE d = [owned[s] EXCEPT !.st = "ready"]
        <5>1. owned[s] \in [st : {"no", "getting", "ready"}, of : 0..MaxStores]
          BY DEF MediaInv, MediaTypeOK
        <5> QED BY <2>2, <4>2, <5>1
      <4> QED BY <4>1, <4>2
    <3>3. owned \in [Scope -> [st : {"no", "getting", "ready"}, of : 0..MaxStores]]
          /\ \A x \in Scope : owned[x].st = "no" \/ owned[x].of = store
      BY DEF MediaInv, MediaTypeOK, OfTheStore
    <3> QED BY <3>1, <3>2, <3>3
  <2> QED BY <2>1, <2>2, <2>3, <2>4, DriveReady
<1>3. ASSUME NEW c \in Call, MirrorReady(c) PROVE MediaInv'
  <2>1. PICK ok \in {FALSE, InStore(mediaCall[c].of)} :
          /\ drives' = IF ok THEN [drives EXCEPT ![mediaCall[c].key] = mediaCall[c].of] ELSE drives
          /\ Ends({c}, ok)
    BY <1>3 DEF MirrorReady
  <2>2. UNCHANGED <<store, corestore, opening, owned, link, closing>> /\ mediaCall[c].key \in Key
    BY <1>3 DEF MirrorReady, Key
  <2>3. drives' \in {drives, [drives EXCEPT ![mediaCall[c].key] = store]}
    BY <2>1 DEF InStore
  <2>4. /\ owned' \in [Scope -> [st : {"no", "getting", "ready"}, of : 0..MaxStores]]
        /\ \A x \in Scope : owned'[x].st = "no" \/ owned'[x].of = store
    BY <2>2 DEF MediaInv, MediaTypeOK, OfTheStore
  <2> QED BY <2>1, <2>2, <2>3, <2>4, DriveReady
<1>4. ASSUME NEW c \in Call, AlreadyOpen(c) PROVE MediaInv'
  <2>1. UNCHANGED <<store, corestore, opening, owned, drives, link, closing>> /\ mediaCall[c].key \in Key
        /\ Ends({c}, owned[mediaCall[c].key].st = "ready")
    BY <1>4 DEF AlreadyOpen, Key
  <2>2. /\ owned' \in [Scope -> [st : {"no", "getting", "ready"}, of : 0..MaxStores]]
        /\ \A x \in Scope : owned'[x].st = "no" \/ owned'[x].of = store
    BY <2>1 DEF MediaInv, MediaTypeOK, OfTheStore
  <2> QED BY <2>1, <2>2, DriveReady
<1> QED BY <1>1, <1>2, <1>3, <1>4

LEMMA MediaKeeps == MediaInv /\ [MediaNext]_mediaVars => MediaInv'
<1> SUFFICES ASSUME MediaInv, [MediaNext]_mediaVars PROVE MediaInv'
  OBVIOUS
<1> USE DEF MediaInv, MediaTypeOK, OfTheStore, MediaReleased
<1>1. CASE UNCHANGED mediaVars
  BY <1>1 DEF mediaVars
<1>2. CASE Disconnected
  BY <1>2 DEF Disconnected
<1>3. CASE StoreBreaks
  BY <1>3, StoreNumbers DEF StoreBreaks, StoreOpen
<1>4. CASE CloseAsked
  BY <1>4 DEF CloseAsked
<1>5. CASE CloseEnds
  <2>1. NotOwned \in [st : {"no"}, of : 0..MaxStores]
    BY StoreNumbers DEF NotOwned
  <2> QED BY <1>5, <2>1, StoreNumbers DEF CloseEnds, Releases
<1>6. ASSUME NEW k \in Mirror, Unpin(k) PROVE MediaInv'
  BY <1>6 DEF Unpin
<1> HIDE DEF MediaInv, MediaTypeOK, OfTheStore, MediaReleased
<1> QED BY <1>1, <1>2, <1>3, <1>4, <1>5, <1>6, MediaAsked, MediaOpens, MediaDrives DEF MediaNext

-----------------------------------------------------------------------------
(* The launch of the app.                                                   *)

\* A node that runs on another port than the one that is configured by now: the app's own child that is to
\* be stopped, or one that the app left as it died, which the pidfile and the folder tell the next launch of.
Moved(n) ==
  /\ n = pidOnDisk
  /\ \/ doing \in {"start", "dead"} /\ process[n].folder = launchSettings.folder
     \/ child = n /\ (doing = "relaunch" \/ (doing = "idle" /\ relaunching))

\* As long as no node was orphaned, there is one at most, and what the app goes by leads to it.
Tied ==
  /\ \A m, n \in Running : m = n
  /\ child # NoProgram => pidOnDisk = child /\ Running \subseteq {child} /\ ~adoptee
  /\ doing \in {"start", "leave", "dead"} => child = NoProgram /\ ~adoptee
  /\ \A n \in Running : process[n].port \notin foreign /\ (process[n].port = launchSettings.port \/ Moved(n))
  /\ doing \notin {"start", "dead"} /\ child = NoProgram /\ ~adoptee => \A n \in Running : ~process[n].answers
  /\ doing = "idle" /\ child = NoProgram /\ ~adoptee => Running = {}

LaunchInv == LaunchTypeOK /\ (orphaned = FALSE => Tied)

LEMMA OffIsOff ==
  ASSUME LaunchTypeOK
  PROVE  Off \in [on : BOOLEAN, port : Port, folder : Folder, answers : BOOLEAN] /\ ~Off.on
<1>1. launchSettings.port \in Port /\ launchSettings.folder \in Folder
  BY DEF LaunchTypeOK
<1>2. (CHOOSE p \in Port : TRUE) \in Port /\ (CHOOSE f \in Folder : TRUE) \in Folder
  BY <1>1
<1> QED BY <1>2 DEF Off

LEMMA LaunchStarts == LaunchInit => LaunchInv
<1> SUFFICES ASSUME LaunchInit PROVE LaunchInv
  OBVIOUS
<1>1. (CHOOSE p \in Port : TRUE) \in Port /\ (CHOOSE f \in Folder : TRUE) \in Folder
  BY DEF LaunchInit
<1>2. Off \in [on : BOOLEAN, port : Port, folder : Folder, answers : BOOLEAN] /\ ~Off.on
  BY <1>1 DEF Off
<1>3. LaunchTypeOK
  <2>1. 0 \in 0..MaxAppKills /\ 0 \in 0..MaxHangs /\ 0 \in 0..MaxApplies
    BY LaunchAssumption DEF LaunchAssumption
  <2> QED BY <1>2, <2>1 DEF LaunchInit, LaunchTypeOK
<1>4. Running = {}
  BY <1>2 DEF LaunchInit, Running
<1> QED BY <1>3, <1>4 DEF LaunchInit, LaunchInv, Tied

\* Nodes that are gone are gone, the others are as they were.
LEMMA GoneAreGone ==
  ASSUME LaunchTypeOK, NEW dead, Gone(dead)
  PROVE  /\ process' \in [Program -> [on : BOOLEAN, port : Port, folder : Folder, answers : BOOLEAN]]
         /\ Running' = Running \ dead
         /\ \A n \in Running' : process'[n] = process[n]
BY OffIsOff DEF LaunchTypeOK, Gone, Running

\* The types, and that an orphan stays one.
LEMMA LaunchTypes ==
  ASSUME LaunchTypeOK, LaunchNext
  PROVE  LaunchTypeOK' /\ (orphaned' = FALSE => orphaned = FALSE)
<1> DEFINE Processes == [Program -> [on : BOOLEAN, port : Port, folder : Folder, answers : BOOLEAN]]
<1>1. CASE ApplyPatch
  <2>1. PICK next \in [port : Port, folder : Folder] :
          /\ launchSettings' = next
          /\ orphaned' = (orphaned \/ (adoptee /\ next.port # launchSettings.port))
          /\ IF next.port # launchSettings.port
               THEN relaunching' = TRUE /\ UNCHANGED doing
               ELSE doing' = "restart" /\ UNCHANGED relaunching
    BY <1>1, Zenon DEF ApplyPatch
  <2>2. applies' \in 0..MaxApplies /\ UNCHANGED <<foreign, process, child, adoptee, pidOnDisk, appKills, hangs>>
    BY <1>1, LaunchAssumption DEF LaunchAssumption, ApplyPatch, LaunchTypeOK
  <2>3. relaunching' \in BOOLEAN /\ doing' \in {doing, "restart"}
    BY <2>1 DEF LaunchTypeOK
  <2>4. orphaned' \in BOOLEAN /\ (orphaned' = FALSE => orphaned = FALSE)
    BY <2>1 DEF LaunchTypeOK
  <2> QED BY <2>1, <2>2, <2>3, <2>4 DEF LaunchTypeOK
<1>2. CASE RelaunchTimer \/ QuitApp \/ AppLaunches \/ StartAdopts
  BY <1>2 DEF LaunchTypeOK, RelaunchTimer, QuitApp, AppLaunches, StartAdopts, launchHistory
<1>3. CASE StopsChild \/ StopsAdopted \/ AppLeaves \/ StartBlocked \/ NodeExits
  <2>1. StopsChild => Gone({child})
    BY DEF StopsChild
  <2>2. StopsAdopted => Gone(AdopteeGone)
    BY DEF StopsAdopted
  <2>3. AppLeaves => Gone({child} \cap Program)
    BY DEF AppLeaves
  <2>4. NodeExits => \E n \in Running : Gone({n})
    BY DEF NodeExits
  <2>5. StartBlocked => process' = process \/ \E dead : Gone(dead)
    <3> DEFINE named == {pidOnDisk} \cap Running
               ours == {n \in Candidates : Ours(n)}
    <3> SUFFICES ASSUME StartBlocked, process' # process
                 PROVE  \E dead : Gone(dead)
      BY Zenon
    <3>1. IF named \subseteq ours THEN \E more \in SUBSET ours : Gone(named \cup more) ELSE process' = process
      BY Zenon DEF StartBlocked
    <3>2. PICK more : Gone(named \cup more)
      BY <3>1, Zenon
    <3> QED BY <3>2, Zenon
  <2>6. process' = process \/ \E dead : Gone(dead)
    BY <1>3, <2>1, <2>2, <2>3, <2>4, <2>5, Zenon
  <2>7. process' \in Processes
    <3>1. CASE process' = process
      BY <3>1 DEF LaunchTypeOK
    <3>2. CASE \E dead : Gone(dead)
      BY <3>2, GoneAreGone
    <3> QED BY <2>6, <3>1, <3>2
  <2> QED BY <1>3, <2>7 DEF LaunchTypeOK, StopsChild, StopsAdopted, AppLeaves, StartBlocked, NodeExits, AfterStop, launchHistory
<1>4. CASE StartSpawns
  <2>1. process' \in Processes /\ child' \in Program /\ pidOnDisk' \in Program
    BY <1>4, OffIsOff DEF StartSpawns, LaunchTypeOK
  <2> QED BY <1>4, <2>1 DEF StartSpawns, LaunchTypeOK, launchHistory
<1>5. CASE AppDies
  <2>1. appKills' \in 0..MaxAppKills
    BY <1>5, LaunchAssumption DEF LaunchAssumption, AppDies, LaunchTypeOK
  <2>2. orphaned' = (orphaned \/ (child # NoProgram /\ ~Ours(child)))
    BY <1>5, Zenon DEF AppDies
  <2>3. orphaned' \in BOOLEAN /\ (orphaned' = FALSE => orphaned = FALSE)
    BY <2>2 DEF LaunchTypeOK
  <2> QED BY <1>5, <2>1, <2>3 DEF AppDies, LaunchTypeOK
<1>6. CASE NodeHangs
  <2>1. hangs' \in 0..MaxHangs
    BY <1>6, LaunchAssumption DEF LaunchAssumption, NodeHangs, LaunchTypeOK
  <2>2. process' \in Processes
    BY <1>6 DEF NodeHangs, LaunchTypeOK
  <2> QED BY <1>6, <2>1, <2>2 DEF NodeHangs, LaunchTypeOK
<1> QED BY <1>1, <1>2, <1>3, <1>4, <1>5, <1>6 DEF LaunchNext

\* What is applied, and when the app acts on it.
LEMMA LaunchSettings ==
  ASSUME LaunchTypeOK, Tied, orphaned' = FALSE, ApplyPatch \/ RelaunchTimer \/ QuitApp
  PROVE  Tied'
<1> USE DEF Tied
<1>1. Running' = Running /\ UNCHANGED <<foreign, process, child, adoptee, pidOnDisk>>
  BY DEF ApplyPatch, RelaunchTimer, QuitApp, Running
<1>2. CASE ApplyPatch
  <2>1. PICK next \in [port : Port, folder : Folder] :
          /\ launchSettings' = next
          /\ orphaned' = (orphaned \/ (adoptee /\ next.port # launchSettings.port))
          /\ IF next.port # launchSettings.port
               THEN relaunching' = TRUE /\ UNCHANGED doing
               ELSE doing' = "restart" /\ UNCHANGED relaunching
    BY <1>2, Zenon DEF ApplyPatch
  <2>2. doing = "idle" /\ ~relaunching
    BY <1>2 DEF ApplyPatch
  <2>3. \A n \in Running : process[n].port = launchSettings.port
    BY <2>2 DEF Moved
  <2>4. CASE next.port = launchSettings.port
    BY <1>1, <2>1, <2>2, <2>3, <2>4
  <2>5. CASE next.port # launchSettings.port
    <3>1. ~adoptee
      BY <2>1, <2>5, Zenon
    <3>2. relaunching' = TRUE /\ doing' = "idle"
      BY <2>1, <2>2, <2>5
    <3>3. ASSUME NEW n \in Running PROVE Moved(n)'
      <4>1. child # NoProgram
        BY <2>2, <3>1
      <4> QED BY <1>1, <3>2, <4>1 DEF Moved
    <3> QED BY <1>1, <2>2, <3>1, <3>2, <3>3
  <2> QED BY <2>4, <2>5
<1>3. CASE RelaunchTimer
  <2>1. relaunching /\ doing = "idle" /\ doing' = "relaunch" /\ launchSettings' = launchSettings
    BY <1>3 DEF RelaunchTimer
  <2>2. ASSUME NEW n \in Running PROVE process'[n].port = launchSettings'.port \/ Moved(n)'
    <3>1. process[n].port = launchSettings.port \/ (Moved(n) /\ child = n)
      BY <2>1 DEF Moved
    <3> QED BY <1>1, <2>1, <3>1 DEF Moved
  <2> QED BY <1>1, <2>1, <2>2
<1>4. CASE QuitApp
  BY <1>1, <1>4 DEF QuitApp, Moved
<1> QED BY <1>2, <1>3, <1>4

\* stop().
LEMMA LaunchStops ==
  ASSUME LaunchTypeOK, Tied, StopsChild \/ StopsAdopted
  PROVE  Tied'
<1> USE DEF Tied
<1>1. CASE StopsChild
  <2>1. Running' = {}
    BY <1>1, GoneAreGone DEF StopsChild
  <2>2. doing' \in {"start", "leave"}
    BY <1>1 DEF StopsChild, AfterStop
  <2> QED BY <1>1, <2>1, <2>2 DEF StopsChild
<1>2. CASE StopsAdopted
  <2>1. Running' = Running \ AdopteeGone /\ \A n \in Running' : process'[n] = process[n]
    BY <1>2, GoneAreGone DEF StopsAdopted
  <2>2. doing' \in {"start", "leave"} /\ child = NoProgram /\ doing \notin {"start", "dead", "leave", "idle"}
        /\ adoptee' = FALSE /\ UNCHANGED <<launchSettings, foreign, child, pidOnDisk, relaunching>>
    BY <1>2 DEF StopsAdopted, AfterStop, Stopping
  <2>3. \A n \in Running : process[n].port = launchSettings.port
    BY <2>2, LaunchAssumption DEF LaunchAssumption, Moved, Running
  <2>4. \A n \in Running' : ~process[n].answers
    BY <2>1, <2>2, <2>3 DEF AdopteeGone, Answerers
  <2> QED BY <2>1, <2>2, <2>3, <2>4
<1> QED BY <1>1, <1>2

\* start().
LEMMA LaunchGoes ==
  ASSUME LaunchTypeOK, Tied, StartAdopts \/ StartSpawns \/ StartBlocked
  PROVE  Tied'
<1> USE DEF Tied
<1>1. CASE StartAdopts
  <2>1. Running' = Running /\ doing = "start" /\ doing' = "idle" /\ adoptee' = TRUE /\ child = NoProgram
        /\ UNCHANGED <<launchSettings, foreign, process, child, pidOnDisk, relaunching>>
    BY <1>1 DEF StartAdopts, Running
  <2>2. \A n \in Running : process[n].port = launchSettings.port
    BY <1>1 DEF StartAdopts, Answerers
  <2> QED BY <2>1, <2>2
<1>2. CASE StartSpawns
  <2>1. Running \subseteq Candidates
    BY <1>2 DEF StartSpawns, Candidates, Listeners, Moved
  <2>2. PICK n \in Program :
          /\ process' = [m \in Program |-> IF m = n THEN [on |-> TRUE, port |-> launchSettings.port, folder |-> launchSettings.folder, answers |-> TRUE]
                                          ELSE IF m \in Candidates THEN Off ELSE process[m]]
          /\ child' = n /\ pidOnDisk' = n
    BY <1>2 DEF StartSpawns
  <2>3. doing = "start" /\ doing' = "idle" /\ ~adoptee /\ UNCHANGED <<launchSettings, foreign, adoptee, relaunching>>
        /\ launchSettings.port \notin foreign
    BY <1>2 DEF StartSpawns
  <2>4. Running' = {n}
    BY <2>1, <2>2, OffIsOff DEF Running
  <2>5. process'[n].port = launchSettings.port
    BY <2>2
  <2> QED BY <2>2, <2>3, <2>4, <2>5, LaunchAssumption DEF LaunchAssumption
<1>3. CASE StartBlocked
  <2>1. doing = "start" /\ doing' = "idle" /\ ~adoptee /\ Answerers = {} /\ child = NoProgram
        /\ UNCHANGED <<launchSettings, foreign, child, adoptee, pidOnDisk, relaunching>>
    BY <1>3 DEF StartBlocked
  <2> DEFINE named == {pidOnDisk} \cap Running
             ours == {n \in Candidates : Ours(n)}
  <2>2. /\ launchSettings.port \in foreign \/ ours # Candidates
        /\ IF named \subseteq ours THEN \E more \in SUBSET ours : Gone(named \cup more) ELSE UNCHANGED process
    BY <1>3, Zenon DEF StartBlocked
  <2>3. ASSUME NEW n \in Running PROVE n = pidOnDisk /\ Ours(n)
    <3>1. \A m \in Candidates : m = n
      BY DEF Candidates, Listeners
    <3>2. Moved(n) => n = pidOnDisk /\ Ours(n)
      BY <2>1, LaunchAssumption DEF LaunchAssumption, Moved, Ours, Running
    <3>3. CASE process[n].port = launchSettings.port
      <4>1. n \in Candidates /\ Ours(n) /\ launchSettings.port \notin foreign
        BY <3>3 DEF Candidates, Listeners, Ours
      <4>2. ours = Candidates
        BY <3>1, <4>1
      <4> QED BY <2>2, <4>1, <4>2
    <3> QED BY <3>2, <3>3
  <2>4. Running' = {}
    <3>1. CASE Running = {}
      <4>1. named = {}
        BY <3>1
      <4>2. PICK dead : Gone(dead)
        BY <2>2, <4>1
      <4> QED BY <3>1, <4>2, GoneAreGone
    <3>2. CASE Running # {}
      <4>1. PICK n \in Running : n = pidOnDisk /\ Ours(n)
        BY <2>3, <3>2
      <4>2. named = {n} /\ n \in Candidates /\ named \subseteq ours /\ Running = {n}
        BY <4>1 DEF Candidates
      <4>3. PICK more : Gone(named \cup more)
        BY <2>2, <4>2, Zenon
      <4> QED BY <4>2, <4>3, GoneAreGone
    <3> QED BY <3>1, <3>2
  <2> QED BY <2>1, <2>4
<1> QED BY <1>1, <1>2, <1>3

\* The app and its node come and go.
LEMMA LaunchEnds ==
  ASSUME LaunchTypeOK, Tied, orphaned' = FALSE, AppLeaves \/ AppDies \/ AppLaunches \/ NodeHangs \/ NodeExits
  PROVE  Tied'
<1> USE DEF Tied
<1>1. CASE AppLeaves
  <2>1. Running' \subseteq Running /\ \A n \in Running' : process'[n] = process[n]
    BY <1>1, GoneAreGone DEF AppLeaves
  <2>2. doing = "leave" /\ doing' = "dead" /\ child' = NoProgram /\ adoptee' = FALSE /\ pidOnDisk' = NoProgram
        /\ UNCHANGED <<launchSettings, foreign, relaunching>>
    BY <1>1 DEF AppLeaves
  <2>3. \A n \in Running : process[n].port = launchSettings.port
    BY <2>2, LaunchAssumption DEF LaunchAssumption, Moved, Running
  <2> QED BY <2>1, <2>2, <2>3
<1>2. CASE AppDies
  <2>1. Running' = Running /\ doing' = "dead" /\ child' = NoProgram /\ adoptee' = FALSE
        /\ UNCHANGED <<launchSettings, foreign, process, pidOnDisk>>
    BY <1>2 DEF AppDies, Running
  <2>2. orphaned' = (orphaned \/ (child # NoProgram /\ ~Ours(child)))
    BY <1>2, Zenon DEF AppDies
  <2>3. ASSUME NEW n \in Running PROVE process'[n].port = launchSettings'.port \/ Moved(n)'
    <3>1. CASE child = NoProgram
      <4>1. process[n].port = launchSettings.port \/ (n = pidOnDisk /\ process[n].folder = launchSettings.folder)
        BY <3>1, LaunchAssumption DEF LaunchAssumption, Moved, Running
      <4> QED BY <2>1, <4>1 DEF Moved
    <3>2. CASE child # NoProgram
      <4>1. n = child /\ n = pidOnDisk
        BY <3>2
      <4>2. Ours(n)
        BY <2>2, <3>2, <4>1, Zenon
      <4> QED BY <2>1, <4>1, <4>2 DEF Moved, Ours
    <3> QED BY <3>1, <3>2
  <2> QED BY <2>1, <2>3
<1>3. CASE AppLaunches
  <2>1. Running' = Running /\ doing = "dead" /\ doing' = "start"
        /\ UNCHANGED <<launchSettings, foreign, process, child, adoptee, pidOnDisk, relaunching>>
    BY <1>3 DEF AppLaunches, Running
  <2> QED BY <2>1 DEF Moved
<1>4. CASE NodeHangs
  <2>1. PICK n \in Running : process' = [process EXCEPT ![n].answers = FALSE]
    BY <1>4 DEF NodeHangs
  <2>2. UNCHANGED <<launchSettings, foreign, child, adoptee, pidOnDisk, doing, relaunching>>
    BY <1>4 DEF NodeHangs
  <2>3. Running' = Running
        /\ \A m \in Running : process'[m].port = process[m].port /\ process'[m].folder = process[m].folder
                              /\ (process'[m].answers => process[m].answers)
    BY <2>1 DEF Running, LaunchTypeOK
  <2> QED BY <2>2, <2>3 DEF Moved
<1>5. CASE NodeExits
  <2>1. PICK n \in Running : /\ Gone({n})
                             /\ IF n = child THEN child' = NoProgram /\ pidOnDisk' = NoProgram ELSE UNCHANGED <<child, pidOnDisk>>
    BY <1>5 DEF NodeExits
  <2>2. Running' = {}
    BY <2>1, GoneAreGone
  <2>3. UNCHANGED <<launchSettings, foreign, adoptee, doing, relaunching>>
    BY <1>5 DEF NodeExits
  <2> QED BY <2>1, <2>2, <2>3
<1> QED BY <1>1, <1>2, <1>3, <1>4, <1>5

LEMMA LaunchKeeps == LaunchInv /\ [LaunchNext]_launchVars => LaunchInv'
<1> SUFFICES ASSUME LaunchInv, [LaunchNext]_launchVars PROVE LaunchInv'
  OBVIOUS
<1>1. CASE UNCHANGED launchVars
  BY <1>1 DEF launchVars, LaunchInv, LaunchTypeOK, Tied, Running, Moved
<1>2. CASE LaunchNext
  <2>1. LaunchTypeOK' /\ (orphaned' = FALSE => orphaned = FALSE)
    BY <1>2, LaunchTypes DEF LaunchInv
  <2>2. ASSUME orphaned' = FALSE PROVE Tied'
    <3>1. LaunchTypeOK /\ Tied
      BY <2>1, <2>2 DEF LaunchInv
    <3> QED BY <1>2, <2>2, <3>1, LaunchSettings, LaunchStops, LaunchGoes, LaunchEnds DEF LaunchNext
  <2> QED BY <2>1, <2>2 DEF LaunchInv
<1> QED BY <1>1, <1>2

\* What the app leaves does not answer.
LEMMA LeavesNone ==
  ASSUME LaunchInv, [LaunchNext]_launchVars
  PROVE  doing = "leave" /\ doing' = "dead" /\ ~orphaned => NothingLeft
<1> SUFFICES ASSUME doing = "leave", doing' = "dead", ~orphaned PROVE NothingLeft
  OBVIOUS
<1>1. AppLeaves \/ AppDies
  BY DEF LaunchNext, launchVars, ApplyPatch, RelaunchTimer, QuitApp, StopsChild, StopsAdopted, Stopping, AfterStop,
         StartAdopts, StartSpawns, StartBlocked, AppLaunches, NodeHangs, NodeExits
<1>2. Running' \subseteq Running /\ \A n \in Running' : process'[n] = process[n]
  BY <1>1, GoneAreGone DEF AppLeaves, AppDies, LaunchInv, Running
<1>3. \A n \in Running : ~process[n].answers
  <2>1. orphaned = FALSE
    BY DEF LaunchInv, LaunchTypeOK
  <2> QED BY <2>1 DEF LaunchInv, Tied
<1> QED BY <1>2, <1>3 DEF Running, NothingLeft

-----------------------------------------------------------------------------
(* The startup parameters.                                                  *)

\* Whatever has to stop the node has not begun: the node runs with what is saved, whichever restarts are
\* still to start it, or to see it started.
RunsSaved ==
  ~starting /\ ~attached /\ runs # Down /\ cutShort = "" /\ (\A r \in RestartCall : restarting[r] # "stop")
    => runs = CommandLine

StartupInv == StartupTypeOK /\ MarkerHasSecret /\ RunsSaved

\* The arguments of a node are never those of none.
LEMMA ArgumentsAre ==
  ASSUME StartupTypeOK
  PROVE  CommandLine \in Arguments /\ Down \notin Arguments /\ Current \in Work
<1>1. CommandLine \in Arguments /\ Current \in Work
  BY DEF StartupTypeOK, CommandLine, Current, Arguments, Work, Settings
<1>2. Down \notin Arguments
  BY StartupAssumption DEF StartupAssumption, Down, Arguments
<1> QED BY <1>1, <1>2

LEMMA StartupStarts == StartupInit => StartupInv
<1> SUFFICES ASSUME StartupInit PROVE StartupInv
  OBVIOUS
<1>1. 0 \in 0..MaxMishaps
  <2>1. MaxMishaps \in Nat
    BY StartupAssumption, Zenon DEF StartupAssumption
  <2> QED BY <2>1
<1>2. settings \in Settings /\ work \in Work
  BY DEF StartupInit, Settings, Work, Current
<1>3. StartupTypeOK
  BY <1>1, <1>2 DEF StartupInit, StartupTypeOK
<1> QED BY <1>3 DEF StartupInit, StartupInv, MarkerHasSecret, RunsSaved

\* What the page does by itself touches neither what is saved nor the node.
PageTypeOK ==
  /\ page \in {"closed", "open"} /\ work \in Work /\ typed \in SecretText \cup {NotTyped, ""}
  /\ problems \in BOOLEAN /\ previewDue \in BOOLEAN /\ loadDue \in BOOLEAN
  /\ applying \in BOOLEAN /\ toConfirm \in Patch \cup {NoPatch}

LEMMA PageKeeps == ASSUME StartupInv, PageTypeOK', StaysOutside PROVE StartupInv'
<1>1. UNCHANGED <<jar, settings, secretFile, restarting, starting, runs, attached, cutShort, mishaps>>
  BY DEF StaysOutside, nodeRun
<1>2. StartupTypeOK'
  BY <1>1 DEF StartupInv, StartupTypeOK, PageTypeOK
<1>3. MarkerHasSecret' /\ RunsSaved'
  BY <1>1 DEF StartupInv, MarkerHasSecret, RunsSaved, CommandLine
<1> QED BY <1>2, <1>3 DEF StartupInv

LEMMA PageActs ==
  ASSUME StartupInv,
         \/ OpenPage \/ ClosePage \/ PageLoaded \/ PreviewBack
         \/ ToggleClient \/ TypeSecret \/ UndoSecret \/ Discard \/ ResetDefaults
         \/ ConfirmApply \/ CancelApply \/ ApplyRefused
  PROVE  StartupInv'
<1>1. StartupTypeOK /\ PageTypeOK /\ Current \in Work
  BY ArgumentsAre DEF StartupInv, StartupTypeOK, PageTypeOK
<1>2. \A p \in Patch : Errors(p) \in BOOLEAN
  BY <1>1 DEF Errors, StartupTypeOK, Settings, Patch
<1>3. PatchOf \in Patch
  BY <1>1 DEF PatchOf, PageTypeOK, Patch, Work
<1>4. CASE OpenPage \/ ClosePage \/ ConfirmApply \/ CancelApply
  <2>1. PageTypeOK' /\ StaysOutside
    BY <1>1, <1>3, <1>4 DEF OpenPage, ClosePage, ConfirmApply, CancelApply, PageTypeOK
  <2> QED BY <2>1, PageKeeps
<1>5. CASE PageLoaded
  <2>1. PageTypeOK' /\ StaysOutside
    BY <1>1, <1>5 DEF PageLoaded, Loaded, PageTypeOK
  <2> QED BY <2>1, PageKeeps
<1>6. CASE PreviewBack
  <2>1. PageTypeOK' /\ StaysOutside
    BY <1>1, <1>2, <1>3, <1>6 DEF PreviewBack, PageTypeOK
  <2> QED BY <2>1, PageKeeps
<1>7. CASE ApplyRefused
  <2>1. toConfirm \in Patch
    BY <1>1, <1>7 DEF ApplyRefused, PageTypeOK
  <2>2. PageTypeOK' /\ StaysOutside
    BY <1>1, <1>2, <1>7, <2>1 DEF ApplyRefused, PageTypeOK
  <2> QED BY <2>2, PageKeeps
<1>8. ASSUME NEW w \in Work, NEW t \in SecretText \cup {NotTyped, ""}, Edit(w, t) PROVE StartupInv'
  <2>1. PageTypeOK' /\ StaysOutside
    BY <1>1, <1>8 DEF Edit, PageTypeOK
  <2> QED BY <2>1, PageKeeps
<1>9. \A w \in Work : [w EXCEPT !.client = ~@] \in Work /\ [w EXCEPT !.marker = FALSE] \in Work
  BY DEF Work
<1>10. [client |-> FALSE, marker |-> FALSE] \in Work
  BY DEF Work
<1>11. CASE ToggleClient \/ TypeSecret \/ UndoSecret \/ Discard \/ ResetDefaults
  BY <1>1, <1>8, <1>9, <1>10, <1>11 DEF ToggleClient, TypeSecret, UndoSecret, Discard, ResetDefaults, PageTypeOK
<1> QED BY <1>4, <1>5, <1>6, <1>7, <1>11

\* A restart, and the node it starts.
LEMMA NodeActs ==
  ASSUME StartupInv, NodeComes \/ \E r \in RestartCall : RestartStops(r) \/ RestartStarts(r) \/ RestartEnds(r)
  PROVE  StartupInv'
<1> USE DEF StartupInv
<1>1. UNCHANGED <<jar, settings, secretFile, page, work, typed, problems, previewDue, loadDue, applying,
                  toConfirm, cutShort, mishaps>>
  BY DEF NodeComes, RestartStops, RestartStarts, RestartEnds, pageVars
<1>2. CommandLine' = CommandLine /\ MarkerHasSecret'
  BY <1>1 DEF CommandLine, MarkerHasSecret
<1>3. CASE NodeComes
  <2>1. restarting' = restarting /\ starting' = FALSE
        /\ ((runs # Down /\ attached' = TRUE /\ runs' = runs) \/ (runs' \in {CommandLine, Down} /\ attached' = attached))
    BY <1>3 DEF NodeComes
  <2>2. StartupTypeOK'
    <3>1. starting' \in BOOLEAN /\ runs' \in Arguments \cup {Down} /\ restarting' = restarting
      BY <2>1, ArgumentsAre DEF StartupTypeOK
    <3>2. attached' \in BOOLEAN
      BY <2>1 DEF StartupTypeOK
    <3> QED BY <1>1, <3>1, <3>2 DEF StartupTypeOK
  <2> QED BY <1>2, <2>1, <2>2 DEF RunsSaved
<1>4. ASSUME NEW r \in RestartCall, RestartStops(r) PROVE StartupInv'
  <2>1. runs' = Down /\ attached' = FALSE /\ starting' = starting /\ restarting' = [restarting EXCEPT ![r] = "start"]
    BY <1>4 DEF RestartStops
  <2>2. StartupTypeOK'
    BY <1>1, <2>1 DEF StartupTypeOK
  <2> QED BY <1>2, <2>1, <2>2 DEF RunsSaved
<1>5. ASSUME NEW r \in RestartCall, RestartStarts(r) \/ RestartEnds(r) PROVE StartupInv'
  <2>1. PICK where \in {"wait", "no"} : restarting' = [restarting EXCEPT ![r] = where]
    BY <1>5 DEF RestartStarts, RestartEnds
  <2>2. restarting[r] # "stop" /\ starting' \in BOOLEAN /\ (~starting' => ~starting) /\ UNCHANGED <<runs, attached>>
    BY <1>5 DEF RestartStarts, RestartEnds, StartupTypeOK
  <2>3. StartupTypeOK'
    <3>1. restarting' \in [RestartCall -> {"no", "stop", "start", "wait"}]
      BY <2>1 DEF StartupTypeOK
    <3> QED BY <1>1, <2>2, <3>1 DEF StartupTypeOK
  <2>4. \A q \in RestartCall : restarting[q] = "stop" => restarting'[q] = "stop"
    BY <2>1, <2>2 DEF StartupTypeOK
  <2> QED BY <1>1, <1>2, <2>2, <2>3, <2>4 DEF RunsSaved
<1> QED BY <1>3, <1>4, <1>5

\* A restart that is called is still to stop the node.
LEMMA RestartCalled ==
  ASSUME StartupTypeOK, Restarts
  PROVE  /\ restarting' \in [RestartCall -> {"no", "stop", "start", "wait"}]
         /\ \E r \in RestartCall : restarting'[r] = "stop"
BY DEF StartupTypeOK, Restarts

\* The patch that is saved: its secret has a marker.
LEMMA PatchSaved ==
  ASSUME StartupInv, NEW p \in Patch
  PROVE  /\ SecretOf(p) \in SecretText \cup {""} /\ SettingsOf(p) \in Settings
         /\ SettingsOf(p).contribute = settings.contribute /\ SettingsOf(p).client = p.client
         /\ p.secret = "keep" => SecretOf(p) = secretFile /\ SettingsOf(p).marker = settings.marker
         /\ p.secret = "clear" => ~SettingsOf(p).marker
         /\ p.secret \notin {"keep", "clear"} => SecretOf(p) # ""
<1>1. settings \in Settings /\ secretFile \in SecretText \cup {""}
  BY DEF StartupInv, StartupTypeOK
<1>2. p.secret \in {"keep", "clear"} \cup SecretText /\ p.client \in BOOLEAN
  BY DEF Patch
<1>3. "" \notin SecretText /\ "keep" \notin SecretText /\ "clear" \notin SecretText
  BY StartupAssumption DEF StartupAssumption
<1>4. CASE p.secret = "keep"
  BY <1>1, <1>2, <1>4 DEF SecretOf, SettingsOf, Settings
<1>5. CASE p.secret = "clear"
  BY <1>1, <1>2, <1>5 DEF SecretOf, SettingsOf, Settings
<1>6. CASE p.secret \notin {"keep", "clear"}
  BY <1>1, <1>2, <1>3, <1>6 DEF SecretOf, SettingsOf, Settings
<1> QED BY <1>4, <1>5, <1>6

\* The first write alone: without a marker for a new secret, or without a secret for an old one.
LEMMA FirstWriteKeeps ==
  ASSUME StartupInv, NEW p \in Patch, FirstWrite(p), CutShort(p), jar' = jar
  PROVE  /\ settings' \in Settings /\ secretFile' \in SecretText \cup {""} /\ cutShort' \in {"", "set", "delete"}
         /\ MarkerHasSecret'
         /\ cutShort' = "" => cutShort = "" /\ CommandLine' = CommandLine
<1>1. settings' = settings /\ settings \in Settings /\ secretFile' = SecretOf(p)
      /\ cutShort \in {"", "set", "delete"} /\ (settings.marker => secretFile # "" \/ cutShort = "delete")
  BY DEF StartupInv, StartupTypeOK, MarkerHasSecret, FirstWrite
<1>2. CASE p.secret = "keep"
  <2>1. secretFile' = secretFile /\ cutShort' = cutShort
    BY <1>1, <1>2, PatchSaved DEF CutShort
  <2> QED BY <1>1, <2>1, PatchSaved DEF MarkerHasSecret, CommandLine
<1>3. CASE p.secret = "clear"
  <2>1. cutShort' = "delete"
    BY <1>3 DEF CutShort
  <2> QED BY <1>1, <2>1, PatchSaved DEF MarkerHasSecret
<1>4. CASE p.secret \notin {"keep", "clear"}
  <2>1. secretFile' # "" /\ cutShort' = "set"
    BY <1>1, <1>4, PatchSaved DEF CutShort
  <2> QED BY <1>1, <2>1, PatchSaved DEF MarkerHasSecret
<1> QED BY <1>2, <1>3, <1>4

LEMMA SaveActs ==
  ASSUME StartupInv, Apply \/ ApplyFails \/ SetContribute
  PROVE  StartupInv'
<1> USE DEF StartupInv
<1>1. CASE SetContribute
  <2>1. settings' = [settings EXCEPT !.contribute = ~@] /\ Restarts
        /\ UNCHANGED <<jar, secretFile, page, work, typed, problems, previewDue, loadDue, applying, toConfirm,
                       starting, runs, attached, cutShort, mishaps>>
    BY <1>1 DEF SetContribute, pageVars
  <2>2. settings' \in Settings /\ settings'.marker = settings.marker
    BY <2>1 DEF StartupTypeOK, Settings
  <2>3. StartupTypeOK'
    <3>1. restarting' \in [RestartCall -> {"no", "stop", "start", "wait"}]
      BY <2>1, RestartCalled
    <3>2. PageTypeOK'
      BY <2>1 DEF StartupTypeOK, PageTypeOK
    <3>3. UNCHANGED <<jar, secretFile, starting, runs, attached, cutShort, mishaps>>
      BY <2>1
    <3>4. settings' \in Settings
      BY <2>2
    <3> QED BY <3>1, <3>2, <3>3, <3>4 DEF StartupTypeOK, PageTypeOK
  <2>4. RunsSaved'
    BY <2>1, RestartCalled DEF RunsSaved
  <2> QED BY <2>1, <2>2, <2>3, <2>4 DEF MarkerHasSecret
<1>2. CASE Apply
  <2>1. toConfirm \in Patch
    BY <1>2 DEF Apply, StartupTypeOK
  <2>2. /\ toConfirm' = NoPatch /\ secretFile' = SecretOf(toConfirm) /\ settings' = SettingsOf(toConfirm) /\ Restarts
        /\ cutShort' = IF cutShort = "delete" /\ toConfirm.secret = "keep" THEN cutShort ELSE ""
        /\ applying' = TRUE /\ loadDue' = TRUE
        /\ UNCHANGED <<jar, page, work, typed, problems, previewDue, starting, runs, attached, mishaps>>
    BY <1>2 DEF Apply
  <2>3. StartupTypeOK'
    <3>1. settings' \in Settings /\ secretFile' \in SecretText \cup {""} /\ cutShort' \in {"", "set", "delete"}
          /\ restarting' \in [RestartCall -> {"no", "stop", "start", "wait"}]
      BY <2>1, <2>2, PatchSaved, RestartCalled DEF StartupTypeOK
    <3> QED BY <2>2, <3>1 DEF StartupTypeOK
  <2>4. RunsSaved'
    BY <2>2, RestartCalled DEF RunsSaved
  <2>5. MarkerHasSecret'
    <3>1. CASE toConfirm.secret = "keep"
      <4>1. secretFile' = secretFile /\ settings'.marker = settings.marker /\ (cutShort = "delete" => cutShort' = "delete")
        BY <2>1, <2>2, <3>1, PatchSaved
      <4> QED BY <4>1 DEF MarkerHasSecret
    <3>2. CASE toConfirm.secret # "keep"
      <4>1. ~settings'.marker \/ secretFile' # ""
        BY <2>1, <2>2, <3>2, PatchSaved
      <4> QED BY <4>1 DEF MarkerHasSecret
    <3> QED BY <3>1, <3>2
  <2> QED BY <2>3, <2>4, <2>5
<1>3. CASE ApplyFails
  <2>1. toConfirm \in Patch
    BY <1>3 DEF ApplyFails, StartupTypeOK
  <2>2. /\ toConfirm' = NoPatch /\ FirstWrite(toConfirm) /\ CutShort(toConfirm)
        /\ UNCHANGED <<jar, page, work, typed, problems, previewDue, loadDue, applying, restarting, starting, runs, attached>>
    BY <1>3 DEF ApplyFails, nodeRun
  <2>3. mishaps' \in 0..MaxMishaps
    <3>1. MaxMishaps \in Nat
      BY StartupAssumption, Zenon DEF StartupAssumption
    <3>2. mishaps \in 0..MaxMishaps /\ mishaps < MaxMishaps /\ mishaps' = mishaps + 1
      BY <1>3 DEF ApplyFails, StartupTypeOK
    <3> QED BY <3>1, <3>2
  <2>4. StartupTypeOK'
    BY <2>1, <2>2, <2>3, FirstWriteKeeps DEF StartupTypeOK
  <2>5. RunsSaved'
    BY <2>1, <2>2, FirstWriteKeeps DEF RunsSaved
  <2> QED BY <2>1, <2>2, <2>4, <2>5, FirstWriteKeeps
<1> QED BY <1>1, <1>2, <1>3

LEMMA KillActs == ASSUME StartupInv, AppIsKilled PROVE StartupInv'
<1> USE DEF StartupInv
<1>1. /\ page' = "closed" /\ typed' = NotTyped /\ problems' = FALSE /\ previewDue' = FALSE
      /\ loadDue' = FALSE /\ applying' = FALSE /\ toConfirm' = NoPatch
      /\ restarting' = [r \in RestartCall |-> "no"] /\ starting' = TRUE /\ runs' \in {runs, Down}
      /\ attached' = FALSE /\ jar' = jar /\ work' = work
  BY DEF AppIsKilled, Relaunched
<1>2. mishaps' \in 0..MaxMishaps
  <2>1. MaxMishaps \in Nat
    BY StartupAssumption, Zenon DEF StartupAssumption
  <2>2. mishaps \in 0..MaxMishaps /\ mishaps < MaxMishaps /\ mishaps' = mishaps + 1
    BY DEF AppIsKilled, Relaunched, StartupTypeOK
  <2> QED BY <2>1, <2>2
<1>3. settings' \in Settings /\ secretFile' \in SecretText \cup {""} /\ cutShort' \in {"", "set", "delete"} /\ MarkerHasSecret'
  <2>1. CASE UNCHANGED <<settings, secretFile, cutShort>>
    BY <2>1 DEF StartupTypeOK, MarkerHasSecret
  <2>2. CASE toConfirm # NoPatch /\ FirstWrite(toConfirm) /\ CutShort(toConfirm)
    <3>1. toConfirm \in Patch
      BY <2>2 DEF StartupTypeOK
    <3> QED BY <1>1, <2>2, <3>1, FirstWriteKeeps
  <2> QED BY <2>1, <2>2 DEF AppIsKilled
<1>4. StartupTypeOK'
  BY <1>1, <1>2, <1>3 DEF StartupTypeOK
<1> QED BY <1>1, <1>3, <1>4 DEF RunsSaved

LEMMA StartupKeeps == StartupInv /\ [StartupNext]_startupVars => StartupInv'
<1> SUFFICES ASSUME StartupInv, [StartupNext]_startupVars PROVE StartupInv'
  OBVIOUS
<1>1. CASE UNCHANGED startupVars
  <2>1. PageTypeOK
    BY DEF StartupInv, StartupTypeOK, PageTypeOK
  <2>2. PageTypeOK' /\ StaysOutside
    BY <1>1, <2>1 DEF startupVars, pageVars, PageTypeOK, StaysOutside
  <2> QED BY <2>2, PageKeeps
<1> QED BY <1>1, PageActs, NodeActs, SaveActs, KillActs DEF StartupNext

\* A patch that is saved is none that is refused.
LEMMA RefusedStays ==
  ASSUME StartupInv, [StartupNext]_startupVars
  PROVE  settings' # settings /\ settings'.client /\ settings'.contribute => settings'.contribute # settings.contribute
<1>1. settings \in Settings
  BY DEF StartupInv, StartupTypeOK
<1>2. CASE Apply
  <2>1. toConfirm \in Patch /\ ~(settings.contribute /\ toConfirm.client) /\ settings' = SettingsOf(toConfirm)
    BY <1>2 DEF Apply, Refused, Errors, StartupInv, StartupTypeOK
  <2>2. settings'.client = toConfirm.client /\ settings'.contribute = settings.contribute
    BY <1>1, <2>1, Zenon DEF SettingsOf, Settings
  <2> QED BY <2>1, <2>2
<1>3. CASE SetContribute
  <2>1. settings'.contribute = ~settings.contribute /\ settings.contribute \in BOOLEAN
    BY <1>1, <1>3 DEF SetContribute, Settings
  <2> QED BY <2>1
<1>4. CASE settings' = settings
  BY <1>4
<1>5. Apply \/ SetContribute \/ settings' = settings
  BY DEF StartupNext, startupVars, StaysOutside, OpenPage, ClosePage, PageLoaded, PreviewBack, ToggleClient, TypeSecret, Edit,
         UndoSecret, Discard, ResetDefaults, ConfirmApply, CancelApply, ApplyRefused, ApplyFails, FirstWrite, NodeComes,
         AppIsKilled, RestartStops, RestartStarts, RestartEnds
<1> QED BY <1>2, <1>3, <1>4, <1>5

-----------------------------------------------------------------------------
(* The node, with one caller and under every fault.                         *)

\* The instance of the process manager that module MCProcesses checks so, with its proofs.
Alone == INSTANCE NodeProofs WITH Client <- OneCall, Faults <- FaultClasses

\* One module under one substitution, whatever it is called.
LEMMA AloneIsFaulty ==
  /\ Faulty!TypeOK <=> Alone!TypeOK
  /\ Faulty!Init <=> Alone!Init
  /\ Faulty!StopIsNoCrash <=> Alone!StopIsNoCrash
  /\ Faulty!Next <=> Alone!Next
<1>1. Faulty!TypeOK <=> Alone!TypeOK
  BY Zenon
  DEF Faulty!Operations, Alone!Operations, Faulty!Kind, Alone!Kind, Faulty!Lives, Alone!Lives, Faulty!Microtasks,
      Alone!Microtasks, Faulty!Awaits, Alone!Awaits, Faulty!TypeOK, Alone!TypeOK
<1>2. Faulty!Init <=> Alone!Init
  BY Zenon
  DEF Faulty!Kind, Alone!Kind, Faulty!Init, Alone!Init
<1>3. Faulty!StopIsNoCrash <=> Alone!StopIsNoCrash
  BY Zenon
  DEF Faulty!Alive, Alone!Alive, Faulty!StopIsNoCrash, Alone!StopIsNoCrash
<1>4. Faulty!Next <=> Alone!Next
  BY Zenon
  DEF Faulty!Operations, Alone!Operations, Faulty!Other, Alone!Other, Faulty!world, Alone!world, Faulty!manager,
      Alone!manager, Faulty!booting, Alone!booting, Faulty!polls, Alone!polls, Faulty!again, Alone!again,
      Faulty!calls, Alone!calls, Faulty!Microtasks, Alone!Microtasks, Faulty!Alive, Alone!Alive, Faulty!Answering,
      Alone!Answering, Faulty!NothingStale, Alone!NothingStale, Faulty!microtask, Alone!microtask, Faulty!AppReset,
      Alone!AppReset, Faulty!StopHealth, Alone!StopHealth, Faulty!Released, Alone!Released, Faulty!BootEnds,
      Alone!BootEnds, Faulty!Starting, Alone!Starting, Faulty!AdoptEnds, Alone!AdoptEnds, Faulty!KindMismatch,
      Alone!KindMismatch, Faulty!Adopt, Alone!Adopt, Faulty!ProbeMisses, Alone!ProbeMisses, Faulty!Abandon,
      Alone!Abandon, Faulty!LookForStale, Alone!LookForStale, Faulty!ReclaimStale, Alone!ReclaimStale, Faulty!Blocked,
      Alone!Blocked, Faulty!SpawnReady, Alone!SpawnReady, Faulty!Spawn, Alone!Spawn, Faulty!LaunchFails,
      Alone!LaunchFails, Faulty!ComesUp, Alone!ComesUp, Faulty!SelfRestarts, Alone!SelfRestarts, Faulty!Planned,
      Alone!Planned, Faulty!OnExit, Alone!OnExit, Faulty!Dies, Alone!Dies, Faulty!Closes, Alone!Closes,
      Faulty!SelfExit, Alone!SelfExit, Faulty!NodeCrash, Alone!NodeCrash, Faulty!TimerFires, Alone!TimerFires,
      Faulty!WindowPasses, Alone!WindowPasses, Faulty!Live, Alone!Live, Faulty!PollAnswered, Alone!PollAnswered,
      Faulty!Counted, Alone!Counted, Faulty!PollFails, Alone!PollFails, Faulty!Goto, Alone!Goto, Faulty!FirstStep,
      Alone!FirstStep, Faulty!Ask, Alone!Ask, Faulty!CallPortmap, Alone!CallPortmap, Faulty!PortmapStopped,
      Alone!PortmapStopped, Faulty!StopNothing, Alone!StopNothing, Faulty!Quit, Alone!Quit, Faulty!StopAdopted,
      Alone!StopAdopted, Faulty!PollEnds, Alone!PollEnds, Faulty!AdoptedGone, Alone!AdoptedGone, Faulty!StopChild,
      Alone!StopChild, Faulty!SigTerm, Alone!SigTerm, Faulty!SigKill, Alone!SigKill, Faulty!ChildGone,
      Alone!ChildGone, Faulty!Start, Alone!Start, Faulty!Stopped, Alone!Stopped, Faulty!AppExits, Alone!AppExits,
      Faulty!QuitEnds, Alone!QuitEnds, Faulty!QuitAgain, Alone!QuitAgain, Faulty!AppKilled, Alone!AppKilled,
      Faulty!Launch, Alone!Launch, Faulty!Microtask, Alone!Microtask, Faulty!CallStep, Alone!CallStep,
      Faulty!SignalStep, Alone!SignalStep, Faulty!StartStep, Alone!StartStep, Faulty!NodeStep, Alone!NodeStep,
      Faulty!PollStep, Alone!PollStep, Faulty!AppStep, Alone!AppStep, Faulty!Next, Alone!Next
<1> QED BY <1>1, <1>2, <1>3, <1>4

-----------------------------------------------------------------------------
(* The bytes of a connection.                                               *)

\* What is sent: the magic, and the frames.
Cell == Nat \cup {"magic", "json", "junk"}
Stream == Magic \o Written(Len(plan))

\* s is what t has after a, up to z.
Window(s, t, a, z) == s \in Seq(Cell) /\ Len(s) = z - a /\ \A x \in 1..(z - a) : s[x] = t[a + x]

LEMMA Joins ==
  ASSUME NEW t, NEW a \in Nat, NEW b \in Nat, NEW c \in Nat, a <= b, b <= c,
         NEW s, NEW u, Window(s, t, a, b), Window(u, t, b, c)
  PROVE  Window(s \o u, t, a, c)
<1>1. s \in Seq(Cell) /\ u \in Seq(Cell) /\ Len(s) = b - a /\ Len(u) = c - b
  BY DEF Window
<1>2. s \o u \in Seq(Cell) /\ Len(s \o u) = c - a
  BY <1>1
<1>3. ASSUME NEW x \in 1..(c - a) PROVE (s \o u)[x] = t[a + x]
  <2>1. CASE x <= b - a
    <3>1. (s \o u)[x] = s[x] /\ x \in 1..(b - a)
      BY <1>1, <2>1
    <3> QED BY <3>1 DEF Window
  <2>2. CASE ~ (x <= b - a)
    <3>1. (s \o u)[x] = u[x - (b - a)] /\ x - (b - a) \in 1..(c - b) /\ b + (x - (b - a)) = a + x
      BY <1>1, <2>2
    <3> QED BY <3>1 DEF Window
  <2> QED BY <2>1, <2>2
<1> QED BY <1>2, <1>3 DEF Window

LEMMA Cuts ==
  ASSUME NEW t, NEW a \in Nat, NEW b \in Nat, NEW c \in Nat, a <= b, b <= c,
         NEW s, Window(s, t, a, c)
  PROVE  /\ Window(SubSeq(s, 1, b - a), t, a, b)
         /\ Window(SubSeq(s, b - a + 1, Len(s)), t, b, c)
<1>1. s \in Seq(Cell) /\ Len(s) = c - a
  BY DEF Window
<1>2. /\ SubSeq(s, 1, b - a) \in Seq(Cell) /\ Len(SubSeq(s, 1, b - a)) = b - a
      /\ \A x \in 1..(b - a) : SubSeq(s, 1, b - a)[x] = s[x] /\ x \in 1..(c - a)
  BY <1>1
<1>3. /\ SubSeq(s, b - a + 1, Len(s)) \in Seq(Cell) /\ Len(SubSeq(s, b - a + 1, Len(s))) = c - b
      /\ \A x \in 1..(c - b) : SubSeq(s, b - a + 1, Len(s))[x] = s[b - a + x] /\ b - a + x \in 1..(c - a)
  BY <1>1
<1>4. \A x \in 1..(c - b) : SubSeq(s, b - a + 1, Len(s))[x] = t[b + x]
  <2> TAKE x \in 1..(c - b)
  <2>1. s[b - a + x] = t[a + (b - a + x)] /\ a + (b - a + x) = b + x
    BY <1>3 DEF Window
  <2> QED BY <2>1, <1>3
<1>5. \A x \in 1..(b - a) : SubSeq(s, 1, b - a)[x] = t[a + x]
  BY <1>2 DEF Window
<1> QED BY <1>2, <1>3, <1>4, <1>5 DEF Window

\* A connection, its dialer's frames given.
PlanIs == plan \in Seq(0..(MAX_FRAME + 1))

LEMMA FrameIs ==
  ASSUME NEW j, plan[j] \in Nat
  PROVE  /\ FrameOf(j) \in Seq(Cell) /\ Len(FrameOf(j)) = HEAD + plan[j] /\ FrameOf(j)[1] = plan[j]
         /\ \A x \in 1..plan[j] : FrameOf(j)[HEAD + x] = BodyOf(j)
<1> DEFINE n == plan[j]
           body == BodyOf(j)
<1>1. n \in Nat /\ body \in {"json", "junk"} /\ HEAD \in Nat \ {0}
  BY WireAssumption DEF WireAssumption, BodyOf
<1>2. FrameOf(j) = [i \in 1..(HEAD + n) |-> IF i <= HEAD THEN n ELSE body]
  BY DEF FrameOf, WriteFrame
<1> HIDE DEF n, body
<1>3. /\ FrameOf(j) \in Seq(Cell) /\ Len(FrameOf(j)) = HEAD + n /\ FrameOf(j)[1] = n
      /\ \A x \in 1..n : FrameOf(j)[HEAD + x] = body
  BY <1>1, <1>2 DEF Cell
<1> QED BY <1>3 DEF n, body

\* f flattens the first n frames, one by one.
Flat(n, f) ==
  f = [k \in 1..n |-> IF k = 1 THEN FrameOf(1) ELSE f[k - 1] \o FrameOf(k)]

LEMMA FlatAt ==
  ASSUME NEW n, NEW f, Flat(n, f), NEW k \in 1..n
  PROVE  f[k] = IF k = 1 THEN FrameOf(1) ELSE f[k - 1] \o FrameOf(k)
BY DEF Flat

LEMMA FlatThere == \A n \in Nat : \E f : Flat(n, f)
<1> DEFINE S == {n \in Nat : \E f : Flat(n, f)}
<1>1. 0 \in S
  <2>1. Flat(0, [k \in 1..0 |-> k])
    BY DEF Flat
  <2> QED BY <2>1
<1>2. ASSUME NEW n \in S PROVE n + 1 \in S
  <2>1. PICK f : Flat(n, f)
    OBVIOUS
  <2> DEFINE Next1 == IF n = 0 THEN FrameOf(1) ELSE f[n] \o FrameOf(n + 1)
             g == [k \in 1..(n + 1) |-> IF k <= n THEN f[k] ELSE Next1]
             h == [k \in 1..(n + 1) |-> IF k = 1 THEN FrameOf(1) ELSE g[k - 1] \o FrameOf(k)]
  <2>2. n \in Nat
    OBVIOUS
  <2>3. ASSUME NEW k \in 1..(n + 1) PROVE g[k] = h[k]
    <3>1. CASE k <= n
      <4>1. k \in 1..n /\ g[k] = f[k]
        BY <3>1, <2>2
      <4>2. f[k] = IF k = 1 THEN FrameOf(1) ELSE f[k - 1] \o FrameOf(k)
        BY <2>1, <4>1, FlatAt
      <4>3. k # 1 => g[k - 1] = f[k - 1]
        BY <4>1, <2>2
      <4> QED BY <4>1, <4>2, <4>3
    <3>2. CASE k = n + 1 /\ n = 0
      BY <3>2
    <3>3. CASE k = n + 1 /\ n # 0
      <4>1. n \in 1..(n + 1) /\ n <= n /\ ~ (k <= n)
        BY <3>3, <2>2
      <4>2. g[n] = f[n] /\ g[k] = Next1
        BY <4>1
      <4> QED BY <3>3, <4>2, <2>2
    <3> QED BY <3>1, <3>2, <3>3, <2>2
  <2>4. g = h
    BY <2>3
  <2>5. Flat(n + 1, g)
    BY <2>4, Zenon DEF Flat
  <2> QED BY <2>2, <2>5
<1> HIDE DEF S
<1>3. \A n \in Nat : n \in S
  <2>1. S \subseteq Nat
    BY DEF S
  <2> QED BY <1>1, <1>2, <2>1, FromZero, Zenon
<1> QED BY <1>3 DEF S

LEMMA FlatSame ==
  ASSUME NEW m \in Nat, NEW n \in Nat, m <= n, NEW f, NEW g, Flat(m, f), Flat(n, g)
  PROVE  \A k \in 1..m : f[k] = g[k]
<1> DEFINE S == {k \in Nat : k \in 1..m => f[k] = g[k]}
<1>1. 0 \in S
  OBVIOUS
<1>2. ASSUME NEW k \in S PROVE k + 1 \in S
  <2> SUFFICES ASSUME k + 1 \in 1..m PROVE f[k + 1] = g[k + 1]
    OBVIOUS
  <2>1. k + 1 \in 1..m /\ k + 1 \in 1..n /\ k \in Nat
    OBVIOUS
  <2>2. f[k + 1] = IF k + 1 = 1 THEN FrameOf(1) ELSE f[k + 1 - 1] \o FrameOf(k + 1)
    BY <2>1, FlatAt
  <2>3. g[k + 1] = IF k + 1 = 1 THEN FrameOf(1) ELSE g[k + 1 - 1] \o FrameOf(k + 1)
    BY <2>1, FlatAt
  <2>4. CASE k = 0
    BY <2>2, <2>3, <2>4
  <2>5. CASE k # 0
    <3>1. f[k] = g[k] /\ k + 1 - 1 = k
      BY <2>1, <2>5
    <3> QED BY <3>1, <2>2, <2>3, <2>5
  <2> QED BY <2>4, <2>5
<1> HIDE DEF S
<1>3. \A k \in Nat : k \in S
  <2>1. S \subseteq Nat
    BY DEF S
  <2> QED BY <1>1, <1>2, <2>1, FromZero, Zenon
<1> QED BY <1>3 DEF S

LEMMA WrittenFlat ==
  Written(0) = <<>> /\ \A n \in Nat \ {0} : \E f : Flat(n, f) /\ Written(n) = f[n]
<1> DEFINE s(n) == [j \in 1..n |-> FrameOf(j)]
<1>1. \A n \in Nat : Len(s(n)) = n
  OBVIOUS
<1>2. Written(0) = <<>>
  BY <1>1 DEF Written, FlattenSeq
<1>3. ASSUME NEW n \in Nat \ {0} PROVE \E f : Flat(n, f) /\ Written(n) = f[n]
  <2> DEFINE G(f) == [k \in 1..n |-> IF k = 1 THEN s(n)[k] ELSE f[k - 1] \o s(n)[k]]
             c == CHOOSE f : f = G(f)
  <2>1. \A f : Flat(n, f) <=> f = G(f)
    <3> TAKE f
    <3>1. G(f) = [k \in 1..n |-> IF k = 1 THEN FrameOf(1) ELSE f[k - 1] \o FrameOf(k)]
      OBVIOUS
    <3> QED BY <3>1, Zenon DEF Flat
  <2>2. \E f : f = G(f)
    BY <2>1, FlatThere, Zenon
  <2>3. c = G(c)
    BY <2>2, Zenon
  <2>4. Written(n) = c[n]
    BY <1>1 DEF Written, FlattenSeq
  <2> QED BY <2>1, <2>3, <2>4, Zenon
<1> QED BY <1>2, <1>3

LEMMA WrittenIs ==
  ASSUME PlanIs, NEW i \in Nat, i < Len(plan), Written(i) \in Seq(Cell)
  PROVE  Written(i + 1) = Written(i) \o FrameOf(i + 1) /\ Written(i + 1) \in Seq(Cell)
<1>1. plan[i + 1] \in Nat
  BY WireAssumption DEF PlanIs, WireAssumption
<1>2. FrameOf(i + 1) \in Seq(Cell)
  BY <1>1, FrameIs
<1>3. i + 1 \in Nat \ {0} /\ i + 1 \in 1..(i + 1) /\ i + 1 - 1 = i
  OBVIOUS
<1>4. PICK g : Flat(i + 1, g) /\ Written(i + 1) = g[i + 1]
  BY <1>3, WrittenFlat, Zenon
<1>5. g[i + 1] = IF i + 1 = 1 THEN FrameOf(1) ELSE g[i + 1 - 1] \o FrameOf(i + 1)
  BY <1>3, <1>4, FlatAt
<1>6. CASE i = 0
  <2>1. Written(i) = <<>>
    BY <1>6, WrittenFlat
  <2> QED BY <2>1, <1>2, <1>4, <1>5, <1>6
<1>7. CASE i # 0
  <2>1. PICK f : Flat(i, f) /\ Written(i) = f[i]
    BY <1>7, WrittenFlat
  <2>2. f[i] = g[i]
    <3>1. i <= i + 1 /\ i \in 1..i
      BY <1>7
    <3> QED BY <1>3, <1>4, <2>1, <3>1, FlatSame
  <2>3. Written(i + 1) = Written(i) \o FrameOf(i + 1)
    <3>1. i + 1 # 1
      BY <1>7
    <3>2. Written(i + 1) = g[i] \o FrameOf(i + 1)
      BY <1>3, <1>4, <1>5, <3>1, Zenon
    <3> QED BY <2>1, <2>2, <3>2, Zenon
  <2>4. Written(i) \o FrameOf(i + 1) \in Seq(Cell)
    BY <1>2
  <2> QED BY <2>3, <2>4
<1> QED BY <1>6, <1>7

LEMMA WrittenAre == ASSUME PlanIs PROVE \A i \in 0..Len(plan) : Written(i) \in Seq(Cell)
<1> DEFINE S == {i \in Nat : i <= Len(plan) => Written(i) \in Seq(Cell)}
<1>1. 0 \in S
  <2>1. <<>> \in Seq(Cell)
    OBVIOUS
  <2> QED BY <2>1, WrittenFlat
<1>2. ASSUME NEW i \in S PROVE i + 1 \in S
  <2> SUFFICES ASSUME i + 1 <= Len(plan) PROVE Written(i + 1) \in Seq(Cell)
    OBVIOUS
  <2>1. i \in Nat /\ i < Len(plan) /\ Written(i) \in Seq(Cell)
    BY DEF PlanIs
  <2> QED BY <2>1, WrittenIs
<1> HIDE DEF S
<1>3. \A i \in Nat : i \in S
  <2>1. S \subseteq Nat
    BY DEF S
  <2> QED BY <1>1, <1>2, <2>1, FromZero, Zenon
<1> QED BY <1>3 DEF S, PlanIs

LEMMA WrittenOn ==
  ASSUME PlanIs, NEW i \in 0..Len(plan), NEW j \in i..Len(plan)
  PROVE  /\ Len(Written(i)) <= Len(Written(j))
         /\ \A x \in 1..Len(Written(i)) : Written(j)[x] = Written(i)[x]
<1> DEFINE On(k) == /\ Len(Written(i)) <= Len(Written(k))
                    /\ \A x \in 1..Len(Written(i)) : Written(k)[x] = Written(i)[x]
           S == {k \in Nat : k \in i..Len(plan) => On(k)}
<1>0. Len(plan) \in Nat /\ i \in Nat
  BY DEF PlanIs
<1>1. On(i)
  BY <1>0, WrittenAre
<1>2. 0 \in S
  <2>1. 0 \in i..Len(plan) => i = 0
    BY <1>0
  <2> QED BY <1>1, <2>1
<1>3. ASSUME NEW k \in S PROVE k + 1 \in S
  <2> SUFFICES ASSUME k + 1 \in i..Len(plan), k + 1 # i PROVE On(k + 1)
    BY <1>1
  <2>1. k \in Nat /\ k < Len(plan) /\ k \in i..Len(plan) /\ k \in 0..Len(plan) /\ k + 1 \in 0..Len(plan)
    BY <1>0
  <2>2. On(k)
    BY <2>1
  <2> HIDE DEF S
  <2>3. Written(k) \in Seq(Cell) /\ Written(i) \in Seq(Cell)
    BY <2>1, WrittenAre
  <2>4. Written(k + 1) = Written(k) \o FrameOf(k + 1)
    BY <2>1, <2>3, WrittenIs
  <2>5. FrameOf(k + 1) \in Seq(Cell)
    <3>1. plan[k + 1] \in Nat
      <4>1. k + 1 \in 1..Len(plan)
        BY <1>0, <2>1
      <4> QED BY <4>1, WireAssumption DEF PlanIs, WireAssumption
    <3> QED BY <3>1, FrameIs
  <2> QED BY <2>2, <2>3, <2>4, <2>5
<1> HIDE DEF S, On
<1>4. \A k \in Nat : k \in S
  <2>1. S \subseteq Nat
    BY DEF S
  <2> QED BY <1>2, <1>3, <2>1, FromZero, Zenon
<1>5. On(j)
  BY <1>0, <1>4 DEF S
<1> QED BY <1>5 DEF On

\* Where the frames stand in what is sent.
LEMMA FramesStand ==
  ASSUME PlanIs
  PROVE  /\ Len(plan) \in Nat /\ CellsOf(0) = MAGIC_LEN
         /\ Stream \in Seq(Cell) /\ Len(Stream) = CellsOf(Len(plan))
         /\ \A x \in 1..MAGIC_LEN : Stream[x] = Magic[x]
         /\ \A i \in 0..Len(plan) : CellsOf(i) \in MAGIC_LEN..Len(Stream)
         /\ \A i \in 0..(Len(plan) - 1) :
              /\ plan[i + 1] \in 0..(MAX_FRAME + 1) /\ CellsOf(i + 1) = CellsOf(i) + HEAD + plan[i + 1]
              /\ Stream[CellsOf(i) + 1] = plan[i + 1]
              /\ \A x \in 1..plan[i + 1] : Stream[CellsOf(i) + HEAD + x] = BodyOf(i + 1)
<1>0. Len(plan) \in Nat /\ Len(plan) \in 0..Len(plan) /\ 0 \in 0..Len(plan)
  BY DEF PlanIs
<1>1. CellsOf(0) = MAGIC_LEN
  BY WrittenFlat, WireAssumption DEF CellsOf, WireAssumption
<1>2. Written(Len(plan)) \in Seq(Cell)
  BY <1>0, WrittenAre
<1>3. Magic \in Seq(Cell) /\ Len(Magic) = MAGIC_LEN /\ MAGIC_LEN \in Nat
  BY WireAssumption DEF Magic, Cell, WireAssumption
<1>4. Stream \in Seq(Cell) /\ Len(Stream) = CellsOf(Len(plan))
  BY <1>2, <1>3 DEF Stream, CellsOf
<1>5. \A x \in 1..MAGIC_LEN : Stream[x] = Magic[x]
  BY <1>2, <1>3 DEF Stream
<1>6. ASSUME NEW i \in 0..Len(plan) PROVE CellsOf(i) \in MAGIC_LEN..Len(Stream)
  <2>1. Written(i) \in Seq(Cell)
    BY WrittenAre
  <2>2. Len(Written(i)) <= Len(Written(Len(plan)))
    BY <1>0, WrittenOn
  <2> QED BY <1>2, <1>3, <1>4, <2>1, <2>2 DEF CellsOf
<1>7. ASSUME NEW i \in 0..(Len(plan) - 1)
      PROVE  /\ plan[i + 1] \in 0..(MAX_FRAME + 1) /\ CellsOf(i + 1) = CellsOf(i) + HEAD + plan[i + 1]
             /\ Stream[CellsOf(i) + 1] = plan[i + 1]
             /\ \A x \in 1..plan[i + 1] : Stream[CellsOf(i) + HEAD + x] = BodyOf(i + 1)
  <2>1. i \in Nat /\ i < Len(plan) /\ i \in 0..Len(plan) /\ i + 1 \in 0..Len(plan) /\ i + 1 \in 1..Len(plan)
        /\ Len(plan) \in (i + 1)..Len(plan)
    BY <1>0
  <2>2. plan[i + 1] \in 0..(MAX_FRAME + 1) /\ plan[i + 1] \in Nat
    BY <2>1, WireAssumption DEF PlanIs, WireAssumption
  <2>3. Written(i) \in Seq(Cell) /\ Written(i + 1) \in Seq(Cell)
    BY <2>1, WrittenAre
  <2>4. Written(i + 1) = Written(i) \o FrameOf(i + 1)
    BY <2>1, <2>3, WrittenIs
  <2> DEFINE w == FrameOf(i + 1)
  <2>5. /\ w \in Seq(Cell) /\ Len(w) = HEAD + plan[i + 1] /\ w[1] = plan[i + 1]
        /\ \A x \in 1..plan[i + 1] : w[HEAD + x] = BodyOf(i + 1)
    BY <2>2, FrameIs
  <2>6. HEAD \in Nat \ {0}
    BY WireAssumption DEF WireAssumption
  <2> HIDE DEF w
  <2>7. /\ Len(Written(i + 1)) = Len(Written(i)) + HEAD + plan[i + 1]
        /\ \A y \in 1..(HEAD + plan[i + 1]) :
             Len(Written(i)) + y \in 1..Len(Written(i + 1)) /\ Written(i + 1)[Len(Written(i)) + y] = w[y]
    <3>1. Written(i + 1) = Written(i) \o w
      BY <2>4 DEF w
    <3> QED BY <2>2, <2>3, <2>5, <2>6, <3>1
  <2>8. CellsOf(i) = MAGIC_LEN + Len(Written(i)) /\ Len(Written(i)) \in Nat /\ CellsOf(i) \in Nat
        /\ CellsOf(i + 1) = MAGIC_LEN + Len(Written(i + 1))
    BY <1>3, <2>3 DEF CellsOf
  <2>9. \A y \in 1..(HEAD + plan[i + 1]) : Stream[CellsOf(i) + y] = w[y]
    <3> TAKE y \in 1..(HEAD + plan[i + 1])
    <3> DEFINE m == Len(Written(i)) + y
    <3>1. m \in 1..Len(Written(i + 1)) /\ Written(i + 1)[m] = w[y]
      BY <2>7
    <3>2. /\ Len(Written(i + 1)) <= Len(Written(Len(plan)))
          /\ \A x \in 1..Len(Written(i + 1)) : Written(Len(plan))[x] = Written(i + 1)[x]
      BY <2>1, WrittenOn
    <3>3. CellsOf(i) + y = MAGIC_LEN + m
      BY <1>3, <2>2, <2>6, <2>8
    <3> HIDE DEF m
    <3>4. m \in 1..Len(Written(Len(plan))) /\ Written(Len(plan))[m] = w[y]
      BY <1>2, <2>3, <3>1, <3>2
    <3>5. Stream[MAGIC_LEN + m] = Written(Len(plan))[m]
      BY <1>2, <1>3, <3>4 DEF Stream
    <3> QED BY <3>3, <3>4, <3>5
  <2>10. CellsOf(i + 1) = CellsOf(i) + HEAD + plan[i + 1]
    <3> DEFINE m == Len(Written(i))
               n == plan[i + 1]
    <3>1. CellsOf(i) = MAGIC_LEN + m /\ CellsOf(i + 1) = MAGIC_LEN + (m + HEAD + n)
      BY <2>7, <2>8, Zenon
    <3>2. m \in Nat /\ n \in Nat /\ HEAD \in Nat /\ MAGIC_LEN \in Nat
      BY <1>3, <2>2, <2>6, <2>8
    <3> HIDE DEF m, n
    <3>3. CellsOf(i + 1) = CellsOf(i) + HEAD + n
      BY <3>1, <3>2
    <3> QED BY <3>3 DEF n
  <2>11. Stream[CellsOf(i) + 1] = plan[i + 1]
    <3>1. 1 \in 1..(HEAD + plan[i + 1])
      BY <2>2, <2>6
    <3> QED BY <2>5, <2>9, <3>1
  <2>12. \A x \in 1..plan[i + 1] : Stream[CellsOf(i) + HEAD + x] = BodyOf(i + 1)
    <3> TAKE x \in 1..plan[i + 1]
    <3>1. HEAD + x \in 1..(HEAD + plan[i + 1]) /\ CellsOf(i) + (HEAD + x) = CellsOf(i) + HEAD + x
      BY <2>2, <2>6, <2>8
    <3> QED BY <2>5, <2>9, <3>1
  <2> QED BY <2>2, <2>10, <2>11, <2>12
<1> QED BY <1>0, <1>1, <1>4, <1>5, <1>6, <1>7

\* What frameReader() holds after a pass, of the cells up to z, when it starts after the first i frames.
Readout == [out : Seq(Cell), rest : Seq(Cell), threw : BOOLEAN]
ReadsSound(i, z, r) ==
  /\ r \in Readout
  /\ r.threw = TRUE => ~Legal
  /\ r.threw = FALSE => \E j \in i..Len(plan) :
       /\ CellsOf(j) <= z /\ Window(r.out, plan, i, j) /\ Window(r.rest, Stream, CellsOf(j), z)
       /\ \A k \in (i + 1)..j : Fits(k)

\* It has nothing more to take.
Stuck(r) ==
  \/ r.threw = TRUE \/ Len(r.rest) < HEAD
  \/ r.rest[1] <= MAX_FRAME /\ Len(r.rest) < HEAD + r.rest[1]

\* What is held starts with the length of the next frame, and its body follows.
LEMMA HeldIs ==
  ASSUME PlanIs, NEW z \in 0..Len(Stream), NEW j \in 0..Len(plan), CellsOf(j) <= z,
         NEW b, Window(b, Stream, CellsOf(j), z)
  PROVE  /\ b \in Seq(Cell) /\ CellsOf(j) \in Nat /\ Len(b) = z - CellsOf(j) /\ z \in Nat /\ j \in Nat
         /\ Len(b) >= HEAD => /\ j < Len(plan) /\ j + 1 \in 1..Len(plan) /\ j + 1 \in 0..Len(plan)
                              /\ b[1] = plan[j + 1] /\ b[1] \in Nat
                              /\ CellsOf(j + 1) = CellsOf(j) + HEAD + b[1] /\ CellsOf(j + 1) \in Nat
                              /\ Len(b) >= HEAD + b[1] => \A x \in 1..b[1] : b[HEAD + x] = BodyOf(j + 1)
<1>1. Len(plan) \in Nat /\ Len(Stream) \in Nat /\ Len(Stream) = CellsOf(Len(plan))
  BY FramesStand
<1>2. HEAD \in Nat \ {0} /\ MAX_FRAME \in Nat /\ MAGIC_LEN \in Nat
  BY WireAssumption DEF WireAssumption
<1>3. CellsOf(j) \in MAGIC_LEN..Len(Stream)
  BY FramesStand
<1>4. b \in Seq(Cell) /\ Len(b) = z - CellsOf(j)
  BY DEF Window
<1>5. ASSUME Len(b) >= HEAD
      PROVE  /\ j < Len(plan) /\ j + 1 \in 1..Len(plan) /\ j + 1 \in 0..Len(plan)
             /\ b[1] = plan[j + 1] /\ b[1] \in Nat
             /\ CellsOf(j + 1) = CellsOf(j) + HEAD + b[1] /\ CellsOf(j + 1) \in Nat
             /\ Len(b) >= HEAD + b[1] => \A x \in 1..b[1] : b[HEAD + x] = BodyOf(j + 1)
  <2>1. CellsOf(j) < z
    BY <1>1, <1>2, <1>3, <1>4, <1>5
  <2>2. j < Len(plan) /\ j \in 0..(Len(plan) - 1)
    <3>1. j # Len(plan)
      BY <1>1, <1>3, <2>1
    <3> QED BY <1>1, <3>1
  <2>3. plan[j + 1] \in 0..(MAX_FRAME + 1) /\ CellsOf(j + 1) = CellsOf(j) + HEAD + plan[j + 1]
        /\ Stream[CellsOf(j) + 1] = plan[j + 1]
        /\ \A x \in 1..plan[j + 1] : Stream[CellsOf(j) + HEAD + x] = BodyOf(j + 1)
    BY <2>2, FramesStand
  <2>4. b[1] = Stream[CellsOf(j) + 1]
    <3>1. 1 \in 1..(z - CellsOf(j))
      BY <1>1, <1>3, <2>1
    <3> QED BY <3>1 DEF Window
  <2>5. ASSUME Len(b) >= HEAD + b[1], NEW x \in 1..b[1] PROVE b[HEAD + x] = BodyOf(j + 1)
    <3>1. b[1] \in Nat /\ b[1] = plan[j + 1]
      BY <1>2, <2>3, <2>4
    <3>2. HEAD + x \in 1..(z - CellsOf(j)) /\ CellsOf(j) + (HEAD + x) = CellsOf(j) + HEAD + x
      BY <1>1, <1>2, <1>3, <1>4, <2>5, <3>1
    <3>3. b[HEAD + x] = Stream[CellsOf(j) + (HEAD + x)]
      BY <3>2 DEF Window
    <3> QED BY <2>3, <3>1, <3>2, <3>3
  <2> QED BY <1>1, <1>2, <1>3, <2>2, <2>3, <2>4, <2>5
<1> QED BY <1>1, <1>2, <1>3, <1>4, <1>5

LEMMA PassSound ==
  ASSUME PlanIs, NEW i \in 0..Len(plan), NEW z \in 0..Len(Stream), NEW r, ReadsSound(i, z, r)
  PROVE  /\ ReadsSound(i, z, Pass(r))
         /\ Stuck(r) => Pass(r) = r
         /\ Stuck(Pass(r)) \/ Len(Pass(r).rest) < Len(r.rest)
<1>1. r \in Readout
  BY DEF ReadsSound
<1>2. HEAD \in Nat \ {0} /\ MAX_FRAME \in Nat
  BY WireAssumption DEF WireAssumption
<1>3. CASE r.threw = TRUE
  <2>1. Pass(r) = r
    BY <1>3, Zenon DEF Pass
  <2> QED BY <2>1, <1>3, Zenon DEF Stuck
<1>4. CASE Len(r.rest) < HEAD
  <2>1. Pass(r) = r
    BY <1>4, Zenon DEF Pass
  <2> QED BY <2>1, <1>4, Zenon DEF Stuck
<1>5. CASE r.threw = FALSE /\ ~ (Len(r.rest) < HEAD)
  <2> DEFINE b == r.rest
  <2>1. PICK j \in i..Len(plan) : /\ CellsOf(j) <= z /\ Window(r.out, plan, i, j) /\ Window(b, Stream, CellsOf(j), z)
                                  /\ \A k \in (i + 1)..j : Fits(k)
    BY <1>5, Zenon DEF ReadsSound
  <2>2. Len(plan) \in Nat /\ j \in 0..Len(plan) /\ i \in Nat
    <3>1. Len(plan) \in Nat
      BY FramesStand
    <3> QED BY <3>1
  <2>3. b \in Seq(Cell) /\ Len(b) >= HEAD
    BY <1>1, <1>2, <1>5 DEF Readout
  <2>4. /\ CellsOf(j) \in Nat /\ Len(b) = z - CellsOf(j) /\ z \in Nat /\ j \in Nat
        /\ j < Len(plan) /\ j + 1 \in 1..Len(plan) /\ j + 1 \in 0..Len(plan)
        /\ b[1] = plan[j + 1] /\ b[1] \in Nat
        /\ CellsOf(j + 1) = CellsOf(j) + HEAD + b[1] /\ CellsOf(j + 1) \in Nat
        /\ Len(b) >= HEAD + b[1] => \A x \in 1..b[1] : b[HEAD + x] = BodyOf(j + 1)
    <3> HIDE DEF b
    <3> QED BY <2>1, <2>2, <2>3, HeldIs
  <2> DEFINE thrown == [r EXCEPT !.out = <<>>, !.threw = TRUE]
  <2>8. thrown \in Readout /\ thrown.threw = TRUE /\ (~Legal => ReadsSound(i, z, thrown)) /\ Stuck(thrown)
    <3> DEFINE o == <<>>
    <3>1. o \in Seq(Cell)
      OBVIOUS
    <3> HIDE DEF o
    <3>2. [r EXCEPT !.out = o, !.threw = TRUE] \in Readout
      BY <1>1, <3>1 DEF Readout
    <3>3. [r EXCEPT !.out = o, !.threw = TRUE].threw = TRUE
      BY <1>1 DEF Readout
    <3>4. thrown \in Readout /\ thrown.threw = TRUE
      BY <3>2, <3>3, Zenon DEF o
    <3> HIDE DEF thrown
    <3> QED BY <3>4, Zenon DEF ReadsSound, Stuck
  <2>9. ASSUME ~Fits(j + 1) PROVE ~Legal
    <3>1. j + 1 \in DOMAIN plan
      BY <2>4 DEF PlanIs
    <3> QED BY <2>9, <3>1, Zenon DEF Legal
  <2>5. CASE b[1] > MAX_FRAME
    <3>1. Pass(r) = thrown
      BY <1>5, <2>5, Zenon DEF Pass
    <3>2. ~Legal
      <4>1. ~Fits(j + 1)
        <5> HIDE DEF b
        <5> QED BY <1>2, <2>4, <2>5 DEF Fits
      <4> QED BY <2>9, <4>1
    <3>4. ~Stuck(r)
      <4>1. ~ (b[1] <= MAX_FRAME)
        <5> HIDE DEF b
        <5> QED BY <1>2, <2>4, <2>5
      <4>2. r.threw # TRUE
        BY <1>5
      <4> QED BY <4>1, <4>2, <1>5, Zenon DEF Stuck
    <3> HIDE DEF thrown
    <3> QED BY <2>8, <3>1, <3>2, <3>4, Zenon
  <2>6. CASE ~ (b[1] > MAX_FRAME) /\ ~ (Len(b) >= HEAD + b[1])
    <3>1. Pass(r) = r
      BY <1>5, <2>6, Zenon DEF Pass, Whole
    <3>2. b[1] <= MAX_FRAME /\ Len(b) < HEAD + b[1]
      <4> HIDE DEF b
      <4> QED BY <1>2, <2>3, <2>4, <2>6
    <3> QED BY <3>1, <3>2, Zenon DEF Stuck
  <2>10. CASE ~ (b[1] > MAX_FRAME) /\ Len(b) >= HEAD + b[1] /\ ~Parses(b, b[1])
    <3>1. Pass(r) = thrown
      BY <1>5, <2>10, Zenon DEF Pass, Whole
    <3>2. ~Legal
      <4>1. ~Fits(j + 1)
        <5> HIDE DEF b
        <5>1. CASE b[1] = 0
          BY <2>4, <5>1 DEF Fits
        <5>2. CASE b[1] # 0
          <6>1. b[1] > 0 /\ HEAD \in Nat
            BY <1>2, <2>4, <5>2
          <6>2. PICK y \in (HEAD + 1)..(HEAD + b[1]) : b[y] # "json"
            BY <2>10, <6>1 DEF Parses
          <6>3. y - HEAD \in 1..b[1] /\ HEAD + (y - HEAD) = y
            BY <2>4, <6>1
          <6>4. b[y] = BodyOf(j + 1)
            BY <2>4, <2>10, <6>3
          <6> QED BY <6>2, <6>4 DEF BodyOf, Fits
        <5> QED BY <5>1, <5>2
      <4> QED BY <2>9, <4>1
    <3>4. ~Stuck(r)
      <4>1. ~ (Len(b) < HEAD + b[1])
        <5> HIDE DEF b
        <5> QED BY <1>2, <2>3, <2>4, <2>10
      <4>2. r.threw # TRUE
        BY <1>5
      <4> QED BY <4>1, <4>2, <1>5, Zenon DEF Stuck
    <3> HIDE DEF thrown
    <3> QED BY <2>8, <3>1, <3>2, <3>4, Zenon
  <2>7. CASE ~ (b[1] > MAX_FRAME) /\ Len(b) >= HEAD + b[1] /\ Parses(b, b[1])
    <3> DEFINE n == b[1]
               rest == SubSeq(b, HEAD + n + 1, Len(b))
    <3>1. Pass(r) = [r EXCEPT !.out = Append(r.out, n), !.rest = rest]
      <4>1. Pass(r) = [r EXCEPT !.out = Append(@, n), !.rest = SubSeq(@, HEAD + n + 1, Len(@))]
        BY <1>5, <2>7, Zenon DEF Pass, Whole
      <4> QED BY <4>1
    <3>2. CellsOf(j + 1) <= z /\ CellsOf(j) <= CellsOf(j + 1) /\ HEAD + n = CellsOf(j + 1) - CellsOf(j)
      <4> HIDE DEF b
      <4> QED BY <1>2, <2>3, <2>4, <2>7
    <3>3. Window(rest, Stream, CellsOf(j + 1), z)
      <4> HIDE DEF b
      <4>1. Window(SubSeq(b, CellsOf(j + 1) - CellsOf(j) + 1, Len(b)), Stream, CellsOf(j + 1), z)
        BY <2>1, <2>4, <3>2, Cuts
      <4> QED BY <4>1, <3>2
    <3>4. Append(r.out, n) \in Seq(Cell) /\ Window(Append(r.out, n), plan, i, j + 1)
      <4> DEFINE o == r.out
      <4>1. o \in Seq(Cell) /\ n \in Cell /\ Len(o) = j - i
        BY <1>1, <2>1, <2>4 DEF Readout, Window, Cell
      <4>2. \A x \in 1..(j - i) : o[x] = plan[i + x]
        BY <2>1 DEF Window
      <4>3. n = plan[j + 1] /\ i <= j /\ i \in Nat /\ j \in Nat
        BY <2>1, <2>2, <2>4
      <4> HIDE DEF o, b, n
      <4>4. Append(o, n) \in Seq(Cell) /\ Len(Append(o, n)) = j + 1 - i
        BY <4>1, <4>3
      <4>5. ASSUME NEW x \in 1..(j + 1 - i) PROVE Append(o, n)[x] = plan[i + x]
        <5>1. CASE x = j + 1 - i
          BY <4>1, <4>3, <5>1
        <5>2. CASE x # j + 1 - i
          <6>1. x \in 1..(j - i) /\ Append(o, n)[x] = o[x]
            BY <4>1, <4>3, <5>2
          <6> QED BY <6>1, <4>2
        <5> QED BY <5>1, <5>2
      <4>6. Window(Append(o, n), plan, i, j + 1)
        BY <4>4, <4>5 DEF Window
      <4> QED BY <4>4, <4>6 DEF o
    <3>5. rest \in Seq(Cell) /\ Len(rest) < Len(b)
      <4>1. rest \in Seq(Cell) /\ Len(rest) = z - CellsOf(j + 1)
        BY <3>3 DEF Window
      <4>2. z - CellsOf(j + 1) < Len(b)
        <5> HIDE DEF b
        <5> QED BY <1>2, <2>4
      <4> HIDE DEF rest, b
      <4> QED BY <4>1, <4>2
    <3>6. /\ Pass(r) \in Readout /\ Pass(r).threw = FALSE
          /\ Pass(r).out = Append(r.out, n) /\ Pass(r).rest = rest
      <4> HIDE DEF b, rest, n
      <4> QED BY <1>1, <1>5, <3>1, <3>4, <3>5 DEF Readout
    <3>7. j + 1 \in i..Len(plan) /\ \A k \in (i + 1)..(j + 1) : Fits(k)
      <4>1. Fits(j + 1)
        <5> HIDE DEF b
        <5>1. b[1] > 0 /\ b[1] \in 1..MAX_FRAME
          BY <1>2, <2>4, <2>7 DEF Parses
        <5>2. HEAD + 1 \in (HEAD + 1)..(HEAD + b[1]) /\ 1 \in 1..b[1]
          BY <1>2, <2>4, <5>1
        <5>3. b[HEAD + 1] = "json" /\ b[HEAD + 1] = BodyOf(j + 1)
          BY <2>4, <2>7, <5>2 DEF Parses
        <5> QED BY <2>4, <5>1, <5>3 DEF BodyOf, Fits
      <4>2. \A k \in (i + 1)..(j + 1) : k \in (i + 1)..j \/ k = j + 1
        BY <2>2, <2>4
      <4> QED BY <2>1, <2>2, <2>4, <4>1, <4>2
    <3>8. ReadsSound(i, z, Pass(r))
      <4>1. Pass(r).threw # TRUE
        BY <3>6
      <4> HIDE DEF b, rest, n
      <4> QED BY <3>2, <3>3, <3>4, <3>6, <3>7, <4>1, Zenon DEF ReadsSound
    <3>9. ~Stuck(r)
      <4>1. ~ (Len(b) < HEAD + b[1])
        <5> HIDE DEF b
        <5> QED BY <1>2, <2>3, <2>4, <2>7
      <4>2. r.threw # TRUE
        BY <1>5
      <4> QED BY <4>1, <4>2, <1>5, Zenon DEF Stuck
    <3> QED BY <3>5, <3>6, <3>8, <3>9, Zenon
  <2> QED BY <2>5, <2>6, <2>7, <2>10, Zenon
<1> QED BY <1>1, <1>3, <1>4, <1>5 DEF Readout

\* What frameReader() holds before its first pass, and f its passes up to the n-th.
Unread(b) == [out |-> <<>>, rest |-> b, threw |-> FALSE]
Passes(b, n, f) == f = [k \in 0..n |-> IF k = 0 THEN Unread(b) ELSE Pass(f[k - 1])]

LEMMA PassesAt ==
  ASSUME NEW b, NEW n, NEW f, Passes(b, n, f), NEW k \in 0..n
  PROVE  f[k] = IF k = 0 THEN Unread(b) ELSE Pass(f[k - 1])
BY DEF Passes

LEMMA PassesThere == ASSUME NEW b PROVE \A n \in Nat : \E f : Passes(b, n, f)
<1> DEFINE S == {n \in Nat : \E f : Passes(b, n, f)}
<1>1. 0 \in S
  <2> DEFINE f == [k \in 0..0 |-> Unread(b)]
             g == [k \in 0..0 |-> IF k = 0 THEN Unread(b) ELSE Pass(f[k - 1])]
  <2>1. f = g
    OBVIOUS
  <2>2. Passes(b, 0, f)
    BY <2>1, Zenon DEF Passes
  <2> QED BY <2>2
<1>2. ASSUME NEW n \in S PROVE n + 1 \in S
  <2>1. PICK f : Passes(b, n, f)
    OBVIOUS
  <2>2. n \in Nat
    OBVIOUS
  <2> DEFINE g == [k \in 0..(n + 1) |-> IF k <= n THEN f[k] ELSE Pass(f[n])]
             h == [k \in 0..(n + 1) |-> IF k = 0 THEN Unread(b) ELSE Pass(g[k - 1])]
  <2>3. ASSUME NEW k \in 0..(n + 1) PROVE g[k] = h[k]
    <3>1. CASE k <= n
      <4>1. k \in 0..n /\ g[k] = f[k]
        BY <3>1, <2>2
      <4>2. f[k] = IF k = 0 THEN Unread(b) ELSE Pass(f[k - 1])
        BY <2>1, <4>1, PassesAt
      <4>3. k # 0 => g[k - 1] = f[k - 1]
        BY <4>1, <2>2
      <4>4. h[k] = IF k = 0 THEN Unread(b) ELSE Pass(g[k - 1])
        OBVIOUS
      <4> QED BY <4>1, <4>2, <4>3, <4>4, Zenon
    <3>2. CASE k = n + 1
      <4>1. ~ (k <= n) /\ k # 0 /\ k - 1 = n /\ n \in 0..(n + 1) /\ n <= n
        BY <3>2, <2>2
      <4>2. g[k] = Pass(f[n]) /\ g[n] = f[n]
        BY <4>1
      <4>3. h[k] = Pass(g[k - 1])
        BY <4>1
      <4> QED BY <4>1, <4>2, <4>3, Zenon
    <3> QED BY <3>1, <3>2, <2>2
  <2>4. g = h
    BY <2>3
  <2>5. Passes(b, n + 1, g)
    BY <2>4, Zenon DEF Passes
  <2> QED BY <2>2, <2>5
<1> HIDE DEF S
<1>3. \A n \in Nat : n \in S
  <2>1. S \subseteq Nat
    BY DEF S
  <2> QED BY <1>1, <1>2, <2>1, FromZero, Zenon
<1> QED BY <1>3 DEF S

LEMMA FeedPasses == ASSUME NEW b, Len(b) \in Nat PROVE \E f : Passes(b, Len(b), f) /\ Feed(b) = f[Len(b)]
<1> DEFINE G(f) == [k \in 0..Len(b) |-> IF k = 0 THEN Unread(b) ELSE Pass(f[k - 1])]
           c == CHOOSE f : f = G(f)
<1>1. \E f : f = G(f)
  BY PassesThere, Zenon DEF Passes
<1>2. c = G(c)
  BY <1>1, Zenon
<1>3. Feed(b) = c[Len(b)]
  BY Zenon DEF Feed, Unread
<1> QED BY <1>2, <1>3, Zenon DEF Passes

\* It reads what has come in whole, and leaves nothing that has.
LEMMA FeedSound ==
  ASSUME PlanIs, NEW i \in 0..Len(plan), NEW z \in 0..Len(Stream), CellsOf(i) <= z,
         NEW b, Window(b, Stream, CellsOf(i), z)
  PROVE  ReadsSound(i, z, Feed(b)) /\ Stuck(Feed(b))
<1>1. b \in Seq(Cell) /\ Len(b) \in Nat
  BY DEF Window
<1>2. PICK f : Passes(b, Len(b), f) /\ Feed(b) = f[Len(b)]
  BY <1>1, FeedPasses
<1> DEFINE Goes(k) == ReadsSound(i, z, f[k]) /\ (Stuck(f[k]) \/ Len(f[k].rest) + k <= Len(b))
           S == {k \in Nat : k <= Len(b) => Goes(k)}
<1>3. 0 \in S
  <2>1. f[0] = Unread(b)
    <3>1. 0 \in 0..Len(b)
      BY <1>1
    <3> QED BY <1>2, <3>1, PassesAt
  <2>2. Unread(b) \in Readout /\ Unread(b).threw = FALSE /\ Unread(b).rest = b /\ Unread(b).out = <<>>
    BY <1>1 DEF Unread, Readout
  <2>3. Window(<<>>, plan, i, i) /\ i \in i..Len(plan) /\ \A k \in (i + 1)..i : Fits(k)
    <3>1. Len(plan) \in Nat
      BY FramesStand
    <3> QED BY <3>1 DEF Window
  <2>4. Unread(b).threw # TRUE
    BY <2>2
  <2>5. ReadsSound(i, z, Unread(b))
    BY <2>2, <2>3, <2>4, Zenon DEF ReadsSound
  <2>6. Len(Unread(b).rest) + 0 <= Len(b)
    BY <1>1, <2>2
  <2>7. Goes(0)
    BY <2>1, <2>5, <2>6, Zenon
  <2> HIDE DEF Goes
  <2> QED BY <2>7
<1>4. ASSUME NEW k \in S PROVE k + 1 \in S
  <2> HIDE DEF Goes
  <2> SUFFICES ASSUME k + 1 <= Len(b) PROVE Goes(k + 1)
    OBVIOUS
  <2>1. k \in Nat /\ k <= Len(b) /\ k + 1 \in 0..Len(b) /\ k + 1 # 0 /\ k + 1 - 1 = k
    BY <1>1
  <2>0. Goes(k)
    BY <2>1
  <2> HIDE DEF S
  <2>2. ReadsSound(i, z, f[k]) /\ (Stuck(f[k]) \/ Len(f[k].rest) + k <= Len(b))
    BY <2>0 DEF Goes
  <2>3. f[k + 1] = Pass(f[k])
    BY <1>2, <2>1, PassesAt
  <2> DEFINE r == f[k]
  <2>4. /\ ReadsSound(i, z, Pass(r))
        /\ Stuck(r) => Pass(r) = r
        /\ Stuck(Pass(r)) \/ Len(Pass(r).rest) < Len(r.rest)
    <3> HIDE DEF r
    <3>1. ReadsSound(i, z, r)
      BY <2>2 DEF r
    <3> QED BY <3>1, PassSound
  <2>5. Len(r.rest) \in Nat /\ Len(Pass(r).rest) \in Nat
    BY <2>2, <2>4 DEF ReadsSound, Readout
  <2>6. Stuck(Pass(r)) \/ Len(Pass(r).rest) + (k + 1) <= Len(b)
    <3>1. CASE Stuck(r)
      BY <2>4, <3>1, Zenon
    <3>2. CASE Len(r.rest) + k <= Len(b) /\ Len(Pass(r).rest) < Len(r.rest)
      <4> DEFINE m == Len(r.rest)
                 n == Len(Pass(r).rest)
      <4>1. m \in Nat /\ n \in Nat /\ m + k <= Len(b) /\ n < m
        BY <2>5, <3>2, Zenon
      <4> HIDE DEF m, n
      <4>2. n + (k + 1) <= Len(b)
        BY <1>1, <2>1, <4>1
      <4> QED BY <4>2 DEF n
    <3> QED BY <2>2, <2>4, <3>1, <3>2, Zenon
  <2> QED BY <2>3, <2>4, <2>6, Zenon DEF Goes
<1> HIDE DEF S, Goes
<1>5. \A k \in Nat : k \in S
  <2>1. S \subseteq Nat
    BY DEF S
  <2> QED BY <1>3, <1>4, <2>1, FromZero, Zenon
<1>6. Goes(Len(b))
  <2>1. Len(b) <= Len(b)
    BY <1>1
  <2> QED BY <1>1, <1>5, <2>1 DEF S
<1>7. ReadsSound(i, z, Feed(b)) /\ (Stuck(Feed(b)) \/ Len(Feed(b).rest) + Len(b) <= Len(b))
  BY <1>2, <1>6, Zenon DEF Goes
<1>8. CASE Len(Feed(b).rest) + Len(b) <= Len(b)
  <2>1. Len(Feed(b).rest) \in Nat
    BY <1>7 DEF ReadsSound, Readout
  <2>2. Len(Feed(b).rest) < HEAD
    BY <1>1, <1>8, <2>1, WireAssumption DEF WireAssumption
  <2> QED BY <1>7, <2>2, Zenon DEF Stuck
<1> QED BY <1>7, <1>8, Zenon

\* However the bytes are cut: what is under way is what of the cells sent has not come, the acceptor
\* holds of what has come what it has not read, and of that no frame is whole; whoever is thrown out
\* had a frame that is too long or no JSON.
SentTo == IF acked = TRUE THEN Len(Stream) ELSE MAGIC_LEN
ReadTo(i) ==
  /\ Window(parsed, plan, 0, i) /\ \A k \in 1..i : Fits(k)
  /\ CellsOf(i) <= fed /\ Window(buf, Stream, CellsOf(i), fed)
  /\ Len(buf) < HEAD \/ (buf[1] <= MAX_FRAME /\ Len(buf) < HEAD + buf[1])
WireInv ==
  /\ acceptor \in {"sidecar", "mailbox"} /\ wire \in {"magic", "frames", "dead"} /\ acked \in BOOLEAN
  /\ PlanIs
  /\ fed \in 0..SentTo /\ Window(pipe, Stream, fed, SentTo)
  /\ wire = "magic" =>
       acked = FALSE /\ fed < MAGIC_LEN /\ Window(head, Stream, 0, fed) /\ buf = <<>> /\ parsed = <<>>
  /\ wire = "frames" => head = <<>> /\ \E i \in 0..Len(plan) : ReadTo(i)
  /\ wire = "dead" => ~Legal

LEMMA WireStarts == WireInit => WireInv
<1> SUFFICES ASSUME WireInit PROVE WireInv
  OBVIOUS
<1>1. MAGIC_LEN \in Nat \ {0} /\ MAX_FRAME \in Nat /\ MaxFrames \in Nat
  BY WireAssumption DEF WireAssumption
<1>2. PlanIs
  <2>1. PICK n \in 0..MaxFrames : plan \in [1..n -> 0..(MAX_FRAME + 1)]
    BY Zenon DEF WireInit
  <2> QED BY <1>1, <2>1 DEF PlanIs
<1>3. pipe = Magic /\ fed = 0 /\ head = <<>> /\ buf = <<>> /\ parsed = <<>> /\ wire = "magic" /\ acked = FALSE
  BY Zenon DEF WireInit
<1>4. acceptor \in {"sidecar", "mailbox"}
  BY Zenon DEF WireInit
<1>5. SentTo = MAGIC_LEN
  BY <1>3 DEF SentTo
<1>6. Window(Magic, Stream, 0, MAGIC_LEN)
  <2>1. Magic \in Seq(Cell) /\ Len(Magic) = MAGIC_LEN
    BY <1>1 DEF Magic, Cell
  <2>2. \A x \in 1..MAGIC_LEN : Stream[x] = Magic[x]
    BY <1>2, FramesStand
  <2> QED BY <1>1, <2>1, <2>2 DEF Window
<1>7. Window(<<>>, Stream, 0, 0)
  BY DEF Window
<1>8. fed \in 0..SentTo /\ fed < MAGIC_LEN
  BY <1>1, <1>3, <1>5
<1>9. wire # "frames" /\ wire # "dead" /\ wire \in {"magic", "frames", "dead"} /\ acked \in BOOLEAN
  BY <1>3
<1> QED BY <1>2, <1>3, <1>4, <1>5, <1>6, <1>7, <1>8, <1>9, Zenon DEF WireInv

\* A connection of which the plan and its junk stay the same has the same frames, and is legal as before.
LEMMA PlanStays ==
  ASSUME plan' = plan, junk' = junk
  PROVE  /\ PlanIs' = PlanIs /\ Stream' = Stream /\ Legal' = Legal /\ \A i : Fits(i)' = Fits(i)
         /\ \A i : Written(i)' = Written(i) /\ CellsOf(i)' = CellsOf(i)
<1>1. \A i : FrameOf(i)' = FrameOf(i) /\ Fits(i)' = Fits(i)
  BY DEF FrameOf, BodyOf, Fits
<1>2. \A i : Written(i)' = Written(i)
  BY <1>1 DEF Written
<1> QED BY <1>1, <1>2 DEF PlanIs, Stream, Legal, CellsOf

\* What is read of the cells that come.
LEMMA ReadsKeep ==
  ASSUME PlanIs, NEW i \in 0..Len(plan), NEW z \in 0..Len(Stream), NEW y \in 0..z, NEW cells,
         CellsOf(i) <= y, Window(parsed, plan, 0, i), Window(buf, Stream, CellsOf(i), y),
         Window(cells, Stream, y, z), Reads(cells), \A k \in 1..i : Fits(k),
         plan' = plan, junk' = junk, fed' = z
  PROVE  \/ wire' = "dead" /\ ~Legal
         \/ wire' = "frames" /\ \E j \in 0..Len(plan) : ReadTo(j)'
<1>1. Len(plan) \in Nat /\ i \in Nat /\ y \in Nat /\ z \in Nat /\ CellsOf(i) \in Nat /\ CellsOf(i) <= z
  <2>1. Len(plan) \in Nat /\ Len(Stream) \in Nat
    BY FramesStand
  <2>2. CellsOf(i) \in Nat
    <3>1. CellsOf(i) \in MAGIC_LEN..Len(Stream) /\ MAGIC_LEN \in Nat
      BY FramesStand, WireAssumption DEF WireAssumption
    <3> QED BY <2>1, <3>1
  <2> QED BY <2>1, <2>2
<1>2. Window(buf \o cells, Stream, CellsOf(i), z)
  BY <1>1, Joins
<1> DEFINE r == Feed(buf \o cells)
<1>3. ReadsSound(i, z, r) /\ Stuck(r)
  BY <1>1, <1>2, FeedSound
<1>4. buf' = r.rest /\ parsed' = parsed \o r.out /\ wire' = IF r.threw THEN "dead" ELSE "frames"
  BY Zenon DEF Reads
<1> HIDE DEF r
<1>5. CASE r.threw = TRUE
  BY <1>3, <1>4, <1>5, Zenon DEF ReadsSound
<1>6. CASE r.threw = FALSE
  <2>1. PICK j \in i..Len(plan) : /\ CellsOf(j) <= z /\ Window(r.out, plan, i, j) /\ Window(r.rest, Stream, CellsOf(j), z)
                                  /\ \A k \in (i + 1)..j : Fits(k)
    BY <1>3, <1>6, Zenon DEF ReadsSound
  <2>2. j \in 0..Len(plan) /\ j \in Nat /\ i <= j
    BY <1>1
  <2>3. Window(parsed', plan, 0, j)
    <3>1. Window(parsed \o r.out, plan, 0, j)
      BY <1>1, <2>1, <2>2, Joins
    <3> QED BY <1>4, <3>1
  <2>4. Window(buf', Stream, CellsOf(j), z)
    BY <1>4, <2>1
  <2>5. Len(buf') < HEAD \/ (buf'[1] <= MAX_FRAME /\ Len(buf') < HEAD + buf'[1])
    BY <1>3, <1>4, <1>6, Zenon DEF Stuck
  <2>6. Stream' = Stream /\ CellsOf(j)' = CellsOf(j) /\ \A k : Fits(k)' = Fits(k)
    BY PlanStays
  <2>9. \A k \in 1..j : Fits(k)'
    <3>1. \A k \in 1..j : k \in 1..i \/ k \in (i + 1)..j
      BY <1>1, <2>2
    <3> QED BY <2>1, <2>6, <3>1, Zenon
  <2>7. ReadTo(j)'
    BY <2>1, <2>3, <2>4, <2>5, <2>6, <2>9 DEF ReadTo, Window
  <2>8. wire' = "frames"
    BY <1>4, <1>6
  <2> QED BY <2>2, <2>7, <2>8, Zenon
<1>7. r.threw \in BOOLEAN
  BY <1>3 DEF ReadsSound, Readout
<1> QED BY <1>5, <1>6, <1>7

LEMMA ReadsAll ==
  ASSUME WireInv, wire = "frames", NEW k \in 1..Len(pipe), Arrives(k)
  PROVE  Reads(SubSeq(pipe, 1, k)) /\ head' = head
BY Zenon DEF Arrives

\* The chunk, and what is still under way after it.
LEMMA ChunkIs ==
  ASSUME WireInv, NEW k \in 1..Len(pipe), Arrives(k)
  PROVE  /\ SentTo \in 0..Len(Stream) /\ fed \in Nat /\ fed + k \in fed..SentTo /\ k \in Nat
         /\ Window(SubSeq(pipe, 1, k), Stream, fed, fed + k) /\ Window(pipe', Stream, fed + k, SentTo)
         /\ fed' = fed + k /\ plan' = plan /\ junk' = junk /\ acked' = acked /\ acceptor' = acceptor
<1>1. PlanIs /\ fed \in 0..SentTo /\ Window(pipe, Stream, fed, SentTo) /\ acked \in BOOLEAN
  BY Zenon DEF WireInv
<1>2. /\ pipe' = SubSeq(pipe, k + 1, Len(pipe)) /\ fed' = fed + k /\ plan' = plan /\ junk' = junk
      /\ acked' = acked /\ acceptor' = acceptor
  BY Zenon DEF Arrives
<1>3. SentTo \in 0..Len(Stream)
  <2>1. Len(plan) \in Nat /\ Len(plan) \in 0..Len(plan)
    BY <1>1, FramesStand
  <2>2. Len(Stream) \in Nat /\ CellsOf(0) \in MAGIC_LEN..Len(Stream) /\ CellsOf(0) = MAGIC_LEN
    <3>1. 0 \in 0..Len(plan)
      BY <2>1
    <3> QED BY <1>1, <3>1, FramesStand
  <2>3. MAGIC_LEN \in Nat
    BY WireAssumption DEF WireAssumption
  <2> QED BY <2>2, <2>3 DEF SentTo
<1>4. Len(pipe) = SentTo - fed
  BY <1>1 DEF Window
<1>5. k \in Nat /\ fed \in Nat /\ fed + k \in Nat /\ SentTo \in Nat /\ fed <= fed + k /\ fed + k <= SentTo
      /\ fed + k - fed = k
  BY <1>1, <1>3, <1>4
<1>6. Window(SubSeq(pipe, 1, k), Stream, fed, fed + k) /\ Window(SubSeq(pipe, k + 1, Len(pipe)), Stream, fed + k, SentTo)
  <2> DEFINE z == fed + k
  <2>1. z \in Nat /\ fed <= z /\ z <= SentTo /\ z - fed = k
    BY <1>5
  <2> HIDE DEF z
  <2>2. /\ Window(SubSeq(pipe, 1, z - fed), Stream, fed, z)
        /\ Window(SubSeq(pipe, z - fed + 1, Len(pipe)), Stream, z, SentTo)
    BY <1>1, <1>5, <2>1, Cuts
  <2> QED BY <2>1, <2>2 DEF z
<1> QED BY <1>2, <1>3, <1>5, <1>6

LEMMA ArrivesKeep == ASSUME WireInv, NEW k \in 1..Len(pipe), Arrives(k) PROVE WireInv'
<1> DEFINE cells == SubSeq(pipe, 1, k)
           z == fed + k
<1>1. /\ SentTo \in 0..Len(Stream) /\ fed \in Nat /\ fed + k \in fed..SentTo /\ k \in Nat
      /\ Window(SubSeq(pipe, 1, k), Stream, fed, fed + k) /\ Window(pipe', Stream, fed + k, SentTo)
      /\ fed' = fed + k /\ plan' = plan /\ junk' = junk /\ acked' = acked /\ acceptor' = acceptor
  BY ChunkIs
<1>2. /\ PlanIs /\ acceptor \in {"sidecar", "mailbox"} /\ acked \in BOOLEAN /\ wire \in {"magic", "frames", "dead"}
      /\ wire = "magic" =>
           acked = FALSE /\ fed < MAGIC_LEN /\ Window(head, Stream, 0, fed) /\ buf = <<>> /\ parsed = <<>>
      /\ wire = "frames" => head = <<>> /\ \E i \in 0..Len(plan) : ReadTo(i)
  BY Zenon DEF WireInv
<1>3. /\ wire # "dead"
      /\ wire = "magic" => Routes(cells)
      /\ wire # "magic" => Reads(cells) /\ head' = head
  BY Zenon DEF Arrives
<1>4. /\ PlanIs' = PlanIs /\ Stream' = Stream /\ Legal' = Legal /\ (\A i : Fits(i)' = Fits(i))
      /\ \A i : Written(i)' = Written(i) /\ CellsOf(i)' = CellsOf(i)
  BY <1>1, PlanStays
<1>5. SentTo' = SentTo
  BY <1>1, <1>4 DEF SentTo
<1>6. /\ PlanIs' /\ acceptor' \in {"sidecar", "mailbox"} /\ acked' \in BOOLEAN
      /\ fed' \in 0..SentTo' /\ Window(pipe', Stream', fed', SentTo')
  <2>1. fed + k \in 0..SentTo
    BY <1>1
  <2> QED BY <1>1, <1>2, <1>4, <1>5, <2>1
<1>7. z \in 0..Len(Stream) /\ fed \in 0..z /\ z \in Nat /\ MAGIC_LEN \in Nat \ {0} /\ Len(plan) \in Nat /\ Len(plan)' = Len(plan)
  <2>1. Len(Stream) \in Nat /\ Len(plan) \in Nat
    BY <1>2, FramesStand
  <2>2. z \in 0..Len(Stream) /\ fed \in 0..z /\ z \in Nat
    BY <1>1, <2>1
  <2> QED BY <1>1, <2>1, <2>2, WireAssumption DEF WireAssumption
<1>8. ASSUME head' = <<>>, \/ wire' = "dead" /\ ~Legal
                           \/ wire' = "frames" /\ \E j \in 0..Len(plan) : ReadTo(j)'
      PROVE  WireInv'
  BY <1>4, <1>6, <1>7, <1>8 DEF WireInv
<1>9. CASE wire = "frames"
  <2>1. PICK i \in 0..Len(plan) : ReadTo(i)
    BY <1>2, <1>9
  <2>2. CellsOf(i) <= fed /\ Window(parsed, plan, 0, i) /\ Window(buf, Stream, CellsOf(i), fed) /\ \A n \in 1..i : Fits(n)
    BY <2>1, Zenon DEF ReadTo
  <2>3. Window(cells, Stream, fed, z) /\ Reads(cells) /\ fed' = z /\ head' = <<>>
    BY <1>1, <1>2, <1>3, <1>9
  <2> HIDE DEF cells, z
  <2>4. \/ wire' = "dead" /\ ~Legal
        \/ wire' = "frames" /\ \E j \in 0..Len(plan) : ReadTo(j)'
    BY <1>1, <1>2, <1>7, <2>2, <2>3, ReadsKeep
  <2> QED BY <2>3, <2>4, <1>8
<1>10. CASE wire = "magic"
  <2> DEFINE all == head \o cells
  <2>1. Window(all, Stream, 0, z)
    <3>1. Window(cells, Stream, fed, z) /\ Window(head, Stream, 0, fed) /\ 0 <= fed /\ fed <= z
      BY <1>1, <1>2, <1>10
    <3> HIDE DEF cells, z
    <3> QED BY <1>1, <1>7, <3>1, Joins
  <2>2. SentTo = MAGIC_LEN /\ z <= MAGIC_LEN
    <3>1. SentTo = MAGIC_LEN
      BY <1>2, <1>10 DEF SentTo
    <3> QED BY <1>1, <1>7, <3>1
  <2>3. all \in Seq(Cell) /\ Len(all) = z
    BY <2>1, <1>7 DEF Window
  <2>4. Routes(cells)
    BY <1>3, <1>10
  <2>5. CASE Len(all) < MAGIC_LEN
    <3>1. head' = all /\ buf' = buf /\ parsed' = parsed /\ wire' = wire
      BY <2>4, <2>5, Zenon DEF Routes
    <3>2. Window(head', Stream', 0, fed')
      BY <1>1, <1>4, <2>1, <3>1
    <3>3. wire' = "magic" /\ acked' = FALSE /\ fed' < MAGIC_LEN /\ buf' = <<>> /\ parsed' = <<>>
      BY <1>1, <1>2, <1>10, <2>3, <2>5, <3>1
    <3>4. wire' # "frames" /\ wire' # "dead" /\ wire' \in {"magic", "frames", "dead"}
      BY <3>3
    <3> QED BY <1>6, <3>2, <3>3, <3>4, Zenon DEF WireInv
  <2>6. CASE ~ (Len(all) < MAGIC_LEN)
    <3>1. Len(all) = MAGIC_LEN /\ z = MAGIC_LEN
      BY <1>7, <2>2, <2>3, <2>6
    <3>2. head' = <<>> /\ Reads(SubSeq(all, MAGIC_LEN + 1, Len(all)))
      BY <2>4, <2>6, <3>1, Zenon DEF Routes, Accepts
    <3> DEFINE rest == SubSeq(all, MAGIC_LEN + 1, Len(all))
    <3>3. Window(rest, Stream, z, z)
      <4>1. rest \in Seq(Cell) /\ Len(rest) = 0
        <5> HIDE DEF all, z
        <5> QED BY <1>7, <2>3, <3>1
      <4> HIDE DEF rest
      <4> QED BY <1>7, <4>1 DEF Window
    <3>4. CellsOf(0) = z /\ 0 \in 0..Len(plan) /\ fed' = z
      <4>1. CellsOf(0) = MAGIC_LEN
        BY <1>2, FramesStand
      <4> QED BY <1>1, <1>7, <3>1, <4>1
    <3>5. Window(parsed, plan, 0, 0)
      BY <1>2, <1>10 DEF Window
    <3>6. Window(buf, Stream, z, z)
      BY <1>2, <1>7, <1>10 DEF Window
    <3>7. z \in 0..z /\ z <= z
      BY <1>7
    <3> HIDE DEF rest, z, all, cells
    <3>8. Reads(rest)
      BY <3>2 DEF rest
    <3>9. \/ wire' = "dead" /\ ~Legal
          \/ wire' = "frames" /\ \E j \in 0..Len(plan) : ReadTo(j)'
      BY <1>1, <1>2, <1>7, <3>3, <3>4, <3>5, <3>6, <3>7, <3>8, ReadsKeep
    <3> QED BY <3>2, <3>9, <1>8
  <2> QED BY <2>5, <2>6, Zenon
<1> QED BY <1>2, <1>3, <1>9, <1>10

LEMMA AckedKeeps == ASSUME WireInv, Acked PROVE WireInv'
<1>1. /\ MayWrite /\ acked' = TRUE /\ pipe' = pipe \o Written(Len(plan))
      /\ acceptor' = acceptor /\ plan' = plan /\ junk' = junk /\ fed' = fed /\ head' = head /\ buf' = buf
      /\ parsed' = parsed /\ wire' = wire
  BY Zenon DEF Acked
<1>2. acked = FALSE /\ wire = "frames"
  BY <1>1, Zenon DEF MayWrite, WireInv
<1>3. /\ PlanIs /\ acceptor \in {"sidecar", "mailbox"} /\ acked \in BOOLEAN
      /\ fed \in 0..SentTo /\ Window(pipe, Stream, fed, SentTo)
      /\ head = <<>> /\ \E i \in 0..Len(plan) : ReadTo(i)
  BY <1>2, Zenon DEF WireInv
<1>4. /\ PlanIs' = PlanIs /\ Stream' = Stream /\ Legal' = Legal /\ (\A i : Fits(i)' = Fits(i))
      /\ \A i : Written(i)' = Written(i) /\ CellsOf(i)' = CellsOf(i)
  BY <1>1, PlanStays
<1>5. SentTo = MAGIC_LEN /\ SentTo' = Len(Stream)
  BY <1>1, <1>2, <1>4 DEF SentTo
<1>6. PICK i \in 0..Len(plan) : ReadTo(i)
  BY <1>3
<1>7. MAGIC_LEN \in Nat /\ Len(Stream) \in Nat /\ MAGIC_LEN <= Len(Stream) /\ fed \in Nat /\ fed <= MAGIC_LEN
  <2>1. CellsOf(i) \in MAGIC_LEN..Len(Stream) /\ Len(plan) \in Nat /\ Len(Stream) = CellsOf(Len(plan))
    BY <1>3, FramesStand
  <2>2. Len(Stream) \in Nat /\ MAGIC_LEN \in Nat
    BY <1>3, FramesStand, WireAssumption DEF WireAssumption
  <2> QED BY <1>3, <1>5, <2>1, <2>2
<1>8. Window(Written(Len(plan)), Stream, MAGIC_LEN, Len(Stream))
  <2>1. Written(Len(plan)) \in Seq(Cell)
    <3>1. Len(plan) \in 0..Len(plan)
      BY <1>3, FramesStand
    <3> QED BY <1>3, <3>1, WrittenAre
  <2>2. Magic \in Seq(Cell) /\ Len(Magic) = MAGIC_LEN
    BY <1>7 DEF Magic, Cell
  <2> QED BY <1>7, <2>1, <2>2 DEF Stream, Window
<1>9. Window(pipe', Stream, fed, Len(Stream))
  BY <1>1, <1>3, <1>5, <1>7, <1>8, Joins
<1>10. ReadTo(i)'
  <2>1. Stream' = Stream /\ CellsOf(i)' = CellsOf(i) /\ \A k \in 1..i : Fits(k)' = Fits(k)
    BY <1>4
  <2> QED BY <1>1, <1>6, <2>1 DEF ReadTo, Window
<1>11. PlanIs' /\ acceptor' \in {"sidecar", "mailbox"} /\ acked' \in BOOLEAN /\ head' = <<>>
  BY <1>1, <1>3, <1>4
<1>12. fed' \in 0..SentTo' /\ Window(pipe', Stream', fed', SentTo')
  <2>1. fed \in 0..Len(Stream)
    BY <1>7
  <2> QED BY <1>1, <1>4, <1>5, <1>9, <2>1
<1>13. wire' = "frames" /\ wire' # "magic" /\ wire' # "dead" /\ wire' \in {"magic", "frames", "dead"}
  BY <1>1, <1>2
<1>14. \E j \in 0..Len(plan)' : ReadTo(j)'
  BY <1>1, <1>10
<1> QED BY <1>11, <1>12, <1>13, <1>14, Zenon DEF WireInv

LEMMA WireKeeps == WireInv /\ [WireNext]_wireVars => WireInv'
<1> SUFFICES ASSUME WireInv, [WireNext]_wireVars PROVE WireInv'
  OBVIOUS
<1>1. CASE Acked
  BY <1>1, AckedKeeps
<1>2. CASE \E k \in 1..Len(pipe) : Arrives(k)
  BY <1>2, ArrivesKeep
<1>3. CASE UNCHANGED wireVars
  <2>1. /\ PlanIs' = PlanIs /\ Stream' = Stream /\ Legal' = Legal /\ (\A i : Fits(i)' = Fits(i))
        /\ \A i : Written(i)' = Written(i) /\ CellsOf(i)' = CellsOf(i)
    BY <1>3, PlanStays DEF wireVars
  <2> QED BY <1>3, <2>1 DEF wireVars, WireInv, SentTo, ReadTo, Window
<1> QED BY <1>1, <1>2, <1>3 DEF WireNext

\* What the app's processes promise of it.
LEMMA WireSound == WireInv => FramesSound
<1> SUFFICES ASSUME WireInv PROVE FramesSound
  OBVIOUS
<1>1. /\ PlanIs /\ acceptor \in {"sidecar", "mailbox"} /\ acked \in BOOLEAN /\ wire \in {"magic", "frames", "dead"}
      /\ fed \in 0..SentTo
      /\ wire = "frames" => head = <<>> /\ \E i \in 0..Len(plan) : ReadTo(i)
      /\ wire = "dead" => ~Legal
  BY Zenon DEF WireInv
<1>2. /\ Len(plan) \in Nat /\ Len(Stream) \in Nat /\ Len(Stream) = CellsOf(Len(plan))
      /\ HEAD \in Nat \ {0} /\ MAX_FRAME \in Nat /\ MAGIC_LEN \in Nat
      /\ MAGIC_LEN <= Len(Stream)
  <2>1. /\ Len(plan) \in Nat /\ Len(Stream) \in Nat /\ Len(Stream) = CellsOf(Len(plan))
        /\ HEAD \in Nat \ {0} /\ MAX_FRAME \in Nat /\ MAGIC_LEN \in Nat
    BY <1>1, FramesStand, WireAssumption DEF WireAssumption
  <2>2. CellsOf(Len(plan)) \in MAGIC_LEN..Len(Stream)
    <3>1. Len(plan) \in 0..Len(plan)
      BY <2>1
    <3> QED BY <1>1, <3>1, FramesStand
  <2> QED BY <2>1, <2>2
<1>3. fed \in 0..Len(Stream) /\ fed \in Nat
  BY <1>1, <1>2 DEF SentTo
<1>4. ASSUME wire = "frames"
      PROVE  /\ Len(buf) < HEAD + MAX_FRAME
             /\ \E i \in 0..Len(plan) :
                  /\ parsed = SubSeq(plan, 1, i) /\ CellsOf(i) <= fed /\ \A k \in 1..i : Fits(k)
                  /\ i < Len(plan) => fed < CellsOf(i + 1)
  <2>1. PICK i \in 0..Len(plan) : ReadTo(i)
    BY <1>1, <1>4
  <2>2. /\ Window(parsed, plan, 0, i) /\ CellsOf(i) <= fed /\ Window(buf, Stream, CellsOf(i), fed)
        /\ Len(buf) < HEAD \/ (buf[1] <= MAX_FRAME /\ Len(buf) < HEAD + buf[1])
        /\ \A k \in 1..i : Fits(k)
    BY <2>1, Zenon DEF ReadTo
  <2>3. /\ CellsOf(i) \in Nat /\ Len(buf) = fed - CellsOf(i) /\ i \in Nat
        /\ Len(buf) >= HEAD => buf[1] \in Nat /\ CellsOf(i + 1) = CellsOf(i) + HEAD + buf[1]
    BY <1>1, <1>3, <2>2, HeldIs
  <2>4. Len(buf) < HEAD + MAX_FRAME
    <3>1. CASE Len(buf) < HEAD
      BY <1>2, <1>3, <2>3, <3>1
    <3>2. CASE Len(buf) >= HEAD /\ buf[1] <= MAX_FRAME /\ Len(buf) < HEAD + buf[1]
      BY <1>2, <1>3, <2>3, <3>2
    <3> QED BY <1>2, <1>3, <2>2, <2>3, <3>1, <3>2
  <2>5. ASSUME i < Len(plan) PROVE fed < CellsOf(i + 1)
    <3>1. CASE Len(buf) < HEAD
      <4>1. i \in 0..(Len(plan) - 1)
        BY <1>2, <2>5
      <4>2. CellsOf(i + 1) = CellsOf(i) + HEAD + plan[i + 1] /\ plan[i + 1] \in Nat
        <5>1. CellsOf(i + 1) = CellsOf(i) + HEAD + plan[i + 1] /\ plan[i + 1] \in 0..(MAX_FRAME + 1)
          BY <1>1, <4>1, FramesStand
        <5> QED BY <1>2, <5>1
      <4> QED BY <1>2, <1>3, <2>3, <3>1, <4>2
    <3>2. CASE Len(buf) >= HEAD /\ buf[1] <= MAX_FRAME /\ Len(buf) < HEAD + buf[1]
      BY <1>2, <1>3, <2>3, <3>2
    <3> QED BY <1>2, <1>3, <2>2, <2>3, <3>1, <3>2
  <2>6. parsed = SubSeq(plan, 1, i)
    <3>1. parsed \in Seq(Cell) /\ Len(parsed) = i /\ \A x \in 1..i : parsed[x] = plan[x]
      BY <2>2, <2>3 DEF Window
    <3>2. i <= Len(plan)
      BY <1>2
    <3> QED BY <1>1, <2>3, <3>1, <3>2 DEF PlanIs
  <2> QED BY <2>2, <2>4, <2>5, <2>6
<1>5. WireTypeOK
  BY <1>1, <1>3, <1>4, Zenon DEF WireTypeOK
<1>6. FramesExact
  BY <1>4, Zenon DEF FramesExact
<1>7. NeverCut
  BY <1>1, Zenon DEF NeverCut
<1> QED BY <1>5, <1>6, <1>7, Zenon DEF FramesSound

-----------------------------------------------------------------------------
(* The parts of the processes, one by one.                                  *)

\* Every step is one of each part's own, or leaves it as it is.
LEMMA PartSteps ==
  ASSUME [ProcessNext]_processVars
  PROVE  /\ [UpdaterNext]_updaterVars /\ [IconsNext]_iconVars /\ [MediaNext]_mediaVars /\ [WireNext]_wireVars
         /\ [StartupNext]_startupVars /\ [LaunchNext]_launchVars
         /\ UNCHANGED <<triple, part>>
         /\ part # "faults" => [Next]_vars
         /\ part = "faults" => Faulty!Next \/ UNCHANGED vars
BY DEF ProcessNext, processVars, mainVars, sidecarVars, VersionsNext, versionsVars

LEMMA PartStarts ==
  ASSUME ProcessInit
  PROVE  /\ UpdaterInit /\ IconsInit /\ MediaInit /\ WireInit /\ StartupInit /\ LaunchInit /\ VersionsInit
         /\ IF part = "faults" THEN Faulty!Init ELSE Init
BY DEF ProcessInit

\* updater.js:83, versions.js:8-32, iconcache.js:16, media.js:121-139, 307-318: whatever the feed shows,
\* however checks, downloads, fetches and updates overlap, and however often the store is closed and opened
\* again: the file that was downloaded is the one announced; versions are compared in order; a cached icon is
\* of the version there is, but for a fetch overtaken by an update; the media that are served belong to the
\* store that is open; and the sidecar has released all of them when it says so.
THEOREM ProcessesKeepHonest == ProcessSpec => []KeptHonest
<1> DEFINE Inv == UpdaterInv /\ IconsInv /\ VersionsOrdered /\ MediaInv
<1>1. ProcessInit => Inv
  BY PartStarts, UpdaterStarts, IconsStart, VersionsInOrder, MediaStarts
<1>2. Inv /\ [ProcessNext]_processVars => Inv'
  <2> SUFFICES ASSUME Inv, [ProcessNext]_processVars PROVE Inv'
    OBVIOUS
  <2>1. VersionsOrdered'
    BY PartSteps DEF VersionsOrdered
  <2> QED BY <2>1, PartSteps, UpdaterKeeps, IconsKeep, MediaKeeps
<1>3. Inv => KeptHonest
  BY DEF UpdaterInv, IconsInv, MediaInv, KeptHonest, StaleForAReason
<1> QED BY <1>1, <1>2, <1>3, PTL DEF ProcessSpec

\* wire.js:41-56, index.js:263, messages.js:52-110: whatever frames a dialer writes, however long, and however
\* the network cuts the bytes: the acceptor has read just the frames that have come in whole, in their order,
\* holds less than one frame, and throws nobody out but for a frame that is too long.
THEOREM ProcessesFrameSoundly == ProcessSpec => []FramesSound
<1>1. ProcessInit => WireInv
  BY PartStarts, WireStarts
<1>2. WireInv /\ [ProcessNext]_processVars => WireInv'
  BY PartSteps, WireKeeps
<1> QED BY <1>1, <1>2, WireSound, PTL DEF ProcessSpec

\* main.js:330-347, startup.js:86-116: whatever ports other programs hold, however the app is quit, killed or
\* relaunched, and however applies, the contribute switch and their restarts overlap. As long as no node was
\* orphaned - an adopted one by a new port, the app's own by a death of the app between saving a new port with
\* a new folder and the stop -, a data folder has one node, and none that answers outlives the app. A marker
\* has its secret, but one whose deletion was cut short; once the restarts are over, the node runs with what
\* was saved last, but an adopted one, and one whose save was cut short; and only the contribute switch brings
\* refused parameters together.
THEOREM ProcessesStartAsSaved == ProcessSpec => StartsAsSaved
<1> DEFINE Inv == LaunchInv /\ StartupInv
<1>1. ProcessInit => Inv
  BY PartStarts, LaunchStarts, StartupStarts
<1>2. Inv /\ [ProcessNext]_processVars => Inv'
  BY PartSteps, LaunchKeeps, StartupKeeps
<1>3. Inv => /\ LaunchTypeOK /\ FolderHasOneNode
             /\ StartupTypeOK /\ MarkerHasSecret /\ RunsWhatWasSaved
  <2> SUFFICES ASSUME Inv PROVE FolderHasOneNode /\ RunsWhatWasSaved
    BY DEF LaunchInv, StartupInv
  <2>1. FolderHasOneNode
    <3>1. orphaned \in BOOLEAN
      BY DEF LaunchInv, LaunchTypeOK
    <3> QED BY <3>1 DEF LaunchInv, Tied, FolderHasOneNode
  <2>2. RunsWhatWasSaved
    <3>1. (\A r \in RestartCall : restarting[r] = "no") => (\A r \in RestartCall : restarting[r] # "stop")
      OBVIOUS
    <3> QED BY <3>1 DEF StartupInv, RunsSaved, RunsWhatWasSaved
  <2> QED BY <2>1, <2>2
<1>4. Inv /\ [ProcessNext]_processVars => [doing = "leave" /\ doing' = "dead" /\ ~orphaned => NothingLeft]_launchVars
  BY PartSteps, LeavesNone
<1>5. Inv /\ [ProcessNext]_processVars
      => [settings' # settings /\ settings'.client /\ settings'.contribute
            => settings'.contribute # settings.contribute]_startupVars
  BY PartSteps, RefusedStays
<1> QED BY <1>1, <1>2, <1>3, <1>4, <1>5, PTL DEF ProcessSpec, StartsAsSaved, NoNodeOutlives, NothingRefusedSaved

\* What is known of the two process managers: of the one with one caller what holds under every fault.
AloneInv == part = "faults" => Alone!OwnInv /\ Alone!StopKeeps

LEMMA OneCallAlone == Alone!OneCaller
BY DEF Alone!OneCaller, OneCall

\* NodeAssumption of that instance, in the words in which its lemmas have it.
LEMMA AloneAssumption ==
  /\ NoProc \notin Proc
  /\ Ops \subseteq Alone!Operations /\ FaultClasses \subseteq Alone!FaultClasses
  /\ SELF_RESTART_MAX \in Nat /\ ADOPTED_DEAD_AFTER \in Nat \ {0}
BY NodeAssumption DEF NodeAssumption, Operations, FaultClasses, Alone!Operations, Alone!FaultClasses

LEMMA AloneKeeps ==
  /\ ProcessInit => AloneInv
  /\ AloneInv /\ [ProcessNext]_processVars => AloneInv'
<1>1. ASSUME ProcessInit, part = "faults" PROVE Alone!OwnInv /\ Alone!StopKeeps
  <2>1. Alone!Init
    BY <1>1, PartStarts, AloneIsFaulty
  <2> QED BY <2>1, AloneAssumption, Alone!OwnInit, Alone!KeepsInit
<1>2. ASSUME AloneInv, [ProcessNext]_processVars, part = "faults" PROVE Alone!OwnInv' /\ Alone!StopKeeps'
  <2>1. Alone!Next \/ UNCHANGED Alone!vars
    <3>1. CASE Faulty!Next
      BY <3>1, AloneIsFaulty
    <3>2. CASE UNCHANGED vars
      BY <3>2 DEF vars, world, manager, booting, polls, again, calls, Alone!vars, Alone!world, Alone!manager,
                  Alone!booting, Alone!polls, Alone!again, Alone!calls
    <3> QED BY <1>2, <3>1, <3>2, PartSteps
  <2> QED BY <1>2, <2>1, OneCallAlone, AloneAssumption, Alone!OwnNext, Alone!KeepsNext DEF AloneInv
<1> QED BY <1>1, <1>2, PartSteps DEF AloneInv

\* node-manager.js:17-18: under every fault, in the process manager with one caller: the exit of a node that a
\* stop() asked to go is not reported as a crash.
THEOREM ProcessesPlanStops == ProcessSpec => FaultsPlannedStopNotCrash
<1>1. AloneInv /\ [ProcessNext]_processVars => [part = "faults" => Faulty!StopIsNoCrash]_vars
  <2> SUFFICES ASSUME AloneInv, [ProcessNext]_processVars, part = "faults", ~UNCHANGED vars PROVE Faulty!StopIsNoCrash
    OBVIOUS
  <2>1. Alone!Next
    BY PartSteps, AloneIsFaulty
  <2> QED BY <2>1, AloneIsFaulty, AloneAssumption, Alone!KeepsPlan DEF AloneInv
<1> QED BY <1>1, AloneKeeps, PTL DEF ProcessSpec, FaultsPlannedStopNotCrash

\* node-manager.js:81-86, 329-332, 347, 415-426, 442-443: in both process managers, under the faults that the app
\* contains, there is one node at most, of the kind that config.json names once nothing is in progress.
THEOREM ProcessesHaveOneNode ==
  ASSUME Faults \subseteq Contained
  PROVE  ProcessSpec => []OneConfiguredNode
<1> DEFINE Inv == AloneInv /\ (part # "faults" => NodeInv)
<1>1. ProcessInit => Inv
  BY PartStarts, AloneKeeps, NodeInit
<1>2. Inv /\ [ProcessNext]_processVars => Inv'
  BY PartSteps, AloneKeeps, NodeNext
<1>3. Inv => OneConfiguredNode
  BY AloneIsFaulty, NodeInvImplies DEF AloneInv, Alone!OwnInv, NodeInv, OwnInv, OneConfiguredNode
<1> QED BY <1>1, <1>2, <1>3, PTL DEF ProcessSpec

\* node-manager.js:317, 411-412: in both, under every fault, the app never has a child and an adopted node at a time.
THEOREM ProcessesHaveOneOwner == ProcessSpec => []OwnedOrAdopted
<1> DEFINE Inv == AloneInv /\ (part # "faults" => OwnInv)
<1>1. ProcessInit => Inv
  BY PartStarts, AloneKeeps, OwnInit
<1>2. Inv /\ [ProcessNext]_processVars => Inv'
  BY PartSteps, AloneKeeps, OwnNext
<1>3. Inv => OwnedOrAdopted
  BY DEF AloneInv, Alone!OwnInv, Alone!OwnedOrAdopted, OwnInv, OwnedOrAdopted
<1> QED BY <1>1, <1>2, <1>3, PTL DEF ProcessSpec
================================================================================
