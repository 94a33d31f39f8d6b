------------------------------- MODULE Updater -------------------------------
(***************************************************************************)
(* main/updater.js: the app's own updates.  Checks (by the timer and by      *)
(* hand) and downloads share one status and overlap freely; the feed moves   *)
(* on meanwhile, and may have no row for this platform, or no hash in it.    *)
(* The running app is version 1; a file and its hash are named by their      *)
(* version, 0 is none.                                                       *)
(***************************************************************************)
EXTENDS Integers, FiniteSets

CONSTANTS
  Check, Download, \* checks and downloads that may be on their way at once
  RowKind,         \* what may become of this platform's row: a subset of RowKinds
  LastVersion      \* bound: the last version of the feed

RowKinds ==
  { "built",   \* the new file and its hash
    "old",     \* the file of an earlier version
    "none",    \* no row
    "bare" }   \* the new file without a hash

ASSUME UpdaterAssumption == LastVersion \in Nat \ {0, 1} /\ RowKind \subseteq RowKinds

VARIABLES
  feed,                  \* the feed of now: its version, and the file and the hash of this platform's row
  rows,                  \* history: the files that the feed has named, each with the version it did so for
  update,                \* updater.js's status
  checking,              \* what each check has of the feed
  loading,               \* what each download is about
  saved,                 \* the files in ~/Downloads: version and whether the bytes are those that were published
  bare                   \* history: files that were saved last while the status had no hash

updaterVars == <<feed, rows, update, checking, loading, saved, bare>>

Version == 0..LastVersion
StoreFeed == [version : Version, file : Version, sha256 : Version]
NoCheck == [on |-> FALSE, got |-> [version |-> 0, file |-> 0, sha256 |-> 0]]
NoLoad == [on |-> FALSE, file |-> 0, intact |-> TRUE]

UpdaterTypeOK ==
  /\ feed \in StoreFeed /\ rows \subseteq Version \X Version
  /\ update \in [version : Version, file : Version, sha256 : Version, available : BOOLEAN, downloaded : Version]
  /\ checking \in [Check -> [on : BOOLEAN, got : StoreFeed]]
  /\ loading \in [Download -> [on : BOOLEAN, file : Version, intact : BOOLEAN]]
  /\ saved \subseteq [file : Version, intact : BOOLEAN] /\ bare \subseteq Version

UpdaterInit ==
  /\ feed \in {[version |-> v, file |-> v, sha256 |-> v] : v \in {1, 2}} /\ rows = {<<feed.version, feed.file>>}
  /\ update = [version |-> 0, file |-> 0, sha256 |-> 0, available |-> FALSE, downloaded |-> 0]
  /\ checking = [c \in Check |-> NoCheck] /\ loading = [d \in Download |-> NoLoad] /\ saved = {} /\ bare = {}

Row(kind, v) ==
  CASE kind = "built" -> [version |-> v, file |-> v, sha256 |-> v]
    [] kind = "old"   -> [feed EXCEPT !.version = v]
    [] kind = "none"  -> [version |-> v, file |-> 0, sha256 |-> 0]
    [] kind = "bare"  -> [version |-> v, file |-> v, sha256 |-> 0]

\* A release; a row that keeps an old file, or is missing, is written when its own file is built.
Release ==
  /\ \/ /\ feed.version < LastVersion
        /\ \E kind \in RowKind : feed' = Row(kind, feed.version + 1)
     \/ /\ feed.sha256 # feed.version
        /\ feed' = Row("built", feed.version)
  /\ rows' = IF feed'.file > 0 THEN rows \cup {<<feed'.version, feed'.file>>} ELSE rows
  /\ UNCHANGED <<update, checking, loading, saved, bare>>

\* check(): the timer, the page, or the button of the title bar.  The feed is read; a row or a hash that
\* is missing is an empty one ...
CheckReads(c) ==
  /\ ~checking[c].on /\ checking' = [checking EXCEPT ![c] = [on |-> TRUE, got |-> feed]]
  /\ UNCHANGED <<feed, rows, update, loading, saved, bare>>

\* What was downloaded stays downloaded.
BadKept(body) == update.downloaded

\* What was downloaded is of this version only.
Kept(body) == IF update.version = body.version THEN update.downloaded ELSE 0

\* ... and then replaces the status, or its reading has failed and the status stays.
CheckEnds(c) ==
  LET body == checking[c].got
  IN /\ checking[c].on /\ checking' = [checking EXCEPT ![c] = NoCheck]
     /\ update' \in {update, [version |-> body.version, file |-> body.file, sha256 |-> body.sha256,
                              available |-> body.version > 1 /\ body.file > 0, downloaded |-> Kept(body)]}
     /\ UNCHANGED <<feed, rows, loading, saved, bare>>

\* download(): the file of the status of now; its bytes may arrive damaged.
DownloadStarts(d) ==
  /\ update.available /\ update.file > 0 /\ ~loading[d].on
  /\ \E intact \in BOOLEAN : loading' = [loading EXCEPT ![d] = [on |-> TRUE, file |-> update.file, intact |-> intact]]
  /\ UNCHANGED <<feed, rows, update, checking, saved, bare>>

\* The hash is the one the file was asked for with.
BadVerified(d) == loading[d].intact

\* The hash is the one of the status when the bytes are there; without a hash anything passes.
Verified(d) == update.sha256 > 0 => loading[d].intact /\ loading[d].file = update.sha256

DownloadEnds(d) ==
  LET file == loading[d].file
  IN /\ loading[d].on /\ loading' = [loading EXCEPT ![d] = NoLoad]
     /\ \/ /\ Verified(d)
           /\ saved' = {f \in saved : f.file # file} \cup {[file |-> file, intact |-> loading[d].intact]}
           /\ update' = [update EXCEPT !.downloaded = file]
           /\ bare' = IF update.sha256 = 0 THEN bare \cup {file} ELSE bare \ {file}
        \/ UNCHANGED <<saved, update, bare>>
     /\ UNCHANGED <<feed, rows, checking>>

UpdaterNext ==
  \/ Release
  \/ \E c \in Check : CheckReads(c) \/ CheckEnds(c)
  \/ \E d \in Download : DownloadStarts(d) \/ DownloadEnds(d)

UpdaterSpec == UpdaterInit /\ [][UpdaterNext]_updaterVars

-----------------------------------------------------------------------------
(* Properties.                                                              *)

IntactOnDisk == [file |-> update.downloaded, intact |-> TRUE] \in saved

\* The file that the status calls downloaded is there, its hash has been verified, and it is a file of the
\* version that the status announces, although checks replace the status while files are on their way -
\* unless the status had no hash when the bytes were there (updater.js:81, and DownloadsVerified).
DownloadedIsAnnounced ==
  update.downloaded > 0 /\ update.downloaded \notin bare =>
    <<update.version, update.downloaded>> \in rows /\ IntactOnDisk

\* README.md:70-71 "A download is verified against the feed's sha256", updater.js:11: so is every file that
\* is called downloaded - of a feed that names no file without its hash.
DownloadsVerified == update.downloaded > 0 => IntactOnDisk
=============================================================================
