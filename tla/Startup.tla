-------------------------------- MODULE Startup --------------------------------
(***************************************************************************)
(* Settings -> Startup parameters: main/startup.js, config.js, buildArgs()  *)
(* of node-manager.js and the page that edits them, with the switch that    *)
(* contributes to the network, which restarts the node as well.             *)
(*                                                                         *)
(* Of the flags two are kept: -isclient, which is refused of a node that    *)
(* contributes, as an unknown flag always is, and a secret, -dbpassword: a  *)
(* file of its own and a marker in config.json.                             *)
(***************************************************************************)
EXTENDS Integers

CONSTANTS
  Jar,            \* the kinds of node looked at
  SecretText,     \* secrets the user may type
  RestartCall,    \* restarts that may be under way at once
  MaxMishaps      \* bound: deaths of the app, and writes of config.json that fail

ASSUME StartupAssumption ==
  /\ MaxMishaps \in Nat
  /\ SecretText \cap {"", "keep", "clear", "not typed", "down"} = {}

VARIABLES
  jar, settings, secretFile,       \* the node's kind; config.json; the secret's file
  page, work, typed, problems,     \* the page: what is edited, the typed secret, errors
  previewDue, loadDue, applying,   \* its timer, params:get, busy
  toConfirm,                       \* the patch that the modal asks about
  restarting, starting, runs,      \* the restarts, startPromise, the node's arguments
  attached,                        \* the node was adopted
  cutShort,                        \* history: the secret was written and config.json not
  mishaps                          \* history

pageVars == <<page, work, typed, problems, previewDue, loadDue, applying, toConfirm>>
nodeRun == <<restarting, starting, runs, attached>>
startupVars == <<jar, settings, secretFile, pageVars, nodeRun, cutShort, mishaps>>

NotTyped == "not typed"
Settings == [client : BOOLEAN, marker : BOOLEAN, contribute : BOOLEAN]
Work == [client : BOOLEAN, marker : BOOLEAN]
Patch == [client : BOOLEAN, secret : {"keep", "clear"} \cup SecretText]
NoPatch == [client |-> FALSE, secret |-> "none"]
Down == [server |-> FALSE, client |-> FALSE, secret |-> "down"]
Arguments == [server : BOOLEAN, client : BOOLEAN, secret : SecretText \cup {""}]

StartupTypeOK ==
  /\ jar \in Jar /\ settings \in Settings /\ secretFile \in SecretText \cup {""}
  /\ page \in {"closed", "open"} /\ work \in Work /\ typed \in SecretText \cup {NotTyped, ""}
  /\ problems \in BOOLEAN /\ previewDue \in BOOLEAN /\ loadDue \in BOOLEAN
  /\ applying \in BOOLEAN /\ toConfirm \in Patch \cup {NoPatch}
  /\ restarting \in [RestartCall -> {"no", "stop", "start", "wait"}] /\ starting \in BOOLEAN
  /\ runs \in Arguments \cup {Down} /\ attached \in BOOLEAN
  /\ cutShort \in {"", "set", "delete"} /\ mishaps \in 0..MaxMishaps

-----------------------------------------------------------------------------
(* config.js and the command line.                                          *)

\* effectiveParams() and buildArgs(): a secret goes with its marker and its file, and
\* the Parlons Node is never given the database password.
CommandLine ==
  [server |-> settings.contribute, client |-> settings.client,
   secret |-> IF settings.marker /\ jar = "minima" THEN secretFile ELSE ""]

\* current(): what the editor begins with.
Current == [client |-> settings.client, marker |-> settings.marker]

StartupInit ==
  /\ jar \in Jar /\ secretFile = ""
  /\ settings = [client |-> FALSE, marker |-> FALSE, contribute |-> FALSE]
  /\ page = "closed" /\ work = Current /\ typed = NotTyped /\ problems = FALSE
  /\ previewDue = FALSE /\ loadDue = FALSE /\ applying = FALSE /\ toConfirm = NoPatch
  /\ restarting = [r \in RestartCall |-> "no"] /\ starting = TRUE /\ runs = Down /\ attached = FALSE
  /\ cutShort = "" /\ mishaps = 0

\* validate(): main has something against a patch, by the settings of this moment.
Errors(p) == settings.contribute /\ p.client

\* The page's own verdict is enough.
BadRefused(p) == problems

\* apply() looks again at what the page let through.
Refused(p) == Errors(p)

\* validate(): the secret and the settings a patch asks for.
SecretOf(p) ==
  CASE p.secret = "keep" -> secretFile [] p.secret = "clear" -> "" [] OTHER -> p.secret

SettingsOf(p) ==
  [settings EXCEPT !.client = p.client,
     !.marker = CASE p.secret = "keep" -> @ [] p.secret = "clear" -> FALSE [] OTHER -> TRUE]

\* config.json is written before the secret's file.
BadFirstWrite(p) == settings' = SettingsOf(p) /\ UNCHANGED secretFile

\* apply() writes the secret's file first, and then config.json.
FirstWrite(p) == secretFile' = SecretOf(p) /\ UNCHANGED settings

-----------------------------------------------------------------------------
(* The node.                                                                *)

\* A restart that is under way is enough.
BadRestarts ==
  IF \A r \in RestartCall : restarting[r] = "no"
    THEN \E r \in RestartCall : restarting' = [restarting EXCEPT ![r] = "stop"]
    ELSE UNCHANGED restarting

\* restart(): called, and not waited for.
Restarts ==
  \E r \in RestartCall : restarting[r] = "no" /\ restarting' = [restarting EXCEPT ![r] = "stop"]

\* stop() waits for a start that is under way, and for the node to be gone.
RestartStops(r) ==
  /\ restarting[r] = "stop" /\ ~starting /\ restarting' = [restarting EXCEPT ![r] = "start"]
  /\ runs' = Down /\ attached' = FALSE
  /\ UNCHANGED <<jar, settings, secretFile, pageVars, starting, cutShort, mishaps>>

\* start(): there is a start, or a node, by now.
RestartStarts(r) ==
  /\ restarting[r] = "start" /\ restarting' = [restarting EXCEPT ![r] = "wait"]
  /\ starting' = (starting \/ runs = Down)
  /\ UNCHANGED <<jar, settings, secretFile, pageVars, runs, attached, cutShort, mishaps>>

RestartEnds(r) ==
  /\ restarting[r] = "wait" /\ ~starting /\ restarting' = [restarting EXCEPT ![r] = "no"]
  /\ UNCHANGED <<jar, settings, secretFile, pageVars, starting, runs, attached, cutShort, mishaps>>

\* _start(): a node that answers is adopted, whatever it was started with.
NodeComes ==
  /\ starting /\ starting' = FALSE
  /\ \/ runs # Down /\ attached' = TRUE /\ UNCHANGED runs
     \/ runs = Down /\ runs' \in {CommandLine, Down} /\ UNCHANGED attached
  /\ UNCHANGED <<jar, settings, secretFile, pageVars, restarting, cutShort, mishaps>>

\* setContribute(), from the Network page.
SetContribute ==
  /\ page = "closed" /\ settings' = [settings EXCEPT !.contribute = ~@] /\ Restarts
  /\ UNCHANGED <<jar, secretFile, pageVars, starting, runs, attached, cutShort, mishaps>>

-----------------------------------------------------------------------------
(* The page.                                                                *)

StaysOutside == UNCHANGED <<jar, settings, secretFile, nodeRun, cutShort, mishaps>>

\* The secret field: a typed value wins, else the stored one is kept or cleared.
PatchOf ==
  [client |-> work.client,
   secret |-> CASE typed \in SecretText -> typed [] typed = "" -> "clear"
                [] OTHER -> IF work.marker THEN "keep" ELSE "clear"]

Dirty == work # Current \/ typed # NotTyped

OpenPage ==
  /\ page = "closed" /\ page' = "open" /\ loadDue' = TRUE /\ previewDue' = TRUE
  /\ UNCHANGED <<work, typed, problems, applying, toConfirm>> /\ StaysOutside

ClosePage ==
  /\ page = "open" /\ toConfirm = NoPatch /\ page' = "closed" /\ previewDue' = FALSE
  /\ UNCHANGED <<work, typed, problems, loadDue, applying, toConfirm>> /\ StaysOutside

\* load(): params:get is back, and replaces what is edited.
Loaded(w) == work' = w /\ typed' = NotTyped /\ problems' = FALSE /\ previewDue' = (page = "open")

PageLoaded ==
  /\ loadDue /\ loadDue' = FALSE /\ applying' = FALSE /\ Loaded(Current)
  /\ UNCHANGED <<page, toConfirm>> /\ StaysOutside

\* The fields; each change begins the wait for a preview anew.
Edit(w, t) ==
  /\ page = "open" /\ toConfirm = NoPatch /\ work' = w /\ typed' = t /\ <<w, t>> # <<work, typed>>
  /\ previewDue' = TRUE
  /\ UNCHANGED <<page, problems, loadDue, applying, toConfirm>> /\ StaysOutside

ToggleClient == Edit([work EXCEPT !.client = ~@], typed)
TypeSecret == \E t \in SecretText \cup {""} : Edit(work, t)

\* The button beside the secret: Undo when one is typed, Clear otherwise - and it
\* clears the stored one in both cases.
UndoSecret ==
  (work.marker \/ typed # NotTyped) /\ Edit([work EXCEPT !.marker = FALSE], NotTyped)

Discard == Dirty /\ ~applying /\ Edit(Current, NotTyped)
ResetDefaults == ~applying /\ Edit([client |-> FALSE, marker |-> FALSE], NotTyped)

\* params:preview, 350 ms after the last change.
PreviewBack ==
  /\ previewDue /\ previewDue' = FALSE /\ problems' = Errors(PatchOf)
  /\ UNCHANGED <<page, work, typed, loadDue, applying, toConfirm>> /\ StaysOutside

ConfirmApply ==
  /\ page = "open" /\ toConfirm = NoPatch /\ Dirty /\ ~applying /\ ~problems /\ toConfirm' = PatchOf
  /\ UNCHANGED <<page, work, typed, problems, previewDue, loadDue, applying>> /\ StaysOutside

CancelApply ==
  /\ toConfirm # NoPatch /\ toConfirm' = NoPatch
  /\ UNCHANGED <<page, work, typed, problems, previewDue, loadDue, applying>> /\ StaysOutside

ApplyRefused ==
  /\ toConfirm # NoPatch /\ Refused(toConfirm) /\ toConfirm' = NoPatch
  /\ problems' = Errors(toConfirm)
  /\ UNCHANGED <<page, work, typed, previewDue, loadDue, applying>> /\ StaysOutside

\* params:apply, and the page asks for what is saved.
Apply ==
  /\ toConfirm # NoPatch /\ ~Refused(toConfirm) /\ toConfirm' = NoPatch
  /\ secretFile' = SecretOf(toConfirm) /\ settings' = SettingsOf(toConfirm) /\ Restarts
  /\ cutShort' = IF cutShort = "delete" /\ toConfirm.secret = "keep" THEN cutShort ELSE ""
  /\ applying' = TRUE /\ loadDue' = TRUE
  /\ UNCHANGED <<jar, page, work, typed, problems, previewDue, starting, runs, attached, mishaps>>

CutShort(p) ==
  cutShort' = CASE p.secret = "clear" -> "delete" [] p.secret = "keep" -> cutShort [] OTHER -> "set"

\* The second write fails: the page shows the reason.
ApplyFails ==
  /\ toConfirm # NoPatch /\ ~Refused(toConfirm) /\ toConfirm' = NoPatch
  /\ mishaps < MaxMishaps /\ mishaps' = mishaps + 1
  /\ FirstWrite(toConfirm) /\ CutShort(toConfirm)
  /\ UNCHANGED <<jar, page, work, typed, problems, previewDue, loadDue, applying, nodeRun>>

\* The app dies, with its node or without it, and is launched again.
Relaunched ==
  /\ mishaps < MaxMishaps /\ mishaps' = mishaps + 1
  /\ page' = "closed" /\ typed' = NotTyped /\ problems' = FALSE /\ previewDue' = FALSE
  /\ loadDue' = FALSE /\ applying' = FALSE /\ toConfirm' = NoPatch
  /\ restarting' = [r \in RestartCall |-> "no"] /\ starting' = TRUE /\ runs' \in {runs, Down}
  /\ attached' = FALSE
  /\ UNCHANGED <<jar, work>>

\* It dies at any time, or between the two writes.
AppIsKilled ==
  \/ Relaunched /\ UNCHANGED <<settings, secretFile, cutShort>>
  \/ /\ toConfirm # NoPatch /\ ~Refused(toConfirm) /\ Relaunched
     /\ FirstWrite(toConfirm) /\ CutShort(toConfirm)

StartupNext ==
  \/ OpenPage \/ ClosePage \/ PageLoaded \/ PreviewBack
  \/ ToggleClient \/ TypeSecret \/ UndoSecret \/ Discard \/ ResetDefaults
  \/ ConfirmApply \/ CancelApply \/ ApplyRefused \/ Apply \/ ApplyFails
  \/ SetContribute \/ NodeComes \/ AppIsKilled
  \/ \E r \in RestartCall : RestartStops(r) \/ RestartStarts(r) \/ RestartEnds(r)

StartupSpec == StartupInit /\ [][StartupNext]_startupVars

-----------------------------------------------------------------------------
\* startup.js:5-7, 86-88: no patch that is saved leaves the node both a client and a contributor, although
\* the errors that the page shows are older than the edit, the switch may be thrown after them, and the
\* switch may have saved the two before: only the switch of the Network page, which validates nothing
\* (node-manager.js:498-502), ever brings them together.
NothingRefusedSaved ==
  [][settings' # settings /\ settings'.client /\ settings'.contribute
       => settings'.contribute # settings.contribute]_startupVars

\* startup.js:111, config.js:26 "typed: a `true` marker": a marker has its secret,
\* whatever fails or dies while they are written - except when a secret is deleted.
MarkerHasSecret == settings.marker => secretFile # "" \/ cutShort = "delete"

\* main.js:333-334: once the restarts are over the node runs with what was saved last,
\* however applies, the contribute switch and their restarts overlap - unless it was
\* adopted or a save was cut short.
RunsWhatWasSaved ==
  (\A r \in RestartCall : restarting[r] = "no") /\ ~starting /\ runs # Down /\ ~attached /\ cutShort = ""
    => runs = CommandLine
================================================================================
