# minimaDesk: TLA+ models, checks and proofs

minimaDesk is a desktop app (Electron) that runs a Minima node and shows the
MiniDapps installed on it as tabs. Its core is a set of long-lived
asynchronous flows in one event loop: it spawns, adopts, stops and restarts a
java process, moves a wallet of one-time signing keys between two kinds of
node, keeps a router mapping alive, and, in a sidecar process, sends and
receives end-to-end sealed messages. Most of what can go wrong there lies
between two awaits, between two launches of the app, or between two machines,
where a unit test hardly looks.

The models translate the code under `src/` (paths below are relative to the
repository root unless they begin with `main/`, `keets/` or `shell/`, short for
`src/main/`, `src/resources/keets-sidecar/` and `src/renderer/src/shell/`).
`PROJECT.json` names the source lines of every definition, the TLC runs, a
mutation of the code that breaks each property, the hazards, and the theorems.

## 1. The system

| part | source | state it keeps | operations | what is hard |
|---|---|---|---|---|
| Key-use carry-over | `main/carryover.js` | flow state, `running`; in config.json `nodeKind`, `keyUses`, `keyUsesPending`, `parlonsCarried`; the two data folders | `start` (switch), `retryRaise`, `cancel` | some forty awaits, any of which may fail or be the last one before the app dies; what one switch leaves behind decides what the next may do |
| Node process manager | `main/node-manager.js` | `state`, `proc`, `adopted`, intent, timers, `node.pid` | `start`, `stop`, `restart`, `killNow`, health poll, exit handler | calls from independent controls interleave at every await; processes outlive the app |
| Startup parameters | `main/startup.js`, `params.js`, `config.js`, the page `StartupParams` | `params`, `basePort`, `dataFolder` in config.json, a file per secret, the page's edits | validate, apply, contribute | two controls restart the same node; a new port moves every command at once |
| Router port mapping | `main/portmap.js` | `enabled`, `gen`, `client`, timers, status | `start`, `stop`, `cycle`, watchdog, `routerModel` | start and stop do not wait for one another; the library's promises may never settle |
| Maxima relay | `main/node-manager.js`, `main/relays.js` | in config.json `maximaRelay`, `mls`; `healChain`; the node's connections and its static MLS | `healMaxima`, `setMaximaRelay`, `setMls` | the settings change while a heal is on its way; connections come up late |
| Network page | `Settings/Network/index.tsx` | three copies of settings and Maxima's state, `busy`, a modal | contribute, relay, MLS, anchor | the copies are of three moments |
| Keets messages | `keets/messages.js`, `wire.js` | inbox on disk, timers, `suspended`, the live stream; the bytes read so far | `send`, `handleConn`, `fetchMail`, `subscribeLoop`, `suspend`, `resume`, `ackMessage`; `frameReader` | the direct dial races the mailboxes; connections break between store and answer, hand-over and ack, and are cut anywhere |
| Keets mailbox | `keets/mailbox.js` | mail per recipient, subscribers, per connection the claimed and the proven key | `store`, `fetch`, `proof`, `ack`, sweep | one connection claims several keys; acks of one session delete what another hands over |
| Keets media | `keets/media.js`, `media-read.js` | shared Corestore, drives, pins; private transfers with a queue and a file | open, own, publish, fetch, share, stop, close | the store is reopened under calls that use it; the queue outlives the calls |
| Keets bridge | `keets/index.js`, `worklet-lifecycle.js`, `diag.js` | link counts, the identity | accept, peek, route, suspend, exit | links that die early; caps that only close events lower |
| Keets loopback API | `keets/api.js` | none | one HTTP handler per call of messages and media | - |
| Dapp provisioning | `main/provision.js`, `versions.js`, the health poll | the list it has read; `provisionBusy`, `provisionDone` | install, update, grant | runs of an earlier node are still on their way |
| Updater | `main/updater.js` | one shared status | `check`, `download` | a check while a download awaits |
| Parlons account and panel | `main/parlonsapi.js`, `parlons.js`, `ParlonsView.tsx` | cookie; the panel a tab has loaded | sign in, call, link | one one-time ticket, three readers |
| Imports | `main/contactsimport.js`, `dappimport.js`, `ClassicImports.tsx` | what is ticked, results | list, import | some entries fail, some answers are lost |
| Node card | `Settings/MinimaDesk/index.tsx`, `main.js` | copies of the status and of what folder 1.1 holds | press, cancel | old copies decide what is replaced |
| Icon cache | `main/iconcache.js`, `shell/useIcon.ts` | two maps | get, put, evict | a fetch under way while the dapp is updated |
| Shell | `shell/ShellContext.tsx`, `Stage/`, `TitleBar/`, `PendingPrompt.tsx` | dapp list, session ids, tabs, pending prompt, webviews | refresh, open, decide, snooze, install | stale replies, rotated session ids |
| Hub | `src/renderer/src/hub/` | list, forms, Maxima name, peers | refresh, install, update, delete, introduction | replies that overtake each other, timers that overlap |
| RPC client | `main/rpc.js`, `net.js` | none | one request | a write takes effect although its answer is lost |
| IPC and windows | `main/main.js`, `preload.js` | windows, quit flag | handlers, quit sequence | the quit waits for the node |
| Settings on disk | `main/config.js`, `prefs.js` | config.json | load, save (rename) | saved at the right step of a flow |

How they interact. The user's controls reach `main.js` over IPC; its handlers
call the node manager and the carry-over. The carry-over drives the node
manager (stop, start) and talks to the node by RPC. The node manager starts and
stops the router mapping and the sidecar, heals the relay and provisions dapps
from its health poll. The sidecar's bridge routes accepted links to messages and
media; the loopback API calls the same functions. The shell polls the node's
dapp list and opens tabs with its session ids.

What makes each part correct, in a sentence: the carry-over never lets a key
slot be signed with twice; the manager never has two nodes on one folder and
never says what is not so; the mapper loses no client, forgets no wanted
mapping and leaves none behind; the messages lose nothing that was reported as
delivered; the relay attaches what was set last; media serves nothing of a store
that was closed; the bridge counts what is open; provisioning marks the node it
ran on; the shell and the hub end up with what the node has, in whatever order
its replies come; the pages act on what they showed. `hazards` in PROJECT.json
lists where each of these can go wrong, line by line.

## 2. Modules

| module | contents |
|---|---|
| `CarryOver`, `CarryOverProps` | `carryover.js`: the flow and its properties |
| `OneTimeKeys` | the abstract specification: one wallet of one-time keys; `CarryOverProps` instantiates it with the counters of both nodes |
| `CarryOverProofs` | proofs: types and what holds under all faults; no reuse and refinement |
| `NodeLifecycle`, `NodeProofs` | `node-manager.js`, with `main.js`'s launch and quit, and proofs |
| `Launch`, `Startup` | startup parameters: ports, folders and the node of an earlier launch; the page, secrets and restarts |
| `Provision`, `Versions` | `provision.js` with the health poll; `versions.js` |
| `PortMap`, `RouterModel` | `portmap.js`; its search for the router's name |
| `Relay`, `RelayProofs` | `node-manager.js`: the Maxima relay and its heals, and proofs |
| `Mail`, `MailProofs` | `messages.js` with the mailboxes: sender, mailboxes, recipient, and proofs |
| `Wire`, `Mailbox`, `Bridge` | `wire.js`; `mailbox.js`; `keets/index.js` |
| `Media`, `Transfers`, `MediaRead` | `media.js`: the shared store, private transfers; `media-read.js` |
| `Shell`, `Window` | `ShellContext.tsx`: list, tabs and webviews; tab strip, popover and prompt |
| `Hub`, `Installer`, `Welcome` | the hub's list; its forms; its start, the name and the peers |
| `KindPage`, `Account`, `Imports`, `Network` | the node card; the Parlons panel; imports; the network page |
| `Updater`, `Icons` | `updater.js`; `iconcache.js` and `useIcon.ts` |
| `MCCarryOver`, `MCNodeLifecycle`, `MCRelay` | the small instances TLC checks, each of one module |
| `MCNodes`, `MCSettings`, `MCProcesses`, `MCPorts`, `MCDesk` | instances of several modules at once, see below |
| `SettingsProofs`, `PortsProofs`, `ProcessProofs`, `DeskProofs` | proofs about the specifications of `MCSettings`, `MCPorts`, `MCProcesses` and `MCDesk`, and so about the modules these compose |

In every module an await of the code is a step boundary and the code between two
awaits is one action; `Faults`, a set of named fault classes, says what may go
wrong, so that one run can ask what holds under which faults. A definition named
`Bad...` is a mutation of the one after it: no specification uses it.

Where modules share variables they are one specification (sender, mailboxes and
recipient in `Mail`; node, settings and heals in `Relay`; the node, the app and
its launches in `NodeLifecycle`). The other parts meet in the node only, and
each has its own small copy of what it needs of it (`node` in `Shell`, `dapps` in
`Provision`, `home` in `KindPage`, ...), as free as the node is. Such parts share
a TLC run: a composed module `MCx` has a variable `part` and behaves as one of its
parts while the others keep their first state, so that the run checks every part
in full without the product of their states. `MCNodes` has the carry-over and the
relay, each under every fault; `MCDesk` the window, the messages and the node with
one caller; the rest is described below. Every part has its own fairness
there, conditioned on being the part that runs. The properties of a composed run
are conjunctions of the parts' properties, which the modules name one by one.

### CarryOver

`pc` is the place in `start()` or `retryRaise()`; the flow's locals are
variables; `wallet`, `uses`, `identity` are what is on disk for each node kind;
`carried`, `pending`, `kind` are the fields of config.json. `Start`, `ReadUses`,
`ReadPre`, `Commit` (stop the node, set the old folder aside, write the identity,
save the settings: one step up to the next await, with `CrashInCommit` and
`SetAsideFails` for the places in it where it can be cut), `Resync`,
`SelfRestart`, `Verify`, `Mirror`, `Raise`, `RaiseCheck` follow the code in
order; `GiveUp` is the catch, `Cancel` unsets `running`, and `Sign` is any
signature by the node that is up. History variables: `spent` (slots signed
with), `reused`.

| run | states | what it shows |
|---|---|---|
| `carry_safe` | 1,022,184 with the other parts of `MCSettings` | every sequence of three switches, retries and signatures, with the failures that strike before a node sharing the wallet has been started (`Benign`): no slot is reused, a node that is up may sign, and the two nodes refine `OneTimeKeys` |
| `carry_faults` | 1,747,237 with the relay | all nine fault classes, crashes and cancels included: `parlonsCarried` never vouches for another seed; a switch that reports success covers the node it left; a failed raise leaves `keyUsesPending` naming it; every switch ends |
| `carry_debt_unnamed` | violation | finding A |
| `carry_slot_reused` | violation | finding B |

Bounds: two keys (the code only ever takes a maximum and compares all; one
above and one below is what can differ), a margin of 2 where
the code has 100 (`KEYUSES_MARGIN`), signatures at slots below 5 (4 in `carry_faults`, 6 and 8 in the violations), three switches: forth, back, and forth again over what
the first two left behind. No property rests on the margin being large; the
theorems hold for any. Fairness: weak, on the steps of the flow (`FlowStep`):
every wait in it has a deadline and every RPC a timeout.

### NodeLifecycle

Processes are ids with a life (`boot`, `up`, `closing`, `termed`); `pidfile` and
`nodeKind` outlive the app. `state`, `proc`, `adopted` are NodeManager's fields.
Each IPC call is a client with its own `pc`; `boot` is the place in `_start()`,
shared through `startPromise`. What a resolved promise wakes up runs before the
next timer or event, hence the distinction between `Microtasks` and `Awaits`.
The exit handler, the self-restart timer, the health poll, the two signal timers
of a stop, `killNow`, the quit of `main.js` and the next `Launch` are actions.

| run | states | what it shows |
|---|---|---|
| `desk` | (with the other parts of `MCDesk`) | one call at a time, nodes that exit, restart, are killed, and foreign programs on the port: 'stopped' is only said of a stopped node; every death is noticed; every call ends |
| `node_overlap` | 1,980,108 | (with the parts of `MCProcesses`) two calls that interleave at every await: never two nodes on the one folder, and the node runs the configured kind (`OneConfiguredNode`). One call at a time under all nine fault classes (`Faulty`): a planned exit is never reported as a crash. In both: a node is owned or adopted, never both |
| `node_planned_stop` | violation | finding C |

Bounds: two processes (the one there and the one a mistake would add), two
calls, one self-restart, two misses before an adopted node is given up; ids are
reused, so nothing bounds the number of starts, stops and launches. Fairness
(`desk`, part "node"): weak, on starts, nodes, the health poll and the signal timers together;
strong, on the steps of the call. The event
loop's queue keeps what is due, so a call that can go on again and again does so in the end,
even while other steps disable it for a moment.

Limits found while choosing the instances, each with a TLC run of its own: with
two overlapping calls `HonestStopped` is false, as the second stop of an adopted
node polls until its 25 s are over while a restart has already spawned another
one; `OneNode` and `RunsConfiguredKind` are false with `deaf`, `stuck`,
`slowClose` or `quitTwice`, as `killNow` unlinks the pidfile of a node that goes
on living, so these faults are left out of `node_overlap` (`Contained`);
`OwnedOrAdopted` also holds for two calls under all faults (8.4 million states,
too long for a regular run); `OpsEnd` needs one call at a time, as a second stop
can wait with both of its signals already spent on an earlier child. `killNow`
signals only a node that is owned, so an adopted one that refuses RPC while it
closes its databases (`slowClose`) can outlive the app; the next launch reclaims it.
A spawn and the pidfile it writes are one step, there being no await between them: what a death
of the app in that instant leaves is not modelled.

### PortMap

`gen` names the current run of `cycle()`; a run is a slot that is used again.
`Start`, `Stop`, and per run: teardown, import, the external address, the
mapping, the retry and the watchdog; each step either finds itself `Overtaken`
or goes on. The router's side (`router`, `holds`) and the library's `destroy`,
which may outlive its 3 s timeout, are external actions.

`portmap_safe` (867,792 states with the parts of `MCPorts`; three runs, two stops,
all faults) shows: an open
client is the one the next stop destroys; a wanted mapping is always being
sought, retried or watched and an unwanted one has no timer; a stop is final;
the status is what the router does as long as the router unmaps before it does
anything else (`late`); an 'off' written over a newer start passes. Three runs
are one current, one overtaken and one overtaken before it. Fairness: weak; every
await of the cycle is wrapped in `withTimeout` and every timer fires.
Not modelled: the reboot of the router and the renewal of a lease, both inside
the library.

### Mail

`direct` and `via` are the two halves of `send()`, `at` and `left` the loop over
mailboxes; `mail` is what each mailbox stores for the recipient; the sessions of
the recipient are its polls and the live subscription `Sub`, with `down` and
`acks` for frames under way in either direction; `timer`, `suspended` are the
poll timer and the suspension. `kept` remembers which messages have ever been in
the inbox. `Restart` is the death of the sidecar at any step.

The part "mail" of run `desk` shows that what `send()` reported as delivered has
been in the inbox or is in a mailbox; that nobody sleeps through a `resume()`;
and that it reaches the inbox in the end. Bounds: one message, since messages do
not touch each other (but for the caps, and `full` stands for those); two
mailboxes, the primary one with push and another without; one poll at a time
beside the subscription (two exceed five minutes; the theorems hold for any
number); one restart. Fairness: weak on `Resume`, and on the poll timer and the end of a
poll together (the app is not suspended for ever; a session that is lost ends); strong,
on a poll reaching a mailbox that holds mail, and on its answer arriving: a mailbox that
is tried again and again answers in the end, for long enough to hand over a message. Without
that a message waits for ever at a mailbox that nobody reaches.

An inbox counts a message once, whatever way it came: by mailbox it is there under another id than
directly, so that the code may hold it twice (section 7).

Abstractions: signatures, sealing and challenges succeed; both sides are
configured with the same mailboxes; mail is not swept (30 days); mailboxes all
support push; frames may still arrive while suspended, as `swarm.suspend()` is
asynchronous. With the fault `disk` (the inbox cannot be written) `NoMailLost`
is false: the ack is sent all the same (`keets/messages.js:234`). The run and the
theorem leave it out.

### Relay

Settings (`relay`, `mode`), the node (`to`, `up`: where its connections go and
which are up; `pin`: its static MLS) and the calls. `setMaximaRelay`, `setMls` and
`healMaxima` are a call's first step (`SetRelay`, `SetMls`, `AskHeal`); then every
RPC is a step of its own. `after` is `healChain`: the heals a call waits for.
`rel`, `mls`, `drop`, `seen` are the locals of a call: what the heal read of the
settings when its turn came, the connections it will cut, the pin it saw.

| run | states | what it shows |
|---|---|---|
| `carry_faults` | (with the carry-over, `MCNodes`) | heals never overlap; once all calls have ended and nothing failed, the node has exactly one connection to the relay that was set last and is pinned as `mls` says; after any fault some later heal gets it there |
| `relay_two` | violation | finding D |

Bounds: two calls at once, two relays, three connections (one per relay and a
duplicate), two changes of a setting, one fault; the timer asks for heals without
bound. A dial needs a free connection. Fairness (`NodesFairness`): weak, on each call, on the
timer, and on each connection that comes up; every RPC has a timeout, the timer
keeps firing, and a dial ends. `FollowsSettings`, and the theorem about it, is of behaviours where
nothing has failed; what a fault leaves is the matter of `Settles`. Left out: the other node kind, which sets its own
relay; the health poll that starts and stops the timer; a second custom MLS; what
a refresh tells the contacts. In mode "host" a heal does not look at the pin, and
one that was under way may set it again after `setMls` cleared it: `Follows` asks
nothing of the pin there.

### The pages and services around the carry-over (run `carry_safe`)

`MCSettings` composes `CarryOver`, under `Benign` faults, with five modules.

- `KindPage`: the card that switches the node. `home` is the node in folder 1.1
  (a number, 0 for none), `newestHome` the last one made; the card (`kindCard`) keeps
  the status that arrived last and the last answer of `parlonsHome`. `ApplyKind` is the press,
  `SetKind` the handler `node:setKind` with its refusals, `ReadsLeft`, `SetAside`,
  `StartOther`, `WaitOver` the switch as far as the card can tell its steps apart.
- `Account`: the one-time ticket in its file, minted anew when it is used, and the
  three who read it: calls of `parlonsapi.js` (`CallApi`, `SignedIn`, `Posted`),
  the Parlons tab (`Pull`, `LinkBack`, `LinkRetry`, `GuestLoads`) and the link for
  the browser. `NodeStarts`, `AccountComes`, `NodeGoes` are the account itself, whose
  answers may be errors, late (`SignInLost`) or missing.
- `Imports`: one card, what is ticked, the lists and the imports under way, entry
  by entry (`ImportRow`), each of which succeeds, fails, or fails although it took
  effect.
- `Network`: three copies (`info`, `maxima`, `netConfig`) against `actual`; the
  buttons (`Press`), the modal, the polls.
- `Provision`: the health poll's `PollProvisions`, and in each run every RPC of
  `provisionBundledDapps` as a step that works on the list that the run read.
  A run belongs to a start of the node (`healthGen`). `shipped` is what is in the app's folder:
  all, no zip or no manifest, with which a run is "ready" without the dapp (`FirstPlace`,
  `FirstStepFor`); `RunThrew` is the catch of the poll, which does not ask for whom the run was.

| part | property | what it says | bounds |
|---|---|---|---|
| kind | `NoSilentSwitch` | a node in 1.1 goes only by a press on a card that showed one with "Replace it" ticked | two presses, two questions at once, one reopening of the card |
| account | `PagesHonest` | a panel call fails only when the account was down, silent or in error, or another sign-in used its ticket | two calls, two starts of the node, one failed check, one retry of the link (20 in the code: a counter) |
| imports | `PagesHonest` | an entry comes twice only if the user could not know of it when it was ticked | one entry (entries do not touch each other), two imports, two lists, the node comes or goes twice |
| network | `PagesHonest` | one call at a time | two relays, two calls, two turns of the node |
| provision | `Provisioned` | one copy; "done" means that the dapp is there, at the bundle's version and with write permission - unless zip or manifest are missing or, for this node, an RPC failed, a run threw, the app gave up or the user changed the dapp | three uids, two runs at once, two restarts, one RPC that fails, one act of the user |
| all | `SettingsSettle` | the button comes back, the panel is shown unless another's sign-in has spoilt the tab's (finding E), every import ends, the permanent address shown becomes the true one, every node is provisioned or given up | as above |

Fairness: weak, on what was begun: every RPC of the main process has a timeout
(`rpc.js`) and the pages' intervals tick. Nothing that the user does is fair.
The run's symmetry permutes the keys, which no state of these parts holds other than in
the carry-over's first state, where it stays as it is: no liveness property is about a
part that it touches.

### The app's processes (run `node_overlap`)

`MCProcesses` composes two instances of `NodeLifecycle` with seven modules.

- `Launch`: processes with the port and the folder they were given, and the
  settings (`launchSettings`). `ApplyPatch` saves a new port at once;
  `RelaunchTimer` ... `AppLeaves` are the relaunch 300 ms later; `AppDies` may
  strike anywhere; `AppLaunches` reclaims what the pidfile names or adopts what
  answers. Start, stop and reclaim are one step each here: `NodeLifecycle` has them whole.
- `Startup`: the page (what is typed, what it was told, the dialog), `Apply` with
  its order of writes - secret file, then config.json -, `SetContribute`, and the
  restarts that both cause, which overlap. `SetContribute` saves what `validate` would refuse. Two flags stand for the table of `params.js`:
  one that depends on another setting and one that is a secret. The life of the app
  ends anywhere (`AppIsKilled`).
- `Updater`: one status, checks and downloads with their awaits, a feed that moves and whose row
  for this platform is there, old, missing or without a hash (`Row`). `bare` remembers what was saved
  while the status had no hash.
- `Versions`: `compareVersions` over triples of versions.
- `Icons`: the cache of the main process, its eviction, and the tabs' cache. The reply to an update
  evicts; one that is lost, late or not understood (`UpdateLost`) does not.
- `Wire`: the bytes of a connection as cells, in chunks cut anywhere, through the
  peek and `frameReader`, whose loop is a recursive function of passes (`Pass`, `Feed`). A dialer may
  write any length and any body; one that is empty or no JSON throws (`Parses`), as one that is too long.
- `Media`: the store (`corestore`, one per attempt), the drives opened in it, calls
  that have passed `assertOpen`, the replication stream, reopening and close.

| part | property | what it says | bounds |
|---|---|---|---|
| overlap, faults | see NodeLifecycle | | |
| launch, startup | `StartsAsSaved` | unless a node was orphaned, one node for a data folder, over port changes and deaths of the app, and none that answers outlives it; nothing refused is saved but by the contribute switch; a marker has its secret; the node runs with what was saved last | three processes, two ports and folders, two applies, two deaths, two hangs; two restarts at once, one mishap, one secret text, one jar |
| updater, versions, icons, media | `KeptHonest` | the file marked as downloaded is of the announced version and was verified, unless the status had no hash; versions are ordered; a stale icon was on its way during an update, or the reply to one was lost; the media that are served are of the store that is open; a close releases all | two checks, two downloads, three versions of the app; 19 versions of dapps with words, zeros and two-digit numbers; two fetches, two updates; one own drive, one of a peer, two calls, three stores |
| wire | `FramesSound` | what comes out is what came in whole, legal frames only; no dialer of legal frames is cut off | three frames, JSON or junk, of 0..2 cells, or 3, which is too long, lengths of 2, a magic of 3, so that each can be cut in its middle |

All are safety properties, without fairness. The symmetry of the run permutes the processes and the
callers of `NodeLifecycle`; the same two sets name the downloads, and the checks and restarts.
A node is orphaned (`orphaned`) when neither its port nor its folder leads to it any more: an adopted
one by a new port (finding F), or the app's own when the app died with a new port and a new folder
saved and the node not yet stopped. The new port may be one that another program holds.

Two runs of one module each look at what these properties leave out: `node_outlives` (module `Launch`,
one folder, one death of the app, one change) and `update_unverified` (module `Updater`, one check, one
download, rows that are there or missing), and `account_tab_disturbed` likewise at `Account`.

### What faces the network (run `portmap_safe`)

`MCPorts` composes `PortMap` with five modules.

- `RouterModel`: responders that answer the multicast, the descriptions being
  read chunk by chunk, the timer.
- `Bridge`: links that are dialled or accepted, the peek with its timer, both
  counters, the TCP side, the suspension of the swarm, the start with its seed
  file (`DiesWriting`: the process dies while it writes it).
- `Mailbox`: one mailbox, frame by frame: `FetchFrame`, `ProofFrame`, `StoreFrame`,
  `AckFrame`, with the pushes a store causes, both caps, `Sweep` by the hour and `MailboxRestarts`.
- `Transfers`: `isolated` stores, the serial queue of jobs (share, receive, stop),
  what is on disk, `ShutAsked`, `Crash`, `Reboot`.
- `MediaRead`: readers of one path; the peer writes it meanwhile.

| part | property | what it says | bounds |
|---|---|---|---|
| ports | see PortMap | | |
| search, bridge | `LinksAccounted` | a counter is the number of links there are; one identity; only a responder's own description is read and no more than the limit | two responders, two chunks; three links against caps of 2 and 1, two starts |
| mailbox | `MailboxKeeps` | a live subscriber has been handed all its mail; mail goes by the ack of its proven recipient or by age | two recipients, two messages, two connections, caps of 2, a TTL of one hour of two |
| transfers, reads | `MediaAsAsked` | a stop sticks; a close releases all; a reader gets what it asked within the limit and is given up for its own deadline only | two transfers, a limit of 1, three jobs, one write that fails; two readers, two contents of which one is too big |
| ports, search, bridge, reads | `NothingHangs` | an 'off' that was written over a newer start passes; the search ends; no link waits for ever to be routed; every read ends | as above |

Fairness: weak, on timers and on what a timer leads to. No peer is fair: responders, remote
ends and the peer of a read may stay silent for ever.

### The window (run `desk`, 527,667 states)

`MCDesk` composes what the window shows, with `Mail` and one instance of `NodeLifecycle`
(`Single`), described above.

- `Shell`: the node's table (`node`: installed, write permission, version of the session
  id) and the store `sh`: list, tabs, the number of the last request. Each asker of the
  list (poll, open, decision, install, status) asks, and `Answer` is its reply, which
  counts only if nobody asked later (`Counts`). `Attached` and the guest's reload are the webview.
- `Window`: the strip and what is active, the popover, and the prompt with two readers
  of the pending list. Allow and Deny stay live while a decision is on its way: two may overlap.
- `Hub`: the refreshes with the sequence number taken when the reply is there
  (`ListRead`), painted, and painted again with icons.
- `Installer`: both forms, each submit with the file and answer it began with.
- `Welcome`: the boot, the retries of name and address, the alarm about peers.

| part | property | what it says | bounds |
|---|---|---|---|
| shell | `TabsFollowNode` | the list is never rewound; a webview that no reload has missed shows the session of its tab | one dapp with write on opening, one change of the table (so that a grant and a decision do not both rotate a session in one behaviour; the theorem is of any number), one RPC that fails: the askers overlap without a bound |
| window | `PromptHonest` | the active tab is one that is there, and none is there twice; what was put off stays off | two tabs, two requests, one failure |
| hub, installer, welcome | `FormsHonest` | icons that come late bring no old list back; no dapp is replaced without a warning; "added" means peers | two refreshes at once, three tables, one failure; two submits, one dapp to update; two questions, one time that the node goes away |
| all | `DeskSettles` | in the end every tab has the valid session, a dapp that is waited for is opened or given up, the prompt is right, the hub has the node's table unless its last reply failed or was overtaken (which `AppContext.tsx:225` permits, section 7), the spinner goes, name and address settle | as above |

Fairness: weak, on RPCs, timers and intervals. Strong for three steps of the shell's
poll only: its reply must now and then be there before somebody else asks. The window could
otherwise be kept from it by a user who clicks for ever, within every answer's time.

The state counts of the composed runs are of all parts together.

## 3. What is proved

All theorems hold for every value of the constants that satisfies the named
assumption of the module, so for any set of keys or messages and any bound.
`TypeCorrect` (one per family) is the base of the others.

- `CarryOverProofs!NoReuse`, `NoDebt` and `Refinement` assume `Benign`: no fault of
  the classes mirror, verify, raise, cancel or crash. Invariant: `BenignInv` =
  `WalletInv` (whose seeds are where) /\ `SettledInv` (outside a switch the
  configured node covers every slot signed with, and `carried` says exactly whether
  1.1 has the wallet) /\ `LeavingInv` (what was read of the node left bounds its
  counters) /\ `ArrivingInv` (what the node restored or raised already covers).
  Neither `~reused` nor "the node that is up is not in debt" is inductive: a
  switch in progress must know that what it read bounds every slot signed with
  since, and that is the purpose of the last two. `Refinement` then shows that
  every step takes a fresh slot or none.
- `CarryOverProofs!CarriedIsSame`, `FailedRaiseNamed`, `OkCovers` assume nothing of
  the faults. Their invariants are weaker: `CarriedInv` (parlonsCarried and the
  configured kind, and a folder that is kept exists), `NamedInv` (pending is saved
  before anything is sent) and `BoundInv` (what was read bounds the node left).
- `MailProofs!Awake` (any faults): the subscription and the timer follow
  `suspended`; inductive together with the types.
- `MailProofs!NothingLost` assumes that the inbox can be written. Invariant
  `HandedOver`: a direct message that was saved is in `kept`, a stored one is in
  `kept` or in a mailbox, and an ack under way is of a message in `kept`. The last
  part is needed: without it an ack that arrives late could delete the only copy.

- `RelayProofs!OneHealAtATime` (any faults, any number of calls). Invariant
  `QueueInv`: of two heals on their way one waits for the other. `Serialised` alone
  is not inductive, since two queued heals might both be first.
- `RelayProofs!FollowsWhenQuiet` (`FollowsSettings`, for any calls, relays, connections and
  faults). Invariant `HealInv`: `QueueInv`, the types, and, as long as nothing failed, `HealsTidy`:
  a relay has one connection at most; unless another heal is owed, the one that runs goes by
  the settings as they are, and what it has attached and pinned so far is as its place says.
  Of a behaviour in which something has failed the theorem says nothing: there the node may stay
  on an old relay until a later heal, which `Settles` promises and TLC checks.

The pages around the carry-over (`SettingsProofs`, over `SettingsSpec`), without an assumption
beyond the named ones of the modules. `PartSpecs`: a behaviour of `MCSettings` is, for every
module, one of that module's own specification; this also carries the theorems of
`CarryOverProofs` over to the run. Then an invariant per part:

- `SettingsNoSilentSwitch` (`NoSilentSwitch`). `KindInv`: a choice is sent, and kept by the switch, only
  with the node that it was made about (`ChoiceInv`), and a switch that gives 1.1 a new node finds
  the folder empty when it comes to it (`HomeInv`). The property is about the step that empties the
  folder, and says nothing of a press that is on its way; these two do. `Making` counts what the presses
  may still make, which bounds the numbers of the nodes.
- `SettingsProvisioned` (`Provisioned`). `ProvisionInv`: one run is on its way at most, of whatever
  node (`RunInv`), so an install finds what the list said: nothing (`CopyInv`); and what a run of *this*
  node has seen is still so, and is what the place it has reached promises, as long as neither zip nor
  manifest is missing (`shipped`) and in this node's generation nothing failed, nobody gave up and the user
  did nothing (`SeenInv`, `spoiled`); of other generations only that there is one copy is claimed. Neither `OneCopy` nor `DoneMeansInstalled` is inductive:
  a run that installs might have read its list before another one did, and "done" is the last word of a
  run that has read, updated and granted five steps before.
- `SettingsPagesHonest` (`PagesHonest`). `ApiInv`: who signs in with a ticket that is not fresh has been
  overlapped by another sign-in. `ImportsInv`: the card is busy with the import of the page that is
  displayed or with its last list (`BusyInv`); an entry that is still to be added has no result
  yet (`TodoInv`); and an entry that is there, or on its way twice, and may be added again is one of
  which the user could not know - wherever it waits, in a run or ticked (`UnsureInv`, `TickedInv`).
  `NetworkInv`: the call under way is the one that the page is busy with, and no modal was put up
  during one (`CallInv`).

The node process manager (`NodeProofs`), for any processes, calls and limits:

- `OneOwner` (`OwnedOrAdopted`; any faults, any number of overlapping calls). Invariant
  `OwnInv`: while a start is under way there is neither a child nor an adopted node
  (`StartsAlone`), and an app that is gone has forgotten everything (`Forgotten`).
- `OneNodeOfItsKind` (`OneNode`, `RunsConfiguredKind`) assumes `Faults \subseteq Contained`,
  as section 2 explains: under the other faults it is false. Invariant `NodeInv` = `OwnInv` /\
  `Tracked`: the pidfile names the node, whoever it belongs to (`PidfileKnows`); what a start
  reclaims is all there is (`ReclaimsAll`); a node that is neither the app's child nor adopted
  is one of an earlier launch, and the start that will find it goes before every stop. The last
  part is what overlapping calls could break.
- `PlannedStop` (`PlannedStopNotCrash`; any faults) assumes `OneCaller`: finding C shows
  why. Invariant `StopKeeps`: a child that was asked to go has its exit planned.
- `StoppedHonestly` (`HonestStopped`) assumes both. "stopped" is said of no node that runs
  (`StoppedIsGone`), which rests on `NodeInv` and `StopKeeps`.

What faces the network (`PortsProofs`, over `PortsSpec`), without an assumption beyond the
named ones of the modules. Every step is one of one part or leaves it as it is
(`PartsStep`), so `PortsInv` is the conjunction of an invariant per part:

- `PortMapInv` relates `gen`, `client` and the `pc` of each run of `cycle()`: the client is of
  the current run, which has none before its import (`CurrentRun`); without that a run could open
  a second one. `RouterHolds` says for whom the router maps. `PortsLoseNoClient`,
  `PortsMapAsAsked`, `PortsShowHonestly` follow.
- `BridgeInv`: each counter is the cardinality of a set of links, and a link that is not there
  yet has no route, or it would be counted twice. `RouterModelInv` is inductive with the types
  alone. `PortsCountLinks` follows.
- `MailboxInv`: so is what the mailbox has handed to its live subscribers; `PortsKeepMail` adds the
  action property, that mail goes by an ack or by its age.
- `TransfersInv`: only the first job of the queue has begun, and nothing else changes what it has
  seen; the file names as shared what memory does not only after a write that failed, or two
  (`FileFollows`). `MediaReadInv`: a loop is as far as what it asked for. `PortsReadAsAsked` follows.

The app's processes (`ProcessProofs`, over `ProcessSpec`), again with an invariant per part:

- `ProcessesKeepHonest` (`KeptHonest`; no assumption). `UpdaterInv`: what a check, a
  download and the status say of the feed is something that the feed has shown, and their hash, if any,
  is that of the file; what is saved while the status has none is excepted (finding G). `IconsInv`: a
  fetch that is on its way during an update knows it; what is cached is the icon of today, unless one came
  late (`overtaken`) or the reply to an update was lost (`missed`). `VersionsInOrder`: that
  `compareVersions` is an order is shown for versions of any length; the first segment that tells
  two of them apart exists by the least-number principle, proved as `LeastNat`. `MediaInv`: a
  store is left only when it is closed.
- `ProcessesStartAsSaved` (`StartsAsSaved`; no assumption). What it says of the processes it says
  as long as no node was orphaned (section 2; finding F is what happens then), and what is refused is
  saved by the contribute switch only. `LaunchInv`, of the same behaviours: there is one node at most,
  the pidfile names the app's child, and a node on another port than the configured one is to be stopped
  or will be found by its pidfile (`Moved`). `StartupInv`: unless something still has to stop the node,
  it runs with what is saved (`RunsSaved`).
- `ProcessesFrameSoundly` (`FramesSound`; no assumption), for any frames and limits and any cut.
  `WireInv`: what is under way is just what of the cells sent has not come, what the acceptor
  holds is just what of the cells that came it has not read, and no frame of that is whole.
  `FramesExact` alone does not say which cells are held, so nothing would follow from it for
  the next chunk. `FramesStand` says where a frame begins in what is sent, and `PassSound` what a pass
  of the reader takes; `FeedSound` adds that it runs until nothing whole is left, since each pass takes
  a cell at least. That the recursive functions in question exist and go on as they are written
  is shown by induction over sets of numbers (`FromZero`, which follows from `LeastNat`).
- `ProcessesHaveOneOwner`, `ProcessesHaveOneNode`, `ProcessesPlanStops` carry the theorems of
  `NodeProofs` over to the two instances in the run: `Alone` is that module with one
  caller and every fault. They are not stronger than those: they say that the properties
  of the run, as the run states them, are the ones that are proved.

What the window shows (`DeskProofs`, over `DeskSpec`), for any dapps, tabs, requests and bounds,
with an invariant per part:

- `DeskTabsFollow` (`TabsFollowNode`). `ShellInv`: the list is a table that the node had before
  the reply that counts was made, and that reply is one it had before now (`Fresh`); `NoRewind`
  alone says nothing of a reply that is on its way, and it is that one that could rewind the list.
  `ViewsRight` relates the webviews to the tabs while they attach, too.
- `DeskPromptHonest` (`PromptHonest`). `WindowInv`: the lists that the two readers hold are of requests
  that came; closing the active tab shows a neighbour that is there.
- `DeskFormsHonest` (`FormsHonest`). `HubInv`: the refresh that has the last number painted the list
  that is shown, so that its icons belong to it (`NewestPainted`). `WelcomeInv`: until the name is
  set at the node there is one ask or the timer for the next; then there are two asks at most, and a
  timer that is not cleared takes the place of one (`Timers`): so there is one such timer at most.
- `DeskStopsHonestly` (`HonestStopped`) carries `NodeProofs!StoppedHonestly` over to the run's instance
  of the process manager, which has one caller and the faults that the app contains.

Three attempts failed for a reason and changed a property. `VersionsOrdered` was false for
longer versions than the run had (section 7, `versions.js:17`), and `StopSticks` for two writes
that fail (section 7, `media.js:276`). The run now has versions that show the first.
`TwiceForAReason` was false when the node comes and goes twice: an entry that is ticked while
it is on its way from a page that was left stays ticked when the list shows it as there, and
is then imported again knowingly. What the user could not know is now a matter of the moment
of the tick, and the run lets the node come and go twice.

Every invariant and every action property of the passing runs is stated by a theorem. Only
model-checked is the liveness, out of the prover's reach like ENABLED: `SwitchEnds`, `OpsEnd`,
`DeathNoticed`, `NothingHangs`, `MailArrives`, `Settles`, `DeskSettles` and `SettingsSettle`.

## 4. Findings

- A (`carry_debt_unnamed`, `main/carryover.js:339`): a wait that fails before the
  mirror leaves the node running with counters too low and nothing in
  `keyUsesPending`, which `carryover.js:23-25` promises.
- B (`carry_slot_reused`, `main/carryover.js:377`): a verification that fails after
  the restore, then Retry: the nodes share the wallet, `parlonsCarried` does not
  say so, the next switches mirror nothing, and a slot is signed with twice.
- C (`node_planned_stop`, `main/node-manager.js:431`): with two overlapping
  restarts the signals of the later stop reach the new child, whose exit is
  reported as a crash; `node-manager.js:17-18` says a planned stop never is.
- D (`relay_two`, `main/node-manager.js:706`): a heal that read the setting before
  it changed dials the old relay after its connections were cut, and nothing cuts
  that one; `node-manager.js:515` says that attaching to two relays delivers
  Maxima twice, which the cut is there to prevent.
- E (`account_tab_disturbed`, `main/parlonsapi.js:46`): a call of the panel API that reads the ticket
  the tab was linked with, and is the first to use it, leaves the tab refused;
  `parlonsapi.js:6-7` says that the tab's own sign-in is not disturbed. The next ticket, minted at
  once, does not reach the tab before the user presses Reload or the account restarts.
- F (`node_outlives`, `main/main.js:343`): with a new port saved, the stop of an adopted node asks
  on the new port, takes the refusal for a node that is gone, and the app leaves it running;
  `main.js:472` says that the node must never outlive the app.
- G (`update_unverified`, `main/updater.js:81`): a check that finds no row for this platform while
  a download is under way empties the hash, and the download is saved without being verified;
  `README.md:70-71` says that a download is verified.

## 5. What is not modelled

- The loopback API (`keets/api.js`): stateless; each handler is one call of an
  operation of `Mail`, `Media` or `Transfers`, and the rest is HTTP.
- `main/parlons-calls.js`: the notification of a ringing call.
- The rest of the user interface: folders, sorting, themes, block list, wallet
  views, the heap slider. It shows what the modules above keep and has no state
  that outlives a component.
- The log ring and the status text of the node manager, the handling of windows,
  certificates and permissions by Electron, the counters `keets/diag.js` prints.
- Conversions whose text is their content: the table of `params.js`, the parsing
  of feeds, contacts and zip files. Where a decision hangs on one (`dapp.conf` in
  `Installer`, versions in `Versions`), the decision is modelled.
- RPC and network framing of the main process: seen through their callers as calls
  that answer, fail, or fail although they took effect. That of the sidecar is `Wire`.
- Build and test tooling; the vendored code.

Sealing, signatures and hashes succeed or not as a whole; a chunk of media is
not told apart from another one. The map covers about three tenths of the
implementation's lines; the largest part of what is left is layout, text and
I/O in the renderer.

## 6. Plan

1. Done: the carry-over with its abstract specification and proofs, the node
   manager, the port mapping, messages and relay with proofs; then the modules of
   the five composed runs.
2. Done: the proofs of section 3.

## 7. Observed while modelling

Places where the code does less than one might expect, and where a property had to say
"unless". They are what a reviewer should look at first. Some of them contradict a comment
or a document, which is then named; section 4 has those that a run shows.

Node and settings
- `node-manager.js:492`: `killNow` unlinks the pidfile of an adopted node too, which it
  does not kill; the next launch has only the port to find it by.
- `node-manager.js:541`: in mode "host" a heal that is under way may set the pin that
  `setMls` has just cleared; no later heal looks at it.
- `node-manager.js:347`: of two overlapping restarts the start of one may be abandoned for
  the other's; the node that runs is then the other's.
- A new port and a new folder saved together, and the death of the app before the node is stopped,
  leave a node that the next launch neither names by its pidfile nor finds on its port (`orphaned`);
  after a change back there are two nodes on a folder. Adoption compares neither folder nor arguments.
- `node-manager.js:498-502`: the contribute switch saves what `validate` would refuse, so that a node
  may be started with `-server` and `-isclient` together: `node-manager.js:253-254` says never, and
  `SPEC.md:100` that they are refused (`NothingRefusedSaved` excepts the switch).
- `node-manager.js:621`: a provisioning run that throws sets `provisionDone` without `live()`, so that an
  old node's run may end the provisioning of a new one.
- `startup.js:72`: a secret that is typed and erased again is sent as "" and clears the one
  that was stored. Secrets are written before config.json, so a failure in between leaves a
  new secret under old settings (`cutShort`).
- `config.js:114`: a secret that cannot be decrypted is read as text.
- `carryover.js:387`: `cancel` clears `running` at once, while the flow ends at its next
  wait. Only the `disabled` of the page's buttons (`MinimaDesk/index.tsx:211`, `:167`) keeps a
  second flow from beginning in between, and `CarryOver!Start` relies on it.
- `updater.js:68`, `:81`: a row without a hash is taken like one with, and its file is saved
  unverified, without any overlap: `bare` stands for both (finding G). `updater.js:51`: the timeout is one
  of inactivity. `updater.js:68`: `downloaded` is
  kept by the version, not by the file that the feed names for it.
- `versions.js:17`: a missing segment equals the number 0 and outranks every word, while a
  word outranks every number; so the order is not transitive over versions with numbers at
  different places: 1-b.0 equals 1-b, which is newer than 1-b.c, which is newer than 1-b.0.
  `VersionsOrdered` is restricted to versions with numbers at the same places (`Aligned`).
- `main.js:286`: an icon under way while its dapp is updated is cached after the eviction;
  `useIcon.ts:22` has no eviction at all. `main.js:286-291`, `provision.js:82-86`: an update that took
  effect but whose reply was lost or not understood evicts nothing, and the old icon stays.
- `provision.js:99`: everything a run does rests on the list it read first. An RPC that
  failed although it took effect is repaired by the next run only.

Sidecar
- `messages.js:234`: a message that could not be saved is acknowledged all the same.
- `messages.js:171`, `:230`: by mailbox and directly a message has two ids, so an inbox may
  hold it twice; `messages.js:187-188` says that both apps dedupe by message id, so that a message
  that arrives twice is stored once. The other app is not in the repository.
- `messages.js:146-147` says that there is no live subscription while suspended: one that is being
  dialled during `suspend()` may come up afterwards. `NobodySleeps` asks only that there is no timer then.
- `media.js:276-303`: a stop sticks unless two writes of private-transfers.json fail: the
  write of a stop and then the one of `forgetPrivate`, which has taken the record from memory by then.
  The next stop finds no record and answers that nothing is shared, while the file says
  otherwise; after a crash the transfer is shared again. `StopSticks` allows one failure.
- `media.js:115`: `pins.json` is written in place; one that is cut short is read as none.

Pages and panel
- `parlonsapi.js:55`: two sign-ins at once read one ticket, and the one that comes second fails;
  the tab's sign-in (finding E) and the browser's use the same.
- `ClassicImports.tsx:50`, `:61`: an import that fails as a whole unticks everything; list
  replies have no sequence number. `dappimport.js:98`: two imports at once share the path
  of the zip.
- `Network/index.tsx:131`: the modal runs the `run` of the render that opened it.
- `MinimaDesk/index.tsx:70`: `existingChoice` outlives the answer it was chosen for.
  `:261`: "Restart node" is not disabled during a carry-over.
- `UpdateMiniDapp:55`, `InstallMiniDapp:73`: the form may show another file by the time the
  check is over; what was submitted is what is installed.
- `AppContext.tsx:225`: the sequence number is taken after the reply is there, so a reply that
  was overtaken on its way paints over a newer list (`excused`); `AppContext.tsx:27` says of the icons,
  which come after, that an older list never overwrites a newer one. A failed list is not asked for again.
- `AppContext.tsx:410`: `reject` does not end the function, which goes on to the peers of a
  reply that has none.
- `ShellContext.tsx:168`: reads of the pending list have no sequence number; the next
  poll repairs what an old one shows. `DappWebview.tsx:24`: a reload of a tab while its
  webview attaches is lost until its session changes again.
