------------------------------ MODULE MCSettings ------------------------------
(***************************************************************************)
(* The instance, for TLC, of the carry-over of key uses under the faults    *)
(* that strike before a node sharing the wallet was started, with the pages *)
(* that lead to it or follow from it: the card that switches the node, the  *)
(* Parlons account and its panel, the import of the classic node's contacts *)
(* and dapps, the network settings and the dapps that are provisioned.      *)
(*                                                                         *)
(* Each module has its own copy of what it needs of the node; a behaviour   *)
(* is one of one part, `part`, while the others keep their first state.     *)
(***************************************************************************)
EXTENDS MCCarryOver, KindPage, Account, Imports, Network, Provision

VARIABLE part

settingsVars == <<vars, kindVars, accountVars, importVars, netVars, provisionVars, part>>

SettingsInit ==
  /\ part \in {"carry", "kind", "account", "imports", "network", "provision"}
  /\ Init /\ (part # "carry" => kind = "minima" /\ \A k \in Kind : wallet[k] = "none")
  /\ KindInit /\ (part # "kind" => runsKind = "minima" /\ newestHome = 0 /\ ~barred)
  /\ AccountInit /\ (part # "account" => ticketFile = "none")
  /\ ImportsInit /\ (part # "imports" => ~accepts)
  /\ NetworkInit /\ (part # "network" => actual.relay = NoConfig.relay)
  /\ ProvisionInit /\ (part # "provision" => dapps = [c \in Copy |-> NoDapp] /\ shipped = "all")

\* A page may come to rest, the node that runs may not.
SettingsNext ==
  \/ /\ part = "carry" /\ Next
     /\ UNCHANGED <<kindVars, accountVars, importVars, netVars, provisionVars, part>>
  \/ /\ part = "kind" /\ KindNext
     /\ UNCHANGED <<vars, accountVars, importVars, netVars, provisionVars, part>>
  \/ /\ part = "account" /\ AccountNext
     /\ UNCHANGED <<vars, kindVars, importVars, netVars, provisionVars, part>>
  \/ /\ part = "imports" /\ ImportsNext
     /\ UNCHANGED <<vars, kindVars, accountVars, netVars, provisionVars, part>>
  \/ /\ part = "network" /\ NetworkNext
     /\ UNCHANGED <<vars, kindVars, accountVars, importVars, provisionVars, part>>
  \/ /\ part = "provision" /\ ProvisionNext
     /\ UNCHANGED <<vars, kindVars, accountVars, importVars, netVars, part>>
  \/ part # "carry" /\ UNCHANGED settingsVars

\* Of the part that runs, what was begun goes on, since every RPC and every wait of the main
\* process has a timeout and what it says is shown; and the intervals tick. Of the carry-over
\* nothing is claimed here that would need it.
SettingsFairness ==
  /\ WF_kindVars(part = "kind" /\ (\/ StatusArrives \/ SetKind \/ SetKindBack
                                   \/ ReadsLeft \/ SetAside \/ StartOther \/ WaitOver
                                   \/ \E q \in HomeAsk : ReadHome(q) \/ HomeShown(q)))
  /\ WF_accountVars(part = "account" /\ Pull)
  /\ WF_accountVars(part = "account" /\ (LinkBack \/ LinkRetry \/ GuestLoads))
  /\ WF_importVars(part = "imports" /\ (\/ \E l \in ListLoad : ClassicListRead(l) \/ ListBack(l)
                                        \/ \E r \in ImportRun : ImportBack(r)
                                        \/ \E r \in ImportRun, e \in ImportEntry : ImportRow(r, e)))
  /\ WF_netVars(part = "network" /\ (PollMaxima \/ InfoBack \/ HostsBack))
  /\ WF_netVars(part = "network" /\ \E c \in PageCall : Replied(c) \/ Refreshed(c))
  /\ WF_provisionVars(part = "provision" /\ PollProvisions)
  /\ WF_provisionVars(part = "provision" /\
       (\/ MdsComesUp
        \/ \E r \in ProvRun : \/ RunEnds(r) \/ RunThrew(r) \/ listInstalled(r) \/ installOrUpdateNew(r)
                              \/ installOrUpdate(r) \/ ensureWrite(r) \/ readCatalog(r) \/ catalogUpdate(r)))

SettingsSpec == SettingsInit /\ [][SettingsNext]_settingsVars /\ SettingsFairness

\* Every node is provisioned, or given up, in the end: of the behaviours that are its own.
ProvisioningEnded == <>[](part = "provision" => provisionDone)

\* The card that switches the node (main.js:235, MinimaDesk/index.tsx:66-88) never replaces a
\* node that it did not show.
NoSilentSwitch == []KindTypeOK /\ NoSilentReplace

\* Who acts on what it was shown does no harm (parlonsapi.js:54-58, ClassicImports.tsx:40-64,
\* Network/index.tsx:119-143): a call of the Parlons account fails for a reason only, nothing
\* is imported twice that was known to be there, and one call of the network page at a time is
\* under way.
PagesHonest ==
  /\ AccountTypeOK /\ ApiFailsForAReason
  /\ ImportsTypeOK /\ TwiceForAReason
  /\ NetworkTypeOK /\ OneCall

\* The dapps that come with the app (node-manager.js:598-622, provision.js) are provisioned
\* once, and as the app says, over every restart of the node.
Provisioned == ProvisionTypeOK /\ OneCopy /\ DoneMeansInstalled

\* What was begun ends (MinimaDesk/index.tsx:66-88, ParlonsView.tsx:36-57,
\* ClassicImports.tsx:52, :63, Network/index.tsx:93-103, node-manager.js:598-622): the card does
\* not stay disabled, the panel is shown, imports end, the permanent address shown becomes the
\* true one, and the dapps are in place or given up.
SettingsSettle == ButtonComesBack /\ PanelShown /\ ImportsEnd /\ AnchorSettles /\ ProvisioningEnded
================================================================================
