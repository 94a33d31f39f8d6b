-------------------------------- MODULE Imports --------------------------------
(***************************************************************************)
(* The two cards that bring the classic node's contacts and MiniDapps into  *)
(* the Parlons Node (ClassicImports.tsx) and the imports in the main        *)
(* process (main/contactsimport.js, main/dappimport.js). Both cards have    *)
(* the same control, and one of them is modelled: an entry is a contact or  *)
(* a dapp, `copies` how many times it is at the Parlons Node.               *)
(*                                                                         *)
(* The account and the node are external: a call to them succeeds, fails,   *)
(* or fails although it took effect.                                        *)
(***************************************************************************)
EXTENDS FiniteSets, Integers

CONSTANTS
  ImportEntry,          \* what the classic node has
  ImportRun,      \* imports that may be under way at once
  ListLoad,       \* list requests that may be under way at once
  MaxImports,     \* bound: imports
  MaxUps          \* bound: times the node comes or goes

ASSUME ImportsAssumption == IsFiniteSet(ImportEntry) /\ MaxImports \in Nat /\ MaxUps \in Nat

VARIABLES
  accepts, ups,         \* accountReady / nodeRunning; history
  copies,               \* of each entry, at the Parlons Node
  cardOpen, rows, pick, \* the card: displayed, what its list says, what is ticked
  cardBusy,             \* busyC / busyD
  importRun, listLoad,  \* what the main process has under way
  imports,              \* history
  unsure                \* history: entries that the user could not know to be there

cardVars == <<cardOpen, rows, pick, cardBusy>>
importVars == <<accepts, ups, copies, cardVars, importRun, listLoad, imports, unsure>>

NoRows == << >>
NoImport == [todo |-> {}, asked |-> {}, failed |-> {}, answers |-> FALSE]
Import == [todo : SUBSET ImportEntry, asked : SUBSET ImportEntry, failed : SUBSET ImportEntry, answers : BOOLEAN]
NoLoad == [at |-> "idle", there |-> {}, last |-> FALSE]
Load == [at : {"idle", "asked", "read"}, there : SUBSET ImportEntry, last : BOOLEAN]

ImportsTypeOK ==
  /\ accepts \in BOOLEAN /\ ups \in 0..MaxUps /\ copies \in [ImportEntry -> 0..2]
  /\ cardOpen \in BOOLEAN /\ rows \in {NoRows} \cup {<<s>> : s \in SUBSET ImportEntry}
  /\ pick \subseteq ImportEntry /\ cardBusy \in BOOLEAN
  /\ importRun \in [ImportRun -> Import] /\ listLoad \in [ListLoad -> Load]
  /\ imports \in 0..MaxImports /\ unsure \subseteq ImportEntry

ImportsInit ==
  /\ accepts \in BOOLEAN /\ ups = 0 /\ copies = [e \in ImportEntry |-> 0]
  /\ cardOpen = FALSE /\ rows = NoRows /\ pick = {} /\ cardBusy = FALSE
  /\ importRun = [r \in ImportRun |-> NoImport] /\ listLoad = [l \in ListLoad |-> NoLoad]
  /\ imports = 0 /\ unsure = {}

-----------------------------------------------------------------------------

There == {e \in ImportEntry : copies[e] > 0}

\* The list that is shown says which entries are there already.
Importable == ImportEntry \ rows[1]
ListShown == cardOpen /\ rows # NoRows

\* loadContacts(), loadDapps(): from the effect, or the last thing of an import.
Loads(last) ==
  \E l \in ListLoad :
    /\ listLoad[l].at = "idle"
    /\ listLoad' = [listLoad EXCEPT ![l] = [at |-> "asked", there |-> {}, last |-> last]]

\* What an import of a page that was left has still to add.
OnItsWay == UNION {importRun[r].todo : r \in {x \in ImportRun : ~importRun[x].answers}}

\* Settings -> minimaDesk is displayed, and the card mounted: nothing is ticked.
OpenCard ==
  /\ ~cardOpen /\ cardOpen' = TRUE /\ rows' = NoRows /\ pick' = {} /\ cardBusy' = FALSE
  /\ Loads(FALSE)
  /\ UNCHANGED <<accepts, ups, copies, importRun, imports, unsure>>

\* The page is left: what is under way goes on, and nobody hears of it.
LeaveCard ==
  /\ cardOpen /\ cardOpen' = FALSE /\ rows' = NoRows /\ pick' = {} /\ cardBusy' = FALSE
  /\ listLoad' = [l \in ListLoad |-> NoLoad]
  /\ importRun' = [r \in ImportRun |-> [importRun[r] EXCEPT !.answers = FALSE]]
  /\ UNCHANGED <<accepts, ups, copies, imports, unsure>>

\* The node, or its account, comes or goes: the effect loads the lists again.
Turns ==
  /\ ups < MaxUps /\ ups' = ups + 1 /\ accepts' = ~accepts
  /\ IF cardOpen THEN Loads(FALSE) ELSE UNCHANGED listLoad
  /\ UNCHANGED <<copies, cardVars, importRun, imports, unsure>>

\* listClassic() in main: without an answer every row shows as importable.
ClassicListRead(l) ==
  /\ listLoad[l].at = "asked"
  /\ \E seen \in {There, {}} :
       /\ accepts \/ seen = {}
       /\ listLoad' = [listLoad EXCEPT ![l].at = "read", ![l].there = seen]
  /\ UNCHANGED <<accepts, ups, copies, cardVars, importRun, imports, unsure>>

\* The list comes back; the last load of an import is the end of it.
ListBack(l) ==
  /\ listLoad[l].at = "read" /\ listLoad' = [listLoad EXCEPT ![l] = NoLoad]
  /\ rows' = <<listLoad[l].there>> /\ cardBusy' = (cardBusy /\ ~listLoad[l].last)
  /\ UNCHANGED <<accepts, ups, copies, cardOpen, pick, importRun, imports, unsure>>

\* A row that says it is there cannot be ticked; one that is there and does not say so can.
TickEntry(e) ==
  /\ ListShown /\ ~cardBusy /\ e \in Importable
  /\ pick' = IF e \in pick THEN pick \ {e} ELSE pick \cup {e}
  /\ unsure' = unsure \cup ({e} \cap (There \cup OnItsWay))
  /\ UNCHANGED <<accepts, ups, copies, cardOpen, rows, cardBusy, importRun, listLoad, imports>>

\* The buttons "Select all" and "None" work during an import as well.
SelectAll ==
  /\ ListShown /\ pick' = Importable /\ unsure' = unsure \cup (Importable \cap (There \cup OnItsWay))
  /\ UNCHANGED <<accepts, ups, copies, cardOpen, rows, cardBusy, importRun, listLoad, imports>>

SelectNone ==
  /\ ListShown /\ pick' = {}
  /\ UNCHANGED <<accepts, ups, copies, cardOpen, rows, cardBusy, importRun, listLoad, imports, unsure>>

\* importContacts(), importDapps(): an import of a page that was left may be under way.
PressImport ==
  /\ ListShown /\ ~cardBusy /\ pick # {} /\ accepts /\ imports < MaxImports /\ imports' = imports + 1
  /\ \E r \in ImportRun :
       /\ importRun[r] = NoImport
       /\ importRun' = [importRun EXCEPT ![r] = [todo |-> pick, asked |-> pick, failed |-> {}, answers |-> TRUE]]
  /\ cardBusy' = TRUE /\ UNCHANGED <<accepts, ups, copies, cardOpen, rows, pick, listLoad, unsure>>

\* A row that fails ends the import's loop.
BadRowDone(r, e, worked) ==
  importRun' = [importRun EXCEPT ![r].todo = IF worked THEN @ \ {e} ELSE @,
                                 ![r].failed = IF worked THEN @ ELSE @ \cup {e}]

\* One result for each entry.
RowDone(r, e, worked) ==
  importRun' = [importRun EXCEPT ![r].todo = @ \ {e}, ![r].failed = IF worked THEN @ ELSE @ \cup {e}]

\* One entry of the loop in importClassic(): it is added, or not, or it is and the answer
\* does not come.
ImportRow(r, e) ==
  /\ e \in importRun[r].todo /\ copies[e] < 2
  /\ \E added, answered \in BOOLEAN :
       /\ added => accepts
       /\ copies' = IF added THEN [copies EXCEPT ![e] = @ + 1] ELSE copies
       /\ unsure' = IF added /\ ~answered THEN unsure \cup {e} ELSE unsure
       /\ RowDone(r, e, added /\ answered)
  /\ UNCHANGED <<accepts, ups, cardVars, listLoad, imports>>

\* What was ticked stays ticked.
BadStillTicked(r) == importRun[r].asked

\* The failed ones stay ticked for a retry.
StillTicked(r) == importRun[r].asked \cap importRun[r].failed

ImportBack(r) ==
  /\ importRun[r] # NoImport /\ importRun[r].todo = {}
  /\ importRun' = [importRun EXCEPT ![r] = NoImport]
  /\ \/ importRun[r].answers /\ pick' = StillTicked(r) /\ Loads(TRUE)
     \/ ~importRun[r].answers /\ UNCHANGED <<pick, listLoad>>
  /\ UNCHANGED <<accepts, ups, copies, cardOpen, rows, cardBusy, imports, unsure>>

ImportsNext ==
  \/ OpenCard \/ LeaveCard \/ Turns \/ SelectAll \/ SelectNone \/ PressImport
  \/ \E l \in ListLoad : ClassicListRead(l) \/ ListBack(l)
  \/ \E e \in ImportEntry : TickEntry(e) \/ \E r \in ImportRun : ImportRow(r, e)
  \/ \E r \in ImportRun : ImportBack(r)

ImportsSpec == ImportsInit /\ [][ImportsNext]_importVars

-----------------------------------------------------------------------------

\* An entry comes twice only when the user could not know it when it was ticked: its answer
\* was lost, the list that was shown is older than it, or it was on its way from a page that
\* was left (ClassicImports.tsx:50, :61). A tick outlives the list that shows it as there.
TwiceForAReason == \A e \in ImportEntry : copies[e] = 2 => e \in unsure

\* Every import ends, and the card can be used again (ClassicImports.tsx:52, :63).
ImportsEnd == []<>~cardBusy
=============================================================================
