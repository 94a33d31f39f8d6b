---------------------------------- MODULE Hub ----------------------------------
(***************************************************************************)
(* renderer/src/hub/AppContext.tsx: the list of dapps that the hub shows.   *)
(*                                                                         *)
(* The shell tells the hub that the list has changed; the hub asks the node *)
(* for it, paints it, gets the icons one by one and paints it again.  A     *)
(* removal and a permission, once confirmed, ask for it too.  Requests may  *)
(* overtake each other; a refresh takes its sequence number only when its   *)
(* reply is there.  A list is the version of the node's table it was        *)
(* made from.                                                               *)
(***************************************************************************)
EXTENDS Integers, SequencesExt

CONSTANTS
  Refresh,     \* refreshes that may be on their way at once
  MaxTable,    \* bound: changes of the node's table
  MaxMdsFails  \* bound: RPCs that fail

ASSUME HubAssumption == MaxTable \in Nat \ {0} /\ MaxMdsFails \in Nat /\ "none" \notin Refresh

VARIABLES
  table, announced,  \* the node's table; the version the shell has told of
  refresh, newest,   \* the refreshes; refreshSeq: who has taken the last number
  order, late,       \* history: refreshes without reply, oldest first; overtaken ones
  painted,           \* what is shown
  modal, mdsOp,      \* what the user is asked to confirm; the commands on their way
  excused,           \* history: nobody asks again after the last reply
  mdsFails           \* history

hubVars == <<table, announced, refresh, newest, order, late, painted, modal, mdsOp, excused, mdsFails>>

IdleRefresh == [at |-> "no", got |-> 0]
HubOp == {"delete", "permission"}

HubTypeOK ==
  /\ table \in 0..MaxTable /\ announced \in 0..table
  /\ refresh \in [Refresh -> [at : {"no", "asked", "answered", "icons"}, got : 0..MaxTable]]
  /\ newest \in Refresh \cup {"none"}
  /\ order \in Seq(Refresh) /\ ToSet(order) = {r \in Refresh : refresh[r].at \in {"asked", "answered"}}
  /\ late \subseteq ToSet(order)
  /\ painted \in [ver : 0..MaxTable, icons : BOOLEAN]
  /\ modal \in HubOp \cup {"none"} /\ mdsOp \subseteq HubOp
  /\ excused \in BOOLEAN /\ mdsFails \in 0..MaxMdsFails

HubInit ==
  /\ table = 1 /\ announced = 0
  /\ refresh = [r \in Refresh |-> IdleRefresh] /\ newest = "none" /\ order = <<>> /\ late = {}
  /\ painted = [ver |-> 0, icons |-> TRUE] /\ modal = "none" /\ mdsOp = {}
  /\ excused = FALSE /\ mdsFails = 0

-----------------------------------------------------------------------------
(* refreshAppList().                                                        *)

\* minima.cmd("mds").
Refreshes ==
  \E r \in Refresh :
    /\ refresh[r] = IdleRefresh /\ refresh' = [refresh EXCEPT ![r].at = "asked"]
    /\ order' = Append(order, r)

\* The node answers.
ListRead(r) ==
  /\ refresh[r].at = "asked" /\ refresh' = [refresh EXCEPT ![r] = [at |-> "answered", got |-> table]]
  /\ UNCHANGED <<table, announced, newest, order, late, painted, modal, mdsOp, excused, mdsFails>>

\* A reply of r is there: those asked before it have been overtaken.
Overtakes(r) ==
  \E i \in DOMAIN order :
    /\ order[i] = r /\ order' = RemoveAt(order, i)
    /\ late' = (late \cup {order[j] : j \in 1..(i - 1)}) \ {r}

\* The first paint, without icons, whoever has painted since this one was asked;
\* the sequence number is taken here.
ListPainted(r) ==
  /\ refresh[r].at = "answered" /\ refresh' = [refresh EXCEPT ![r].at = "icons"]
  /\ newest' = r /\ painted' = [ver |-> refresh[r].got, icons |-> FALSE]
  /\ Overtakes(r) /\ excused' = (r \in late)
  /\ UNCHANGED <<table, announced, modal, mdsOp, mdsFails>>

\* mds() rejects: nobody asks again.
ListFails(r) ==
  /\ refresh[r].at \in {"asked", "answered"} /\ refresh' = [refresh EXCEPT ![r] = IdleRefresh]
  /\ mdsFails < MaxMdsFails /\ mdsFails' = mdsFails + 1
  /\ Overtakes(r) /\ excused' = (excused \/ r \notin late)
  /\ UNCHANGED <<table, announced, newest, painted, modal, mdsOp>>

\* The second paint is made by any refresh.
BadPaints(r) == TRUE

\* A newer refresh has painted: this one does not.
Paints(r) == r = newest

\* Every icon is there or could not be had.
IconsReady(r) ==
  /\ refresh[r].at = "icons" /\ refresh' = [refresh EXCEPT ![r] = IdleRefresh]
  /\ painted' = IF Paints(r) THEN [ver |-> refresh[r].got, icons |-> TRUE] ELSE painted
  /\ newest' = IF r = newest THEN "none" ELSE newest
  /\ UNCHANGED <<table, announced, order, late, modal, mdsOp, excused, mdsFails>>

-----------------------------------------------------------------------------
(* Who asks for it.                                                         *)

\* Nobody is told while a refresh is on its way.
BadHears == IF order = <<>> THEN Refreshes ELSE UNCHANGED <<refresh, order>>

\* 'dapps' of the bus becomes MDS_MINIDAPPS_CHANGE.
Hears == Refreshes

DappsChanged ==
  /\ announced # table /\ announced' = table /\ Hears
  /\ UNCHANGED <<table, newest, late, painted, modal, mdsOp, excused, mdsFails>>

\* The menu of a tile: remove, or another permission.
AskConfirm(op) ==
  /\ modal = "none" /\ modal' = op
  /\ UNCHANGED <<table, announced, refresh, newest, order, late, painted, mdsOp, excused, mdsFails>>

CancelConfirm ==
  /\ modal # "none" /\ modal' = "none"
  /\ UNCHANGED <<table, announced, refresh, newest, order, late, painted, mdsOp, excused, mdsFails>>

\* Confirm; the question whether to delete is shown until that is done.
ConfirmOp(op) ==
  /\ modal = op /\ op \notin mdsOp /\ mdsOp' = mdsOp \cup {op}
  /\ modal' = IF op = "delete" THEN modal ELSE "none"
  /\ UNCHANGED <<table, announced, refresh, newest, order, late, painted, excused, mdsFails>>

\* The command is back: a refresh follows when it says that it succeeded.
OpDone(op) ==
  /\ op \in mdsOp /\ mdsOp' = mdsOp \ {op}
  /\ \E took, failed \in BOOLEAN :
       /\ table' = IF took THEN table + 1 ELSE table
       /\ table' <= MaxTable
       /\ IF failed
            THEN mdsFails < MaxMdsFails /\ mdsFails' = mdsFails + 1 /\ UNCHANGED <<refresh, order, modal>>
            ELSE /\ took /\ Refreshes /\ UNCHANGED mdsFails
                 /\ modal' = IF op = "delete" THEN "none" ELSE modal
  /\ UNCHANGED <<announced, newest, late, painted, excused>>

\* A dapp is installed or updated elsewhere.
TableChanges ==
  /\ table < MaxTable /\ table' = table + 1
  /\ UNCHANGED <<announced, refresh, newest, order, late, painted, modal, mdsOp, excused, mdsFails>>

HubNext ==
  \/ DappsChanged \/ CancelConfirm \/ TableChanges
  \/ \E r \in Refresh : ListRead(r) \/ ListPainted(r) \/ ListFails(r) \/ IconsReady(r)
  \/ \E op \in HubOp : AskConfirm(op) \/ ConfirmOp(op) \/ OpDone(op)

HubSpec == HubInit /\ [][HubNext]_hubVars

-----------------------------------------------------------------------------
\* AppContext.tsx:202-204, 225-227: the icons of an older refresh never bring the
\* list of that refresh back.
IconsKeepList ==
  [][\A r \in Refresh : IconsReady(r) => painted'.ver = painted.ver]_hubVars

\* AppContext.tsx:318-320: the hub ends up with the node's table, and its icons,
\* whatever is removed, granted and installed meanwhile - unless the reply that was
\* asked for last failed or was overtaken.
HubIsRight == excused \/ (painted.ver = table /\ painted.icons)
================================================================================
