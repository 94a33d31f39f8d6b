------------------------------- MODULE Installer -------------------------------
(***************************************************************************)
(* renderer/src/hub/pages/Dashboard: the forms that install a MiniDapp and  *)
(* update one.  The spinner covers the form of Install while it works; that *)
(* of Update is open while the zip is looked into, so that two submits may  *)
(* overlap, each with the file and the answer of the user it began with.    *)
(* A zip is a file whose dapp.conf names a dapp.                            *)
(***************************************************************************)
EXTENDS Integers, FiniteSets

CONSTANTS
  Dapps,        \* dapps there are tiles of
  Submit,       \* submits that may be under way at once
  MaxFormFails  \* bound: RPCs that fail

ASSUME InstallerAssumption == MaxFormFails \in Nat /\ Dapps \cap {"", "install", "closed"} = {}

VARIABLES
  form,       \* the form that is looked at: "install" or "update"; each has its own state
  shownFor,   \* it is closed, or shown for a dapp - or for a new one
  file,       \* the file whose name is shown: the dapp it says it is, or none
  warned,     \* confirmWarning
  busy,       \* isLoading
  outcome,    \* what is shown instead of the form: installed, or an error
  resetDue,   \* the timer of onClose()
  submit,     \* the submits under way
  formFails   \* history

installerVars == <<form, shownFor, file, warned, busy, outcome, resetDue, submit, formFails>>

\* A zip: the dapp its dapp.conf names; one that cannot be read; a MiniHUB.
ZipFile == Dapps \cup {"other", "broken", "minihub"}
Target == IF form = "install" THEN {"install"} ELSE Dapps
NotSubmitted == [at |-> "no", file |-> "", dapp |-> "", warned |-> FALSE]

InstallerTypeOK ==
  /\ form \in {"install", "update"} /\ shownFor \in {"closed"} \cup Target /\ file \in ZipFile \cup {""}
  /\ warned \in BOOLEAN /\ busy \in BOOLEAN /\ resetDue \in BOOLEAN
  /\ outcome \in {"", "installed", "error"}
  /\ submit \in [Submit -> [at : {"no", "check", "rpc", "list"}, file : ZipFile \cup {""},
                            dapp : {"", "install"} \cup Dapps, warned : BOOLEAN]]
  /\ formFails \in 0..MaxFormFails

InstallerInit ==
  /\ form \in {"install", "update"} /\ shownFor = "closed" /\ file = "" /\ warned = FALSE
  /\ busy = FALSE /\ outcome = ""
  /\ resetDue = FALSE /\ submit = [s \in Submit |-> NotSubmitted] /\ formFails = 0

OpenForm(d) ==
  /\ d \in Target /\ shownFor = "closed" /\ shownFor' = d
  /\ warned' = IF d = "install" THEN warned ELSE FALSE
  /\ UNCHANGED <<form, file, busy, outcome, resetDue, submit, formFails>>

\* What the user can reach of Install: the spinner covers all of it, and what came
\* of it takes the place of the form.
InstallControls ==
  IF busy THEN {} ELSE IF outcome # "" THEN {"close"} ELSE {"close", "file", "submit"}

\* The same of Update, where a warning takes the place of the file.
UpdateControls ==
  IF busy THEN {} ELSE IF outcome # "" THEN {"close"}
  ELSE {"close", "submit"} \cup (IF warned THEN {} ELSE {"file"})

Controls ==
  CASE shownFor = "closed"  -> {}
    [] shownFor = "install" -> InstallControls
    [] OTHER                -> UpdateControls

\* handleOnChange(), or the name is erased.
Choose(zip) ==
  /\ "file" \in Controls /\ file' = zip
  /\ warned' = IF shownFor = "install" \/ zip = "" THEN warned ELSE FALSE
  /\ UNCHANGED <<form, shownFor, busy, outcome, resetDue, submit, formFails>>

\* The spinner stays when an await throws.
BadCaught == UNCHANGED busy /\ outcome' = IF outcome = "" THEN "error" ELSE outcome

\* catch: the spinner goes and an error is shown, unless something is installed.
Caught == busy' = FALSE /\ outcome' = IF outcome = "" THEN "error" ELSE outcome

\* try {: the RPC is on its way - or the path was refused, which shows an error.
Sends(s, from) ==
  \/ /\ submit' = [submit EXCEPT ![s] = [from EXCEPT !.at = "rpc"]]
     /\ busy' = TRUE /\ outcome' = IF outcome = "error" THEN "" ELSE outcome
  \/ submit' = [submit EXCEPT ![s] = NotSubmitted] /\ Caught

\* handleOnSubmit() up to its first await.
SubmitForm(s) ==
  LET from == [at |-> "check", file |-> file, dapp |-> shownFor, warned |-> warned]
  IN /\ "submit" \in Controls /\ file # "" /\ submit[s] = NotSubmitted
     /\ \/ file = "minihub" /\ shownFor = "install" /\ outcome' = "error" /\ UNCHANGED <<busy, submit>>
        \/ file # "minihub" /\ shownFor = "install" /\ Sends(s, from)
        \/ /\ shownFor \in Dapps /\ submit' = [submit EXCEPT ![s] = from]
           /\ UNCHANGED <<busy, outcome>>
     /\ UNCHANGED <<form, shownFor, file, warned, resetDue, formFails>>

\* It is not warned of when a warning is shown by now.
BadWarns(s) == submit[s].file # submit[s].dapp /\ ~warned

\* The zip is another dapp and the user was not warned when he submitted.
Warns(s) == submit[s].file # submit[s].dapp /\ ~submit[s].warned

\* checkIfDappMatchesZip() is back; a zip that cannot be read ends it in silence.
Checked(s) ==
  /\ submit[s].at = "check"
  /\ IF submit[s].file = "broken"
       THEN submit' = [submit EXCEPT ![s] = NotSubmitted] /\ UNCHANGED <<warned, busy, outcome>>
     ELSE IF Warns(s)
       THEN warned' = TRUE /\ submit' = [submit EXCEPT ![s] = NotSubmitted] /\ UNCHANGED <<busy, outcome>>
     ELSE Sends(s, submit[s]) /\ UNCHANGED warned
  /\ UNCHANGED <<form, shownFor, file, resetDue, formFails>>

\* install() or update() is back, and half a second later the list is asked for.
FormRpc(s) ==
  /\ submit[s].at = "rpc"
  /\ \/ /\ formFails < MaxFormFails /\ formFails' = formFails + 1
        /\ submit' = [submit EXCEPT ![s] = NotSubmitted] /\ Caught
     \/ /\ submit' = [submit EXCEPT ![s].at = "list"]
        /\ UNCHANGED <<busy, outcome, formFails>>
  /\ UNCHANGED <<form, shownFor, file, warned, resetDue>>

\* refreshAppList() is back; when it fails, an error is shown for what is installed.
FormListed(s) ==
  /\ submit[s].at = "list" /\ submit' = [submit EXCEPT ![s] = NotSubmitted]
  /\ \/ busy' = FALSE /\ outcome' = "installed" /\ UNCHANGED formFails
     \/ formFails < MaxFormFails /\ formFails' = formFails + 1 /\ Caught
  /\ UNCHANGED <<form, shownFor, file, warned, resetDue>>

\* onClose(), or the back button, which closes without the timer and while the form
\* is busy; the form is emptied when the hub is at "/" again.
CloseForm(timer) ==
  /\ timer => "close" \in Controls
  /\ shownFor # "closed" /\ shownFor' = "closed"
  /\ resetDue' = (resetDue \/ timer) /\ file' = "" /\ outcome' = ""
  /\ UNCHANGED <<form, warned, busy, submit, formFails>>

\* 250 ms later, whatever is shown by then.
ResetFires ==
  /\ resetDue /\ resetDue' = FALSE /\ file' = "" /\ outcome' = ""
  /\ UNCHANGED <<form, shownFor, warned, busy, submit, formFails>>

InstallerNext ==
  \/ \E d \in {"install"} \cup Dapps : OpenForm(d)
  \/ \E zip \in ZipFile \cup {""} : Choose(zip)
  \/ \E s \in Submit : SubmitForm(s) \/ Checked(s) \/ FormRpc(s) \/ FormListed(s)
  \/ \E timer \in BOOLEAN : CloseForm(timer)
  \/ ResetFires

InstallerSpec == InstallerInit /\ [][InstallerNext]_installerVars

-----------------------------------------------------------------------------
\* UpdateMiniDapp:55-59: a dapp is not replaced by another without a submit that was
\* made after a warning, whatever was chosen and closed while a zip was looked into.
ReplacedAfterWarning ==
  [][\A s \in Submit :
       submit'[s].at = "rpc" /\ submit[s].at # "rpc" /\ submit'[s].dapp \in Dapps
         => submit'[s].file = submit'[s].dapp \/ submit'[s].warned]_installerVars

\* InstallMiniDapp:62-65, UpdateMiniDapp:77-80: once nobody submits any more, the
\* spinner goes, however the submits overlapped with a form closed and opened again.
SpinnerEnds ==
  (<>[][\A s \in Submit : ~SubmitForm(s)]_installerVars) => <>[]~busy
================================================================================
