-------------------------------- MODULE Welcome --------------------------------
(***************************************************************************)
(* renderer/src/hub: how the hub starts.  It boots before the node answers, *)
(* so the first commands fail; it shows an introduction once, asks for the  *)
(* Maxima name and address until it has them, and looks for peers.          *)
(***************************************************************************)
EXTENDS Integers

CONSTANTS
  Question,       \* `maxima` commands that may be on their way at once
  MaxDowns   \* bound: times the node stops answering

ASSUME WelcomeAssumption == MaxDowns \in Nat

VARIABLES
  nodeUp, downs,        \* does the node answer; history: times it stopped
  seen, intro,          \* localStorage; the step of the introduction
  nodeName, shownName,  \* Maxima's name; maximaName
  ask, retry, strays,   \* the asks; is maximaRetry set; other timers
  behind,               \* history: asks that another reply has overtaken
  overtaken,            \* history: the name shown came with such a reply
  naming,               \* the name of a setname on its way
  address,              \* MaximaProfile: getaddress
  havePeers, peerCheck, noPeers,  \* the node; checkPeers() on its way; the modal, the later modal, the header
  joining, added        \* autoConnectPeers() or an import; "Connections added"

welcomeVars == <<nodeUp, downs, seen, intro, nodeName, shownName, ask, retry, strays, behind,
                 overtaken, naming, address, havePeers, peerCheck, noPeers, joining, added>>
nameVars == <<nodeName, shownName, ask, retry, strays, behind, overtaken, naming>>
peerVars == <<havePeers, peerCheck, noPeers, joining, added>>
startVars == <<nodeUp, downs, seen, intro>>

Names == {"", "old", "typed"}
Alarm == {"modal", "later", "header"}

WelcomeTypeOK ==
  /\ nodeUp \in BOOLEAN /\ downs \in 0..MaxDowns /\ seen \in BOOLEAN
  /\ intro \in {"boot", "hello", "name", "welcome", "tour?", "tour", "off"}
  /\ nodeName \in {"old", "typed"} /\ shownName \in Names
  /\ ask \in [Question -> [on : BOOLEAN, got : Names]] /\ retry \in BOOLEAN /\ strays \in 0..1
  /\ behind \subseteq Question /\ overtaken \in BOOLEAN /\ naming \in Names
  /\ address \in {"no", "asked", "timer", "known"}
  /\ havePeers \in BOOLEAN /\ peerCheck \in BOOLEAN /\ noPeers \subseteq Alarm
  /\ joining \in {"no", "ping", "add", "addNone", "stuck"} /\ added \in BOOLEAN

NotAsked == [on |-> FALSE, got |-> ""]

WelcomeInit ==
  /\ nodeUp \in BOOLEAN /\ downs = 0 /\ seen \in BOOLEAN /\ intro = "boot"
  /\ nodeName = "old" /\ shownName = "" /\ ask = [a \in Question |-> NotAsked]
  /\ retry = FALSE /\ strays = 0 /\ behind = {} /\ overtaken = FALSE /\ naming = "" /\ address = "no"
  /\ havePeers \in BOOLEAN /\ peerCheck = FALSE /\ noPeers = {} /\ joining = "no" /\ added = FALSE

NodeTurns ==
  /\ nodeUp' = ~nodeUp /\ downs' = IF nodeUp THEN downs + 1 ELSE downs
  /\ downs' <= MaxDowns
  /\ UNCHANGED <<seen, intro, nameVars, address, peerVars>>

-----------------------------------------------------------------------------
(* The Maxima name.                                                         *)

\* getMaximaDetails(): the timer that is known is cleared.
GetsDetails ==
  \E a \in Question :
    /\ ~ask[a].on /\ ask' = [ask EXCEPT ![a] = [on |-> TRUE, got |-> ""]]
    /\ retry' = FALSE /\ behind' = behind \ {a}

\* 'inited': the introduction the first time, and otherwise the peers.
Inited ==
  /\ intro = "boot" /\ seen' = TRUE /\ intro' = IF seen THEN "off" ELSE "hello"
  /\ peerCheck' = seen /\ GetsDetails
  /\ UNCHANGED <<nodeUp, downs, nodeName, shownName, strays, overtaken, naming, address,
                 havePeers, noPeers, joining, added>>

NameRead(a) ==
  /\ nodeUp /\ ask[a].on /\ ask[a].got = "" /\ ask' = [ask EXCEPT ![a].got = nodeName]
  /\ UNCHANGED <<startVars, nodeName, shownName, retry, strays, behind, overtaken, naming, address, peerVars>>

\* It is not asked again.
BadRetries == UNCHANGED <<retry, strays>>

\* In 3 s again; a timer that was set meanwhile is not cleared.
Retries == retry' = TRUE /\ strays' = IF retry THEN strays + 1 ELSE strays

DetailsBack(a) ==
  /\ ask[a].on /\ ask' = [ask EXCEPT ![a] = NotAsked]
  /\ IF ask[a].got # ""
       THEN /\ shownName' = ask[a].got /\ overtaken' = (a \in behind)
            /\ behind' = {x \in Question : ask[x].got \notin {"", ask[a].got}}
            /\ UNCHANGED <<retry, strays>>
       ELSE ~nodeUp /\ Retries /\ UNCHANGED <<shownName, overtaken, behind>>
  /\ UNCHANGED <<startVars, nodeName, naming, address, peerVars>>

RetryFires ==
  /\ \/ retry /\ UNCHANGED strays
     \/ strays > 0 /\ strays' = strays - 1
  /\ GetsDetails
  /\ UNCHANGED <<startVars, nodeName, shownName, overtaken, naming, address, peerVars>>

\* handleName(): the field shows, and changes, the name.
TypeName ==
  /\ intro = "name" /\ shownName' = "typed" /\ overtaken' = FALSE
  /\ UNCHANGED <<startVars, nodeName, ask, retry, strays, behind, naming, address, peerVars>>

\* handleMaxima(): what the field shows, or a name made up, is set at the node.
SetName ==
  /\ intro = "name" /\ intro' = "welcome"
  /\ shownName' = (IF shownName = "" THEN "typed" ELSE shownName) /\ naming' = shownName'
  /\ UNCHANGED <<nodeUp, downs, seen, nodeName, ask, retry, strays, behind, overtaken, address, peerVars>>

NameSet ==
  /\ naming # "" /\ naming' = "" /\ nodeName' \in {nodeName} \cup (IF nodeUp THEN {naming} ELSE {})
  /\ GetsDetails
  /\ UNCHANGED <<startVars, shownName, strays, overtaken, address, peerVars>>

\* MaximaProfile: getaddress, until there is one.
AskAddress ==
  /\ address \in {"no", "timer"} /\ address' = "asked" /\ UNCHANGED <<startVars, nameVars, peerVars>>

AddressBack ==
  /\ address = "asked" /\ address' = IF nodeUp THEN "known" ELSE "timer"
  /\ UNCHANGED <<startVars, nameVars, peerVars>>

\* The other steps of the introduction: the tour, or the peers.
Introduction ==
  /\ \/ intro = "hello" /\ intro' = "name" /\ UNCHANGED peerCheck
     \/ intro = "welcome" /\ intro' = "tour?" /\ UNCHANGED peerCheck
     \/ intro = "tour?" /\ intro' = "tour" /\ UNCHANGED peerCheck
     \/ intro = "tour?" /\ intro' = "off" /\ peerCheck' = TRUE
  /\ UNCHANGED <<nodeUp, downs, seen, nameVars, address, havePeers, noPeers, joining, added>>

-----------------------------------------------------------------------------
(* The peers.                                                               *)

\* checkPeers() is back; a failure is not repeated.
PeersChecked ==
  /\ peerCheck /\ peerCheck' = FALSE
  /\ noPeers' = IF nodeUp /\ ~havePeers THEN noPeers \cup {"modal", "header"} ELSE noPeers
  /\ UNCHANGED <<startVars, nameVars, address, havePeers, joining, added>>

\* goToPeers(), dismiss(), and the modal after it.
AnswerAlarm ==
  /\ joining = "no"
  /\ noPeers' \in {IF "modal" \in noPeers THEN noPeers \ {"modal"} ELSE noPeers,
                   IF "modal" \in noPeers THEN (noPeers \ {"modal"}) \cup {"later"} ELSE noPeers,
                   noPeers \ {"later"}}
  /\ noPeers' # noPeers
  /\ UNCHANGED <<startVars, nameVars, address, havePeers, peerCheck, joining, added>>

\* autoConnectPeers(), from the modal or from the settings.
AutoConnect ==
  /\ joining = "no" /\ ~added /\ joining' = "ping"
  /\ UNCHANGED <<startVars, nameVars, address, havePeers, peerCheck, noPeers, added>>

\* No peers are taken for some.
BadRejects(list) == FALSE

\* An empty list is rejected.
Rejects(list) == list = "none"

\* The ping is back with a list of peers; even an empty one is sent to the node.
Pinged ==
  /\ joining = "ping"
  /\ \/ ~nodeUp /\ joining' = "no"
     \/ /\ nodeUp
        /\ \E list \in {"none", "some"} :
             joining' = IF Rejects(list) THEN "no" ELSE IF list = "none" THEN "addNone" ELSE "add"
  /\ UNCHANGED <<startVars, nameVars, address, havePeers, peerCheck, noPeers, added>>

\* What is added is a success: the alarm ends.
Success ==
  /\ joining' = "no" /\ added' = TRUE /\ noPeers' = noPeers \ {"modal", "header"}

\* addPeers() is back.  Its rejection has no error in it, so that the handler of
\* autoConnectPeers() throws and nobody is told.
PeersAdded ==
  /\ joining \in {"add", "addNone"}
  /\ \/ nodeUp /\ havePeers' = (havePeers \/ joining = "add") /\ Success
     \/ joining' = "stuck" /\ UNCHANGED <<havePeers, noPeers, added>>
  /\ UNCHANGED <<startVars, nameVars, address, peerCheck>>

\* importPeers(): a list that was pasted.
ImportPeers ==
  /\ joining = "no" /\ ~added /\ nodeUp /\ havePeers' = TRUE
  /\ added' = TRUE /\ noPeers' = noPeers \ {"header"}
  /\ UNCHANGED <<startVars, nameVars, address, peerCheck, joining>>

\* "Continue".
DismissAdded ==
  /\ added /\ added' = FALSE
  /\ UNCHANGED <<startVars, nameVars, address, havePeers, peerCheck, noPeers, joining>>

WelcomeNext ==
  \/ NodeTurns \/ Inited \/ RetryFires \/ TypeName \/ SetName \/ NameSet
  \/ AskAddress \/ AddressBack \/ Introduction
  \/ \E a \in Question : NameRead(a) \/ DetailsBack(a)
  \/ PeersChecked \/ AnswerAlarm \/ AutoConnect \/ Pinged \/ PeersAdded \/ ImportPeers \/ DismissAdded

WelcomeSpec == WelcomeInit /\ [][WelcomeNext]_welcomeVars

-----------------------------------------------------------------------------
\* AppContext.tsx:419-420, MaximaProfile:20-22: once the node answers, the name and
\* the address that are shown are the node's, and nothing asks any more - unless the
\* last name came with a reply that had been overtaken.
NameSettles ==
  <>[]nodeUp =>
    <>[]((intro # "name" => overtaken \/ shownName = nodeName) /\ address = "known"
         /\ ~retry /\ strays = 0 /\ \A a \in Question : ~ask[a].on)

\* HasNoPeersModal:35-41: the alarm goes, and success is shown, only when the node
\* was given peers.
AddedMeansPeers == added => havePeers
================================================================================
