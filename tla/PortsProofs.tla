----------------------------- MODULE PortsProofs -----------------------------
(***************************************************************************)
(* Proofs about what faces the network, for any runs and calls, any faults, *)
(* any links, recipients and messages.                                      *)
(***************************************************************************)
EXTENDS MCPorts, FiniteSetTheorems, TLAPS

-----------------------------------------------------------------------------
(* PortMap: the current run and its client.                                 *)

\* Of the current run: it is somewhere, and its client is the only one that is
\* open, from its import on.  That no client is lost is not inductive without
\* this: a run could import the library a second time.
CurrentRun ==
  /\ enabled <=> gen # NoCycle
  /\ gen # NoCycle => pc[gen] # "idle" /\ life[gen] # "destroying"
  /\ client # NoCycle => client = gen /\ life[gen] = "open"
  /\ gen # NoCycle /\ pc[gen] \in {"teardown", "import"} => client = NoCycle

\* The router maps for clients that are there; unless it was late, it does so
\* for nobody else, and not for one that it will unmap after another is open.
RouterHolds ==
  /\ \A c \in holds : life[c] # "none"
  /\ gen # NoCycle /\ pc[gen] \in {"watch", "probe"} => gen \in holds
  /\ ~late /\ router => holds # {}
  /\ ~late => \A c \in holds :
       life[c] = "open" => router /\ \A d \in holds : life[d] # "destroying"

PortMapInv ==
  /\ TypeOK /\ CurrentRun /\ NoClientLost /\ RouterHolds
  /\ ~enabled /\ stopping = {} => state = "off"

\* The invariant has what the runs check.
LEMMA PortMapInvImplies ==
  PortMapInv => NoClientLost /\ MappingAsAsked /\ HonestStatus
<1> SUFFICES ASSUME PortMapInv PROVE NoClientLost /\ MappingAsAsked /\ HonestStatus
  OBVIOUS
<1> USE PortMapAssumption DEF PortMapInv, TypeOK, CurrentRun
<1>1. NeverForgotten
  BY DEF NeverForgotten
<1>2. StoppedIsOff
  BY DEF StoppedIsOff
<1>3. HonestStatus
  <2> SUFFICES ASSUME ~late PROVE /\ enabled /\ pc[gen] \in {"watch", "probe"} => router
                                  /\ (\A c \in Cycle : life[c] = "none") => ~router
    BY DEF HonestStatus
  <2>1. ASSUME enabled, pc[gen] \in {"watch", "probe"} PROVE router
    <3>1. gen \in holds /\ gen \in Cycle
      BY <2>1 DEF RouterHolds
    <3>2. life[gen] = "open"
      BY <3>1 DEF RouterHolds
    <3> QED BY <3>1, <3>2 DEF RouterHolds
  <2>2. ASSUME \A c \in Cycle : life[c] = "none" PROVE ~router
    BY <2>2 DEF RouterHolds
  <2> QED BY <2>1, <2>2
<1> QED BY <1>1, <1>2, <1>3 DEF MappingAsAsked

LEMMA PortMapInit == Init => PortMapInv
BY PortMapAssumption
   DEF Init, PortMapInv, TypeOK, CurrentRun, NoClientLost, RouterHolds, PCs, States

\* teardown() of whoever: nothing is open then, and nothing else has changed.
LEMMA TeardownCloses ==
  ASSUME PortMapInv, NEW who \in Cycle \cup Stopper, Teardown(who)
  PROVE  /\ client' = NoCycle
         /\ awaits' \in [Cycle \cup Stopper -> Cycle \cup {NoCycle}]
         /\ life' \in [Cycle -> {"none", "open", "destroying"}]
         /\ \A c \in Cycle : life'[c] # "open" /\ (life'[c] = "none" <=> life[c] = "none")
BY PortMapAssumption DEF Teardown, PortMapInv, TypeOK, CurrentRun, NoClientLost

\* clearTimers() leaves no timer, and no other run where it was not.
LEMMA TimersCleared ==
  ASSUME PortMapInv
  PROVE  /\ ClearTimers \in [Cycle -> PCs]
         /\ \A c \in Cycle : ClearTimers[c] \notin {"retry", "watch"}
BY DEF ClearTimers, PortMapInv, TypeOK, PCs

\* Whoever begins a run, and of a watchdog's callback or of the retry timer's.
LEMMA NewCycleKeeps ==
  ASSUME PortMapInv, enabled', NEW over \in SUBSET Cycle,
         NewCycle(over), UNCHANGED <<externalIp, holds, stopping, router, late>>
  PROVE  PortMapInv'
<1> USE PortMapAssumption
<1>1. PICK c \in Cycle :
        /\ Free(c) /\ gen' = c /\ Teardown(c)
        /\ pc' = [d \in Cycle |-> IF d = c THEN IF client = NoCycle THEN "import" ELSE "teardown"
                                  ELSE IF d \in over THEN "idle" ELSE ClearTimers[d]]
        /\ state' = IF client = NoCycle THEN "searching" ELSE state
  BY DEF NewCycle
<1>2. pc' \in [Cycle -> PCs] /\ pc'[c] \in {"import", "teardown"}
  BY <1>1, TimersCleared DEF PCs
<1>3. \A d \in Cycle : pc'[d] \in {"retry", "watch"} => d = gen'
  BY <1>1, TimersCleared
<1>4. TypeOK'
  BY <1>1, <1>2, <1>3, TeardownCloses DEF TypeOK, PortMapInv, States
<1>5. life[c] = "none"
  BY <1>1 DEF Free
<1>6. CurrentRun' /\ NoClientLost'
  BY <1>1, <1>2, <1>5, TeardownCloses DEF CurrentRun, NoClientLost
<1>7. RouterHolds'
  BY <1>1, <1>2, TeardownCloses DEF RouterHolds, PortMapInv, TypeOK
<1> QED BY <1>4, <1>6, <1>7 DEF PortMapInv

\* A step that neither begins nor ends anything: a run goes on from where it
\* was, and the timers it has are its own.
LEMMA RunGoesOn ==
  ASSUME PortMapInv, NEW c \in Cycle, NEW where \in PCs, Goto(c, where),
         UNCHANGED <<enabled, gen, clients, stopping, router, late>>,
         c = gen => where # "idle" /\ (where = "import" => pc[c] = "teardown")
                    /\ where # "teardown"
                    /\ (where \in {"watch", "probe"} => c \in holds),
         c # gen => where \notin {"retry", "watch"},
         state' \in States, ~enabled => state' = state,
         externalIp' \in {"none", "public", "private"},
         awaits' \in [Cycle \cup Stopper -> Cycle \cup {NoCycle}]
  PROVE  PortMapInv'
<1> USE DEF PortMapInv
<1>1. pc' \in [Cycle -> PCs] /\ pc'[c] = where /\ \A d \in Cycle \ {c} : pc'[d] = pc[d]
  BY DEF Goto, TypeOK
<1>2. TypeOK'
  BY <1>1 DEF TypeOK, clients
<1>3. CurrentRun'
  BY <1>1 DEF TypeOK, CurrentRun, clients
<1>4. RouterHolds'
  BY <1>1 DEF TypeOK, RouterHolds, clients
<1> QED BY <1>2, <1>3, <1>4 DEF NoClientLost, clients

LEMMA PortMapStep == PortMapInv /\ [Next]_vars => PortMapInv'
<1> SUFFICES ASSUME PortMapInv, [Next]_vars PROVE PortMapInv'
  OBVIOUS
<1> USE PortMapAssumption
<1>t. TypeOK /\ CurrentRun /\ (enabled <=> gen \in Cycle)
  BY DEF PortMapInv, TypeOK, CurrentRun
<1>c. \A c \in Cycle : Current(c) <=> gen = c
  BY <1>t DEF Current
<1>1. CASE Start
  BY <1>1, NewCycleKeeps DEF Start
<1>2. ASSUME NEW s \in Stopper, Stop(s) PROVE PortMapInv'
  <2> USE <1>2
  <2>1. /\ enabled' = FALSE /\ gen' = NoCycle /\ pc' = ClearTimers /\ Teardown(s)
        /\ UNCHANGED <<holds, router, late>>
    BY DEF Stop
  <2>2. /\ stopping' \subseteq Stopper /\ state' \in States
        /\ externalIp' \in {"none", "public", "private"}
        /\ stopping' = {} => state' = "off"
    BY <1>t DEF Stop, Off, TypeOK, States
  <2>c. /\ client' = NoCycle
        /\ awaits' \in [Cycle \cup Stopper -> Cycle \cup {NoCycle}]
        /\ life' \in [Cycle -> {"none", "open", "destroying"}]
        /\ \A c \in Cycle : life'[c] # "open" /\ (life'[c] = "none" <=> life[c] = "none")
    BY <2>1, TeardownCloses
  <2>p. pc' \in [Cycle -> PCs] /\ \A c \in Cycle : pc'[c] \notin {"retry", "watch"}
    BY <2>1, TimersCleared
  <2>3. TypeOK'
    BY <1>t, <2>1, <2>2, <2>c, <2>p DEF TypeOK
  <2>4. CurrentRun' /\ NoClientLost'
    BY <2>1, <2>c DEF CurrentRun, NoClientLost
  <2>5. RouterHolds'
    BY <1>t, <2>1, <2>c DEF RouterHolds, PortMapInv, TypeOK
  <2> QED BY <2>1, <2>2, <2>3, <2>4, <2>5 DEF PortMapInv
<1>3. ASSUME NEW s \in Stopper, StopEnds(s) PROVE PortMapInv'
  BY <1>3, <1>t DEF StopEnds, Off, clients, PortMapInv, TypeOK, CurrentRun, NoClientLost,
                    RouterHolds, States
<1>4. ASSUME NEW c \in Cycle, CycleStep(c) PROVE PortMapInv'
  <2>1. CASE Overtaken(c)
    BY <2>1, <1>t, <1>c, RunGoesOn DEF Overtaken, fields, clients, waits, TypeOK, PCs
  <2>2. CASE TornDown(c)
    BY <2>2, <1>t, <1>c, RunGoesOn DEF TornDown, GoesOn, clients, TypeOK, PCs, States
  <2>3. CASE ImportFails(c)
    BY <2>3, <1>t, <1>c, RunGoesOn DEF ImportFails, Fails, clients, waits, TypeOK, PCs, States
  <2>4. CASE Imported(c)
    <3>1. gen = c /\ client = NoCycle /\ life[c] # "destroying" /\ life[c] # "open"
      BY <2>4, <1>t, <1>c DEF Imported, CurrentRun, PortMapInv, NoClientLost
    <3>2. life[c] = "none" /\ c \notin holds
      BY <3>1, <1>t DEF TypeOK, PortMapInv, RouterHolds
    <3>3. \A d \in Cycle : life[d] # "open"
      BY <3>1 DEF PortMapInv, NoClientLost
    <3>4. TypeOK' /\ CurrentRun' /\ NoClientLost'
      BY <2>4, <3>1, <3>3, <1>t DEF Imported, Goto, waits, TypeOK, CurrentRun, NoClientLost, PCs
    <3>5. RouterHolds'
      BY <2>4, <3>1, <3>2, <3>3, <1>t DEF Imported, Goto, TypeOK, PortMapInv, RouterHolds
    <3> QED BY <3>4, <3>5, <2>4 DEF PortMapInv, Imported, waits
  <2>5. CASE NoGateway(c)
    BY <2>5, <1>t, <1>c, RunGoesOn DEF NoGateway, Fails, clients, waits, TypeOK, PCs, States
  <2>6. CASE GotIp(c)
    <3>1. \/ late' = late
          \/ late' = TRUE
      BY <2>6, <1>t DEF GotIp, Answers, TypeOK
    <3>2. /\ gen = c /\ Goto(c, "map") /\ externalIp' \in {"public", "private"}
          /\ UNCHANGED <<enabled, gen, clients, state, waits, router>>
      BY <2>6, <1>c DEF GotIp
    <3>3. TypeOK' /\ CurrentRun' /\ NoClientLost'
      BY <3>1, <3>2, <1>t DEF PortMapInv, Goto, clients, waits, TypeOK, CurrentRun, NoClientLost, PCs
    <3>4. RouterHolds'
      BY <3>1, <3>2, <1>t DEF PortMapInv, Goto, clients, TypeOK, RouterHolds
    <3> QED BY <3>2, <3>3, <3>4 DEF PortMapInv, waits
  <2>7. CASE Maps(c)
    <3>1. /\ gen = c /\ life[c] = "open" /\ router' = TRUE /\ holds' = holds \cup {c}
          /\ UNCHANGED <<fields, pc, waits, life>>
      BY <2>7, <1>t DEF Maps, PortMapInv, NoClientLost, CurrentRun, TypeOK
    <3>2. late' \in BOOLEAN /\ (~late' => ~late /\ \A d \in Cycle : life[d] # "destroying")
      BY <2>7, <1>t DEF Maps, Answers, Unmapping, TypeOK
    <3>3. TypeOK' /\ CurrentRun' /\ NoClientLost'
      BY <3>1, <3>2, <1>t DEF PortMapInv, fields, waits, TypeOK, CurrentRun, NoClientLost
    <3>4. RouterHolds'
      BY <3>1, <3>2, <1>t DEF PortMapInv, fields, TypeOK, RouterHolds
    <3> QED BY <3>1, <3>3, <3>4 DEF PortMapInv, fields, waits
  <2>8. CASE MapsLate(c)
    BY <2>8, <1>t DEF MapsLate, PortMapInv, fields, waits, TypeOK, CurrentRun, NoClientLost, RouterHolds
  <2>9. CASE Refused(c)
    BY <2>9, <1>t, <1>c, RunGoesOn DEF Refused, Fails, clients, waits, TypeOK, PCs, States
  <2>10. CASE Mapped(c)
    BY <2>10, <1>t, <1>c, RunGoesOn DEF Mapped, Granted, clients, waits, TypeOK, PCs, States
  <2>11. CASE RetryFires(c)
    BY <2>11, <1>t, NewCycleKeeps DEF RetryFires, TypeOK
  <2>12. CASE WatchdogFires(c)
    <3>1. c = gen
      BY <2>12, <1>t DEF WatchdogFires, TypeOK
    <3>2. c \in holds
      BY <2>12, <3>1, <1>t DEF WatchdogFires, PortMapInv, RouterHolds
    <3> QED BY <2>12, <3>1, <3>2, <1>t, RunGoesOn
               DEF WatchdogFires, fields, clients, waits, TypeOK, PCs
  <2>13. CASE AllWell(c)
    <3>1. c = gen /\ c \in holds
      BY <2>13, <1>t, <1>c DEF AllWell, PortMapInv, RouterHolds
    <3> QED BY <2>13, <3>1, <1>t, RunGoesOn DEF AllWell, fields, clients, waits, TypeOK, PCs
  <2>14. CASE Remaps(c)
    BY <2>14, NewCycleKeeps DEF Remaps, Current
  <2> QED BY <1>4, <2>1, <2>2, <2>3, <2>4, <2>5, <2>6, <2>7, <2>8, <2>9, <2>10, <2>11, <2>12,
             <2>13, <2>14 DEF CycleStep
<1>5. ASSUME NEW d \in Cycle, Destroyed(d) PROVE PortMapInv'
  <2>1. /\ life[d] = "destroying" /\ life' = [life EXCEPT ![d] = "none"]
        /\ router' = (router /\ d \notin holds) /\ holds' = holds \ {d}
        /\ UNCHANGED <<fields, pc, waits, late>>
    BY <1>5 DEF Destroyed
  <2>2. TypeOK' /\ CurrentRun' /\ NoClientLost'
    BY <2>1, <1>t DEF PortMapInv, fields, waits, TypeOK, CurrentRun, NoClientLost
  <2>3. RouterHolds'
    BY <2>1, <1>t DEF PortMapInv, fields, TypeOK, CurrentRun, RouterHolds
  <2> QED BY <2>1, <2>2, <2>3 DEF PortMapInv, fields, waits
<1>6. CASE UNCHANGED vars
  BY <1>6, <1>t DEF vars, fields, waits, PortMapInv, TypeOK, CurrentRun, NoClientLost, RouterHolds
<1> QED BY <1>1, <1>2, <1>3, <1>4, <1>5, <1>6 DEF Next

-----------------------------------------------------------------------------
(* RouterModel: the search.                                                 *)

RouterModelInv == RouterModelTypeOK /\ LabelIsModest

LEMMA FinishKeeps ==
  ASSUME RouterModelInv, NEW v, v = NoLabel \/ (v \in Responder /\ namesItself[v]), Finish(v)
  PROVE  /\ socketOpen' \in BOOLEAN /\ guardSet' \in BOOLEAN
         /\ label' \in {<< >>, <<NoLabel>>} \cup {<<r>> : r \in Responder}
         /\ label' # << >> /\ label'[1] # NoLabel => namesItself[label'[1]]
<1>1. CASE socketOpen
  <2>1. label' = <<v>> /\ label'[1] = v /\ socketOpen' = FALSE /\ guardSet' = FALSE
    BY <1>1 DEF Finish
  <2> QED BY <2>1
<1>2. CASE ~socketOpen
  BY <1>2 DEF Finish, RouterModelInv, RouterModelTypeOK, LabelIsModest
<1> QED BY <1>1, <1>2

LEMMA RouterModelStep == RouterModelInv /\ [SearchNext]_searchVars => RouterModelInv'
<1> SUFFICES ASSUME RouterModelInv, [SearchNext]_searchVars PROVE RouterModelInv'
  OBVIOUS
<1> USE RouterModelAssumption DEF RouterModelInv, RouterModelTypeOK, LabelIsModest
<1>1. CASE SearchTimesOut
  BY <1>1, FinishKeeps DEF SearchTimesOut
<1>2. ASSUME NEW r \in Responder, Announces(r) PROVE RouterModelInv'
  BY <1>2 DEF Announces, Follows
<1>3. ASSUME NEW r \in Responder, DescriptionBegins(r) PROVE RouterModelInv'
  BY <1>3 DEF DescriptionBegins
<1>4. ASSUME NEW r \in Responder, DescriptionFails(r) PROVE RouterModelInv'
  BY <1>4, FinishKeeps DEF DescriptionFails
<1>5. ASSUME NEW r \in Responder, ChunkRead(r) PROVE RouterModelInv'
  <2>1. CASE TooLong(r)
    BY <1>5, <2>1, FinishKeeps DEF ChunkRead
  <2>2. CASE ~TooLong(r)
    <3>1. /\ got[r] + 1 <= MAX_CHUNKS /\ got[r] \in Nat /\ got' = [got EXCEPT ![r] = got[r] + 1]
          /\ UNCHANGED <<reads, socketOpen, guardSet, namesItself, label>>
      BY <1>5, <2>2 DEF ChunkRead, TooLong
    <3>2. got' \in [Responder -> 0..(MAX_CHUNKS + 1)] /\ \A q \in Responder : got'[q] <= MAX_CHUNKS
      BY <3>1
    <3> QED BY <3>1, <3>2
  <2> QED BY <2>1, <2>2
<1>6. ASSUME NEW r \in Responder, DescriptionRead(r) PROVE RouterModelInv'
  <2>1. namesItself[r]
    BY <1>6 DEF DescriptionRead
  <2>2. PICK named \in BOOLEAN : Finish(IF named THEN r ELSE NoLabel)
    BY <1>6 DEF DescriptionRead
  <2>3. /\ socketOpen' \in BOOLEAN /\ guardSet' \in BOOLEAN
        /\ label' \in {<< >>, <<NoLabel>>} \cup {<<q>> : q \in Responder}
        /\ label' # << >> /\ label'[1] # NoLabel => namesItself[label'[1]]
    BY <2>1, <2>2, FinishKeeps
  <2> QED BY <1>6, <2>3 DEF DescriptionRead
<1>7. CASE UNCHANGED searchVars
  BY <1>7 DEF searchVars
<1> QED BY <1>1, <1>2, <1>3, <1>4, <1>5, <1>6, <1>7 DEF SearchNext

LEMMA RouterModelInit0 == RouterModelInit => RouterModelInv
BY RouterModelAssumption DEF RouterModelInit, RouterModelInv, RouterModelTypeOK, LabelIsModest

-----------------------------------------------------------------------------
(* Bridge: the links that count, and the identity.                          *)

Bridged == {l \in Link : route[l] = "bridge" /\ linkLife[l] # "closed"}
Served  == {l \in Link : route[l] = "svc" /\ linkLife[l] # "closed"}

\* A link that is not there yet has no route: it would be counted twice.  A
\* seed that was written is the only key that was ever used.
BridgeInv ==
  /\ BridgeTypeOK /\ CountsTrue
  /\ \A l \in Link : linkLife[l] = "new" => route[l] = "none"
  /\ identity \subseteq {seedFile} /\ (seedFile \in {NoSeed, CutShort} => identity = {})

\* One link joins the counted ones, or leaves them.
LEMMA OneMore ==
  ASSUME NEW S \in SUBSET Link, NEW l \in Link, l \notin S
  PROVE  Cardinality(S \cup {l}) = Cardinality(S) + 1
<1>1. IsFiniteSet(S)
  BY BridgeAssumption, FS_Subset
<1> QED BY <1>1, FS_AddElement

LEMMA OneLess ==
  ASSUME NEW S \in SUBSET Link, NEW l \in S
  PROVE  Cardinality(S \ {l}) = Cardinality(S) - 1 /\ Cardinality(S) \in Nat /\ Cardinality(S) > 0
<1>1. IsFiniteSet(S)
  BY BridgeAssumption, FS_Subset
<1>2. Cardinality(S) \in Nat /\ Cardinality(S) # 0
  BY <1>1, FS_CardinalityType, FS_EmptySet
<1>3. Cardinality(S \ {l}) = IF l \in S THEN Cardinality(S) - 1 ELSE Cardinality(S)
  BY <1>1, FS_RemoveElement
<1> QED BY <1>2, <1>3

\* A step of the links alone that counts right.
LEMMA LinksStep ==
  ASSUME BridgeInv, BridgeTypeOK', UNCHANGED bootVars,
         conns' = Cardinality(Bridged'), svcConns' = Cardinality(Served'),
         \A l \in Link : linkLife'[l] = "new" => route'[l] = "none"
  PROVE  BridgeInv'
BY DEF BridgeInv, CountsTrue, Bridged, Served, bootVars

LEMMA NotedTyped ==
  ASSUME BridgeTypeOK, NEW what \in {"capped", "dead", "closed"}, Noted(what)
  PROVE  diag' \in [{"capped", "dead", "closed"} -> Nat]
BY DEF Noted, BridgeTypeOK

\* bridge(), for a link that is not counted yet.
LEMMA BridgesCounts ==
  ASSUME BridgeInv, NEW l \in Link, route[l] = "peek", Bridges(l),
         UNCHANGED <<svcConns, swarm, bootVars>>,
         peeked' \in [Link -> {"none", "part", "magic", "minima", "other"}]
  PROVE  BridgeInv'
<1> USE BridgeAssumption
<1>t. BridgeTypeOK /\ conns = Cardinality(Bridged) /\ svcConns = Cardinality(Served)
  BY DEF BridgeInv, CountsTrue, Bridged, Served
<1>1. l \notin Bridged /\ l \notin Served /\ linkLife[l] # "new"
  BY DEF BridgeInv, Bridged, Served
<1>2. ASSUME UNCHANGED conns, route' = [route EXCEPT ![l] = "none"],
             linkLife' \in {linkLife, Destroys(l)}, BridgeTypeOK'
      PROVE  BridgeInv'
  <2>1. Bridged' = Bridged /\ Served' = Served
    BY <1>t, <1>1, <1>2 DEF Bridged, Served, BridgeTypeOK, Destroys
  <2>2. \A k \in Link : linkLife'[k] = "new" => route'[k] = "none"
    BY <1>t, <1>1, <1>2 DEF BridgeInv, BridgeTypeOK, Destroys
  <2> QED BY <1>t, <1>2, <2>1, <2>2, LinksStep
<1>3. CASE linkLife[l] # "open"
  <2>1. BridgeTypeOK'
    BY <1>t, <1>3, NotedTyped DEF Bridges, BridgeTypeOK, bootVars
  <2> QED BY <1>2, <1>3, <2>1 DEF Bridges
<1>4. CASE linkLife[l] = "open" /\ conns >= MAXCONNS
  <2>1. BridgeTypeOK'
    BY <1>t, <1>4, NotedTyped DEF Bridges, Destroys, BridgeTypeOK, bootVars
  <2> QED BY <1>2, <1>4, <2>1 DEF Bridges
<1>5. CASE linkLife[l] = "open" /\ ~(conns >= MAXCONNS)
  <2>1. /\ conns' = conns + 1 /\ route' = [route EXCEPT ![l] = "bridge"]
        /\ tcp' = [tcp EXCEPT ![l] = "dial"] /\ UNCHANGED <<linkLife, diag>>
    BY <1>5 DEF Bridges
  <2>2. BridgeTypeOK'
    BY <1>t, <1>5, <2>1 DEF BridgeTypeOK, bootVars
  <2>3. Bridged' = Bridged \cup {l} /\ Served' = Served
    BY <1>t, <1>1, <1>5, <2>1 DEF Bridged, Served, BridgeTypeOK
  <2>4. Cardinality(Bridged') = Cardinality(Bridged) + 1
    BY <1>1, <2>3, OneMore DEF Bridged
  <2>5. \A k \in Link : linkLife'[k] = "new" => route'[k] = "none"
    BY <1>t, <1>1, <2>1 DEF BridgeInv, BridgeTypeOK
  <2> QED BY <1>t, <2>1, <2>2, <2>3, <2>4, <2>5, LinksStep
<1> QED BY <1>3, <1>4, <1>5

\* What changes neither who is routed nor who is there leaves the counts as they are.
LEMMA CountsStay ==
  ASSUME BridgeInv, BridgeTypeOK', UNCHANGED <<route, conns, svcConns, bootVars>>,
         \A l \in Link : /\ linkLife'[l] = "closed" <=> linkLife[l] = "closed"
                         /\ linkLife'[l] = "new" => linkLife[l] = "new"
  PROVE  BridgeInv'
<1>1. Bridged' = Bridged /\ Served' = Served
  BY DEF Bridged, Served
<1> QED BY <1>1, LinksStep DEF BridgeInv, CountsTrue, Bridged, Served

LEMMA BridgeStep == BridgeInv /\ [BridgeNext]_bridgeVars => BridgeInv'
<1> SUFFICES ASSUME BridgeInv, [BridgeNext]_bridgeVars PROVE BridgeInv'
  OBVIOUS
<1> USE BridgeAssumption
<1>t. BridgeTypeOK /\ conns = Cardinality(Bridged) /\ svcConns = Cardinality(Served)
  BY DEF BridgeInv, CountsTrue, Bridged, Served
<1>n. \A l \in Link : linkLife[l] = "new" => route[l] = "none"
  BY DEF BridgeInv
<1>1. CASE SidecarStarts
  BY <1>1, <1>t DEF SidecarStarts, Seed, linkVars, BridgeInv, BridgeTypeOK, CountsTrue, NoSeed, CutShort
<1>2. CASE DiesWriting
  BY <1>2, <1>t DEF DiesWriting, linkVars, BridgeInv, BridgeTypeOK, CountsTrue, NoSeed, CutShort
<1>3. CASE Exit
  <2>1. BridgeTypeOK'
    BY <1>3, <1>t DEF Exit, bootVars, BridgeTypeOK
  <2>2. Bridged' = {} /\ Served' = {}
    BY <1>3 DEF Exit, Bridged, Served
  <2>3. \A l \in Link : route'[l] = "none"
    BY <1>3 DEF Exit
  <2>4. conns' = 0 /\ svcConns' = 0 /\ UNCHANGED bootVars
    BY <1>3 DEF Exit
  <2> QED BY <2>1, <2>2, <2>3, <2>4, FS_EmptySet, LinksStep
<1>4. CASE SuspendSwarm
  <2>1. BridgeTypeOK'
    BY <1>4, <1>t DEF SuspendSwarm, bootVars, BridgeTypeOK
  <2>2. \A l \in Link : /\ linkLife'[l] = "closed" <=> linkLife[l] = "closed"
                        /\ linkLife'[l] = "new" => linkLife[l] = "new"
    BY <1>4 DEF SuspendSwarm
  <2> QED BY <1>4, <2>1, <2>2, CountsStay DEF SuspendSwarm, bootVars
<1>5. CASE ResumeSwarm
  BY <1>5, <1>t DEF ResumeSwarm, linkVars, bootVars, BridgeInv, BridgeTypeOK, CountsTrue
<1>6. ASSUME NEW l \in Link, Dialled(l) PROVE BridgeInv'
  <2>1. l \notin Bridged /\ l \notin Served /\ route[l] = "none"
    BY <1>6, <1>n DEF Dialled, Bridged, Served
  <2>2. CASE conns >= MAXCONNS
    <3>1. BridgeTypeOK'
      BY <1>6, <1>t, <2>2, NotedTyped DEF Dialled, bootVars, BridgeTypeOK
    <3>2. Bridged' = Bridged /\ Served' = Served
      BY <1>6, <1>t, <2>1, <2>2 DEF Dialled, Bridged, Served, BridgeTypeOK
    <3>3. \A k \in Link : linkLife'[k] = "new" => route'[k] = "none"
      BY <1>6, <1>t, <1>n, <2>2 DEF Dialled, BridgeTypeOK
    <3> QED BY <1>6, <1>t, <2>2, <3>1, <3>2, <3>3, LinksStep DEF Dialled
  <2>3. CASE ~(conns >= MAXCONNS)
    <3>1. BridgeTypeOK'
      BY <1>6, <1>t, <2>3 DEF Dialled, bootVars, BridgeTypeOK
    <3>2. Bridged' = Bridged \cup {l} /\ Served' = Served
      BY <1>6, <1>t, <2>1, <2>3 DEF Dialled, Bridged, Served, BridgeTypeOK
    <3>3. \A k \in Link : linkLife'[k] = "new" => route'[k] = "none"
      BY <1>6, <1>t, <1>n, <2>3 DEF Dialled, BridgeTypeOK
    <3>4. Cardinality(Bridged') = Cardinality(Bridged) + 1
      BY <2>1, <3>2, OneMore DEF Bridged
    <3> QED BY <1>6, <1>t, <2>3, <3>1, <3>2, <3>3, <3>4, LinksStep DEF Dialled
  <2> QED BY <2>2, <2>3
<1>7. ASSUME NEW l \in Link, Accepted(l) PROVE BridgeInv'
  <2>1. BridgeTypeOK'
    BY <1>7, <1>t DEF Accepted, bootVars, BridgeTypeOK
  <2>2. Bridged' = Bridged /\ Served' = Served
    BY <1>7, <1>t, <1>n DEF Accepted, Bridged, Served, BridgeTypeOK
  <2>3. \A k \in Link : linkLife'[k] = "new" => route'[k] = "none"
    BY <1>7, <1>t, <1>n DEF Accepted, BridgeTypeOK
  <2> QED BY <1>7, <1>t, <2>1, <2>2, <2>3, LinksStep DEF Accepted
<1>8. ASSUME NEW l \in Link, PeekTimeout(l) PROVE BridgeInv'
  BY <1>8, <1>t, BridgesCounts DEF PeekTimeout, Peeking, BridgeTypeOK
<1>9. ASSUME NEW l \in Link, NEW bytes \in {"part", "magic", "minima", "other"}, Chunk(l, bytes)
      PROVE  BridgeInv'
  <2>p. peeked' \in [Link -> {"none", "part", "magic", "minima", "other"}]
    BY <1>9, <1>t DEF Chunk, BridgeTypeOK
  <2>r. route[l] = "peek" /\ linkLife[l] = "open" /\ l \notin Bridged /\ l \notin Served
    BY <1>9 DEF Chunk, Bridged, Served
  <2>u. UNCHANGED <<swarm, bootVars>>
    BY <1>9 DEF Chunk
  <2>1. CASE bytes = "part"
    BY <1>9, <1>t, <2>1, <2>p, <2>u, CountsStay DEF Chunk, bootVars, BridgeTypeOK
  <2>2. CASE bytes = "minima"
    <3>1. Bridges(l) /\ UNCHANGED svcConns
      BY <1>9, <2>2 DEF Chunk
    <3> QED BY <3>1, <2>p, <2>r, <2>u, BridgesCounts
  <2>3. ASSUME linkLife' = Destroys(l), route' = [route EXCEPT ![l] = "none"],
               UNCHANGED <<tcp, conns, svcConns, diag>>
        PROVE  BridgeInv'
    <3>1. BridgeTypeOK'
      BY <1>t, <2>3, <2>p, <2>u DEF Destroys, bootVars, BridgeTypeOK
    <3>2. Bridged' = Bridged /\ Served' = Served
      BY <1>t, <2>3, <2>r DEF Destroys, Bridged, Served, BridgeTypeOK
    <3>3. \A k \in Link : linkLife'[k] = "new" => route'[k] = "none"
      BY <1>t, <1>n, <2>3, <2>r DEF Destroys, BridgeTypeOK
    <3> QED BY <1>t, <2>3, <2>u, <3>1, <3>2, <3>3, LinksStep
  <2>4. CASE bytes = "other"
    <3>1. /\ linkLife' = Destroys(l) /\ route' = [route EXCEPT ![l] = "none"]
          /\ UNCHANGED <<tcp, conns, svcConns, diag>>
      BY <1>9, <2>4 DEF Chunk
    <3> QED BY <3>1, <2>3
  <2>5. CASE bytes = "magic" /\ svcConns >= SVC_MAX
    <3>1. /\ linkLife' = Destroys(l) /\ route' = [route EXCEPT ![l] = "none"]
          /\ UNCHANGED <<tcp, conns, svcConns, diag>>
      BY <1>9, <2>5 DEF Chunk, Serves
    <3> QED BY <3>1, <2>3
  <2>6. CASE bytes = "magic" /\ ~(svcConns >= SVC_MAX)
    <3>1. /\ svcConns' = svcConns + 1 /\ route' = [route EXCEPT ![l] = "svc"]
          /\ UNCHANGED <<linkLife, tcp, conns, diag>>
      BY <1>9, <2>6 DEF Chunk, Serves
    <3>2. BridgeTypeOK'
      BY <1>t, <2>6, <2>p, <2>u, <3>1 DEF bootVars, BridgeTypeOK
    <3>3. Bridged' = Bridged /\ Served' = Served \cup {l}
      BY <1>t, <2>r, <3>1 DEF Bridged, Served, BridgeTypeOK
    <3>4. Cardinality(Served') = Cardinality(Served) + 1
      BY <2>r, <3>3, OneMore DEF Served
    <3>5. \A k \in Link : linkLife'[k] = "new" => route'[k] = "none"
      BY <1>t, <1>n, <2>r, <3>1 DEF BridgeTypeOK
    <3> QED BY <1>t, <2>u, <3>1, <3>2, <3>3, <3>4, <3>5, LinksStep
  <2> QED BY <2>1, <2>2, <2>4, <2>5, <2>6
<1>10. ASSUME NEW l \in Link, TcpUp(l) PROVE BridgeInv'
  <2>1. BridgeTypeOK'
    BY <1>10, <1>t DEF TcpUp, bootVars, BridgeTypeOK
  <2> QED BY <1>10, <2>1, CountsStay DEF TcpUp
<1>11. ASSUME NEW l \in Link, TcpCloses(l) \/ RemoteDrops(l) PROVE BridgeInv'
  <2>1. linkLife' = Destroys(l) /\ UNCHANGED <<route, conns, svcConns, bootVars>>
    BY <1>11 DEF TcpCloses, RemoteDrops
  <2>2. BridgeTypeOK'
    BY <1>11, <1>t DEF TcpCloses, RemoteDrops, Destroys, bootVars, BridgeTypeOK
  <2>3. \A k \in Link : /\ linkLife'[k] = "closed" <=> linkLife[k] = "closed"
                        /\ linkLife'[k] = "new" => linkLife[k] = "new"
    BY <1>t, <2>1 DEF Destroys, BridgeTypeOK
  <2> QED BY <2>1, <2>2, <2>3, CountsStay
<1>12. ASSUME NEW l \in Link, LinkClosed(l) PROVE BridgeInv'
  <2>l. linkLife[l] = "destroying" /\ linkLife' = [linkLife EXCEPT ![l] = "closed"]
        /\ UNCHANGED <<route, peeked, swarm, bootVars>>
    BY <1>12 DEF LinkClosed
  <2>n. \A k \in Link : linkLife'[k] = "new" => route'[k] = "none"
    BY <1>t, <1>n, <2>l DEF BridgeTypeOK
  <2>1. CASE route[l] = "bridge"
    <3>1. l \in Bridged /\ Bridged' = Bridged \ {l} /\ Served' = Served
      BY <1>t, <2>1, <2>l DEF Bridged, Served, BridgeTypeOK
    <3>2. Cardinality(Bridged') = conns - 1 /\ conns > 0
      BY <1>t, <3>1, OneLess DEF Bridged
    <3>3. conns' = conns - 1 /\ svcConns' = svcConns /\ Noted("closed")
          /\ tcp' = [tcp EXCEPT ![l] = "closed"]
      BY <1>12, <2>1 DEF LinkClosed
    <3>4. BridgeTypeOK'
      BY <1>t, <2>l, <3>2, <3>3, NotedTyped DEF bootVars, BridgeTypeOK
    <3> QED BY <1>t, <2>l, <2>n, <3>1, <3>2, <3>3, <3>4, LinksStep
  <2>2. CASE route[l] = "svc"
    <3>1. l \in Served /\ Served' = Served \ {l} /\ Bridged' = Bridged
      BY <1>t, <2>2, <2>l DEF Bridged, Served, BridgeTypeOK
    <3>2. Cardinality(Served') = svcConns - 1 /\ svcConns > 0
      BY <1>t, <3>1, OneLess DEF Served
    <3>3. svcConns' = svcConns - 1 /\ UNCHANGED <<conns, diag>> /\ tcp' = [tcp EXCEPT ![l] = @]
      BY <1>12, <2>2 DEF LinkClosed
    <3>4. BridgeTypeOK'
      BY <1>t, <2>l, <3>2, <3>3 DEF bootVars, BridgeTypeOK
    <3> QED BY <1>t, <2>l, <2>n, <3>1, <3>2, <3>3, <3>4, LinksStep
  <2>3. CASE route[l] \notin {"bridge", "svc"}
    <3>1. Served' = Served /\ Bridged' = Bridged
      BY <1>t, <2>3, <2>l DEF Bridged, Served, BridgeTypeOK
    <3>3. UNCHANGED <<conns, svcConns, diag>> /\ tcp' = [tcp EXCEPT ![l] = @]
      BY <1>12, <2>3 DEF LinkClosed
    <3>4. BridgeTypeOK'
      BY <1>t, <2>l, <3>3 DEF bootVars, BridgeTypeOK
    <3> QED BY <1>t, <2>l, <2>n, <3>1, <3>3, <3>4, LinksStep
  <2> QED BY <2>1, <2>2, <2>3
<1>13. CASE UNCHANGED bridgeVars
  BY <1>13, <1>t DEF bridgeVars, BridgeInv, BridgeTypeOK, CountsTrue
<1> QED BY <1>1, <1>2, <1>3, <1>4, <1>5, <1>6, <1>7, <1>8, <1>9, <1>10, <1>11, <1>12, <1>13
        DEF BridgeNext

LEMMA BridgeInit0 == BridgeInit => BridgeInv
<1> SUFFICES ASSUME BridgeInit PROVE BridgeInv
  OBVIOUS
<1>1. Bridged = {} /\ Served = {}
  BY DEF BridgeInit, NoLinks, Bridged, Served
<1>2. CountsTrue
  BY <1>1, FS_EmptySet DEF BridgeInit, NoLinks, Bridged, Served, CountsTrue
<1> QED BY <1>2, BridgeAssumption DEF BridgeInit, NoLinks, BridgeInv, BridgeTypeOK, NoSeed, CutShort

LEMMA BridgeInvImplies == BridgeInv => OneIdentity
<1> SUFFICES ASSUME BridgeInv PROVE OneIdentity
  OBVIOUS
<1>1. CASE identity = {}
  BY <1>1, FS_EmptySet DEF OneIdentity
<1>2. CASE identity = {seedFile}
  BY <1>2, FS_Singleton DEF OneIdentity
<1> QED BY <1>1, <1>2 DEF BridgeInv

-----------------------------------------------------------------------------
(* Mailbox: what is kept, and handed over.                                  *)

MailboxInv == MailboxTypeOK /\ NothingMissed

LEMMA MailboxInit0 == MailboxInit => MailboxInv
BY MailboxAssumption DEF MailboxInit, MailboxInv, MailboxTypeOK, NothingMissed, NotThere

LEMMA MailboxStep == MailboxInv /\ [MailboxNext]_mailboxVars => MailboxInv'
<1> SUFFICES ASSUME MailboxInv, [MailboxNext]_mailboxVars PROVE MailboxInv'
  OBVIOUS
<1> USE MailboxAssumption DEF MailboxInv, NotThere
<1>1. ASSUME NEW c \in Conn, Connects(c) PROVE MailboxInv'
  BY <1>1 DEF Connects, MailboxTypeOK, NothingMissed, Held
<1>2. ASSUME NEW c \in Conn, ProofFrame(c) PROVE MailboxInv'
  <2>1. claimed[c] \in Pk
    BY <1>2 DEF ProofFrame, MailboxTypeOK
  <2>2. CASE wantSub[c]
    <3>1. /\ subs' = [subs EXCEPT ![claimed[c]] = @ \cup {c}]
          /\ handed' = [handed EXCEPT ![c] = @ \cup ({claimed[c]} \X Held(claimed[c]))]
          /\ authed' = [authed EXCEPT ![c] = claimed[c]] /\ up[c] = "open"
          /\ UNCHANGED <<files, clock, claimed, wantSub, up>>
      BY <1>2, <2>2 DEF ProofFrame
    <3>2. MailboxTypeOK'
      BY <2>1, <3>1 DEF MailboxTypeOK, Held
    <3>3. \A p \in Pk, d \in Conn :
            d \in subs'[p] => up[d] = "open" /\ {p} \X Held(p) \subseteq handed'[d]
      BY <2>1, <3>1 DEF MailboxTypeOK, NothingMissed
    <3> QED BY <3>1, <3>2, <3>3 DEF MailboxTypeOK, NothingMissed, Held
  <2>3. CASE ~wantSub[c]
    BY <1>2, <2>1, <2>3 DEF ProofFrame, MailboxTypeOK, NothingMissed, Held
  <2> QED BY <2>2, <2>3
<1>3. ASSUME NEW c \in Conn, ConnCloses(c) PROVE MailboxInv'
  BY <1>3 DEF ConnCloses, Unsubscribed, Forgets, MailboxTypeOK, NothingMissed, Held
<1>4. ASSUME NEW c \in Conn, NEW p \in Pk, NEW sub \in BOOLEAN, FetchFrame(c, p, sub)
      PROVE  MailboxInv'
  BY <1>4 DEF FetchFrame, MailboxTypeOK, NothingMissed, Held
<1>5. ASSUME NEW c \in Conn, NEW m \in Sealed, AckFrame(c, m) PROVE MailboxInv'
  <2>1. /\ authed[c] \in Pk /\ files' = [files EXCEPT ![authed[c]][m] = -1]
        /\ handed' = [x \in Conn |-> handed[x] \ {<<authed[c], m>>}]
        /\ UNCHANGED <<clock, claimed, wantSub, authed, up, subs>>
    BY <1>5 DEF AckFrame, Owner, MailboxTypeOK
  <2>2. MailboxTypeOK'
    BY <2>1 DEF MailboxTypeOK
  <2>3. \A p \in Pk, k \in Sealed :
          files'[p][k] # -1 => files[p][k] # -1 /\ <<p, k>> # <<authed[c], m>>
    BY <2>1 DEF MailboxTypeOK
  <2> QED BY <2>1, <2>2, <2>3 DEF MailboxTypeOK, NothingMissed, Held
<1>6. ASSUME NEW p \in Pk, NEW m \in Sealed, StoreFrame(p, m) PROVE MailboxInv'
  <2>1. /\ files' = [files EXCEPT ![p][m] = clock] /\ handed' = Pushes(p, m)
        /\ UNCHANGED <<clock, claimed, wantSub, authed, up, subs>>
    BY <1>6 DEF StoreFrame
  <2>2. MailboxTypeOK'
    BY <2>1 DEF Pushes, MailboxTypeOK
  <2>3. \A q \in Pk, k \in Sealed :
          files'[q][k] # -1 => files[q][k] # -1 \/ (q = p /\ k = m)
    BY <2>1 DEF MailboxTypeOK
  <2> QED BY <2>1, <2>2, <2>3 DEF Pushes, MailboxTypeOK, NothingMissed, Held
<1>7. CASE Sweep
  BY <1>7 DEF Sweep, Expired, MailboxTypeOK, NothingMissed, Held
<1>8. CASE MailboxRestarts
  BY <1>8 DEF MailboxRestarts, Forgets, MailboxTypeOK, NothingMissed, Held
<1>9. CASE UNCHANGED mailboxVars
  BY <1>9 DEF mailboxVars, MailboxTypeOK, NothingMissed, Held
<1> QED BY <1>1, <1>2, <1>3, <1>4, <1>5, <1>6, <1>7, <1>8, <1>9 DEF MailboxNext

\* What a step of the mailbox takes away it may.
Kept ==
  \A p \in Pk : \A m \in Held(p) :
    files'[p][m] = NotThere =>
      \/ clock' - files[p][m] > TTL
      \/ \E c \in Conn : up[c] = "open" /\ authed[c] = p /\ AckFrame(c, m)

LEMMA MailboxKeepsStep == MailboxTypeOK /\ [MailboxNext]_mailboxVars => [Kept]_mailboxVars
<1> SUFFICES ASSUME MailboxTypeOK, MailboxNext, NEW p \in Pk, NEW m \in Held(p),
                    files'[p][m] = NotThere
             PROVE  \/ clock' - files[p][m] > TTL
                    \/ \E c \in Conn : up[c] = "open" /\ authed[c] = p /\ AckFrame(c, m)
  BY DEF Kept
<1> USE MailboxAssumption DEF NotThere
<1>t. m \in Sealed /\ files[p][m] \in Int /\ files[p][m] # -1 /\ clock \in Nat
  BY DEF Held, MailboxTypeOK
<1>1. ASSUME NEW c \in Conn, NEW k \in Sealed, AckFrame(c, k)
      PROVE  up[c] = "open" /\ authed[c] = p /\ AckFrame(c, m)
  <2>1. authed[c] \in Pk /\ files' = [files EXCEPT ![authed[c]][k] = -1] /\ up[c] = "open"
    BY <1>1 DEF AckFrame, Owner, MailboxTypeOK
  <2>2. authed[c] = p /\ k = m
    BY <1>t, <2>1 DEF MailboxTypeOK
  <2> QED BY <1>1, <2>1, <2>2
<1>2. ASSUME NEW q \in Pk, NEW k \in Sealed, StoreFrame(q, k) PROVE FALSE
  BY <1>2, <1>t DEF StoreFrame, MailboxTypeOK
<1>3. ASSUME Sweep PROVE clock' - files[p][m] > TTL
  BY <1>3, <1>t DEF Sweep, Expired
<1>4. CASE UNCHANGED files
  BY <1>4, <1>t
<1> QED BY <1>1, <1>2, <1>3, <1>4
        DEF MailboxNext, Connects, ProofFrame, ConnCloses, FetchFrame, MailboxRestarts

-----------------------------------------------------------------------------
(* Transfers: one job at a time.                                            *)

Opening(s) == \E j \in Job : running[j] = "opening" /\ j.slot = s

\* The job that has begun is the first of the queue, and nothing else changes
\* what it has seen: its slot is open only if it is leaving it.
OneJob ==
  /\ \A j \in Job : running[j] # "no" => isUp /\ jobs # <<>> /\ jobs[1] = j
  /\ \A j \in Job : running[j] = "opening" =>
       j.slot \notin privateOpen /\ records[j.slot] = "shared"
  /\ \A j \in Job : running[j] = "leaving" =>
       /\ j.slot \in privateOpen /\ records[j.slot] = "paused"
       /\ onDisk[j.slot] # "shared"

\* A Corestore that is not closed is that of an open slot, or of one that a
\* job opens; an open slot has its record.
StoresCounted ==
  /\ \A s \in Slot : isolated[s] = IF s \in privateOpen \/ Opening(s) THEN 1 ELSE 0
  /\ \A s \in privateOpen : isUp /\ records[s] # None
  /\ shuts = "done" => jobs = <<>> /\ privateOpen = {}

\* The file says "shared" of a transfer that is paused only if a write failed,
\* and of one that is forgotten only if another did.
FileFollows ==
  isUp => \A s \in Slot : onDisk[s] = "shared" =>
            /\ records[s] = "paused" => saveFails >= 1
            /\ records[s] = None => saveFails >= 2

StoppedStays ==
  saveFails <= 1 => \A s \in stopped :
    /\ s \notin privateOpen /\ ~Opening(s) /\ onDisk[s] # "shared"
    /\ isUp => records[s] # "shared"

TransfersInv == TransfersTypeOK /\ OneJob /\ StoresCounted /\ FileFollows /\ StoppedStays

LEMMA TransfersInvImplies == TransfersInv => StopSticks /\ TransfersReleased
<1> SUFFICES ASSUME TransfersInv PROVE StopSticks /\ TransfersReleased
  OBVIOUS
<1>1. StopSticks
  BY DEF StopSticks, TransfersInv, StoppedStays, StoresCounted, TransfersTypeOK
<1>2. TransfersReleased
  BY DEF TransfersReleased, TransfersInv, StoresCounted, OneJob, Opening
<1> QED BY <1>1, <1>2

LEMMA TransfersInit0 == TransfersInit => TransfersInv
BY TransfersAssumption
   DEF TransfersInit, TransfersInv, TransfersTypeOK, OneJob, StoresCounted, FileFollows,
       StoppedStays, Opening, Job, Op, None

\* A job is answered: the next one's turn comes, and none has begun.
LEMMA JobReplies ==
  ASSUME TransfersInv, NEW j \in Job, jobs # <<>>, jobs[1] = j, Replies(j)
  PROVE  /\ jobs' \in Seq(Job) /\ Len(jobs') <= MaxJobs
         /\ running' = [k \in Job |-> "no"]
<1>1. jobs' \in Seq(Job) /\ Len(jobs') <= MaxJobs
  BY TransfersAssumption DEF Replies, TransfersInv, TransfersTypeOK
<1>2. \A k \in Job \ {j} : running[k] = "no"
  BY DEF TransfersInv, OneJob
<1>3. running' = [running EXCEPT ![j] = "no"] /\ running \in [Job -> {"no", "opening", "leaving"}]
  BY DEF Replies, TransfersInv, TransfersTypeOK
<1>4. running' = [k \in Job |-> "no"]
  BY <1>2, <1>3
<1> QED BY <1>1, <1>4

\* Whatever a job did: that none has begun makes most of it.
LEMMA NoneBegun ==
  ASSUME TransfersTypeOK, running = [k \in Job |-> "no"]
  PROVE  OneJob /\ \A s \in Slot : ~Opening(s)
BY DEF OneJob, Opening

\* A job that is answered at once, whatever it did to its slot's record and file.
LEMMA Answered ==
  ASSUME TransfersInv, isUp, NEW j \in Job, jobs # <<>>, jobs[1] = j,
         running = [k \in Job |-> "no"], Replies(j),
         UNCHANGED <<privateOpen, isolated, isUp, shuts>>,
         records' \in [Slot -> {None, "shared", "paused"}],
         onDisk' \in [Slot -> {None, "shared", "paused"}],
         stopped' \subseteq Slot, saveFails' \in 0..MaxSaveFails,
         \A s \in privateOpen : records'[s] # None,
         \A s \in Slot : onDisk'[s] = "shared" =>
            /\ records'[s] = "paused" => saveFails' >= 1
            /\ records'[s] = None => saveFails' >= 2,
         saveFails' <= 1 => \A s \in stopped' :
           s \notin privateOpen /\ onDisk'[s] # "shared" /\ records'[s] # "shared"
  PROVE  TransfersInv'
<1>1. /\ jobs' \in Seq(Job) /\ Len(jobs') <= MaxJobs /\ running' = [k \in Job |-> "no"]
  BY JobReplies
<1>2. \A s \in Slot : ~Opening(s) /\ ~Opening(s)'
  BY <1>1 DEF Opening
<1>3. TransfersTypeOK'
  BY <1>1 DEF TransfersInv, TransfersTypeOK
<1>4. OneJob'
  BY <1>1 DEF OneJob
<1>5. StoresCounted'
  BY <1>2 DEF TransfersInv, StoresCounted, TransfersTypeOK
<1>6. FileFollows' /\ StoppedStays'
  BY <1>2 DEF FileFollows, StoppedStays
<1> QED BY <1>3, <1>4, <1>5, <1>6 DEF TransfersInv

\* A job opens a slot.
LEMMA Opens ==
  ASSUME TransfersInv, isUp, NEW j \in Job, jobs # <<>>, jobs[1] = j,
         running = [k \in Job |-> "no"], shuts = "no",
         j.slot \notin privateOpen, JobAwaits(j, "opening"),
         isolated' = [isolated EXCEPT ![j.slot] = @ + 1],
         UNCHANGED <<privateOpen, isUp, shuts>>,
         records' = [records EXCEPT ![j.slot] = "shared"],
         onDisk' = onDisk \/ onDisk' = records', saveFails' = saveFails,
         stopped' \subseteq Slot, saveFails <= 1 => stopped' = stopped \ {j.slot}
  PROVE  TransfersInv'
<1> DEFINE o == j.slot
<1>1. o \in Slot /\ j = [op |-> j.op, slot |-> o]
  BY DEF Job
<1>2. \A s \in Slot : ~Opening(s)
  BY DEF Opening
<1>3. running' = [running EXCEPT ![j] = "opening"] /\ jobs' = jobs
  BY DEF JobAwaits
<1>4. \A s \in Slot : Opening(s)' <=> s = o
  BY <1>1, <1>3 DEF Opening
<1>5. isolated[o] = 0 /\ 1 <= MaxJobs
  BY <1>1, <1>2, TransfersAssumption DEF TransfersInv, StoresCounted, TransfersTypeOK
<1>6. /\ isolated' = [isolated EXCEPT ![o] = 1]
      /\ isolated' \in [Slot -> 0..MaxJobs]
  BY <1>1, <1>5, TransfersAssumption DEF TransfersInv, TransfersTypeOK
<1>7. TransfersTypeOK'
  BY <1>1, <1>3, <1>6 DEF TransfersInv, TransfersTypeOK
<1>8. OneJob'
  BY <1>1, <1>3 DEF OneJob, TransfersInv, TransfersTypeOK
<1>9. StoresCounted'
  BY <1>1, <1>2, <1>4, <1>6 DEF TransfersInv, StoresCounted, TransfersTypeOK, None
<1>10. FileFollows' /\ StoppedStays'
  BY <1>1, <1>2, <1>4 DEF TransfersInv, FileFollows, StoppedStays, TransfersTypeOK, None
<1> QED BY <1>7, <1>8, <1>9, <1>10 DEF TransfersInv

LEMMA RunsKeeps ==
  ASSUME TransfersInv, NEW j \in Job, Runs(j)
  PROVE  TransfersInv'
<1> USE TransfersAssumption DEF None
<1> DEFINE o == j.slot
<1>o. o \in Slot
  BY DEF Job
<1>u. isUp /\ jobs # <<>> /\ jobs[1] = j /\ running[j] = "no" /\ UNCHANGED <<isUp, shuts>>
  BY DEF Runs, Turn
<1>r. running = [k \in Job |-> "no"]
  BY <1>u DEF TransfersInv, OneJob, TransfersTypeOK
<1>t. TransfersTypeOK /\ StoresCounted /\ FileFollows /\ StoppedStays
  BY DEF TransfersInv
<1>p. (\A s \in privateOpen : records[s] # None) /\ \A s \in Slot : ~Opening(s)
  BY <1>r DEF TransfersInv, StoresCounted, Opening
<1>a. ASSUME Replies(j), UNCHANGED <<records, onDisk, privateOpen, isolated, stopped, saveFails>>
      PROVE  TransfersInv'
  BY <1>a, <1>u, <1>r, <1>t, <1>p, Answered DEF FileFollows, StoppedStays, TransfersTypeOK
<1>1. CASE shuts # "no"
  BY <1>1, <1>a DEF Runs
<1>2. CASE shuts = "no" /\ Use(j)
  <2>1. CASE \/ records[o] = "paused"
             \/ j.op = "use" /\ records[o] = None /\ Cardinality(Remembered) >= LIMIT
             \/ j.op = "start" /\ records[o] = None
    <3>1. Replies(j) /\ UNCHANGED <<records, onDisk, privateOpen, isolated, stopped, saveFails>>
      BY <1>2, <2>1 DEF Use
    <3> QED BY <3>1, <1>a
  <2>2. CASE ~(\/ records[o] = "paused"
               \/ j.op = "use" /\ records[o] = None /\ Cardinality(Remembered) >= LIMIT
               \/ j.op = "start" /\ records[o] = None)
    <3>1. /\ records' = [records EXCEPT ![o] = "shared"] /\ OpensDrive(j)
          /\ stopped' = IF records[o] = None THEN stopped \ {o} ELSE stopped
          /\ UNCHANGED <<onDisk, privateOpen, saveFails>>
      BY <1>2, <2>2 DEF Use
    <3>2. stopped' \subseteq Slot /\ (saveFails <= 1 => stopped' = stopped \ {o})
      BY <1>o, <1>t, <1>u, <2>2, <3>1 DEF StoppedStays, TransfersTypeOK
    <3>3. CASE o \in privateOpen
      <4>1. records' = records /\ UNCHANGED <<isolated, stopped>> /\ Replies(j)
        BY <1>o, <1>t, <1>p, <2>2, <3>1, <3>3 DEF OpensDrive, TransfersTypeOK, StoppedStays
      <4> QED BY <4>1, <3>1, <3>2, <1>a
    <3>4. CASE o \notin privateOpen
      <4>1. JobAwaits(j, "opening") /\ isolated' = [isolated EXCEPT ![o] = @ + 1]
        BY <3>1, <3>4 DEF OpensDrive
      <4> QED BY <1>2, <1>u, <1>r, <3>1, <3>2, <3>4, <4>1, Opens
    <3> QED BY <3>3, <3>4
  <2> QED BY <2>1, <2>2
<1>3. CASE shuts = "no" /\ Share(j)
  <2>1. CASE records[o] = None
    <3>1. Replies(j) /\ UNCHANGED <<records, onDisk, privateOpen, isolated, stopped, saveFails>>
      BY <1>3, <2>1 DEF Share
    <3> QED BY <3>1, <1>a
  <2>2. CASE records[o] # None
    <3>1. /\ records' = [records EXCEPT ![o] = "shared"] /\ stopped' = stopped \ {o}
          /\ UNCHANGED privateOpen
      BY <1>3, <2>2 DEF Share
    <3>2. /\ records' \in [Slot -> {None, "shared", "paused"}] /\ stopped' \subseteq Slot
          /\ \A s \in privateOpen : records'[s] # None
          /\ records'[o] = "shared" /\ \A s \in Slot \ {o} : records'[s] = records[s]
      BY <1>o, <1>t, <1>p, <3>1 DEF TransfersTypeOK
    <3>3. CASE onDisk' = records' /\ saveFails' = saveFails /\ OpensDrive(j)
      <4>1. CASE o \in privateOpen
        <5>1. Replies(j) /\ UNCHANGED isolated
          BY <3>3, <4>1 DEF OpensDrive
        <5>2. saveFails' <= 1 => \A s \in stopped' :
                s \notin privateOpen /\ onDisk'[s] # "shared" /\ records'[s] # "shared"
          BY <1>t, <1>u, <3>1, <3>2, <3>3 DEF StoppedStays, TransfersTypeOK
        <5> QED BY <1>t, <1>u, <1>r, <3>1, <3>2, <3>3, <5>1, <5>2, Answered DEF TransfersTypeOK
      <4>2. CASE o \notin privateOpen
        <5>1. JobAwaits(j, "opening") /\ isolated' = [isolated EXCEPT ![o] = @ + 1]
          BY <3>3, <4>2 DEF OpensDrive
        <5> QED BY <1>3, <1>u, <1>r, <3>1, <3>2, <3>3, <4>2, <5>1, Opens
      <4> QED BY <4>1, <4>2
    <3>4. CASE SaveThrows /\ Replies(j) /\ UNCHANGED isolated
      <4>1. onDisk' = onDisk /\ saveFails' = saveFails + 1 /\ saveFails' \in 0..MaxSaveFails
        BY <1>t, <3>4 DEF SaveThrows, TransfersTypeOK
      <4>2. \A s \in Slot : onDisk'[s] = "shared" =>
              /\ records'[s] = "paused" => saveFails' >= 1
              /\ records'[s] = None => saveFails' >= 2
        BY <1>t, <1>u, <3>2, <4>1 DEF FileFollows, TransfersTypeOK
      <4>3. saveFails' <= 1 => \A s \in stopped' :
                s \notin privateOpen /\ onDisk'[s] # "shared" /\ records'[s] # "shared"
        BY <1>t, <1>u, <3>1, <3>2, <4>1 DEF StoppedStays, TransfersTypeOK
      <4> QED BY <1>t, <1>u, <1>r, <3>1, <3>2, <3>4, <4>1, <4>2, <4>3, Answered
                 DEF TransfersTypeOK
    <3> QED BY <1>3, <2>2, <3>3, <3>4 DEF Share, Saved
  <2> QED BY <2>1, <2>2
<1>4. CASE shuts = "no" /\ StopSharing(j)
  <2>1. /\ records' = [records EXCEPT ![o] = IF @ = None THEN None ELSE "paused"]
        /\ UNCHANGED <<privateOpen, isolated>>
    BY <1>4 DEF StopSharing
  <2>2. /\ records' \in [Slot -> {None, "shared", "paused"}]
        /\ \A s \in privateOpen : records'[s] # None
        /\ records'[o] = IF records[o] = None THEN None ELSE "paused"
        /\ \A s \in Slot \ {o} : records'[s] = records[s]
    BY <1>o, <1>t, <1>p, <2>1 DEF TransfersTypeOK
  <2>3. CASE records[o] = None
    <3>1. Replies(j) /\ stopped' = stopped \cup {o} /\ UNCHANGED <<onDisk, saveFails>>
      BY <1>4, <2>3 DEF StopSharing
    <3>2. o \notin privateOpen /\ records' = records
          /\ (saveFails <= 1 => onDisk[o] # "shared")
      BY <1>o, <1>t, <1>u, <1>p, <2>1, <2>3 DEF FileFollows, TransfersTypeOK
    <3>3. saveFails' <= 1 => \A s \in stopped' :
                s \notin privateOpen /\ onDisk'[s] # "shared" /\ records'[s] # "shared"
      BY <1>t, <1>u, <2>3, <3>1, <3>2 DEF StoppedStays, TransfersTypeOK
    <3>4. stopped' \subseteq Slot /\ \A s \in Slot : onDisk'[s] = "shared" =>
              /\ records'[s] = "paused" => saveFails' >= 1
              /\ records'[s] = None => saveFails' >= 2
      BY <1>o, <1>t, <1>u, <3>1, <3>2 DEF FileFollows, TransfersTypeOK
    <3> QED BY <1>t, <1>u, <1>r, <2>1, <2>2, <3>1, <3>3, <3>4, Answered DEF TransfersTypeOK
  <2>4. CASE records[o] # None /\ SaveThrows /\ Replies(j) /\ UNCHANGED stopped
    <3>1. onDisk' = onDisk /\ saveFails' = saveFails + 1 /\ saveFails' \in 0..MaxSaveFails
      BY <1>t, <2>4 DEF SaveThrows, TransfersTypeOK
    <3>2. \A s \in Slot : onDisk'[s] = "shared" =>
            /\ records'[s] = "paused" => saveFails' >= 1
            /\ records'[s] = None => saveFails' >= 2
      BY <1>t, <1>u, <2>2, <2>4, <3>1 DEF FileFollows, TransfersTypeOK
    <3>3. saveFails' <= 1 => \A s \in stopped' :
                s \notin privateOpen /\ onDisk'[s] # "shared" /\ records'[s] # "shared"
      BY <1>t, <1>u, <2>2, <2>4, <3>1 DEF StoppedStays, TransfersTypeOK
    <3> QED BY <1>t, <1>u, <1>r, <2>1, <2>2, <2>4, <3>1, <3>2, <3>3, Answered DEF TransfersTypeOK
  <2>5. CASE /\ records[o] # None /\ Saved /\ o \notin privateOpen /\ Replies(j)
             /\ stopped' = stopped \cup {o}
    <3>1. onDisk' = records' /\ saveFails' = saveFails /\ records'[o] = "paused"
      BY <2>2, <2>5 DEF Saved
    <3>2. saveFails <= 1 => \A s \in stopped' : s \notin privateOpen /\ records'[s] # "shared"
      BY <1>t, <1>u, <2>2, <2>5, <3>1 DEF StoppedStays, TransfersTypeOK
    <3> QED BY <1>o, <1>t, <1>u, <1>r, <2>1, <2>2, <2>5, <3>1, <3>2, Answered DEF TransfersTypeOK
  <2>6. CASE /\ records[o] # None /\ Saved /\ o \in privateOpen /\ JobAwaits(j, "leaving")
             /\ UNCHANGED stopped
    <3>1. /\ onDisk' = records' /\ saveFails' = saveFails /\ records'[o] = "paused"
          /\ running' = [running EXCEPT ![j] = "leaving"] /\ jobs' = jobs
      BY <2>2, <2>6 DEF Saved, JobAwaits
    <3>2. \A s \in Slot : ~Opening(s)'
      BY <1>r, <3>1 DEF Opening
    <3>3. TransfersTypeOK'
      BY <1>t, <1>u, <2>1, <2>2, <2>6, <3>1 DEF TransfersTypeOK
    <3>4. OneJob'
      BY <1>r, <1>u, <2>1, <2>6, <3>1 DEF OneJob
    <3>5. StoresCounted'
      BY <1>4, <1>t, <1>u, <1>p, <2>1, <2>2, <3>2 DEF StoresCounted
    <3>6. FileFollows' /\ StoppedStays'
      BY <1>t, <1>u, <2>1, <2>2, <2>6, <3>1, <3>2 DEF FileFollows, StoppedStays, TransfersTypeOK
    <3> QED BY <3>3, <3>4, <3>5, <3>6 DEF TransfersInv
  <2> QED BY <1>4, <2>3, <2>4, <2>5, <2>6 DEF StopSharing
<1>5. CASE shuts = "no" /\ Forget(j)
  <2>1. Replies(j) /\ UNCHANGED <<privateOpen, isolated, stopped>>
    BY <1>5 DEF Forget
  <2>2. CASE ~(records[o] = "paused" /\ o \notin privateOpen)
    <3>1. UNCHANGED <<records, onDisk, saveFails>>
      BY <1>5, <2>2 DEF Forget
    <3> QED BY <2>1, <3>1, <1>a
  <2>3. CASE records[o] = "paused" /\ o \notin privateOpen
    <3>1. records' = [records EXCEPT ![o] = None] /\ (Saved \/ SaveThrows)
      BY <1>5, <2>3 DEF Forget
    <3>2. /\ records' \in [Slot -> {None, "shared", "paused"}]
          /\ \A s \in privateOpen : records'[s] # None
          /\ records'[o] = None /\ \A s \in Slot \ {o} : records'[s] = records[s]
      BY <1>o, <1>t, <1>p, <2>3, <3>1 DEF TransfersTypeOK
    <3>3. /\ onDisk' \in [Slot -> {None, "shared", "paused"}] /\ saveFails' \in 0..MaxSaveFails
          /\ \A s \in Slot : onDisk'[s] = "shared" =>
                /\ records'[s] = "paused" => saveFails' >= 1
                /\ records'[s] = None => saveFails' >= 2
      <4>1. CASE Saved
        BY <1>t, <3>2, <4>1 DEF Saved, TransfersTypeOK
      <4>2. CASE SaveThrows
        <5>1. onDisk' = onDisk /\ saveFails' = saveFails + 1 /\ saveFails' \in 0..MaxSaveFails
          BY <1>t, <4>2 DEF SaveThrows, TransfersTypeOK
        <5> QED BY <1>t, <1>u, <2>3, <3>2, <5>1 DEF FileFollows, TransfersTypeOK
      <4> QED BY <3>1, <4>1, <4>2
    <3>4. saveFails' <= 1 => \A s \in stopped :
                s \notin privateOpen /\ onDisk'[s] # "shared" /\ records'[s] # "shared"
      BY <1>t, <1>u, <3>1, <3>2 DEF Saved, SaveThrows, StoppedStays, TransfersTypeOK
    <3> QED BY <1>t, <1>u, <1>r, <2>1, <3>2, <3>3, <3>4, Answered DEF TransfersTypeOK
  <2> QED BY <2>2, <2>3
<1> QED BY <1>1, <1>2, <1>3, <1>4, <1>5 DEF Runs

LEMMA TransfersStep == TransfersInv /\ [TransfersNext]_transferVars => TransfersInv'
<1> SUFFICES ASSUME TransfersInv, [TransfersNext]_transferVars PROVE TransfersInv'
  OBVIOUS
<1> USE TransfersAssumption DEF None
<1>t. TransfersTypeOK /\ OneJob /\ StoresCounted /\ FileFollows /\ StoppedStays
  BY DEF TransfersInv
<1>1. ASSUME NEW j \in Job, Queue(j) PROVE TransfersInv'
  <2>1. /\ jobs' = Append(jobs, j) /\ Len(jobs) < MaxJobs /\ shuts # "done"
        /\ UNCHANGED <<records, onDisk, privateOpen, isolated, running, isUp, shuts, stopped, saveFails>>
    BY <1>1 DEF Queue
  <2>2. /\ jobs' \in Seq(Job) /\ Len(jobs') <= MaxJobs
        /\ jobs # <<>> => jobs' # <<>> /\ jobs'[1] = jobs[1]
    BY <1>t, <2>1 DEF TransfersTypeOK
  <2>3. \A s \in Slot : Opening(s)' <=> Opening(s)
    BY <2>1 DEF Opening
  <2> QED BY <1>t, <2>1, <2>2, <2>3
          DEF TransfersInv, TransfersTypeOK, OneJob, StoresCounted, FileFollows, StoppedStays
<1>2. ASSUME NEW j \in Job, Runs(j) PROVE TransfersInv'
  BY <1>2, RunsKeeps
<1>3. ASSUME NEW j \in Job, Opened(j) \/ Left(j) PROVE TransfersInv'
  <2> DEFINE o == j.slot
  <2>o. o \in Slot
    BY DEF Job
  <2>1. /\ isUp /\ running[j] # "no" /\ Replies(j) /\ UNCHANGED <<records, isUp, shuts>>
        /\ jobs # <<>> /\ jobs[1] = j
    BY <1>3, <1>t DEF Opened, Left, OneJob
  <2>2. /\ jobs' \in Seq(Job) /\ Len(jobs') <= MaxJobs /\ running' = [k \in Job |-> "no"]
    BY <2>1, JobReplies
  <2>3. \A s \in Slot : ~Opening(s)'
    BY <2>2 DEF Opening
  <2>4. \A k \in Job : running[k] # "no" => k = j
    BY <2>1, <1>t DEF OneJob
  <2>5. shuts # "done"
    BY <2>1, <1>t DEF StoresCounted
  <2>6. OneJob'
    BY <2>2 DEF OneJob
  <2>7. CASE Opened(j)
    <3>1. /\ running[j] = "opening" /\ o \notin privateOpen /\ records[o] = "shared"
          /\ UNCHANGED stopped
      BY <2>7, <1>t DEF Opened, OneJob
    <3>2. \A s \in Slot : Opening(s) <=> s = o
      BY <2>4, <3>1 DEF Opening
    <3>3. saveFails <= 1 => o \notin stopped
      BY <2>1, <3>1, <1>t DEF StoppedStays
    <3>4. CASE privateOpen' = privateOpen \cup {o} /\ onDisk' = records /\ UNCHANGED <<isolated, saveFails>>
      <4>1. TransfersTypeOK'
        BY <1>t, <2>o, <2>1, <2>2, <3>1, <3>4 DEF TransfersTypeOK
      <4>2. StoresCounted'
        BY <1>t, <2>o, <2>1, <2>3, <2>5, <3>1, <3>2, <3>4 DEF StoresCounted
      <4>3. FileFollows' /\ StoppedStays'
        BY <1>t, <2>1, <2>3, <3>1, <3>3, <3>4 DEF FileFollows, StoppedStays, TransfersTypeOK
      <4> QED BY <2>6, <4>1, <4>2, <4>3 DEF TransfersInv
    <3>5. ASSUME isolated' = [isolated EXCEPT ![o] = @ - 1], UNCHANGED privateOpen,
                 onDisk' = onDisk, saveFails' \in 0..MaxSaveFails, saveFails' >= saveFails
          PROVE  TransfersInv'
      <4>0. isolated[o] = 1
        BY <1>t, <2>o, <3>2 DEF StoresCounted
      <4>1. isolated' = [isolated EXCEPT ![o] = 0]
        BY <3>5, <4>0
      <4>2. TransfersTypeOK'
        BY <1>t, <2>o, <2>1, <2>2, <3>1, <3>5, <4>1 DEF TransfersTypeOK
      <4>3. StoresCounted'
        BY <1>t, <2>o, <2>1, <2>3, <2>5, <3>1, <3>2, <3>5, <4>0, <4>1 DEF StoresCounted, TransfersTypeOK
      <4>4. FileFollows' /\ StoppedStays'
        BY <1>t, <2>1, <2>3, <3>1, <3>3, <3>5 DEF FileFollows, StoppedStays, TransfersTypeOK
      <4> QED BY <2>6, <4>2, <4>3, <4>4 DEF TransfersInv
    <3>6. CASE SaveThrows /\ isolated' = [isolated EXCEPT ![o] = @ - 1] /\ UNCHANGED privateOpen
      BY <1>t, <3>5, <3>6 DEF SaveThrows, TransfersTypeOK
    <3>7. CASE /\ isolated' = [isolated EXCEPT ![o] = @ - 1] /\ UNCHANGED privateOpen
               /\ UNCHANGED <<onDisk, saveFails>>
      BY <1>t, <3>5, <3>7 DEF TransfersTypeOK
    <3> QED BY <2>7, <3>4, <3>6, <3>7 DEF Opened
  <2>8. CASE Left(j)
    <3>1. /\ running[j] = "leaving" /\ o \in privateOpen /\ records[o] = "paused"
          /\ onDisk[o] # "shared" /\ UNCHANGED <<onDisk, saveFails>>
      BY <2>8, <1>t DEF Left, OneJob
    <3>2. \A s \in Slot : ~Opening(s)
      BY <2>4, <3>1 DEF Opening
    <3>3. CASE /\ isolated' = [isolated EXCEPT ![o] = @ - 1] /\ privateOpen' = privateOpen \ {o}
               /\ stopped' = stopped \cup {o}
      <4>0. isolated[o] = 1
        BY <1>t, <2>o, <3>1 DEF StoresCounted
      <4>1. isolated' = [isolated EXCEPT ![o] = 0]
        BY <3>3, <4>0
      <4>2. TransfersTypeOK'
        BY <1>t, <2>o, <2>1, <2>2, <3>1, <3>3, <4>1 DEF TransfersTypeOK
      <4>3. StoresCounted'
        BY <1>t, <2>o, <2>1, <2>3, <2>5, <3>1, <3>2, <3>3, <4>0, <4>1 DEF StoresCounted, TransfersTypeOK
      <4>4. FileFollows' /\ StoppedStays'
        BY <1>t, <2>o, <2>1, <2>3, <3>1, <3>3 DEF FileFollows, StoppedStays, TransfersTypeOK
      <4> QED BY <2>6, <4>2, <4>3, <4>4 DEF TransfersInv
    <3>4. CASE UNCHANGED <<isolated, privateOpen, stopped>>
      <4>1. TransfersTypeOK'
        BY <1>t, <2>1, <2>2, <3>1, <3>4 DEF TransfersTypeOK
      <4>2. StoresCounted'
        BY <1>t, <2>1, <2>3, <2>5, <3>2, <3>4 DEF StoresCounted
      <4>3. FileFollows' /\ StoppedStays'
        BY <1>t, <2>1, <2>3, <3>1, <3>4 DEF FileFollows, StoppedStays, TransfersTypeOK
      <4> QED BY <2>6, <4>1, <4>2, <4>3 DEF TransfersInv
    <3> QED BY <2>8, <3>3, <3>4 DEF Left
  <2> QED BY <1>3, <2>7, <2>8
<1>4. CASE ShutAsked
  <2>1. \A s \in Slot : Opening(s)' <=> Opening(s)
    BY <1>4 DEF ShutAsked, Opening
  <2> QED BY <1>4, <1>t, <2>1
          DEF ShutAsked, TransfersInv, TransfersTypeOK, OneJob, StoresCounted, FileFollows, StoppedStays
<1>5. CASE ShutEnds
  <2>1. \A k \in Job : running[k] = "no" /\ running'[k] = "no"
    BY <1>5, <1>t DEF ShutEnds, QueueDone, OneJob
  <2>2. \A s \in Slot : ~Opening(s) /\ ~Opening(s)'
    BY <2>1 DEF Opening
  <2>3. isolated' = [s \in Slot |-> 0] /\ privateOpen' = {} /\ shuts' = "done" /\ jobs' = <<>>
        /\ UNCHANGED <<records, onDisk, running, isUp, stopped, saveFails>>
    BY <1>5, <1>t, <2>2 DEF ShutEnds, QueueDone, StoresCounted
  <2> QED BY <1>t, <2>1, <2>2, <2>3
          DEF TransfersInv, TransfersTypeOK, OneJob, StoresCounted, FileFollows, StoppedStays
<1>6. CASE Crash
  <2>1. \A s \in Slot : ~Opening(s)'
    BY <1>6 DEF Crash, Opening
  <2>2. /\ isUp' = FALSE /\ shuts' = "no" /\ records' = [s \in Slot |-> None]
        /\ privateOpen' = {} /\ isolated' = [s \in Slot |-> 0] /\ jobs' = <<>>
        /\ running' = [j \in Job |-> "no"] /\ UNCHANGED <<onDisk, stopped, saveFails>>
    BY <1>6 DEF Crash
  <2>3. TransfersTypeOK'
    <3>1. jobs' \in Seq(Job) /\ Len(jobs') <= MaxJobs /\ 0 \in 0..MaxJobs
      BY <2>2
    <3>2. /\ records' \in [Slot -> {None, "shared", "paused"}] /\ isolated' \in [Slot -> 0..MaxJobs]
          /\ running' \in [Job -> {"no", "opening", "leaving"}] /\ privateOpen' \subseteq Slot
      BY <2>2, <3>1
    <3>3. isUp' \in BOOLEAN /\ shuts' \in {"no", "asked", "done"}
      BY <2>2
    <3> QED BY <1>t, <2>2, <3>1, <3>2, <3>3 DEF TransfersTypeOK
  <2>4. OneJob' /\ StoresCounted'
    BY <2>1, <2>2 DEF OneJob, StoresCounted
  <2>5. FileFollows' /\ StoppedStays'
    BY <1>t, <2>1, <2>2 DEF TransfersTypeOK, FileFollows, StoppedStays
  <2> QED BY <2>3, <2>4, <2>5 DEF TransfersInv
<1>7. CASE Reboot
  <2>1. \A s \in Slot : Opening(s)' <=> Opening(s)
    BY <1>7 DEF Reboot, Opening
  <2>2. privateOpen = {} /\ \A k \in Job : running[k] = "no"
    BY <1>7, <1>t DEF Reboot, StoresCounted, OneJob
  <2>3. isUp' = TRUE /\ records' = onDisk
        /\ UNCHANGED <<onDisk, privateOpen, isolated, jobs, running, shuts, stopped, saveFails>>
    BY <1>7 DEF Reboot
  <2>4. TransfersTypeOK' /\ OneJob' /\ StoresCounted'
    BY <1>t, <2>1, <2>2, <2>3 DEF TransfersTypeOK, OneJob, StoresCounted
  <2>5. FileFollows' /\ StoppedStays'
    BY <1>t, <2>1, <2>3 DEF TransfersTypeOK, FileFollows, StoppedStays
  <2> QED BY <2>4, <2>5 DEF TransfersInv
<1>8. CASE UNCHANGED transferVars
  <2>1. \A s \in Slot : Opening(s)' <=> Opening(s)
    BY <1>8 DEF transferVars, Opening
  <2> QED BY <1>8, <1>t, <2>1
          DEF transferVars, TransfersInv, TransfersTypeOK, OneJob, StoresCounted, FileFollows, StoppedStays
<1> QED BY <1>1, <1>2, <1>3, <1>4, <1>5, <1>6, <1>7, <1>8 DEF TransfersNext

-----------------------------------------------------------------------------
(* MediaRead: the loops and their promises.                                 *)

\* A loop that has not begun has asked for nothing, one that waits for bytes
\* has looked at an entry that is not too big, and a request was given up only
\* after the promise had settled.
MediaReadInv ==
  /\ MediaReadTypeOK /\ FetchedIsAsked /\ GivenUpAlone
  /\ \A r \in MediaReader : loop[r] = "idle" => settled[r] = Out("no") /\ ~deadline[r]
  /\ \A r \in MediaReader : loop[r] = "get" => entryOf[r] # 0 /\ entryOf[r] \notin TooBig
  /\ \A r \in MediaReader : loop[r] \in Awaits /\ ~asksPeer[r] => settled[r] # Out("no")

LEMMA OutcomeOf ==
  /\ \A w \in {"no", "expired", "refused"} : Out(w) \in Outcome /\ Out(w).is = w
  /\ \A c \in 1..Contents : [is |-> "bytes", of |-> c] \in Outcome
<1>1. \A w \in {"no", "expired", "refused"} : Out(w) \in Outcome
  BY Zenon DEF Outcome, Out
<1>2. \A w : Out(w).is = w
  BY DEF Out
<1>3. \A c \in 1..Contents : [is |-> "bytes", of |-> c] \in Outcome
  BY Zenon DEF Outcome
<1> QED BY <1>1, <1>2, <1>3

LEMMA MediaReadInit0 == MediaReadInit => MediaReadInv
<1> SUFFICES ASSUME MediaReadInit PROVE MediaReadInv
  OBVIOUS
<1>1. \A r \in MediaReader : settled[r] = Out("no") /\ settled[r] \in Outcome
                             /\ settled[r].is # "bytes" /\ settled[r] # Out("expired")
  BY OutcomeOf DEF MediaReadInit
<1>2. MediaReadTypeOK
  <2>1. settled \in [MediaReader -> Outcome]
    BY <1>1 DEF MediaReadInit
  <2>2. 0 \in 0..Contents
    BY MediaReadAssumption
  <2> QED BY <2>1, <2>2 DEF MediaReadInit, MediaReadTypeOK
<1> QED BY <1>1, <1>2 DEF MediaReadInit, MediaReadInv, FetchedIsAsked, GivenUpAlone, Awaits

\* A promise that settles, now or before, settles as it may; its loop is left,
\* or stays where it is.
LEMMA SettlesKeeps ==
  ASSUME MediaReadInv, NEW r \in MediaReader, NEW out \in Outcome, out # Out("no"),
         Settles(r, out), loop[r] # "idle",
         loop' = loop \/ loop' = [loop EXCEPT ![r] = "over"], UNCHANGED entryOf, Around,
         settled[r] = Out("no") => (out = Out("expired") => deadline[r]),
         out.is = "bytes" => out.of \notin TooBig /\ asked[r] \in {0, out.of}
  PROVE  MediaReadInv'
<1>1. /\ settled' = [settled EXCEPT ![r] = IF @ = Out("no") THEN out ELSE @]
      /\ asksPeer' = [asksPeer EXCEPT ![r] = FALSE]
      /\ UNCHANGED <<latest, peered, asked, deadline, entryOf>>
  BY DEF Settles, Cleared, Around
<1>2. /\ settled'[r] # Out("no") /\ settled'[r] = (IF settled[r] = Out("no") THEN out ELSE settled[r])
      /\ \A q \in MediaReader \ {r} : settled'[q] = settled[q]
      /\ settled' \in [MediaReader -> Outcome]
  BY <1>1 DEF MediaReadInv, MediaReadTypeOK
<1>3. /\ ~asksPeer'[r] /\ \A q \in MediaReader \ {r} : asksPeer'[q] = asksPeer[q]
      /\ asksPeer' \in [MediaReader -> BOOLEAN]
  BY <1>1 DEF MediaReadInv, MediaReadTypeOK
<1>4. /\ loop'[r] \in {loop[r], "over"} /\ \A q \in MediaReader \ {r} : loop'[q] = loop[q]
      /\ loop' \in [MediaReader -> {"idle", "sleep", "over"} \cup Awaits]
  BY DEF MediaReadInv, MediaReadTypeOK
<1>5. MediaReadTypeOK'
  BY <1>1, <1>2, <1>3, <1>4 DEF MediaReadInv, MediaReadTypeOK
<1>6. FetchedIsAsked' /\ GivenUpAlone'
  BY <1>1, <1>2, <1>3 DEF MediaReadInv, FetchedIsAsked, GivenUpAlone
<1> QED BY <1>1, <1>2, <1>3, <1>4, <1>5, <1>6 DEF MediaReadInv, Awaits

LEMMA MediaReadStep == MediaReadInv /\ [MediaReadNext]_mediaReadVars => MediaReadInv'
<1> SUFFICES ASSUME MediaReadInv, [MediaReadNext]_mediaReadVars PROVE MediaReadInv'
  OBVIOUS
<1> USE MediaReadAssumption
<1>t. MediaReadTypeOK
  BY DEF MediaReadInv
<1>e. Out("expired") \in Outcome /\ Out("expired") # Out("no") /\ Out("expired").is # "bytes"
      /\ Out("refused") \in Outcome /\ Out("refused") # Out("no") /\ Out("refused").is # "bytes"
      /\ Out("refused") # Out("expired")
  BY OutcomeOf DEF Out
\* The loop that finds its time over, or that has already been answered.
<1>l. ASSUME NEW r \in MediaReader, loop[r] # "idle", ~InTime(r), LoopEnds(r, Out("expired")), Around
      PROVE  MediaReadInv'
  BY <1>l, <1>t, <1>e, SettlesKeeps DEF InTime, LoopEnds, MediaReadTypeOK
\* The loop that asks its peer.
<1>a. ASSUME NEW r \in MediaReader, settled[r] = Out("no"), NEW where \in Awaits, Asking(r, where),
             entryOf' \in [MediaReader -> 0..Contents],
             \A q \in MediaReader \ {r} : entryOf'[q] = entryOf[q],
             where = "get" => entryOf'[r] # 0 /\ entryOf'[r] \notin TooBig,
             asked' \in [MediaReader -> 0..Contents],
             \A q \in MediaReader \ {r} : asked'[q] = asked[q],
             UNCHANGED <<latest, peered, deadline>>
      PROVE  MediaReadInv'
  <2>1. /\ loop' = [loop EXCEPT ![r] = where] /\ asksPeer' = [asksPeer EXCEPT ![r] = TRUE]
        /\ UNCHANGED settled
    BY <1>a DEF Asking
  <2>2. MediaReadTypeOK'
    BY <1>a, <1>t, <2>1 DEF MediaReadTypeOK
  <2>3. FetchedIsAsked' /\ GivenUpAlone'
    BY <1>a, <1>t, <2>1 DEF MediaReadInv, MediaReadTypeOK, FetchedIsAsked, GivenUpAlone, Out
  <2> QED BY <1>a, <1>t, <2>1, <2>2, <2>3 DEF MediaReadInv, MediaReadTypeOK, Awaits
<1>1. CASE Written \/ Peers
  <2>1. /\ latest' \in 0..Contents /\ peered' \in BOOLEAN
        /\ UNCHANGED <<loop, asksPeer, entryOf, asked, deadline, settled>>
    <3>1. CASE Written
      BY <1>t, <3>1 DEF Written, MediaReadTypeOK
    <3>2. CASE Peers
      BY <1>t, <3>2 DEF Peers, MediaReadTypeOK
    <3> QED BY <1>1, <3>1, <3>2
  <2> QED BY <2>1, <1>t DEF MediaReadInv, MediaReadTypeOK, FetchedIsAsked, GivenUpAlone
<1>2. ASSUME NEW r \in MediaReader, DeadlinePasses(r) PROVE MediaReadInv'
  BY <1>2 DEF DeadlinePasses, MediaReadInv, MediaReadTypeOK, FetchedIsAsked, GivenUpAlone
<1>3. ASSUME NEW r \in MediaReader, FetchMedia(r) PROVE MediaReadInv'
  <2>1. settled[r] = Out("no")
    BY <1>3 DEF FetchMedia, MediaReadInv
  <2>2. PICK h \in 0..Contents : asked' = [asked EXCEPT ![r] = h]
    BY <1>3 DEF FetchMedia
  <2>3. Asking(r, "update") /\ UNCHANGED <<latest, peered, deadline, entryOf>>
    BY <1>3 DEF FetchMedia
  <2> QED BY <1>t, <1>a, <2>1, <2>2, <2>3 DEF MediaReadTypeOK, Awaits
<1>4. ASSUME NEW r \in MediaReader, DriveUpdated(r) PROVE MediaReadInv'
  <2>1. CASE InTime(r)
    BY <1>4, <1>t, <1>a, <2>1 DEF DriveUpdated, InTime, Around, MediaReadTypeOK, Awaits
  <2>2. CASE ~InTime(r)
    BY <1>4, <1>l, <2>2 DEF DriveUpdated
  <2> QED BY <2>1, <2>2
<1>5. ASSUME NEW r \in MediaReader, EntryFound(r) PROVE MediaReadInv'
  <2>i. loop[r] = "entry" /\ Around
    BY <1>5 DEF EntryFound
  <2>1. CASE ~InTime(r)
    <3>1. LoopEnds(r, Out("expired"))
      BY <1>5, <2>1 DEF EntryFound
    <3> QED BY <1>l, <2>i, <2>1, <3>1
  <2>2. CASE InTime(r) /\ (peered => latest = 0)
    <3>1. /\ loop' = [loop EXCEPT ![r] = "sleep"] /\ asksPeer' = [asksPeer EXCEPT ![r] = FALSE]
          /\ UNCHANGED <<entryOf, settled>>
      BY <1>5, <2>2 DEF EntryFound
    <3> QED BY <1>t, <2>i, <3>1
            DEF Around, MediaReadInv, MediaReadTypeOK, FetchedIsAsked, GivenUpAlone, Awaits
  <2>3. CASE InTime(r) /\ peered /\ latest # 0 /\ latest \in TooBig
    <3>1. LoopEnds(r, Out("refused"))
      BY <1>5, <2>3 DEF EntryFound
    <3> QED BY <1>t, <1>e, <2>i, <3>1, SettlesKeeps DEF LoopEnds
  <2>4. CASE InTime(r) /\ peered /\ latest # 0 /\ latest \notin TooBig
    <3>1. entryOf' = [entryOf EXCEPT ![r] = latest] /\ Asking(r, "get")
      BY <1>5, <2>4 DEF EntryFound
    <3> QED BY <1>t, <1>a, <2>i, <2>4, <3>1 DEF InTime, Around, MediaReadTypeOK, Awaits
  <2> QED BY <2>1, <2>2, <2>3, <2>4
<1>6. ASSUME NEW r \in MediaReader, BytesRead(r) PROVE MediaReadInv'
  <2>i. loop[r] = "get" /\ Around /\ entryOf[r] \in 1..Contents /\ entryOf[r] \notin TooBig
    BY <1>6, <1>t DEF BytesRead, MediaReadInv, MediaReadTypeOK
  <2>1. CASE ~InTime(r)
    <3>1. LoopEnds(r, Out("expired"))
      BY <1>6, <2>1 DEF BytesRead
    <3> QED BY <1>l, <2>i, <2>1, <3>1
  <2>2. CASE InTime(r) /\ asked[r] \in {0, entryOf[r]}
    <3> DEFINE out == [is |-> "bytes", of |-> entryOf[r]]
    <3>1. LoopEnds(r, out)
      BY <1>6, <2>2 DEF BytesRead, BytesOf
    <3>2. out \in Outcome /\ out # Out("no") /\ out # Out("expired") /\ out.of = entryOf[r]
      BY <2>i, OutcomeOf DEF Out
    <3> QED BY <2>i, <2>2, <3>1, <3>2, SettlesKeeps DEF LoopEnds
  <2>3. CASE InTime(r) /\ asked[r] \notin {0, entryOf[r]}
    <3>1. LoopEnds(r, Out("refused"))
      BY <1>6, <2>3 DEF BytesRead, BytesOf
    <3> QED BY <1>e, <2>i, <3>1, SettlesKeeps DEF LoopEnds
  <2> QED BY <2>1, <2>2, <2>3
<1>7. ASSUME NEW r \in MediaReader, LoopsOn(r) PROVE MediaReadInv'
  <2>1. CASE InTime(r)
    BY <1>7, <1>t, <1>a, <2>1 DEF LoopsOn, InTime, Around, MediaReadTypeOK, Awaits
  <2>2. CASE ~InTime(r)
    BY <1>7, <1>l, <2>2 DEF LoopsOn
  <2> QED BY <2>1, <2>2
<1>8. ASSUME NEW r \in MediaReader, RequestRejected(r) PROVE MediaReadInv'
  <2>1. settled[r] # Out("no") /\ loop[r] # "idle"
    BY <1>8 DEF RequestRejected, MediaReadInv, Awaits
  <2> QED BY <1>8, <1>e, <2>1, SettlesKeeps DEF RequestRejected, LoopEnds
<1>9. ASSUME NEW r \in MediaReader, ReadTimesOut(r) PROVE MediaReadInv'
  <2>1. CASE loop[r] # "idle"
    BY <1>9, <1>e, <2>1, SettlesKeeps DEF ReadTimesOut
  <2>2. CASE loop[r] = "idle"
    BY <1>9, <2>2 DEF ReadTimesOut, MediaReadInv
  <2> QED BY <2>1, <2>2
<1>10. CASE UNCHANGED mediaReadVars
  BY <1>10 DEF mediaReadVars, MediaReadInv, MediaReadTypeOK, FetchedIsAsked, GivenUpAlone
<1> QED BY <1>1, <1>2, <1>3, <1>4, <1>5, <1>6, <1>7, <1>8, <1>9, <1>10 DEF MediaReadNext

-----------------------------------------------------------------------------
(* The composition: one part takes a step, the others keep theirs.          *)

PortsInv ==
  PortMapInv /\ RouterModelInv /\ BridgeInv /\ MailboxInv /\ TransfersInv /\ MediaReadInv

LEMMA PartsInit == PortsInit => PortsInv
BY PortMapInit, RouterModelInit0, BridgeInit0, MailboxInit0, TransfersInit0, MediaReadInit0
   DEF PortsInit, PortsInv

\* A step of the composition is one of each part, or none.
LEMMA PartsStep ==
  [PortsNext]_portsVars =>
    /\ [Next]_vars /\ [SearchNext]_searchVars /\ [BridgeNext]_bridgeVars
    /\ [MailboxNext]_mailboxVars /\ [TransfersNext]_transferVars /\ [MediaReadNext]_mediaReadVars
BY DEF PortsNext, portsVars

LEMMA PartsHold == PortsSpec => []PortsInv
<1>1. PortsInv /\ [PortsNext]_portsVars => PortsInv'
  BY PartsStep, PortMapStep, RouterModelStep, BridgeStep, MailboxStep,
     TransfersStep, MediaReadStep DEF PortsInv
<1> QED BY <1>1, PartsInit, PTL DEF PortsSpec

\* A client that is open is the one that the next stop() or cycle() destroys, however
\* starts, stops and timers fall (portmap.js:199, 202-203).
THEOREM PortsLoseNoClient == PortsSpec => []NoClientLost
<1>1. PortsInv => NoClientLost
  BY PortMapInvImplies DEF PortsInv
<1> QED BY <1>1, PartsHold, PTL

\* The mapping is sought, retried or watched while it is wanted, and gone for good once
\* it was stopped (portmap.js:254-299).
THEOREM PortsMapAsAsked == PortsSpec => []MappingAsAsked
<1>1. PortsInv => MappingAsAsked
  BY PortMapInvImplies DEF PortsInv
<1> QED BY <1>1, PartsHold, PTL

\* What the app shows is what the router does, as long as the router unmaps before it
\* does anything else (portmap.js:236-241, 289-299).
THEOREM PortsShowHonestly == PortsSpec => []HonestStatus
<1>1. PortsInv => HonestStatus
  BY PortMapInvImplies DEF PortsInv
<1> QED BY <1>1, PartsHold, PTL

\* The counters of the sidecar are the links that there are, it keeps its identity, and
\* no description but a responder's own is read, up to the limit, for any links, caps
\* and responders (index.js:95-109, 201-239, portmap.js:69-150).
THEOREM PortsCountLinks == PortsSpec => []LinksAccounted
<1>1. PortsInv => LinksAccounted
  BY BridgeInvImplies DEF PortsInv, BridgeInv, RouterModelInv, LinksAccounted
<1> QED BY <1>1, PartsHold, PTL

\* What a mailbox holds for a live subscriber that one has been handed, and it goes by an
\* ack of its recipient or by its age, for any recipients, caps and TTL
\* (mailbox.js:10-19, 108-167).
THEOREM PortsKeepMail == PortsSpec => MailboxKeeps
<1>1. PortsInv => MailboxTypeOK /\ NothingMissed
  BY DEF PortsInv, MailboxInv
<1>2. PortsInv /\ [PortsNext]_portsVars => [Kept]_mailboxVars
  BY PartsStep, MailboxKeepsStep DEF PortsInv, MailboxInv
<1>3. PortsSpec => [][PortsNext]_portsVars
  BY DEF PortsSpec
<1> QED BY <1>1, <1>2, <1>3, PartsHold, PTL DEF MailboxKeeps, KeptForTTL, Kept

\* A transfer that was stopped stays so, a close releases all, and a read ends with what
\* was asked for, or alone, for any slots, jobs, failing writes, readers and contents
\* (media.js:278, 309-318, media-read.js:1-48).
THEOREM PortsReadAsAsked == PortsSpec => []MediaAsAsked
<1>1. PortsInv => MediaAsAsked
  BY TransfersInvImplies DEF TransfersInv, PortsInv, MediaReadInv, MediaAsAsked
<1> QED BY <1>1, PartsHold, PTL
================================================================================
