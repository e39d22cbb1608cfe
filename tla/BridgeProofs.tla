---------------------------- MODULE BridgeProofs ----------------------------
(***************************************************************************)
(* What the running bridge promises whatever its goroutines interleave:    *)
(* the selection and the manager's target agree, a sync that nothing       *)
(* disturbed leaves every assigned preset on the speaker's button, and     *)
(* AddStation answers with the station it added. The invariants say what a *)
(* goroutine knows between its calls, as long as it is clean.              *)
(***************************************************************************)
EXTENDS Bridge, ConfigSafetyProofs

-----------------------------------------------------------------------------
(* The invariants.                                                         *)

ClientPlaces == {"idle", "save", "answer", "select", "retarget", "sync", "slots", "send"}
MainPlaces   == {"off", "seed", "discover", "adopt", "manage", "save"} \cup Listening
ClientNext   == {"idle", "answer", "sync", "retarget"}
MainNext     == {"discover", "adopt", "manage"}

Locals == [pc : ClientPlaces \cup MainPlaces, next : ClientNext \cup MainNext,
           name : SpeakerInputs \cup {None}, ip : ValidIPs \cup {Nobody},
           seen : Presets, todo : SUBSET Slots, slot : Slots \cup {Nobody},
           station : Station \cup {Nobody}, clean : BOOLEAN]

\* p is at x, or will be when its save has succeeded.
At(p, x) == proc[p].pc = x \/ (proc[p].pc = "save" /\ proc[p].next = x)
Syncs(p) == proc[p].pc \in {"slots", "send"}

BridgeTypes ==
  /\ use \in Uses
  /\ target \in ValidIPs \cup {Nobody} /\ strategy1 \in BOOLEAN
  /\ buttons \in [ValidIPs -> [Slots -> Station \cup {Nobody}]]
  /\ proc \in [Procs -> Locals]
  /\ agreed \in BOOLEAN /\ synced \in BOOLEAN

\* Each goroutine is at one of its own statements, with the locals it needs there.
Placed(p) ==
  /\ p \in Clients => /\ proc[p].pc \in ClientPlaces
                      /\ proc[p].pc = "save" => proc[p].next \in ClientNext
                      /\ proc[p].pc = "select" \/ At(p, "retarget") => proc[p].ip \in ValidIPs
  /\ p = Main => /\ proc[p].pc \in MainPlaces
                 /\ proc[p].pc = "save" => proc[p].next \in MainNext
  /\ proc[p].pc = "send" => proc[p].slot \in Slots /\ proc[p].station \in Station
Places == \A p \in Procs : Placed(p)

\* The store is saving exactly while one goroutine is in save.
SavingPhase == phase \in {"writing", "renaming"}
Saver ==
  /\ \A p, q \in Procs : proc[p].pc = "save" /\ proc[q].pc = "save" => p = q
  /\ SavingPhase => \E p \in Procs : proc[p].pc = "save"
  /\ \A p \in Procs : proc[p].pc = "save" => SavingPhase

\* Before main serves requests there is no manager and no client at work.
Booting ==
  proc[Main].pc \notin Listening =>
    target = Nobody /\ ~strategy1 /\ \A r \in Clients : proc[r].pc = "idle"

\* The strategy is that of a manager whose probe was answered; only with it is there
\* anything to sync.
Strategy ==
  /\ strategy1 => target # Nobody /\ proc[Main].pc \notin {"probe", "probed"}
  /\ proc[Main].pc \in {"probe", "probed"} => target # Nobody
  /\ synced => strategy1
  /\ \A p \in Procs : Syncs(p) => strategy1

Control == BridgeTypes /\ Places /\ Saver /\ Booting /\ Strategy

\* What a clean goroutine knows: the station it added is still the last, the speaker it
\* looked up has that address and, once selected, is the active one; the presets it
\* copied are those of now, and the station it sends is the one the slot names.
Knows(p) ==
  proc[p].clean =>
    /\ At(p, "answer") => cfg.stations # <<>> /\ AnsweredStation = proc[p].station
    /\ proc[p].pc = "select" =>
         \E i \in 1 .. Len(cfg.speakers) :
           cfg.speakers[i].name = proc[p].name /\ cfg.speakers[i].ip = proc[p].ip
    /\ At(p, "retarget") => cfg.speakers # <<>> /\ proc[p].ip = Active(cfg).ip
    /\ Syncs(p) => proc[p].seen = cfg.presets /\ proc[p].todo \subseteq Assigned(cfg.presets)
    /\ proc[p].pc = "send" => /\ proc[p].slot \in proc[p].todo
                              /\ proc[p].station \in StationByID(cfg.presets[proc[p].slot])
Known == \A p \in Procs : Knows(p)

\* The target's button for slot k holds the station the slot names, if there is one.
Match(k) == \A st \in StationByID(cfg.presets[k]) : buttons[target][k] = st

\* A clean sync that runs alone has put on the buttons what is no longer to do.
Alone(p) == \A q \in Procs \ {p} : ~Syncs(q)
Sends(p) == Syncs(p) /\ proc[p].clean /\ Alone(p) =>
              \A k \in Assigned(cfg.presets) \ proc[p].todo : Match(k)
Sending  == \A p \in Procs : Sends(p)

\* Unless a request is about to switch the speaker, the selection is the target (if the
\* selections of the files a user wrote name saved entries to begin with).
Agrees ==
  FilesResolve /\ agreed /\ target # Nobody /\ (\A p \in Procs : ~At(p, "retarget")) =>
    cfg.speakers # <<>> /\ target = Active(cfg).ip

\* Unless a sync is due or running, the buttons show what the presets name.
Shows ==
  synced /\ (\A p \in Procs : ~At(p, "sync") /\ ~Syncs(p)) =>
    \A k \in Assigned(cfg.presets) : Match(k)

Stored    == IInv /\ (FilesResolve => SelectionsResolve)
BridgeInv == Stored /\ Control /\ Known /\ Sending /\ Agrees /\ Shows

-----------------------------------------------------------------------------
(* How a step changes the goroutines.                                      *)

\* q is where it was, with the same locals, but may have lost its cleanness.
Same(q) ==
  /\ proc'[q].pc = proc[q].pc /\ proc'[q].next = proc[q].next
  /\ proc'[q].name = proc[q].name /\ proc'[q].ip = proc[q].ip
  /\ proc'[q].seen = proc[q].seen /\ proc'[q].todo = proc[q].todo
  /\ proc'[q].slot = proc[q].slot /\ proc'[q].station = proc[q].station
  /\ proc'[q].clean => proc[q].clean
OthersSame(p) == \A q \in Procs \ {p} : Same(q)

\* Only goroutines at rest are still clean.
OthersTold(p) == \A q \in Procs \ {p} : proc'[q].clean => AtRest(q)

LEMMA IdleTyped == Idle \in Locals /\ \A p \in Procs : Rest(p) \in Locals
BY DEF Idle, Rest, Locals, ClientPlaces, MainPlaces, Listening, ClientNext, MainNext,
       NoPresets, Presets, None

\* p goes on with locals l and the others are not told ...
LEMMA GoesOn ==
  ASSUME proc \in [Procs -> Locals], NEW p \in Procs, NEW l \in Locals,
         proc' = [proc EXCEPT ![p] = l]
  PROVE  proc' \in [Procs -> Locals] /\ proc'[p] = l /\ OthersSame(p)
BY DEF OthersSame, Same

\* ... or they are.
LEMMA Interferes ==
  ASSUME proc \in [Procs -> Locals], NEW p \in Procs, NEW l \in Locals,
         Interfere(p, l)
  PROVE  /\ proc' \in [Procs -> Locals] /\ proc'[p] = l
         /\ OthersSame(p) /\ OthersTold(p)
<1>1. ASSUME NEW q \in Procs \ {p}
      PROVE  proc'[q] \in Locals /\ Same(q) /\ (proc'[q].clean => AtRest(q))
  <2>1. proc'[q] = [proc[q] EXCEPT !.clean = (proc[q].clean /\ AtRest(q))]
    BY <1>1 DEF Interfere
  <2>2. proc[q] \in Locals
    OBVIOUS
  <2>3. (proc[q].clean /\ AtRest(q)) \in BOOLEAN
    BY DEF AtRest
  <2>. DEFINE b == proc[q].clean /\ AtRest(q)
  <2>4. /\ proc'[q] \in Locals /\ proc'[q].clean = b
        /\ proc'[q].pc = proc[q].pc /\ proc'[q].next = proc[q].next
        /\ proc'[q].name = proc[q].name /\ proc'[q].ip = proc[q].ip
        /\ proc'[q].seen = proc[q].seen /\ proc'[q].todo = proc[q].todo
        /\ proc'[q].slot = proc[q].slot /\ proc'[q].station = proc[q].station
    <3>. HIDE DEF b
    <3>1. b \in BOOLEAN /\ proc'[q] = [proc[q] EXCEPT !.clean = b]
      BY <2>1, <2>3 DEF b
    <3>. QED BY <3>1, <2>2 DEF Locals
  <2>. QED BY <2>4 DEF Same
<1>2. proc' = [q \in Procs |-> proc'[q]] /\ proc'[p] = l
  BY DEF Interfere
<1>. QED BY <1>1, <1>2 DEF OthersSame, OthersTold

-----------------------------------------------------------------------------
(* The steps of the store.                                                 *)

LEMMA SpeakerInput ==
  ASSUME Stored, proc \in [Procs -> Locals], NEW p \in Procs,
         Named(cfg.speakers, proc[p].name) # {}
  PROVE  proc[p].name \in SpeakerInputs
<1>1. PICK i \in DOMAIN cfg.speakers : cfg.speakers[i].name = proc[p].name
  BY DEF Named
<1>2. cfg.speakers[i] \in Speaker
  BY IInvUnfolded, SpeakersOfSound, ElementOfSeq, LenProperties DEF Stored
<1>3. proc[p].name # None
  BY <1>1, <1>2 DEF Speaker, SpeakerNames
<1>. QED BY <1>3 DEF Locals

LEMMA ClientOperates ==
  ASSUME Stored, proc \in [Procs -> Locals], NEW r \in Clients,
         Home(r) \/ Settings(r) \/ SelectSpeaker(r)
  PROVE  Operations \/ UNCHANGED store
<1>. USE DEF Operations, Change
<1>1. CASE Home(r)
  <2>1. ASSUME NEW name \in StationNames, AddStationHandler(r, name) PROVE Operations
    BY <2>1 DEF AddStationHandler, StationOps
  <2>2. ASSUME NEW id \in PresetInputs \ {None}, DeleteStationHandler(r, id) PROVE Operations
    BY <2>2, StoreAssumption DEF DeleteStationHandler, StationOps
  <2>3. ASSUME NEW slot \in Slots, NEW id \in PresetInputs, AssignPresetHandler(r, slot, id)
        PROVE  Operations
    BY <2>3 DEF AssignPresetHandler, StationOps
  <2>4. ASSUME NEW name \in ProfileInputs, LoadProfileHandler(r, name) PROVE Operations
    BY <2>4 DEF LoadProfileHandler, ProfileOps
  <2>5. ASSUME NEW name \in ProfileInputs, SetActiveProfileHandler(r, name) PROVE Operations
    BY <2>5 DEF SetActiveProfileHandler, ProfileOps
  <2>. QED BY <1>1, <2>1, <2>2, <2>3, <2>4, <2>5 DEF Home
<1>2. CASE Settings(r)
  <2>1. ASSUME NEW name \in SpeakerInputs, NEW ip \in IPInputs, AddSpeakerHandler(r, name, ip)
        PROVE  Operations
    BY <2>1 DEF AddSpeakerHandler, SpeakerOps
  <2>2. ASSUME NEW name \in SpeakerInputs, RemoveSpeakerHandler(r, name) PROVE Operations
    BY <2>2 DEF RemoveSpeakerHandler, SpeakerOps
  <2>3. ASSUME NEW old \in SpeakerInputs, NEW new \in SpeakerInputs, RenameSpeakerHandler(r, old, new)
        PROVE  Operations
    BY <2>3 DEF RenameSpeakerHandler, SpeakerOps
  <2>4. ASSUME NEW name, LookUpSpeaker(r, name) PROVE UNCHANGED store
    BY <2>4 DEF LookUpSpeaker
  <2>. QED BY <1>2, <2>1, <2>2, <2>3, <2>4 DEF Settings
<1>3. CASE SelectSpeaker(r)
  <2>1. CASE SetActive(proc[r].name)
    <3>1. proc[r].name \in SpeakerInputs
      BY <2>1, SpeakerInput DEF SetActive, Procs
    <3>. QED BY <2>1, <3>1 DEF SpeakerOps
  <2>. QED BY <1>3, <2>1 DEF SelectSpeaker
<1>. QED BY <1>1, <1>2, <1>3

LEMMA BootOperates ==
  ASSUME Stored, proc \in [Procs -> Locals],
         LoadConfig \/ Seed \/ DiscoverFirst \/ AdoptFound
  PROVE  Start \/ Operations \/ UNCHANGED store
<1>. USE DEF Operations
<1>1. ASSUME LoadConfig \/ Seed PROVE Start
  BY <1>1 DEF LoadConfig, Seed, Start
<1>2. ASSUME DiscoverFirst PROVE Operations \/ UNCHANGED store
  <2>1. ASSUME NEW f \in Usable, AddSpeaker(f.name, f.ip) PROVE Operations
    <3>1. f.name \in SpeakerInputs /\ f.ip \in IPInputs
      BY BridgeAssumption, ConstantAssumption DEF Usable
    <3>. QED BY <2>1, <3>1 DEF SpeakerOps
  <2>. QED BY <1>2, <2>1 DEF DiscoverFirst
<1>3. ASSUME AdoptFound PROVE Operations \/ UNCHANGED store
  <2>1. CASE SetActive(proc[Main].name)
    <3>1. proc[Main].name \in SpeakerInputs
      BY <2>1, SpeakerInput DEF SetActive, Procs
    <3>. QED BY <2>1, <3>1 DEF SpeakerOps
  <2>. QED BY <1>3, <2>1 DEF AdoptFound
<1>. QED BY <1>1, <1>2, <1>3

\* Every step is one of the store's, or leaves it alone but for counting a fault.
LEMMA StoreSteps ==
  ASSUME Stored, proc \in [Procs -> Locals], [BridgeNext]_bridge
  PROVE  [Next]_vars \/ (UNCHANGED <<cfg, file, tmp, phase>> /\ Fault)
<1>. DEFINE G == [Next]_vars \/ (UNCHANGED <<cfg, file, tmp, phase>> /\ Fault)
<1>1. ASSUME Operations \/ Start \/ Saving \/ Faulty \/ UNCHANGED store PROVE G
  BY <1>1 DEF Next, Operations, store, vars
<1>2. ASSUME NEW p \in Procs, Step(p) PROVE G
  <2>1. ASSUME WriteStep(p) \/ RenameStep(p) \/ SaveFails(p) PROVE Saving \/ Faulty
    BY <2>1 DEF WriteStep, RenameStep, SaveFails, Saving, Faulty
  <2>2. ASSUME SyncPresets(p) \/ NextSlot(p) \/ SetPreset(p) \/ EndSync(p)
        PROVE  UNCHANGED store
    BY <2>2 DEF SyncPresets, NextSlot, SetPreset, EndSync, store
  <2>3. ASSUME SetPresetFails(p) PROVE G
    BY <2>3 DEF SetPresetFails, vars, Fault
  <2>. QED BY <1>1, <1>2, <2>1, <2>2, <2>3 DEF Step
<1>3. ASSUME NEW r \in Clients, Home(r) \/ Settings(r) \/ SelectSpeaker(r) PROVE G
  BY <1>1, <1>3, ClientOperates
<1>4. ASSUME NEW r \in Clients, AddStationAnswer(r) \/ Retarget(r) PROVE UNCHANGED store
  BY <1>4 DEF AddStationAnswer, Retarget
<1>5. ASSUME LoadConfig \/ Seed \/ DiscoverFirst \/ AdoptFound PROVE G
  BY <1>1, <1>5, BootOperates
<1>6. ASSUME MakeManager \/ Probe PROVE UNCHANGED store
  BY <1>6 DEF MakeManager, Probe
<1>7. ASSUME ProbeAnswered PROVE G
  BY <1>7 DEF ProbeAnswered, vars, Fault
<1>8. ASSUME Killed PROVE Faulty
  BY <1>8 DEF Killed, Faulty
<1>9. ASSUME UNCHANGED bridge PROVE UNCHANGED store
  BY <1>9 DEF bridge
<1>10. Main \in Procs /\ Clients \subseteq Procs
  BY DEF Procs
<1>. HIDE DEF G
<1>11. ASSUME Boot PROVE G
  BY <1>1, <1>2, <1>5, <1>6, <1>7, <1>10, <1>11 DEF Boot
<1>12. ASSUME NEW r \in Clients, Handle(r) PROVE G
  BY <1>1, <1>2, <1>3, <1>4, <1>10, <1>12 DEF Handle
<1>. QED BY <1>1, <1>3, <1>8, <1>9, <1>11, <1>12 DEF BridgeNext, G

LEMMA StoredStep ==
  ASSUME Stored, proc \in [Procs -> Locals], [BridgeNext]_bridge
  PROVE  Stored'
<1>1. CASE [Next]_vars
  BY <1>1, NextIInv, ResolveStep DEF Stored
<1>2. CASE UNCHANGED <<cfg, file, tmp, phase>> /\ Fault
  <2>1. faults' \in 0 .. MaxFaults
    BY <1>2, StoreAssumption DEF Fault, Stored, IInv, TypeOK
  <2>2. IInv'
    BY <1>2, <2>1 DEF Stored, IInv, TypeOK, KeysUnique
  <2>3. SelectionsResolve => SelectionsResolve'
    BY <1>2 DEF Stored, SelectionsResolve
  <2>. QED BY <2>2, <2>3 DEF Stored
<1>. QED BY <1>1, <1>2, StoreSteps

-----------------------------------------------------------------------------
(* What a step of one goroutine must do for the invariants to go on.       *)

\* p enters save as the store begins to save, leaves it as the store has saved, or
\* has nothing to do with it.
SaverStep(p) ==
  \/ proc'[p].pc = "save" /\ SavingPhase' /\ (proc[p].pc = "save" \/ ~SavingPhase)
  \/ proc'[p].pc # "save" /\ ~SavingPhase' /\ (proc[p].pc = "save" \/ ~SavingPhase)
  \/ proc'[p].pc # "save" /\ proc[p].pc # "save" /\ (SavingPhase' <=> SavingPhase)

\* The manager stays once it is made, and its strategy once it is found.
ManagerStep(p) ==
  /\ target # Nobody => target' # Nobody
  /\ strategy1 => strategy1'
  /\ strategy1' => target' # Nobody
  /\ synced' => strategy1'
  /\ proc'[p].pc \in {"slots", "send"} => strategy1'
  /\ p \in Clients => proc[Main].pc \in Listening /\ strategy1' = strategy1
  /\ p = Main =>
       /\ proc'[p].pc \notin Listening =>
            proc[p].pc \notin Listening /\ UNCHANGED <<target, strategy1>>
       /\ proc'[p].pc \in {"probe", "probed"} => target' # Nobody /\ ~strategy1'

LEMMA ControlStep ==
  ASSUME Control, NEW p \in Procs, OthersSame(p),
         BridgeTypes', Placed(p)', SaverStep(p), ManagerStep(p)
  PROVE  Control'
<1>1. \A q \in Procs \ {p} : proc'[q].pc = proc[q].pc /\ proc'[q].next = proc[q].next
  BY DEF OthersSame, Same
<1>2. Places'
  <2>1. ASSUME NEW q \in Procs \ {p} PROVE Placed(q)'
    <3>1. Same(q) /\ Placed(q)
      BY DEF OthersSame, Control, Places
    <3>. QED BY <3>1 DEF Same, Placed, At
  <2>. QED BY <2>1 DEF Places
<1>3. Saver'
  <2>1. \A a, b \in Procs : proc'[a].pc = "save" /\ proc'[b].pc = "save" => a = b
    BY <1>1 DEF Control, Saver, SaverStep
  <2>2. SavingPhase' => \E a \in Procs : proc'[a].pc = "save"
    BY <1>1 DEF Control, Saver, SaverStep
  <2>3. \A a \in Procs : proc'[a].pc = "save" => SavingPhase'
    BY <1>1 DEF Control, Saver, SaverStep
  <2>. QED BY <2>1, <2>2, <2>3 DEF Saver
<1>4. Main \in Procs /\ Main \notin Clients /\ Procs = Clients \cup {Main}
  BY BridgeAssumption DEF Procs
<1>5. Booting'
  <2>1. CASE p = Main
    <3>1. \A r \in Clients : proc'[r].pc = proc[r].pc
      BY <1>1, <1>4, <2>1
    <3>. QED BY <2>1, <3>1 DEF Control, Booting, ManagerStep
  <2>2. CASE p # Main
    BY <1>1, <1>4, <2>2 DEF Booting, ManagerStep
  <2>. QED BY <2>1, <2>2
<1>6. Strategy'
  <2>1. strategy1' => target' # Nobody
    BY DEF ManagerStep
  <2>2. \A q \in Procs : proc'[q].pc \in {"slots", "send"} => strategy1'
    BY <1>1 DEF Control, Strategy, ManagerStep, Syncs
  <2>3. proc'[Main].pc \in {"probe", "probed"} => target' # Nobody /\ ~strategy1'
    BY <1>1, <1>4 DEF Control, Strategy, ManagerStep
  <2>. QED BY <2>1, <2>2, <2>3 DEF Strategy, ManagerStep, Syncs
<1>. QED BY <1>2, <1>3, <1>5, <1>6 DEF Control

\* What the goroutines rely on of the configuration.
Keeps == /\ cfg'.stations = cfg.stations /\ cfg'.presets = cfg.presets
         /\ cfg'.speakers = cfg.speakers /\ cfg'.activeSpeaker = cfg.activeSpeaker

LEMMA KeptReads ==
  ASSUME Keeps
  PROVE  /\ AnsweredStation' = AnsweredStation /\ Active(cfg') = Active(cfg)
         /\ \A id : StationByID(id)' = StationByID(id)
BY DEF Keeps, AnsweredStation, Active, StationByID

LEMMA KnownStep ==
  ASSUME Known, NEW p \in Procs, OthersSame(p), Knows(p)', Keeps \/ OthersTold(p)
  PROVE  Known'
<1>1. ASSUME NEW q \in Procs \ {p} PROVE Knows(q)'
  <2>1. Same(q) /\ Knows(q)
    BY DEF OthersSame, Known
  <2>2. CASE OthersTold(p)
    <3>1. proc'[q].clean => proc'[q].pc \in {"idle", "done"}
      BY <2>1, <2>2 DEF OthersTold, AtRest, Same
    <3>. QED BY <3>1 DEF Knows, At, Syncs
  <2>3. CASE Keeps
    <3>1. proc'[q].clean => proc[q].clean
      BY <2>1 DEF Same
    <3>. QED BY <2>1, <2>3, <3>1, KeptReads DEF Knows, Same, At, Syncs, Keeps
  <2>. QED BY <2>2, <2>3
<1>. QED BY <1>1 DEF Known

LEMMA SendingStep ==
  ASSUME Sending, NEW p \in Procs, OthersSame(p), Sends(p)',
         \/ OthersTold(p)
         \/ Keeps /\ Syncs(p)'
         \/ Keeps /\ ~Syncs(p) /\ UNCHANGED <<target, buttons>>
  PROVE  Sending'
<1>1. ASSUME NEW q \in Procs \ {p} PROVE Sends(q)'
  <2>1. Same(q) /\ Sends(q)
    BY DEF OthersSame, Sending
  <2>2. CASE OthersTold(p)
    <3>1. proc'[q].clean => proc'[q].pc \in {"idle", "done"}
      BY <2>1, <2>2 DEF OthersTold, AtRest, Same
    <3>. QED BY <3>1 DEF Sends, Syncs
  <2>3. CASE Syncs(p)'
    BY <2>3 DEF Sends, Alone
  <2>4. CASE Keeps /\ ~Syncs(p) /\ UNCHANGED <<target, buttons>>
    <3>1. ASSUME Syncs(q)', proc'[q].clean, Alone(q)'
          PROVE  Syncs(q) /\ proc[q].clean /\ Alone(q)
      BY <2>1, <2>4, <3>1 DEF Same, OthersSame, Syncs, Alone
    <3>2. \A k : Match(k) => Match(k)'
      BY <2>4, KeptReads DEF Match, Keeps
    <3>3. Assigned(cfg.presets)' \ proc'[q].todo = Assigned(cfg.presets) \ proc[q].todo
      BY <2>1, <2>4 DEF Same, Keeps, Assigned
    <3>. QED BY <2>1, <3>1, <3>2, <3>3 DEF Sends
  <2>. QED BY <2>2, <2>3, <2>4
<1>. QED BY <1>1 DEF Sending

\* What keeps the active speaker where it is.
KeepsActive ==
  FilesResolve /\ cfg.speakers # <<>> => cfg'.speakers # <<>> /\ Active(cfg').ip = Active(cfg).ip

LEMMA AgreesStep ==
  ASSUME Agrees, NEW p \in Procs, OthersSame(p),
         \/ target' = Nobody
         \/ ~agreed'
         \/ At(p, "retarget")'
         \/ cfg'.speakers # <<>> /\ target' = Active(cfg').ip
         \/ /\ agreed' => agreed
            /\ target' = target /\ KeepsActive /\ ~At(p, "retarget")
  PROVE  Agrees'
<1>1. \A q \in Procs \ {p} : At(q, "retarget")' <=> At(q, "retarget")
  BY DEF OthersSame, Same, At
<1>2. CASE At(p, "retarget")'
  BY <1>2 DEF Agrees
<1>3. CASE (agreed' => agreed) /\ target' = target /\ KeepsActive /\ ~At(p, "retarget")
  BY <1>1, <1>3 DEF Agrees, KeepsActive
<1>. QED BY <1>2, <1>3 DEF Agrees

LEMMA ShowsStep ==
  ASSUME Shows, NEW p \in Procs, OthersSame(p),
         \/ ~synced'
         \/ At(p, "sync")'
         \/ Syncs(p)'
         \/ /\ synced' => synced
            /\ ~At(p, "sync") /\ ~Syncs(p)
            /\ \A k \in Assigned(cfg'.presets) :
                 k \in Assigned(cfg.presets) /\ (Match(k) => Match(k)')
  PROVE  Shows'
<1>1. \A q \in Procs \ {p} : /\ At(q, "sync")' <=> At(q, "sync")
                             /\ Syncs(q)' <=> Syncs(q)
  BY DEF OthersSame, Same, At, Syncs
<1>2. CASE At(p, "sync")' \/ Syncs(p)'
  BY <1>2 DEF Shows
<1>3. CASE /\ synced' => synced
           /\ ~At(p, "sync") /\ ~Syncs(p)
           /\ \A k \in Assigned(cfg'.presets) :
                k \in Assigned(cfg.presets) /\ (Match(k) => Match(k)')
  BY <1>1, <1>3 DEF Shows
<1>. QED BY <1>2, <1>3 DEF Shows

-----------------------------------------------------------------------------
(* A goroutine that is at rest, or knows what it knew.                     *)

LEMMA RestKnows ==
  ASSUME NEW p \in Procs, proc'[p].pc \in {"idle", "done", "save"},
         proc'[p].pc = "save" => proc'[p].next \notin {"answer", "retarget"}
  PROVE  Knows(p)' /\ Sends(p)'
BY DEF Knows, Sends, At, Syncs

LEMMA RestIs ==
  ASSUME NEW p \in Procs
  PROVE  /\ Rest(p) \in Locals /\ Rest(p).pc = IF p = Main THEN "done" ELSE "idle"
         /\ Idle \in Locals /\ Idle.pc = "idle"
BY IdleTyped DEF Rest, Idle

LEMMA ProcsAre == /\ Main \in Procs /\ Main \notin Clients
                  /\ \A p \in Procs : p \in Clients \/ p = Main
                  /\ Clients \subseteq Procs
BY BridgeAssumption DEF Procs

LEMMA KnowsSame ==
  ASSUME NEW p \in Procs, Same(p), Keeps, Knows(p)
  PROVE  Knows(p)'
<1>1. proc'[p].clean => proc[p].clean
  BY DEF Same
<1>. QED BY <1>1, KeptReads DEF Knows, Same, At, Syncs, Keeps

LEMMA SendsSame ==
  ASSUME NEW p \in Procs, Same(p), OthersSame(p), Keeps, UNCHANGED <<target, buttons>>, Sends(p)
  PROVE  Sends(p)'
<1>1. ASSUME Syncs(p)', proc'[p].clean, Alone(p)'
      PROVE  Syncs(p) /\ proc[p].clean /\ Alone(p)
  BY <1>1 DEF Same, OthersSame, Syncs, Alone
<1>2. \A k : Match(k) => Match(k)'
  BY KeptReads DEF Match, Keeps
<1>3. Assigned(cfg.presets)' \ proc'[p].todo = Assigned(cfg.presets) \ proc[p].todo
  BY DEF Same, Keeps, Assigned
<1>. QED BY <1>1, <1>2, <1>3 DEF Sends

LEMMA KeepsActiveSpeaker == Keeps => KeepsActive
BY KeptReads DEF Keeps, KeepsActive

\* Nothing that others rely on changes.
LEMMA QuietShows ==
  ASSUME Keeps, UNCHANGED <<target, buttons>>
  PROVE  \A k \in Assigned(cfg'.presets) :
           k \in Assigned(cfg.presets) /\ (Match(k) => Match(k)')
BY KeptReads DEF Keeps, Match, Assigned

-----------------------------------------------------------------------------
(* save.                                                                   *)

LEMMA WriteStepKeeps ==
  ASSUME BridgeInv, Stored', NEW p \in Procs, WriteStep(p)
  PROVE  BridgeInv'
<1>1. /\ proc[p].pc = "save" /\ phase = "writing" /\ phase' = "renaming"
      /\ UNCHANGED <<cfg, use, target, strategy1, buttons, proc, agreed, synced>>
  BY DEF WriteStep, WriteTmp, manager
<1>2. Keeps /\ OthersSame(p) /\ Same(p)
  BY <1>1 DEF Keeps, OthersSame, Same
<1>3. Control'
  BY <1>1 DEF BridgeInv, Control, BridgeTypes, Places, Placed, Saver, SavingPhase, Booting,
              Strategy, Syncs, At
<1>4. Knows(p)' /\ Sends(p)'
  BY <1>1, <1>2, KnowsSame, SendsSame DEF BridgeInv, Known, Sending
<1>5. Known' /\ Sending'
  BY <1>1, <1>2, <1>4, KnownStep, SendingStep DEF BridgeInv, Syncs
<1>6. Agrees'
  BY <1>1, <1>2, KeptReads DEF BridgeInv, Agrees, At
<1>7. Shows'
  BY <1>1 DEF BridgeInv, Shows, At, Syncs, Match, StationByID, Assigned
<1>. QED BY <1>3, <1>5, <1>6, <1>7 DEF BridgeInv

LEMMA RenameStepKeeps ==
  ASSUME BridgeInv, Stored', NEW p \in Procs, RenameStep(p)
  PROVE  BridgeInv'
<1>. DEFINE x == proc[p].next
            l == IF x = "idle" THEN Rest(p) ELSE [proc[p] EXCEPT !.pc = x]
<1>1. /\ proc[p].pc = "save" /\ phase = "renaming" /\ phase' = "idle"
      /\ UNCHANGED <<cfg, use, target, strategy1, buttons, agreed, synced>>
      /\ proc' = [proc EXCEPT ![p] = l]
  BY DEF RenameStep, Rename, Return, manager, Goto, Finish
<1>2. /\ Control /\ Placed(p) /\ proc \in [Procs -> Locals] /\ proc[p] \in Locals
  BY DEF BridgeInv, Control, Places, BridgeTypes
<1>3. /\ p \in Clients => x \in ClientNext
      /\ p = Main => x \in MainNext
  BY <1>1, <1>2 DEF Placed
<1>4. l \in Locals /\ l.pc = x /\ (x # "idle" => l.ip = proc[p].ip
        /\ l.station = proc[p].station /\ l.clean = proc[p].clean)
  <2>1. x \in ClientPlaces \cup MainPlaces /\ (x = "idle" => p # Main)
    BY <1>3, ProcsAre DEF ClientNext, MainNext, ClientPlaces, MainPlaces
  <2>2. [proc[p] EXCEPT !.pc = x] \in Locals
    BY <1>2, <2>1 DEF Locals
  <2>. QED BY <1>2, <2>1, <2>2, RestIs DEF Locals
<1>. HIDE DEF l, x
<1>5. proc' \in [Procs -> Locals] /\ proc'[p] = l /\ OthersSame(p)
  BY <1>1, <1>2, <1>4, GoesOn
<1>6. /\ Keeps /\ proc'[p].pc = x /\ x \notin {"save", "send", "slots", "select", "probe", "probed"}
      /\ \A y \in {"answer", "retarget", "sync"} : At(p, y)' <=> At(p, y)
  <2>1. x \in ClientNext \cup MainNext
    BY <1>3, ProcsAre
  <2>2. Keeps /\ proc'[p].pc = x
    BY <1>1, <1>4, <1>5 DEF Keeps
  <2>3. x \notin {"save", "send", "slots", "select", "probe", "probed"}
    BY <2>1 DEF ClientNext, MainNext
  <2>4. ASSUME NEW y \in {"answer", "retarget", "sync"} PROVE At(p, y)' <=> At(p, y)
    BY <1>1, <2>2, <2>3 DEF At, x
  <2>. QED BY <2>2, <2>3, <2>4
<1>7. Control'
  <2>1. BridgeTypes'
    BY <1>1, <1>2, <1>5 DEF Control, BridgeTypes
  <2>2. Placed(p)'
    BY <1>1, <1>2, <1>3, <1>4, <1>5, <1>6, ProcsAre DEF Placed, ClientNext, ClientPlaces, MainNext, MainPlaces, At, x
  <2>3. SaverStep(p)
    BY <1>1, <1>6 DEF SaverStep, SavingPhase
  <2>4. ManagerStep(p)
    <3>1. p \in Clients => proc[Main].pc \in Listening
      BY <1>1, <1>2 DEF Control, Booting
    <3>2. p = Main => proc[p].pc \notin Listening
      BY <1>1 DEF Listening
    <3>. QED BY <1>1, <1>2, <1>6, <3>1, <3>2 DEF ManagerStep, Control, Strategy
  <2>. QED BY <1>2, <1>5, <2>1, <2>2, <2>3, <2>4, ControlStep
<1>8. Knows(p)' /\ Sends(p)'
  <2>1. Knows(p)'
    <3>1. CASE x = "idle"
      BY <1>6, <3>1, RestKnows
    <3>2. CASE x # "idle"
      BY <1>1, <1>4, <1>5, <1>6, <3>2, KeptReads DEF BridgeInv, Known, Knows, Keeps, Syncs
    <3>. QED BY <3>1, <3>2
  <2>2. Sends(p)'
    BY <1>6 DEF Sends, Syncs
  <2>. QED BY <2>1, <2>2
<1>9. ~Syncs(p)
  BY <1>1 DEF Syncs
<1>10. Known' /\ Sending'
  BY <1>1, <1>5, <1>6, <1>8, <1>9, KnownStep, SendingStep DEF BridgeInv
<1>11. Agrees'
  BY <1>1, <1>5, <1>6, KeepsActiveSpeaker, AgreesStep DEF BridgeInv
<1>12. Shows'
  BY <1>1, <1>5, <1>6, <1>9, QuietShows, ShowsStep DEF BridgeInv
<1>. QED BY <1>7, <1>10, <1>11, <1>12 DEF BridgeInv

\* A step at which the manager stays as it is.
LEMMA FrameControl ==
  ASSUME Control, NEW p \in Procs, OthersSame(p), proc' \in [Procs -> Locals],
         UNCHANGED <<use, target, strategy1>>,
         buttons' \in [ValidIPs -> [Slots -> Station \cup {Nobody}]],
         agreed' \in BOOLEAN, synced' \in BOOLEAN, synced' => strategy1,
         Placed(p)', SaverStep(p),
         p \in Clients => proc[Main].pc \in Listening,
         p = Main /\ proc'[p].pc \notin Listening => proc[p].pc \notin Listening,
         p = Main => proc'[p].pc \notin {"probe", "probed"},
         proc'[p].pc \in {"slots", "send"} => strategy1
  PROVE  Control'
<1>1. BridgeTypes'
  BY DEF Control, BridgeTypes
<1>2. ManagerStep(p)
  BY DEF ManagerStep, Control, Strategy
<1>. QED BY <1>1, <1>2, ControlStep

\* A client is at work only when main serves requests.
LEMMA AtWork ==
  ASSUME Control, NEW p \in Procs, proc[p].pc # "idle"
  PROVE  p \in Clients => proc[Main].pc \in Listening
BY DEF Control, Booting

LEMMA SaveFailsKeeps ==
  ASSUME BridgeInv, Stored', NEW p \in Procs, SaveFails(p)
  PROVE  BridgeInv'
<1>. DEFINE y == IF proc[p].next = "discover" THEN "discover" ELSE "manage"
            l == IF p \in Clients THEN Rest(p) ELSE [proc[p] EXCEPT !.pc = y]
            x == l.pc
<1>1. /\ proc[p].pc = "save" /\ phase \in {"writing", "renaming"} /\ phase' = "idle"
      /\ UNCHANGED <<cfg, use, target, strategy1, buttons>>
      /\ proc' = [proc EXCEPT ![p] = l]
      /\ agreed' = (agreed /\ proc[p].next # "retarget")
      /\ synced' = (synced /\ proc[p].next # "sync")
  BY DEF SaveFails, WriteTmpFails, RenameFails, Return, manager, Goto, Finish
<1>2. Control /\ Placed(p) /\ proc \in [Procs -> Locals] /\ proc[p] \in Locals
      /\ agreed \in BOOLEAN /\ synced \in BOOLEAN
  BY DEF BridgeInv, Control, Places, BridgeTypes
<1>3. /\ l \in Locals
      /\ p \in Clients => x = "idle"
      /\ p = Main => x \in {"discover", "manage"}
  <2>1. [proc[p] EXCEPT !.pc = y] \in Locals
    BY <1>2 DEF Locals, MainPlaces
  <2>. QED BY <1>2, <2>1, RestIs, ProcsAre DEF Locals
<1>. HIDE DEF l
<1>4. proc' \in [Procs -> Locals] /\ proc'[p] = l /\ OthersSame(p)
  BY <1>1, <1>2, <1>3, GoesOn
<1>. HIDE DEF x, y
<1>5. proc'[p].pc = x /\ x \in {"idle", "discover", "manage"} /\ Keeps
  BY <1>1, <1>3, <1>4, ProcsAre DEF Keeps, x
<1>6. Control'
  <2>1. Placed(p)'
    BY <1>3, <1>5, ProcsAre DEF Placed, At, ClientPlaces, MainPlaces
  <2>2. SaverStep(p)
    BY <1>1, <1>5 DEF SaverStep, SavingPhase
  <2>3. proc[p].pc \notin Listening
    BY <1>1 DEF Listening
  <2>. QED BY <1>1, <1>2, <1>4, <1>5, <2>1, <2>2, <2>3, AtWork, FrameControl
           DEF Control, BridgeTypes, Strategy
<1>7. Knows(p)' /\ Sends(p)' /\ ~Syncs(p)
  BY <1>1, <1>5 DEF Knows, Sends, Syncs, At
<1>8. Known' /\ Sending'
  BY <1>1, <1>4, <1>5, <1>7, KnownStep, SendingStep DEF BridgeInv
<1>9. Agrees'
  <2>1. CASE proc[p].next = "retarget"
    BY <1>1, <1>4, <2>1, AgreesStep DEF BridgeInv
  <2>2. CASE proc[p].next # "retarget"
    BY <1>1, <1>4, <1>5, <2>2, KeepsActiveSpeaker, AgreesStep DEF BridgeInv, At
  <2>. QED BY <2>1, <2>2
<1>10. Shows'
  <2>1. CASE proc[p].next = "sync"
    BY <1>1, <1>4, <2>1, ShowsStep DEF BridgeInv
  <2>2. CASE proc[p].next # "sync"
    BY <1>1, <1>4, <1>5, <1>7, <2>2, QuietShows, ShowsStep DEF BridgeInv, At
  <2>. QED BY <2>1, <2>2
<1>. QED BY <1>6, <1>8, <1>9, <1>10 DEF BridgeInv

-----------------------------------------------------------------------------
(* syncPresets.                                                            *)

\* A step within syncPresets disturbs no request: the invariants about the selection
\* and about the other goroutines go on.
LEMMA SyncMove ==
  ASSUME BridgeInv, Stored', NEW p \in Procs, OthersSame(p), proc' \in [Procs -> Locals],
         Keeps, UNCHANGED <<use, target, strategy1, agreed, synced>>,
         phase' = phase,
         buttons' \in [ValidIPs -> [Slots -> Station \cup {Nobody}]],
         strategy1, proc[p].pc \in {"sync", "slots", "send"},
         proc'[p].pc \in {"slots", "send"},
         proc'[p].pc = "send" => proc'[p].slot \in Slots /\ proc'[p].station \in Station,
         Knows(p)', Sends(p)'
  PROVE  BridgeInv'
<1>1. Control'
  <2>1. Placed(p)'
    BY DEF Placed, At, ClientPlaces, MainPlaces, Listening
  <2>2. SaverStep(p)
    BY DEF SaverStep, SavingPhase
  <2>3. proc'[p].pc \in Listening
    BY DEF Listening
  <2>4. Control
    BY DEF BridgeInv
  <2>5. agreed' \in BOOLEAN /\ synced' \in BOOLEAN
    BY <2>4 DEF Control, BridgeTypes
  <2>. QED BY <2>1, <2>2, <2>3, <2>4, <2>5, AtWork, FrameControl
<1>2. Syncs(p)'
  BY DEF Syncs
<1>3. Known' /\ Sending'
  BY <1>2, KnownStep, SendingStep DEF BridgeInv
<1>4. Agrees'
  BY KeepsActiveSpeaker, AgreesStep DEF BridgeInv, At
<1>5. Shows'
  BY <1>2, ShowsStep DEF BridgeInv
<1>. QED BY <1>1, <1>3, <1>4, <1>5 DEF BridgeInv

LEMMA SyncPresetsKeeps ==
  ASSUME BridgeInv, Stored', NEW p \in Procs, SyncPresets(p)
  PROVE  BridgeInv'
<1>1. /\ proc[p].pc = "sync"
      /\ UNCHANGED <<cfg, phase, use, target, strategy1, buttons, agreed, synced>>
  BY DEF SyncPresets, store, manager
<1>2. /\ Control /\ proc \in [Procs -> Locals] /\ proc[p] \in Locals /\ Keeps
      /\ agreed \in BOOLEAN /\ synced \in BOOLEAN
      /\ buttons' \in [ValidIPs -> [Slots -> Station \cup {Nobody}]]
      /\ cfg.presets \in Presets
  BY <1>1 DEF BridgeInv, Control, BridgeTypes, Keeps, Stored, IInv, TypeOK, Config
<1>3. CASE (target = Nobody \/ ~strategy1) /\ Finish(p)
  <2>1. proc' \in [Procs -> Locals] /\ proc'[p] = Rest(p) /\ OthersSame(p)
    BY <1>2, <1>3, RestIs, GoesOn DEF Finish
  <2>2. proc'[p].pc = IF p = Main THEN "done" ELSE "idle"
    BY <2>1, RestIs
  <2>3. ~synced
    BY <1>2, <1>3 DEF Control, Strategy
  <2>4. Control'
    <3>1. Placed(p)'
      BY <2>2, ProcsAre DEF Placed, At, ClientPlaces, MainPlaces, Listening
    <3>2. SaverStep(p)
      BY <1>1, <2>2 DEF SaverStep, SavingPhase
    <3>3. p = Main => proc'[p].pc \in Listening
      BY <2>2 DEF Listening
    <3>. QED BY <1>1, <1>2, <2>1, <2>2, <2>3, <3>1, <3>2, <3>3, AtWork, FrameControl
  <2>5. Knows(p)' /\ Sends(p)' /\ ~Syncs(p)
    BY <1>1, <2>2 DEF Knows, Sends, Syncs, At
  <2>6. Known' /\ Sending'
    BY <1>1, <1>2, <2>1, <2>5, KnownStep, SendingStep DEF BridgeInv
  <2>7. Agrees'
    BY <1>1, <1>2, <2>1, KeepsActiveSpeaker, AgreesStep DEF BridgeInv, At
  <2>8. Shows'
    BY <1>1, <2>1, <2>3, ShowsStep DEF BridgeInv
  <2>. QED BY <2>4, <2>6, <2>7, <2>8 DEF BridgeInv
<1>4. CASE /\ target # Nobody /\ strategy1
           /\ proc' = [proc EXCEPT ![p].pc = "slots", ![p].seen = cfg.presets,
                                   ![p].todo = Assigned(cfg.presets)]
  <2>. DEFINE t == Assigned(cfg.presets)
              l == [proc[p] EXCEPT !.pc = "slots", !.seen = cfg.presets, !.todo = t]
  <2>1. t \in SUBSET Slots
    BY DEF Assigned
  <2>2. proc' = [proc EXCEPT ![p] = l]
    BY <1>4
  <2>. HIDE DEF t
  <2>3. /\ l \in Locals /\ l.pc = "slots" /\ l.seen = cfg.presets /\ l.todo = t
    BY <1>2, <2>1 DEF Locals, MainPlaces, Listening
  <2>. HIDE DEF l
  <2>4. proc' \in [Procs -> Locals] /\ proc'[p] = l /\ OthersSame(p)
    BY <1>2, <2>2, <2>3, GoesOn
  <2>5. Knows(p)'
    BY <1>1, <2>3, <2>4 DEF Knows, At, t
  <2>6. Sends(p)'
    <3>1. Assigned(cfg.presets)' \ proc'[p].todo = {}
      BY <1>1, <2>3, <2>4 DEF t
    <3>. QED BY <3>1 DEF Sends
  <2>. QED BY <1>1, <1>2, <1>4, <2>3, <2>4, <2>5, <2>6, SyncMove
<1>. QED BY <1>3, <1>4 DEF SyncPresets

LEMMA NextSlotKeeps ==
  ASSUME BridgeInv, Stored', NEW p \in Procs, NextSlot(p)
  PROVE  BridgeInv'
<1>1. /\ proc[p].pc = "slots"
      /\ UNCHANGED <<cfg, phase, use, target, strategy1, buttons, agreed, synced>>
  BY DEF NextSlot, store, manager
<1>2. /\ Control /\ proc \in [Procs -> Locals] /\ proc[p] \in Locals /\ Keeps /\ strategy1
      /\ buttons' \in [ValidIPs -> [Slots -> Station \cup {Nobody}]]
      /\ Knows(p) /\ Sends(p) /\ cfg.stations \in Seq(Station)
  BY <1>1 DEF BridgeInv, Control, BridgeTypes, Keeps, Strategy, Syncs, Known, Sending,
              Stored, IInv, TypeOK, Config
<1>3. PICK k \in proc[p].todo :
        \/ /\ StationByID(proc[p].seen[k]) = {}
           /\ proc' = [proc EXCEPT ![p].todo = @ \ {k}]
        \/ \E st \in StationByID(proc[p].seen[k]) :
             proc' = [proc EXCEPT ![p].pc = "send", ![p].slot = k, ![p].station = st]
  BY DEF NextSlot
<1>4. k \in Slots /\ proc[p].todo \in SUBSET Slots
  BY <1>2, <1>3 DEF Locals
<1>5. ASSUME OthersSame(p), Alone(p)' PROVE Alone(p)
  BY <1>5 DEF OthersSame, Same, Alone, Syncs
<1>6. \A j : Match(j)' <=> Match(j)
  BY <1>1 DEF Match, StationByID
<1>7. CASE /\ StationByID(proc[p].seen[k]) = {}
           /\ proc' = [proc EXCEPT ![p].todo = @ \ {k}]
  <2>. DEFINE t == proc[p].todo \ {k}
              l == [proc[p] EXCEPT !.todo = t]
  <2>1. proc' = [proc EXCEPT ![p] = l] /\ t \in SUBSET Slots
    BY <1>4, <1>7
  <2>. HIDE DEF t
  <2>2. /\ l \in Locals /\ l.pc = "slots" /\ l.seen = proc[p].seen /\ l.todo = t
        /\ l.clean = proc[p].clean
    BY <1>1, <1>2, <2>1 DEF Locals
  <2>. HIDE DEF l
  <2>3. proc' \in [Procs -> Locals] /\ proc'[p] = l /\ OthersSame(p)
    BY <1>2, <2>1, <2>2, GoesOn
  <2>4. Knows(p)'
    BY <1>1, <1>2, <2>2, <2>3 DEF Knows, At, Syncs, Keeps, t
  <2>5. Sends(p)'
    <3>1. SUFFICES ASSUME proc'[p].clean, Alone(p)', NEW j \in Assigned(cfg.presets) \ t
                   PROVE  Match(j)'
      BY <1>1, <2>2, <2>3 DEF Sends
    <3>2. proc[p].clean /\ proc[p].seen = cfg.presets
      BY <1>1, <1>2, <2>2, <2>3, <3>1 DEF Knows, Syncs
    <3>3. CASE j = k
      BY <1>6, <1>7, <3>2, <3>3 DEF Match
    <3>4. CASE j # k
      BY <1>1, <1>2, <1>5, <1>6, <2>3, <3>1, <3>2, <3>4 DEF Sends, Syncs, t
    <3>. QED BY <3>3, <3>4
  <2>. QED BY <1>1, <1>2, <2>2, <2>3, <2>4, <2>5, SyncMove
<1>8. ASSUME NEW st \in StationByID(proc[p].seen[k]),
             proc' = [proc EXCEPT ![p].pc = "send", ![p].slot = k, ![p].station = st]
      PROVE  BridgeInv'
  <2>. DEFINE l == [proc[p] EXCEPT !.pc = "send", !.slot = k, !.station = st]
  <2>1. proc' = [proc EXCEPT ![p] = l]
    BY <1>8
  <2>2. st \in Station
    BY <1>2, ElementOfSeq, LenProperties DEF StationByID
  <2>3. /\ l \in Locals /\ l.pc = "send" /\ l.seen = proc[p].seen /\ l.todo = proc[p].todo
        /\ l.slot = k /\ l.station = st /\ l.clean = proc[p].clean
    BY <1>2, <1>4, <2>2 DEF Locals, MainPlaces, Listening
  <2>. HIDE DEF l
  <2>4. proc' \in [Procs -> Locals] /\ proc'[p] = l /\ OthersSame(p)
    BY <1>2, <2>1, <2>3, GoesOn
  <2>5. Knows(p)'
    <3>1. StationByID(cfg.presets[k])' = StationByID(cfg.presets[k])
      BY <1>1 DEF StationByID
    <3>. QED BY <1>1, <1>2, <1>3, <2>3, <2>4, <3>1 DEF Knows, At, Syncs, Keeps
  <2>6. Sends(p)'
    BY <1>1, <1>2, <1>5, <1>6, <2>3, <2>4 DEF Sends, Syncs
  <2>. QED BY <1>1, <1>2, <1>4, <2>2, <2>3, <2>4, <2>5, <2>6, SyncMove
<1>. QED BY <1>3, <1>7, <1>8

\* The goroutine is back at the walk through the slots, with the one it sent done.
LEMMA AfterSend ==
  ASSUME Control, NEW p \in Procs, NEW b \in BOOLEAN,
         proc' = [proc EXCEPT ![p].pc = "slots", ![p].todo = @ \ {proc[p].slot},
                              ![p].slot = Nobody, ![p].station = Nobody, ![p].clean = b]
  PROVE  /\ proc' \in [Procs -> Locals] /\ OthersSame(p)
         /\ proc'[p].pc = "slots" /\ proc'[p].todo = proc[p].todo \ {proc[p].slot}
         /\ proc'[p].seen = proc[p].seen /\ proc'[p].clean = b
<1>. DEFINE t == proc[p].todo \ {proc[p].slot}
            l == [proc[p] EXCEPT !.pc = "slots", !.todo = t, !.slot = Nobody,
                                 !.station = Nobody, !.clean = b]
<1>1. proc \in [Procs -> Locals] /\ proc[p] \in Locals
  BY DEF Control, BridgeTypes
<1>2. t \in SUBSET Slots
  BY <1>1 DEF Locals
<1>3. proc' = [proc EXCEPT ![p] = l]
  OBVIOUS
<1>. HIDE DEF t
<1>4. /\ l \in Locals /\ l.pc = "slots" /\ l.todo = t /\ l.seen = proc[p].seen /\ l.clean = b
  BY <1>1, <1>2 DEF Locals, MainPlaces, Listening
<1>. HIDE DEF l
<1>5. proc' \in [Procs -> Locals] /\ proc'[p] = l /\ OthersSame(p)
  BY <1>1, <1>3, <1>4, GoesOn
<1>. QED BY <1>4, <1>5 DEF t

\* What the speaker keeps once it has stored the preset.
LEMMA SentTyped ==
  ASSUME Control, NEW p \in Procs, proc[p].pc = "send"
  PROVE  /\ strategy1 /\ target \in ValidIPs
         /\ proc[p].slot \in Slots /\ proc[p].station \in Station
         /\ Sent(p) \in [ValidIPs -> [Slots -> Station \cup {Nobody}]]
         /\ \A k \in Slots : Sent(p)[target][k] =
              IF k = proc[p].slot THEN proc[p].station ELSE buttons[target][k]
<1>1. strategy1 /\ target \in ValidIPs
  BY DEF Control, Strategy, Syncs, BridgeTypes
<1>2. proc[p].slot \in Slots /\ proc[p].station \in Station
  BY DEF Control, Places, Placed
<1>3. buttons \in [ValidIPs -> [Slots -> Station \cup {Nobody}]]
  BY DEF Control, BridgeTypes
<1>. QED BY <1>1, <1>2, <1>3 DEF Sent

LEMMA OneStation ==
  ASSUME Stored, NEW id, NEW a \in StationByID(id), NEW b \in StationByID(id)
  PROVE  a = b
BY IInvUnfolded DEF Stored, Sound, WellFormed, DistinctIDs, StationByID

LEMMA SetPresetKeeps ==
  ASSUME BridgeInv, Stored', NEW p \in Procs, SetPreset(p)
  PROVE  BridgeInv'
<1>1. /\ proc[p].pc = "send" /\ buttons' = Sent(p)
      /\ UNCHANGED <<cfg, phase, use, target, strategy1, agreed, synced>>
      /\ proc' = [proc EXCEPT ![p].pc = "slots", ![p].todo = @ \ {proc[p].slot},
                              ![p].slot = Nobody, ![p].station = Nobody,
                              ![p].clean = proc[p].clean]
  <2>1. proc \in [Procs -> Locals] /\ proc[p] \in Locals
    BY DEF BridgeInv, Control, BridgeTypes
  <2>. DEFINE e == [proc[p] EXCEPT !.pc = "slots", !.todo = @ \ {proc[p].slot},
                                   !.slot = Nobody, !.station = Nobody]
              f == [proc[p] EXCEPT !.pc = "slots", !.todo = @ \ {proc[p].slot},
                                   !.slot = Nobody, !.station = Nobody, !.clean = proc[p].clean]
  <2>2. e = f
    BY <2>1 DEF Locals
  <2>3. /\ [proc EXCEPT ![p].pc = "slots", ![p].todo = @ \ {proc[p].slot},
                        ![p].slot = Nobody, ![p].station = Nobody] = [proc EXCEPT ![p] = e]
        /\ [proc EXCEPT ![p].pc = "slots", ![p].todo = @ \ {proc[p].slot},
                        ![p].slot = Nobody, ![p].station = Nobody,
                        ![p].clean = proc[p].clean] = [proc EXCEPT ![p] = f]
    BY <2>1
  <2>. HIDE DEF e, f
  <2>. QED BY <2>2, <2>3 DEF SetPreset, store, manager
<1>2. /\ Control /\ proc[p].clean \in BOOLEAN /\ Keeps /\ Knows(p) /\ Sends(p)
  BY <1>1 DEF BridgeInv, Control, BridgeTypes, Locals, Keeps, Known, Sending
<1>. DEFINE k == proc[p].slot
<1>3. /\ proc' \in [Procs -> Locals] /\ OthersSame(p)
      /\ proc'[p].pc = "slots" /\ proc'[p].todo = proc[p].todo \ {k}
      /\ proc'[p].seen = proc[p].seen /\ proc'[p].clean = proc[p].clean
  BY <1>1, <1>2, AfterSend
<1>4. /\ strategy1 /\ k \in Slots
      /\ buttons' \in [ValidIPs -> [Slots -> Station \cup {Nobody}]]
      /\ \A j \in Slots : buttons'[target][j] =
           IF j = k THEN proc[p].station ELSE buttons[target][j]
  BY <1>1, <1>2, SentTyped
<1>5. Knows(p)'
  BY <1>1, <1>2, <1>3 DEF Knows, At, Syncs, Keeps
<1>6. Sends(p)'
  <2>1. SUFFICES ASSUME proc'[p].clean, Alone(p)',
                        NEW j \in Assigned(cfg.presets) \ (proc[p].todo \ {k})
                 PROVE  Match(j)'
    BY <1>1, <1>3 DEF Sends
  <2>2. Alone(p)
    BY <1>3, <2>1 DEF OthersSame, Same, Alone, Syncs
  <2>3. j \in Slots
    BY DEF Assigned
  <2>4. SUFFICES ASSUME NEW st \in StationByID(cfg.presets[j]) PROVE buttons'[target][j] = st
    BY <1>1 DEF Match, StationByID
  <2>5. CASE j = k
    <3>1. proc[p].station \in StationByID(cfg.presets[j])
      BY <1>1, <1>2, <1>3, <2>1, <2>5 DEF Knows
    <3>. QED BY <1>4, <2>3, <2>5, <3>1, OneStation DEF BridgeInv
  <2>6. CASE j # k
    <3>1. Syncs(p) /\ proc[p].clean
      BY <1>1, <1>3, <2>1 DEF Syncs
    <3>2. Match(j)
      BY <1>2, <2>1, <2>2, <2>6, <3>1 DEF Sends
    <3>. QED BY <1>4, <2>3, <2>4, <2>6, <3>2 DEF Match
  <2>. QED BY <2>5, <2>6
<1>. QED BY <1>1, <1>2, <1>3, <1>4, <1>5, <1>6, SyncMove

LEMMA SetPresetFailsKeeps ==
  ASSUME BridgeInv, Stored', NEW p \in Procs, SetPresetFails(p)
  PROVE  BridgeInv'
<1>1. /\ proc[p].pc = "send" /\ buttons' \in {buttons, Sent(p)}
      /\ UNCHANGED <<cfg, phase, use, target, strategy1, agreed, synced>>
      /\ proc' = [proc EXCEPT ![p].pc = "slots", ![p].todo = @ \ {proc[p].slot},
                              ![p].slot = Nobody, ![p].station = Nobody, ![p].clean = FALSE]
  BY DEF SetPresetFails, manager
<1>2. Control /\ Keeps
  BY <1>1 DEF BridgeInv, Keeps
<1>3. /\ proc' \in [Procs -> Locals] /\ OthersSame(p)
      /\ proc'[p].pc = "slots" /\ proc'[p].clean = FALSE
  BY <1>1, <1>2, AfterSend
<1>4. /\ strategy1 /\ buttons' \in [ValidIPs -> [Slots -> Station \cup {Nobody}]]
  BY <1>1, <1>2, SentTyped DEF Control, BridgeTypes
<1>5. Knows(p)' /\ Sends(p)'
  BY <1>3 DEF Knows, Sends
<1>. QED BY <1>1, <1>2, <1>3, <1>4, <1>5, SyncMove

LEMMA EndSyncKeeps ==
  ASSUME BridgeInv, Stored', NEW p \in Procs, EndSync(p)
  PROVE  BridgeInv'
<1>1. /\ proc[p].pc = "slots" /\ proc[p].todo = {} /\ synced' = proc[p].clean
      /\ Interfere(p, Rest(p))
      /\ UNCHANGED <<cfg, phase, use, target, strategy1, buttons, agreed>>
  BY DEF EndSync, store, manager
<1>2. /\ Control /\ proc \in [Procs -> Locals] /\ proc[p] \in Locals /\ Keeps /\ strategy1
      /\ agreed \in BOOLEAN /\ proc[p].clean \in BOOLEAN
      /\ buttons' \in [ValidIPs -> [Slots -> Station \cup {Nobody}]]
  BY <1>1 DEF BridgeInv, Control, BridgeTypes, Keeps, Strategy, Syncs, Locals
<1>3. proc' \in [Procs -> Locals] /\ proc'[p] = Rest(p) /\ OthersSame(p) /\ OthersTold(p)
  BY <1>1, <1>2, RestIs, Interferes
<1>4. proc'[p].pc = IF p = Main THEN "done" ELSE "idle"
  BY <1>3, RestIs
<1>5. Control'
  <2>1. Placed(p)'
    BY <1>4, ProcsAre DEF Placed, At, ClientPlaces, MainPlaces, Listening
  <2>2. SaverStep(p)
    BY <1>1, <1>4 DEF SaverStep, SavingPhase
  <2>3. p = Main => proc'[p].pc \in Listening
    BY <1>4 DEF Listening
  <2>. QED BY <1>1, <1>2, <1>3, <1>4, <2>1, <2>2, <2>3, AtWork, FrameControl
<1>6. Known' /\ Sending'
  BY <1>3, <1>4, RestKnows, KnownStep, SendingStep DEF BridgeInv
<1>7. Agrees'
  BY <1>1, <1>2, <1>3, KeepsActiveSpeaker, AgreesStep DEF BridgeInv, At
<1>8. Shows'
  <2>1. SUFFICES ASSUME proc[p].clean, \A q \in Procs : ~Syncs(q)',
                        NEW k \in Assigned(cfg.presets)
                 PROVE  Match(k)'
    BY <1>1 DEF Shows
  <2>2. Alone(p) /\ Syncs(p)
    BY <1>1, <1>3, <2>1 DEF OthersSame, Same, Alone, Syncs
  <2>3. Match(k)
    BY <1>1, <2>1, <2>2 DEF BridgeInv, Sending, Sends
  <2>. QED BY <1>1, <2>3 DEF Match, StationByID
<1>. QED BY <1>5, <1>6, <1>7, <1>8 DEF BridgeInv

LEMMA StepKeeps ==
  ASSUME BridgeInv, Stored', NEW p \in Procs, Step(p)
  PROVE  BridgeInv'
BY WriteStepKeeps, RenameStepKeeps, SaveFailsKeeps, SyncPresetsKeeps, NextSlotKeeps,
   SetPresetKeeps, SetPresetFailsKeeps, EndSyncKeeps DEF Step

-----------------------------------------------------------------------------
(* A request calls the store.                                              *)

\* The operation was accepted: the others are told, and the request goes on in save.
LEMMA AcceptedKeeps ==
  ASSUME BridgeInv, Stored', NEW r \in Clients,
         proc[r].pc \in {"idle", "select"}, proc[Main].pc \in Listening,
         phase = "idle", phase' = "writing",
         NEW l \in Locals, l.pc = "save", l.next \in ClientNext,
         l.next = "retarget" => l.ip \in ValidIPs,
         Interfere(r, l), UNCHANGED <<use, target, strategy1, buttons, agreed>>,
         synced' \in BOOLEAN, synced' => synced,
         Knows(r)',
         l.next = "retarget" \/ KeepsActive,
         \/ l.next = "sync"
         \/ synced' => \A k \in Assigned(cfg'.presets) :
                         k \in Assigned(cfg.presets) /\ (Match(k) => Match(k)')
  PROVE  BridgeInv'
<1>1. /\ Control /\ proc \in [Procs -> Locals] /\ agreed \in BOOLEAN /\ r \in Procs
      /\ buttons' \in [ValidIPs -> [Slots -> Station \cup {Nobody}]]
      /\ synced' => strategy1
  BY ProcsAre DEF BridgeInv, Control, BridgeTypes, Strategy
<1>2. proc' \in [Procs -> Locals] /\ proc'[r] = l /\ OthersSame(r) /\ OthersTold(r)
  BY <1>1, Interferes
<1>3. Control'
  <2>1. Placed(r)'
    BY <1>2, ProcsAre DEF Placed, At, ClientPlaces
  <2>2. SaverStep(r)
    BY <1>2 DEF SaverStep, SavingPhase
  <2>. QED BY <1>1, <1>2, <2>1, <2>2, ProcsAre, FrameControl
<1>4. Sends(r)' /\ ~Syncs(r)
  BY <1>2 DEF Sends, Syncs
<1>5. Known' /\ Sending'
  BY <1>1, <1>2, <1>4, KnownStep, SendingStep DEF BridgeInv
<1>6. Agrees'
  <2>1. CASE l.next = "retarget"
    BY <1>1, <1>2, <2>1, AgreesStep DEF BridgeInv, At
  <2>2. CASE KeepsActive
    BY <1>1, <1>2, <2>2, AgreesStep DEF BridgeInv, At
  <2>. QED BY <2>1, <2>2
<1>7. Shows'
  <2>1. CASE l.next = "sync"
    BY <1>1, <1>2, <2>1, ShowsStep DEF BridgeInv, At
  <2>2. ~At(r, "sync")
    BY DEF At
  <2>. QED BY <1>1, <1>2, <1>4, <2>1, <2>2, ShowsStep DEF BridgeInv
<1>. QED BY <1>3, <1>5, <1>6, <1>7 DEF BridgeInv

\* A request that ends, or goes on to the next of its calls, without having changed
\* what others rely on.
LEMMA ClientMoves ==
  ASSUME BridgeInv, Stored', NEW r \in Clients, proc[Main].pc \in Listening,
         proc[r].pc \in {"idle", "select", "answer", "retarget"}, phase' = phase,
         NEW l \in Locals, l.pc \in {"idle", "select"}, l.pc = "select" => l.ip \in ValidIPs,
         proc' = [proc EXCEPT ![r] = l],
         Keeps, UNCHANGED <<use, target, strategy1, buttons, agreed>>,
         synced' \in BOOLEAN, synced' => synced,
         Knows(r)', ~At(r, "retarget") \/ target = Nobody
  PROVE  BridgeInv'
<1>1. /\ Control /\ proc \in [Procs -> Locals] /\ agreed \in BOOLEAN /\ r \in Procs
      /\ buttons' \in [ValidIPs -> [Slots -> Station \cup {Nobody}]]
      /\ synced' => strategy1
  BY ProcsAre DEF BridgeInv, Control, BridgeTypes, Strategy
<1>2. proc' \in [Procs -> Locals] /\ proc'[r] = l /\ OthersSame(r)
  BY <1>1, GoesOn
<1>3. Control'
  <2>1. Placed(r)'
    BY <1>2, ProcsAre DEF Placed, At, ClientPlaces
  <2>2. SaverStep(r)
    BY <1>2 DEF SaverStep, SavingPhase
  <2>. QED BY <1>1, <1>2, <2>1, <2>2, ProcsAre, FrameControl
<1>4. Sends(r)' /\ ~Syncs(r) /\ ~At(r, "sync")
  BY <1>2 DEF Sends, Syncs, At
<1>5. Known' /\ Sending'
  BY <1>1, <1>2, <1>4, KnownStep, SendingStep DEF BridgeInv
<1>6. Agrees'
  BY <1>1, <1>2, KeepsActiveSpeaker, AgreesStep DEF BridgeInv
<1>7. Shows'
  BY <1>1, <1>2, <1>4, QuietShows, ShowsStep DEF BridgeInv
<1>. QED BY <1>3, <1>5, <1>6, <1>7 DEF BridgeInv

\* The operation was rejected: the profiles it may have made explicit are nobody's
\* concern here.
LEMMA RejectedKeeps ==
  ASSUME BridgeInv, Stored', NEW r \in Clients, proc[r].pc = "idle", proc[Main].pc \in Listening,
         Operations, phase' # "writing", Finish(r),
         UNCHANGED <<use, target, strategy1, buttons, agreed>>,
         synced' \in BOOLEAN, synced' => synced
  PROVE  BridgeInv'
<1>1. cfg' = Materialized(cfg) /\ phase' = phase /\ Sound(cfg)
  BY RejectLeaves, IInvUnfolded DEF BridgeInv, Stored
<1>2. Keeps
  BY <1>1, Explicit DEF Keeps
<1>3. /\ Rest(r) \in Locals /\ Rest(r).pc = "idle"
      /\ proc' = [proc EXCEPT ![r] = Rest(r)]
  BY RestIs, ProcsAre DEF Finish
<1>4. Knows(r)'
  <2>1. proc'[r].pc = "idle"
    BY <1>3, ProcsAre DEF BridgeInv, Control, BridgeTypes
  <2>. QED BY <2>1 DEF Knows, At, Syncs
<1>5. ~At(r, "retarget")
  BY DEF At
<1>. QED BY <1>1, <1>2, <1>3, <1>4, <1>5, ClientMoves

LEMMA WorkingShows ==
  ASSUME Working(cfg') = Working(cfg), target' = target, buttons' = buttons
  PROVE  \A k \in Assigned(cfg'.presets) :
           k \in Assigned(cfg.presets) /\ (Match(k) => Match(k)')
<1>1. cfg'.stations = cfg.stations /\ cfg'.presets = cfg.presets
  BY DEF Working
<1>. QED BY <1>1 DEF Match, StationByID, Assigned

LEMMA KeptSpeakersKeepActive == SpeakersKept => KeepsActive
<1>. SUFFICES ASSUME SpeakersKept PROVE KeepsActive
  OBVIOUS
<1>1. Active(cfg') = Active(cfg)
  BY DEF SpeakersKept, Active
<1>. QED BY <1>1 DEF SpeakersKept, KeepsActive

\* A handler that makes one call to the store, and syncs after it or ends.
LEMMA HandlerKeeps ==
  ASSUME BridgeInv, Stored', NEW r \in Clients, proc[r].pc = "idle", proc[Main].pc \in Listening,
         Operations, NEW n \in {"idle", "sync"},
         \/ phase' = "writing" /\ Interfere(r, [Idle EXCEPT !.pc = "save", !.next = n])
         \/ phase' # "writing" /\ Finish(r),
         UNCHANGED <<use, target, strategy1, buttons, agreed>>,
         synced' \in BOOLEAN, synced' => synced,
         phase' = "writing" => KeepsActive,
         \/ n = "sync"
         \/ synced' => Working(cfg') = Working(cfg)
  PROVE  BridgeInv'
<1>. DEFINE l == [Idle EXCEPT !.pc = "save", !.next = n]
<1>1. CASE phase' # "writing"
  BY <1>1, RejectedKeeps
<1>2. CASE phase' = "writing"
  <2>1. /\ l \in Locals /\ l.pc = "save" /\ l.next = n /\ n \in ClientNext
    BY IdleTyped DEF Locals, ClientPlaces, ClientNext
  <2>2. Interfere(r, l)
    BY <1>2
  <2>. HIDE DEF l
  <2>3. phase = "idle"
    BY IInvUnfolded, OperationSound DEF BridgeInv, Stored, Operations
  <2>4. Knows(r)'
    <3>1. proc'[r] = l
      BY <2>1, <2>2, ProcsAre, Interferes DEF BridgeInv, Control, BridgeTypes
    <3>. QED BY <2>1, <3>1, ProcsAre, RestKnows
  <2>5. \/ l.next = "sync"
        \/ synced' => \A k \in Assigned(cfg'.presets) :
                        k \in Assigned(cfg.presets) /\ (Match(k) => Match(k)')
    BY <2>1, WorkingShows
  <2>. QED BY <1>2, <2>1, <2>2, <2>3, <2>4, <2>5, AcceptedKeeps
<1>. QED BY <1>1, <1>2

LEMMA SyncedTyped == BridgeInv => synced \in BOOLEAN /\ agreed \in BOOLEAN
BY DEF BridgeInv, Control, BridgeTypes

\* The library and the presets.
LEMMA StationOpKeepsActive ==
  ASSUME BridgeInv, StationOps \/ ProfileOps, phase' = "writing"
  PROVE  KeepsActive
<1>1. Sound(cfg) /\ phase = "idle"
  BY IInvUnfolded, OperationSound DEF BridgeInv, Stored
<1>. QED BY <1>1, StationFrame, ProfileOpsKeepSpeakers, KeptSpeakersKeepActive

LEMMA HomeRequestKeeps ==
  ASSUME BridgeInv, Stored', NEW r \in Clients,
         \/ \E id \in PresetInputs \ {None} : DeleteStationHandler(r, id)
         \/ \E slot \in Slots, id \in PresetInputs : AssignPresetHandler(r, slot, id)
         \/ \E name \in ProfileInputs : LoadProfileHandler(r, name)
         \/ \E name \in ProfileInputs : SetActiveProfileHandler(r, name)
  PROVE  BridgeInv'
<1>. USE DEF Request, HomeFrame, Change, manager
<1>1. ASSUME NEW id \in PresetInputs \ {None}, DeleteStationHandler(r, id) PROVE BridgeInv'
  <2>1. StationOps
    BY <1>1, StoreAssumption DEF DeleteStationHandler, StationOps
  <2>2. /\ proc[r].pc = "idle" /\ proc[Main].pc \in Listening
        /\ \/ phase' = "writing" /\ Interfere(r, [Idle EXCEPT !.pc = "save", !.next = "sync"])
           \/ phase' # "writing" /\ Finish(r)
        /\ UNCHANGED <<use, target, strategy1, buttons, agreed, synced>>
    BY <1>1 DEF DeleteStationHandler
  <2>. QED BY <2>1, <2>2, StationOpKeepsActive, SyncedTyped, HandlerKeeps DEF Operations
<1>2. ASSUME NEW slot \in Slots, NEW id \in PresetInputs, AssignPresetHandler(r, slot, id)
      PROVE  BridgeInv'
  <2>1. StationOps
    BY <1>2 DEF AssignPresetHandler, StationOps
  <2>2. /\ proc[r].pc = "idle" /\ proc[Main].pc \in Listening
        /\ \/ phase' = "writing" /\ Interfere(r, [Idle EXCEPT !.pc = "save", !.next = "sync"])
           \/ phase' # "writing" /\ Finish(r)
        /\ UNCHANGED <<use, target, strategy1, buttons, agreed, synced>>
    BY <1>2 DEF AssignPresetHandler
  <2>. QED BY <2>1, <2>2, StationOpKeepsActive, SyncedTyped, HandlerKeeps DEF Operations
<1>3. ASSUME NEW name \in ProfileInputs, LoadProfileHandler(r, name) PROVE BridgeInv'
  <2>1. ProfileOps
    BY <1>3 DEF LoadProfileHandler, ProfileOps
  <2>2. /\ proc[r].pc = "idle" /\ proc[Main].pc \in Listening
        /\ \/ phase' = "writing" /\ Interfere(r, [Idle EXCEPT !.pc = "save", !.next = "sync"])
           \/ phase' # "writing" /\ Finish(r)
        /\ UNCHANGED <<use, target, strategy1, buttons, agreed, synced>>
    BY <1>3 DEF LoadProfileHandler
  <2>. QED BY <2>1, <2>2, StationOpKeepsActive, SyncedTyped, HandlerKeeps DEF Operations
<1>4. ASSUME NEW name \in ProfileInputs, SetActiveProfileHandler(r, name) PROVE BridgeInv'
  <2>1. ProfileOps
    BY <1>4 DEF SetActiveProfileHandler, ProfileOps
  <2>2. /\ proc[r].pc = "idle" /\ proc[Main].pc \in Listening
        /\ \/ phase' = "writing" /\ Interfere(r, [Idle EXCEPT !.pc = "save", !.next = "idle"])
           \/ phase' # "writing" /\ Finish(r)
        /\ UNCHANGED <<use, target, strategy1, buttons, agreed>>
        /\ synced' = (synced /\ Working(cfg') = Working(cfg))
    BY <1>4 DEF SetActiveProfileHandler
  <2>. QED BY <2>1, <2>2, StationOpKeepsActive, SyncedTyped, HandlerKeeps DEF Operations
<1>. QED BY <1>1, <1>2, <1>3, <1>4

\* A new station is the last of the list, and the station of no other id.
LEMMA AddStationEffect ==
  ASSUME Stored, NEW name \in StationNames, AddStation(name)
  PROVE  LET st == NewStation(name)
         IN  /\ st \in Station
             /\ cfg'.stations # <<>> /\ AnsweredStation' = st
             /\ cfg'.presets = cfg.presets
             /\ \A id : id # st.id => StationByID(id)' = StationByID(id)
<1>. DEFINE st == NewStation(name)
<1>1. /\ cfg \in Config /\ cfg.stations \in Seq(Station) /\ Len(cfg.stations) < MaxStations
      /\ cfg'.stations = Append(cfg.stations, st) /\ cfg'.presets = cfg.presets
  BY DEF Stored, IInv, TypeOK, Config, AddStation, Update
<1>2. st \in Station
  BY <1>1, GenerateIDIsFresh DEF NewStation, Station
<1>. HIDE DEF st
<1>3. /\ Len(cfg.stations) \in Nat /\ DOMAIN cfg.stations = 1 .. Len(cfg.stations)
      /\ Len(cfg'.stations) = Len(cfg.stations) + 1
      /\ DOMAIN cfg'.stations = 1 .. Len(cfg.stations) + 1
      /\ \A i \in 1 .. Len(cfg.stations) : cfg'.stations[i] = cfg.stations[i]
      /\ cfg'.stations[Len(cfg.stations) + 1] = st
  BY <1>1, <1>2, AppendProperties, LenProperties
<1>4. cfg'.stations # <<>> /\ AnsweredStation' = st
  BY <1>3 DEF AnsweredStation
<1>5. ASSUME NEW id, id # st.id PROVE StationByID(id)' = StationByID(id)
  <2>1. {j \in DOMAIN cfg'.stations : cfg'.stations[j].id = id}
          = {j \in DOMAIN cfg.stations : cfg.stations[j].id = id}
    <3>. SUFFICES ASSUME NEW j
                  PROVE  j \in 1 .. Len(cfg.stations) + 1 /\ cfg'.stations[j].id = id
                           <=> j \in 1 .. Len(cfg.stations) /\ cfg.stations[j].id = id
      BY <1>3
    <3>1. CASE j = Len(cfg.stations) + 1
      BY <1>3, <1>5, <3>1
    <3>2. CASE j # Len(cfg.stations) + 1
      <4>1. j \in 1 .. Len(cfg.stations) + 1 <=> j \in 1 .. Len(cfg.stations)
        BY <1>3, <3>2
      <4>. QED BY <1>3, <4>1
    <3>. QED BY <3>1, <3>2
  <2>. QED BY <1>3, <2>1 DEF StationByID
<1>. QED BY <1>1, <1>2, <1>4, <1>5 DEF st

LEMMA AddStationKeeps ==
  ASSUME BridgeInv, Stored', NEW r \in Clients, NEW name \in StationNames,
         AddStationHandler(r, name)
  PROVE  BridgeInv'
<1>. DEFINE st == NewStation(name)
            l  == [[Idle EXCEPT !.station = st] EXCEPT !.pc = "save", !.next = "answer"]
<1>1. /\ proc[r].pc = "idle" /\ proc[Main].pc \in Listening /\ AddStation(name)
      /\ phase = "idle" /\ phase' = "writing" /\ Interfere(r, l)
      /\ UNCHANGED <<use, target, strategy1, buttons, agreed>>
      /\ synced' = (synced /\ \A k \in Slots : cfg.presets[k] # st.id)
  BY DEF AddStationHandler, Request, Change, HomeFrame, manager, AddStation, Update
<1>2. /\ st \in Station /\ cfg'.stations # <<>> /\ AnsweredStation' = st
      /\ cfg'.presets = cfg.presets
      /\ \A id : id # st.id => StationByID(id)' = StationByID(id)
  BY <1>1, AddStationEffect DEF BridgeInv
<1>. HIDE DEF st
<1>3. /\ l \in Locals /\ l.pc = "save" /\ l.next = "answer" /\ l.station = st
  <2>1. Idle \in Locals
    BY IdleTyped
  <2>2. [Idle EXCEPT !.station = st] \in Locals /\ [Idle EXCEPT !.station = st].station = st
    BY <1>2, <2>1 DEF Locals
  <2>. QED BY <2>2 DEF Locals, ClientPlaces, ClientNext
<1>. HIDE DEF l
<1>4. proc'[r] = l
  BY <1>1, <1>3, ProcsAre, Interferes DEF BridgeInv, Control, BridgeTypes
<1>5. Knows(r)'
  BY <1>2, <1>3, <1>4 DEF Knows, At, Syncs
<1>6. KeepsActive
  BY <1>1, StationOpKeepsActive DEF StationOps
<1>7. synced' => \A k \in Assigned(cfg'.presets) :
                   k \in Assigned(cfg.presets) /\ (Match(k) => Match(k)')
  BY <1>1, <1>2 DEF Match, Assigned
<1>8. synced' \in BOOLEAN /\ (synced' => synced)
  BY <1>1, SyncedTyped
<1>. QED BY <1>1, <1>3, <1>5, <1>6, <1>7, <1>8, AcceptedKeeps DEF ClientNext

\* Adding, removing and renaming speakers.
LEMMA SpeakerRequestKeeps ==
  ASSUME BridgeInv, Stored', NEW r \in Clients,
         \/ \E name \in SpeakerInputs, ip \in IPInputs : AddSpeakerHandler(r, name, ip)
         \/ \E name \in SpeakerInputs : RemoveSpeakerHandler(r, name)
         \/ \E old, new \in SpeakerInputs : RenameSpeakerHandler(r, old, new)
  PROVE  BridgeInv'
<1>. DEFINE Edit == \/ \E name \in SpeakerInputs :
                         RemoveSpeaker(name) \/ \E ip \in IPInputs : AddSpeaker(name, ip)
                    \/ \E old, new \in SpeakerInputs : RenameSpeaker(old, new)
            Called == /\ proc[r].pc = "idle" /\ proc[Main].pc \in Listening
                      /\ \/ /\ phase' = "writing"
                            /\ Interfere(r, [Idle EXCEPT !.pc = "save", !.next = "idle"])
                         \/ phase' # "writing" /\ Finish(r)
                      /\ UNCHANGED <<use, target, strategy1, buttons, agreed, synced>>
<1>1. Edit /\ Called
  <2>. USE DEF Request, SettingsFrame, Change, manager
  <2>1. ASSUME NEW name \in SpeakerInputs, NEW ip \in IPInputs, AddSpeakerHandler(r, name, ip)
        PROVE  Edit /\ Called
    BY <2>1 DEF AddSpeakerHandler
  <2>2. ASSUME NEW name \in SpeakerInputs, RemoveSpeakerHandler(r, name)
        PROVE  Edit /\ Called
    BY <2>2 DEF RemoveSpeakerHandler
  <2>3. ASSUME NEW old \in SpeakerInputs, NEW new \in SpeakerInputs, RenameSpeakerHandler(r, old, new)
        PROVE  Edit /\ Called
    BY <2>3 DEF RenameSpeakerHandler
  <2>. QED BY <2>1, <2>2, <2>3
<1>2. SpeakerOps
  BY <1>1 DEF SpeakerOps
<1>3. Sound(cfg) /\ Sound(cfg') /\ (FilesResolve => Resolved(cfg))
  BY IInvUnfolded, <1>2, OperationSound DEF BridgeInv, Stored, SelectionsResolve
<1>4. KeepsActive
  BY <1>1, <1>3, EditsKeepActive DEF KeepsActive
<1>5. Working(cfg') = Working(cfg)
  BY <1>2, <1>3, SpeakerFrame
<1>. QED BY <1>1, <1>2, <1>4, <1>5, SyncedTyped, HandlerKeeps DEF Operations

-----------------------------------------------------------------------------
(* Selecting a speaker.                                                    *)

LEMMA LookUpKeeps ==
  ASSUME BridgeInv, Stored', NEW r \in Clients, NEW name \in SpeakerInputs,
         LookUpSpeaker(r, name)
  PROVE  BridgeInv'
<1>. DEFINE i == First(Named(cfg.speakers, name))
            a == cfg.speakers[i].ip
            l == [Idle EXCEPT !.pc = "select", !.name = name, !.ip = a]
<1>1. /\ proc[r].pc = "idle" /\ proc[Main].pc \in Listening
      /\ Named(cfg.speakers, name) # {} /\ proc' = [proc EXCEPT ![r] = l]
      /\ UNCHANGED <<cfg, phase, use, target, strategy1, buttons, agreed, synced>>
  BY DEF LookUpSpeaker, Request, SettingsFrame, store, manager
<1>2. cfg.speakers \in Seq(Speaker)
  BY IInvUnfolded, SpeakersOfSound DEF BridgeInv, Stored
<1>3. i \in 1 .. Len(cfg.speakers) /\ cfg.speakers[i].name = name
  BY <1>1, <1>2, FirstNamed
<1>. HIDE DEF i
<1>4. a \in ValidIPs
  <2>1. cfg.speakers[i] \in Speaker
    BY <1>2, <1>3, ElementOfSeq
  <2>. QED BY <2>1 DEF Speaker
<1>5. /\ l \in Locals /\ l.pc = "select" /\ l.name = name /\ l.ip = a
  <2>. HIDE DEF a
  <2>. QED BY <1>4, IdleTyped DEF Locals, ClientPlaces
<1>. HIDE DEF l
<1>6. proc'[r] = l
  BY <1>1, <1>5, ProcsAre DEF BridgeInv, Control, BridgeTypes
<1>7. Knows(r)'
  <2>1. \E j \in 1 .. Len(cfg'.speakers) : cfg'.speakers[j].name = l.name /\ cfg'.speakers[j].ip = l.ip
    BY <1>1, <1>3, <1>5
  <2>. QED BY <1>5, <1>6, <2>1 DEF Knows, At, Syncs
<1>8. Keeps /\ ~At(r, "retarget")
  BY <1>1 DEF Keeps, At
<1>. QED BY <1>1, <1>4, <1>5, <1>7, <1>8, SyncedTyped, ClientMoves

LEMMA SelectKeeps ==
  ASSUME BridgeInv, Stored', NEW r \in Clients, SelectSpeaker(r)
  PROVE  BridgeInv'
<1>. DEFINE n == proc[r].name
            l == [proc[r] EXCEPT !.pc = "save", !.next = "retarget"]
<1>1. /\ proc[r].pc = "select"
      /\ UNCHANGED <<use, target, strategy1, buttons, agreed, synced>>
  BY DEF SelectSpeaker, SettingsFrame, manager
<1>2. /\ Control /\ r \in Procs /\ proc[Main].pc \in Listening
      /\ proc[r] \in Locals /\ Placed(r) /\ Knows(r)
      /\ Sound(cfg) /\ cfg.speakers \in Seq(Speaker)
  BY <1>1, ProcsAre, AtWork, IInvUnfolded, SpeakersOfSound
     DEF BridgeInv, Control, BridgeTypes, Places, Known, Stored
<1>3. CASE SetActive(n)
  <2>1. /\ cfg'.speakers = cfg.speakers /\ cfg'.activeSpeaker = n
        /\ phase = "idle" /\ phase' = "writing"
    BY <1>2, <1>3, SetActiveEffect DEF SetActive, Update
  <2>2. Interfere(r, l)
    <3>1. \/ Change(r, proc[r], SetActive(proc[r].name), "retarget")
          \/ Named(cfg.speakers, proc[r].name) = {}
      BY DEF SelectSpeaker
    <3>. QED BY <1>3, <2>1, <3>1 DEF Change, SetActive
  <2>3. /\ l \in Locals /\ l.pc = "save" /\ l.next = "retarget" /\ l.ip = proc[r].ip
        /\ l.clean = proc[r].clean /\ l.ip \in ValidIPs
    BY <1>1, <1>2 DEF Locals, ClientPlaces, ClientNext, Placed
  <2>. HIDE DEF l
  <2>4. proc'[r] = l
    BY <1>2, <2>2, <2>3, Interferes DEF BridgeInv, Control, BridgeTypes
  <2>5. Knows(r)'
    <3>1. ASSUME l.clean PROVE cfg'.speakers # <<>> /\ l.ip = Active(cfg').ip
      <4>1. PICK i \in 1 .. Len(cfg.speakers) :
              cfg.speakers[i].name = n /\ cfg.speakers[i].ip = proc[r].ip
        BY <1>1, <1>2, <2>3, <3>1 DEF Knows
      <4>2. n # None
        <5>1. cfg.speakers[i] \in Speaker
          BY <1>2, <4>1, ElementOfSeq
        <5>. QED BY <4>1, <5>1 DEF Speaker, SpeakerNames
      <4>3. Sound(cfg')
        BY IInvUnfolded, <1>2, <1>3, SetActiveSound
      <4>4. Active(cfg') = cfg'.speakers[i]
        BY <2>1, <4>1, <4>2, <4>3, ActiveIs
      <4>5. cfg.speakers # <<>>
        BY <4>1, EmptySeq
      <4>. QED BY <2>1, <2>3, <4>1, <4>4, <4>5
    <3>. QED BY <2>3, <2>4, <3>1 DEF Knows, At, Syncs
  <2>6. synced' => \A k \in Assigned(cfg'.presets) :
                     k \in Assigned(cfg.presets) /\ (Match(k) => Match(k)')
    <3>1. cfg'.stations = cfg.stations /\ cfg'.presets = cfg.presets
      BY <1>2, <1>3 DEF SetActive, Update, Sound, Config
    <3>. QED BY <1>1, <3>1 DEF Match, StationByID, Assigned
  <2>. QED BY <1>1, <1>2, <2>1, <2>2, <2>3, <2>5, <2>6, SyncedTyped, AcceptedKeeps DEF ClientNext
<1>4. CASE ~SetActive(n)
  <2>1. Finish(r) /\ UNCHANGED <<cfg, phase>>
    BY <1>4 DEF SelectSpeaker, Change, store
  <2>2. /\ Rest(r) \in Locals /\ Rest(r).pc = "idle"
        /\ proc' = [proc EXCEPT ![r] = Rest(r)] /\ proc'[r].pc = "idle"
    BY <1>2, <2>1, RestIs, ProcsAre DEF Finish, Control, BridgeTypes
  <2>3. Knows(r)' /\ Keeps /\ ~At(r, "retarget")
    BY <1>1, <2>1, <2>2 DEF Knows, At, Syncs, Keeps
  <2>. QED BY <1>1, <1>2, <2>1, <2>2, <2>3, SyncedTyped, ClientMoves
<1>. QED BY <1>3, <1>4

LEMMA RetargetKeeps ==
  ASSUME BridgeInv, Stored', NEW r \in Clients, Retarget(r)
  PROVE  BridgeInv'
<1>1. /\ proc[r].pc = "retarget"
      /\ UNCHANGED <<cfg, phase, use, strategy1, buttons>>
  BY DEF Retarget, store
<1>2. /\ Control /\ r \in Procs /\ proc[Main].pc \in Listening /\ Keeps
      /\ proc \in [Procs -> Locals] /\ proc[r] \in Locals /\ Placed(r) /\ Knows(r)
      /\ buttons' \in [ValidIPs -> [Slots -> Station \cup {Nobody}]]
  BY <1>1, ProcsAre, AtWork DEF BridgeInv, Control, BridgeTypes, Places, Known, Keeps
<1>3. CASE target = Nobody /\ Finish(r) /\ UNCHANGED <<target, agreed, synced>>
  <2>1. /\ Rest(r) \in Locals /\ Rest(r).pc = "idle"
        /\ proc' = [proc EXCEPT ![r] = Rest(r)] /\ proc'[r].pc = "idle"
    BY <1>2, <1>3, RestIs, ProcsAre DEF Finish
  <2>2. Knows(r)'
    BY <2>1 DEF Knows, At, Syncs
  <2>. QED BY <1>1, <1>2, <1>3, <2>1, <2>2, SyncedTyped, ClientMoves
<1>4. CASE /\ target # Nobody /\ target' = proc[r].ip /\ Interfere(r, Idle)
           /\ agreed' = proc[r].clean /\ synced' = (synced /\ target' = target)
  <2>1. proc' \in [Procs -> Locals] /\ proc'[r] = Idle /\ OthersSame(r) /\ OthersTold(r)
    BY <1>2, <1>4, IdleTyped, Interferes
  <2>2. proc'[r].pc = "idle"
    BY <1>2, <2>1, RestIs
  <2>3. target' \in ValidIPs /\ target' # Nobody
    BY <1>1, <1>2, <1>4, BridgeAssumption DEF Placed, At
  <2>4. agreed' \in BOOLEAN /\ synced' \in BOOLEAN /\ (synced' => synced)
    BY <1>2, <1>4, SyncedTyped DEF Locals
  <2>5. Control'
    <3>1. BridgeTypes'
      BY <1>1, <1>2, <2>1, <2>3, <2>4 DEF Control, BridgeTypes
    <3>2. Placed(r)'
      BY <2>2, ProcsAre DEF Placed, At, ClientPlaces
    <3>3. SaverStep(r)
      BY <1>1, <2>2 DEF SaverStep, SavingPhase
    <3>4. ManagerStep(r)
      BY <1>1, <1>2, <2>2, <2>3, <2>4, ProcsAre DEF ManagerStep, Control, Strategy
    <3>. QED BY <1>2, <2>1, <3>1, <3>2, <3>3, <3>4, ControlStep
  <2>6. Known' /\ Sending'
    BY <1>2, <2>1, <2>2, RestKnows, KnownStep, SendingStep DEF BridgeInv
  <2>7. Agrees'
    <3>1. CASE ~proc[r].clean
      BY <1>2, <1>4, <2>1, <3>1, AgreesStep DEF BridgeInv
    <3>2. CASE proc[r].clean
      <4>1. cfg.speakers # <<>> /\ proc[r].ip = Active(cfg).ip
        BY <1>1, <1>2, <3>2 DEF Knows, At
      <4>2. cfg'.speakers # <<>> /\ target' = Active(cfg').ip
        BY <1>1, <1>4, <4>1
      <4>. QED BY <1>2, <2>1, <4>2, AgreesStep DEF BridgeInv
    <3>. QED BY <3>1, <3>2
  <2>8. Shows'
    <3>1. CASE target' = target
      <4>1. ~At(r, "sync") /\ ~Syncs(r)
        BY <1>1 DEF At, Syncs
      <4>. QED BY <1>1, <1>2, <2>1, <2>4, <3>1, <4>1, QuietShows, ShowsStep DEF BridgeInv
    <3>2. CASE target' # target
      BY <1>2, <1>4, <2>1, <3>2, ShowsStep DEF BridgeInv
    <3>. QED BY <3>1, <3>2
  <2>. QED BY <2>5, <2>6, <2>7, <2>8 DEF BridgeInv
<1>. QED BY <1>3, <1>4 DEF Retarget

LEMMA AnswerKeeps ==
  ASSUME BridgeInv, Stored', NEW r \in Clients, AddStationAnswer(r)
  PROVE  BridgeInv'
<1>1. /\ proc[r].pc = "answer" /\ Finish(r)
      /\ UNCHANGED <<cfg, phase, use, target, strategy1, buttons, agreed, synced>>
  BY DEF AddStationAnswer, store, manager
<1>2. proc[Main].pc \in Listening /\ proc \in [Procs -> Locals]
  BY <1>1, ProcsAre, AtWork DEF BridgeInv, Control, BridgeTypes
<1>3. /\ Rest(r) \in Locals /\ Rest(r).pc = "idle"
      /\ proc' = [proc EXCEPT ![r] = Rest(r)] /\ proc'[r].pc = "idle"
  BY <1>1, <1>2, RestIs, ProcsAre DEF Finish
<1>4. Knows(r)' /\ Keeps /\ ~At(r, "retarget")
  BY <1>1, <1>3 DEF Knows, At, Syncs, Keeps
<1>. QED BY <1>1, <1>2, <1>3, <1>4, SyncedTyped, ClientMoves

-----------------------------------------------------------------------------
(* main, and the end of the process.                                       *)

\* Before there is a manager nobody else is at work: main may change what it likes.
LEMMA BootMoves ==
  ASSUME BridgeInv, Stored',
         proc[Main].pc \in {"off", "seed", "discover", "adopt", "manage"},
         NEW l \in Locals, l.pc \in {"seed", "save", "discover", "adopt", "manage", "done"},
         l.pc = "save" => l.next \in MainNext,
         proc' = [proc EXCEPT ![Main] = l],
         phase' \in {"writing", "renaming"} <=> l.pc = "save",
         UNCHANGED <<use, target, strategy1, buttons, agreed, synced>>
  PROVE  BridgeInv'
<1>1. /\ Control /\ Main \in Procs /\ proc \in [Procs -> Locals]
      /\ buttons' \in [ValidIPs -> [Slots -> Station \cup {Nobody}]]
      /\ agreed' \in BOOLEAN /\ synced' \in BOOLEAN
  BY ProcsAre DEF BridgeInv, Control, BridgeTypes
<1>2. /\ target = Nobody /\ ~strategy1 /\ ~synced
      /\ \A q \in Procs \ {Main} : proc[q].pc = "idle"
  BY <1>1, ProcsAre DEF Control, Booting, Strategy, Listening
<1>3. proc' \in [Procs -> Locals] /\ proc'[Main] = l /\ OthersSame(Main) /\ OthersTold(Main)
  BY <1>1, <1>2, GoesOn DEF OthersTold, AtRest
<1>4. Control'
  <2>1. Placed(Main)'
    BY <1>3, ProcsAre DEF Placed, MainPlaces, Listening
  <2>2. ~SavingPhase
    BY <1>1, <1>2 DEF Control, Saver
  <2>3. SaverStep(Main)
    BY <1>3, <2>2 DEF SaverStep, SavingPhase
  <2>4. proc[Main].pc \notin Listening
    BY DEF Listening
  <2>. QED BY <1>1, <1>2, <1>3, <2>1, <2>3, <2>4, ProcsAre, FrameControl
<1>5. Knows(Main)' /\ Sends(Main)'
  BY <1>3, ProcsAre DEF Knows, Sends, At, Syncs, MainNext
<1>6. Known' /\ Sending'
  BY <1>1, <1>3, <1>5, KnownStep, SendingStep DEF BridgeInv
<1>7. Agrees'
  BY <1>2 DEF Agrees
<1>8. Shows'
  BY <1>2 DEF Shows
<1>. QED BY <1>4, <1>6, <1>7, <1>8 DEF BridgeInv

LEMMA MainGoto ==
  ASSUME BridgeInv, NEW x \in MainPlaces
  PROVE  /\ [proc[Main] EXCEPT !.pc = x] \in Locals /\ [proc[Main] EXCEPT !.pc = x].pc = x
         /\ Goto(Main, x) => proc' = [proc EXCEPT ![Main] = [proc[Main] EXCEPT !.pc = x]]
<1>1. proc[Main] \in Locals
  BY ProcsAre DEF BridgeInv, Control, BridgeTypes
<1>. QED BY <1>1 DEF Goto, Locals

LEMMA LoadSeedKeeps ==
  ASSUME BridgeInv, Stored', LoadConfig \/ Seed
  PROVE  BridgeInv'
<1>0. proc[Main] \in Locals
  BY ProcsAre DEF BridgeInv, Control, BridgeTypes
<1>1. CASE LoadConfig
  <2>1. /\ proc[Main].pc = "off" /\ Goto(Main, "seed") /\ phase' = "booted"
        /\ UNCHANGED <<use, target, strategy1, buttons, agreed, synced>>
    BY <1>1 DEF LoadConfig, NewStore, BootFrame, manager
  <2>2. "seed" \in MainPlaces
    BY DEF MainPlaces
  <2>. DEFINE l == [proc[Main] EXCEPT !.pc = "seed"]
  <2>3. l \in Locals /\ l.pc = "seed" /\ proc' = [proc EXCEPT ![Main] = l]
    BY <2>1, <2>2, MainGoto
  <2>. HIDE DEF l
  <2>. QED BY <2>1, <2>3, BootMoves
<1>2. CASE Seed
  <2>. DEFINE x == IF phase' = "writing" THEN "save" ELSE "discover"
              l == [proc[Main] EXCEPT !.pc = x, !.next = "discover"]
  <2>1. /\ proc[Main].pc = "seed" /\ phase' \in {"idle", "writing"}
        /\ proc' = [proc EXCEPT ![Main] = l]
        /\ UNCHANGED <<use, target, strategy1, buttons, agreed, synced>>
    BY <1>2 DEF Seed, MaybeSeedFromFactory, Return, BootFrame, manager
  <2>2. x \in {"save", "discover"} /\ (x = "save" <=> phase' = "writing")
    OBVIOUS
  <2>. HIDE DEF x
  <2>3. l \in Locals /\ l.pc = x /\ l.next = "discover"
    BY <1>0, <2>2 DEF Locals, MainPlaces, MainNext
  <2>. HIDE DEF l
  <2>. QED BY <2>1, <2>2, <2>3, BootMoves DEF MainNext
<1>. QED BY <1>1, <1>2

LEMMA DiscoverKeeps ==
  ASSUME BridgeInv, Stored', DiscoverFirst \/ AdoptFound
  PROVE  BridgeInv'
<1>0. proc[Main] \in Locals
  BY ProcsAre DEF BridgeInv, Control, BridgeTypes
<1>1. /\ proc[Main].pc \in {"discover", "adopt"}
      /\ UNCHANGED <<use, target, strategy1, buttons, agreed, synced>>
  BY DEF DiscoverFirst, AdoptFound, BootFrame, manager
<1>2. ~SavingPhase
  <2>1. Control
    BY DEF BridgeInv
  <2>2. \A q \in Procs : proc[q].pc # "save"
    BY <1>1, <2>1, ProcsAre DEF Control, Booting, Listening
  <2>. QED BY <2>1, <2>2 DEF Control, Saver
<1>3. CASE Goto(Main, "manage") /\ UNCHANGED store
  <2>. DEFINE l == [proc[Main] EXCEPT !.pc = "manage"]
  <2>1. "manage" \in MainPlaces
    BY DEF MainPlaces
  <2>2. l \in Locals /\ l.pc = "manage" /\ proc' = [proc EXCEPT ![Main] = l]
    BY <1>3, <2>1, MainGoto
  <2>3. phase' \notin {"writing", "renaming"}
    BY <1>2, <1>3 DEF store, SavingPhase
  <2>. HIDE DEF l
  <2>. QED BY <1>1, <2>2, <2>3, BootMoves
<1>4. ASSUME NEW f \in Usable, phase' = "writing",
             proc' = [proc EXCEPT ![Main].pc = "save", ![Main].next = "adopt",
                                  ![Main].name = f.name]
      PROVE  BridgeInv'
  <2>. DEFINE n == f.name
              l == [proc[Main] EXCEPT !.pc = "save", !.next = "adopt", !.name = n]
  <2>1. n \in SpeakerInputs
    BY BridgeAssumption DEF Usable
  <2>2. proc' = [proc EXCEPT ![Main] = l]
    BY <1>4
  <2>. HIDE DEF n
  <2>3. l \in Locals /\ l.pc = "save" /\ l.next = "adopt"
    BY <1>0, <2>1 DEF Locals, MainPlaces, MainNext
  <2>. HIDE DEF l
  <2>. QED BY <1>1, <1>4, <2>2, <2>3, BootMoves DEF MainNext
<1>5. ASSUME phase' = "writing",
             proc' = [proc EXCEPT ![Main].pc = "save", ![Main].next = "manage"]
      PROVE  BridgeInv'
  <2>. DEFINE l == [proc[Main] EXCEPT !.pc = "save", !.next = "manage"]
  <2>1. proc' = [proc EXCEPT ![Main] = l]
    BY <1>5
  <2>2. l \in Locals /\ l.pc = "save" /\ l.next = "manage"
    BY <1>0 DEF Locals, MainPlaces, MainNext
  <2>. HIDE DEF l
  <2>. QED BY <1>1, <1>5, <2>1, <2>2, BootMoves DEF MainNext
<1>. QED BY <1>3, <1>4, <1>5 DEF DiscoverFirst, AdoptFound, AddSpeaker, SetActive, Update

LEMMA MakeManagerKeeps ==
  ASSUME BridgeInv, Stored', MakeManager
  PROVE  BridgeInv'
<1>1. /\ proc[Main].pc = "manage" /\ phase = "idle"
      /\ UNCHANGED <<cfg, phase, use, strategy1, buttons, synced>>
  BY DEF MakeManager, store
<1>2. CASE cfg.speakers = <<>> /\ Finish(Main) /\ UNCHANGED <<target, agreed>>
  <2>1. Rest(Main) \in Locals /\ Rest(Main).pc = "done" /\ proc' = [proc EXCEPT ![Main] = Rest(Main)]
    BY <1>2, RestIs, ProcsAre DEF Finish
  <2>. QED BY <1>1, <1>2, <2>1, BootMoves
<1>3. CASE /\ cfg.speakers # <<>> /\ target' = cfg.speakers[1].ip
           /\ agreed' = (Active(cfg) = cfg.speakers[1])
           /\ proc' = [proc EXCEPT ![Main] = [Idle EXCEPT !.pc = "probe"]]
  <2>. DEFINE l == [Idle EXCEPT !.pc = "probe"]
  <2>1. l \in Locals /\ l.pc = "probe"
    BY IdleTyped DEF Locals, MainPlaces, Listening
  <2>2. proc' = [proc EXCEPT ![Main] = l]
    BY <1>3
  <2>. HIDE DEF l
  <2>3. /\ Control /\ Main \in Procs /\ proc \in [Procs -> Locals] /\ synced \in BOOLEAN
        /\ agreed' \in BOOLEAN
    BY <1>3, ProcsAre DEF BridgeInv, Control, BridgeTypes
  <2>4. /\ target = Nobody /\ ~strategy1 /\ ~synced
        /\ \A q \in Procs \ {Main} : proc[q].pc = "idle"
    BY <1>1, <2>3, ProcsAre DEF Control, Booting, Strategy, Listening
  <2>5. proc' \in [Procs -> Locals] /\ proc'[Main] = l /\ OthersSame(Main) /\ OthersTold(Main)
    BY <2>1, <2>2, <2>3, <2>4, GoesOn DEF OthersTold, AtRest
  <2>6. target' \in ValidIPs /\ target' # Nobody
    <3>1. cfg.speakers \in Seq(Speaker)
      BY IInvUnfolded, SpeakersOfSound DEF BridgeInv, Stored
    <3>2. cfg.speakers[1] \in Speaker
      BY <1>3, <3>1, EmptySeq, ElementOfSeq, LenProperties
    <3>. QED BY <1>3, <3>2, BridgeAssumption DEF Speaker
  <2>7. Control'
    <3>1. BridgeTypes'
      BY <1>1, <2>3, <2>5, <2>6 DEF Control, BridgeTypes
    <3>2. Placed(Main)'
      BY <2>1, <2>5, ProcsAre DEF Placed, MainPlaces, Listening
    <3>3. SaverStep(Main)
      BY <1>1, <2>1, <2>5 DEF SaverStep, SavingPhase
    <3>4. ManagerStep(Main)
      BY <1>1, <2>1, <2>4, <2>5, <2>6, ProcsAre DEF ManagerStep, Listening
    <3>. QED BY <2>3, <2>5, <3>1, <3>2, <3>3, <3>4, ControlStep
  <2>8. Knows(Main)' /\ Sends(Main)'
    BY <2>1, <2>5 DEF Knows, Sends, At, Syncs
  <2>9. Known' /\ Sending'
    BY <2>3, <2>5, <2>8, KnownStep, SendingStep DEF BridgeInv
  <2>10. Agrees'
    BY <1>1, <1>3, <2>3, <2>5, AgreesStep DEF BridgeInv
  <2>11. Shows'
    BY <1>1, <2>4 DEF Shows
  <2>. QED BY <2>7, <2>9, <2>10, <2>11 DEF BridgeInv
<1>. QED BY <1>2, <1>3 DEF MakeManager

\* Start's probe: clients may be at work meanwhile.
LEMMA ProbeMoves ==
  ASSUME BridgeInv, Stored', proc[Main].pc \in {"probe", "probed"},
         NEW l \in Locals, l.pc \in {"probed", "sync", "done"},
         proc' = [proc EXCEPT ![Main] = l],
         l.pc = "probed" => ~strategy1', strategy1' \in BOOLEAN,
         UNCHANGED <<cfg, phase, use, target, buttons, agreed, synced>>
  PROVE  BridgeInv'
<1>1. /\ Control /\ Main \in Procs /\ proc \in [Procs -> Locals] /\ Keeps
  BY ProcsAre DEF BridgeInv, Control, BridgeTypes, Keeps
<1>2. target # Nobody /\ ~strategy1 /\ ~synced
  BY <1>1 DEF Control, Strategy
<1>3. proc' \in [Procs -> Locals] /\ proc'[Main] = l /\ OthersSame(Main)
  BY <1>1, GoesOn
<1>4. Control'
  <2>1. BridgeTypes'
    BY <1>1, <1>3 DEF Control, BridgeTypes
  <2>2. Placed(Main)'
    BY <1>3, ProcsAre DEF Placed, MainPlaces, Listening
  <2>3. SaverStep(Main)
    BY <1>3 DEF SaverStep, SavingPhase
  <2>4. ManagerStep(Main)
    BY <1>2, <1>3, ProcsAre DEF ManagerStep, Listening
  <2>. QED BY <1>1, <1>3, <2>1, <2>2, <2>3, <2>4, ControlStep
<1>5. Knows(Main)' /\ Sends(Main)' /\ ~Syncs(Main) /\ ~At(Main, "retarget")
  BY <1>3 DEF Knows, Sends, At, Syncs
<1>6. Known' /\ Sending'
  BY <1>1, <1>3, <1>5, KnownStep, SendingStep DEF BridgeInv
<1>7. Agrees'
  BY <1>1, <1>3, <1>5, KeepsActiveSpeaker, AgreesStep DEF BridgeInv
<1>8. Shows'
  BY <1>2 DEF Shows
<1>. QED BY <1>4, <1>6, <1>7, <1>8 DEF BridgeInv

LEMMA ProbeKeeps ==
  ASSUME BridgeInv, Stored', Probe \/ ProbeAnswered
  PROVE  BridgeInv'
<1>0. /\ Control /\ proc[Main] \in Locals /\ target \in ValidIPs \cup {Nobody}
      /\ strategy1 \in BOOLEAN
  BY ProcsAre DEF BridgeInv, Control, BridgeTypes
<1>1. CASE Probe
  <2>. DEFINE l == [proc[Main] EXCEPT !.pc = "probed", !.ip = target]
  <2>1. /\ proc[Main].pc = "probe" /\ proc' = [proc EXCEPT ![Main] = l]
        /\ UNCHANGED <<cfg, phase, use, target, strategy1, buttons, agreed, synced>>
    BY <1>1 DEF Probe, BootFrame, store, manager
  <2>2. l \in Locals /\ l.pc = "probed"
    BY <1>0 DEF Locals, MainPlaces, Listening
  <2>. HIDE DEF l
  <2>3. ~strategy1
    BY <1>0, <2>1 DEF Control, Strategy
  <2>4. strategy1' \in BOOLEAN /\ ~strategy1'
    BY <1>0, <2>1, <2>3
  <2>. QED BY <2>1, <2>2, <2>4, ProbeMoves
<1>2. CASE ProbeAnswered
  <2>0. strategy1' \in BOOLEAN
    <3>1. \/ strategy1' = (proc[Main].ip \in Writable) \/ strategy1' = TRUE
          \/ strategy1' = FALSE
      BY <1>2 DEF ProbeAnswered
    <3>2. (proc[Main].ip \in Writable) \in BOOLEAN
      OBVIOUS
    <3>. QED BY <3>1, <3>2, Zenon
  <2>1. /\ proc[Main].pc = "probed"
        /\ IF strategy1' THEN Goto(Main, "sync") ELSE Finish(Main)
        /\ UNCHANGED <<cfg, phase, use, target, buttons, agreed, synced>>
    BY <1>2 DEF ProbeAnswered
  <2>2. CASE strategy1'
    <3>. DEFINE l == [proc[Main] EXCEPT !.pc = "sync"]
    <3>1. "sync" \in MainPlaces
      BY DEF MainPlaces, Listening
    <3>2. l \in Locals /\ l.pc = "sync" /\ proc' = [proc EXCEPT ![Main] = l]
      BY <2>1, <2>2, <3>1, MainGoto
    <3>. HIDE DEF l
    <3>. QED BY <2>0, <2>1, <3>2, ProbeMoves
  <2>3. CASE ~strategy1'
    <3>1. Rest(Main) \in Locals /\ Rest(Main).pc = "done" /\ proc' = [proc EXCEPT ![Main] = Rest(Main)]
      BY <2>1, <2>3, RestIs, ProcsAre DEF Finish
    <3>. QED BY <2>0, <2>1, <3>1, ProbeMoves
  <2>. QED BY <2>2, <2>3
<1>. QED BY <1>1, <1>2

\* A process that starts, or was killed, has no manager and nobody at work.
LEMMA FreshKeeps ==
  ASSUME BridgeTypes, proc = [p \in Procs |-> IF p = Main THEN [Idle EXCEPT !.pc = "off"] ELSE Idle],
         target = Nobody, ~strategy1, ~agreed, ~synced, phase = "down"
  PROVE  Control /\ Known /\ Sending /\ Agrees /\ Shows
<1>1. \A p \in Procs : proc[p].pc = IF p = Main THEN "off" ELSE "idle"
  BY DEF Idle
<1>2. Control
  <2>1. Places
    BY <1>1, ProcsAre DEF Places, Placed, At, ClientPlaces, MainPlaces
  <2>2. Saver
    BY <1>1 DEF Saver, SavingPhase
  <2>3. proc[Main].pc = "off" /\ \A r \in Clients : proc[r].pc = "idle"
    BY <1>1, ProcsAre
  <2>4. Booting
    BY <2>3 DEF Booting
  <2>5. \A p \in Procs : ~Syncs(p)
    BY <1>1 DEF Syncs
  <2>6. Strategy
    BY <2>3, <2>5 DEF Strategy
  <2>. QED BY <2>1, <2>2, <2>4, <2>6 DEF Control
<1>3. Known /\ Sending
  BY <1>1 DEF Known, Knows, Sending, Sends, At, Syncs
<1>4. Agrees /\ Shows
  BY DEF Agrees, Shows
<1>. QED BY <1>2, <1>3, <1>4

LEMMA FreshTyped ==
  [p \in Procs |-> IF p = Main THEN [Idle EXCEPT !.pc = "off"] ELSE Idle] \in [Procs -> Locals]
<1>1. [Idle EXCEPT !.pc = "off"] \in Locals
  BY IdleTyped DEF Locals, MainPlaces
<1>. QED BY <1>1, IdleTyped

LEMMA KilledKeeps ==
  ASSUME BridgeInv, Stored', Killed
  PROVE  BridgeInv'
<1>1. /\ proc' = [p \in Procs |-> IF p = Main THEN [Idle EXCEPT !.pc = "off"] ELSE Idle]
      /\ target' = Nobody /\ strategy1' = FALSE /\ agreed' = FALSE /\ synced' = FALSE
      /\ phase' = "down" /\ UNCHANGED <<use, buttons>>
  BY DEF Killed, Crash
<1>2. BridgeTypes'
  BY <1>1, FreshTyped DEF BridgeInv, Control, BridgeTypes
<1>3. (BridgeTypes /\ proc = [p \in Procs |-> IF p = Main THEN [Idle EXCEPT !.pc = "off"] ELSE Idle]
        /\ target = Nobody /\ ~strategy1 /\ ~agreed /\ ~synced /\ phase = "down"
       => Control /\ Known /\ Sending /\ Agrees /\ Shows)'
  BY FreshKeeps, PTL
<1>. QED BY <1>1, <1>2, <1>3 DEF BridgeInv

LEMMA StutterKeeps ==
  ASSUME BridgeInv, Stored', UNCHANGED bridge
  PROVE  BridgeInv'
<1>1. UNCHANGED <<cfg, phase, use, target, strategy1, buttons, proc, agreed, synced>>
  BY DEF bridge, store, manager
<1>2. /\ Main \in Procs /\ Keeps /\ OthersSame(Main) /\ Same(Main)
  BY <1>1, ProcsAre DEF Keeps, OthersSame, Same
<1>3. Control'
  BY <1>1 DEF BridgeInv, Control, BridgeTypes, Places, Placed, Saver, SavingPhase, Booting,
              Strategy, Syncs, At
<1>4. Knows(Main)'
  BY <1>2, KnowsSame DEF BridgeInv, Known
<1>5. Known'
  BY <1>2, <1>4, KnownStep DEF BridgeInv
<1>6. Sending'
  <2>1. \A k : Match(k)' <=> Match(k)
    BY <1>1 DEF Match, StationByID
  <2>. QED BY <1>1, <2>1 DEF BridgeInv, Sending, Sends, Syncs, Alone
<1>7. Agrees'
  BY <1>1 DEF BridgeInv, Agrees, At
<1>8. Shows'
  BY <1>1 DEF BridgeInv, Shows, At, Syncs, Match, StationByID, Assigned
<1>. QED BY <1>3, <1>5, <1>6, <1>7, <1>8 DEF BridgeInv

-----------------------------------------------------------------------------
(* The invariants hold, and what follows.                                  *)

LEMMA BridgeStep ==
  ASSUME BridgeInv, [BridgeNext]_bridge
  PROVE  BridgeInv'
<1>1. Stored'
  BY StoredStep DEF BridgeInv, Control, BridgeTypes
<1>2. CASE Boot
  BY <1>1, <1>2, ProcsAre, StepKeeps, LoadSeedKeeps, DiscoverKeeps, MakeManagerKeeps, ProbeKeeps
     DEF Boot
<1>3. CASE Killed
  BY <1>1, <1>3, KilledKeeps
<1>4. ASSUME NEW r \in Clients, Home(r) PROVE BridgeInv'
  BY <1>1, <1>4, HomeRequestKeeps, AddStationKeeps DEF Home
<1>5. ASSUME NEW r \in Clients, Settings(r) PROVE BridgeInv'
  BY <1>1, <1>5, SpeakerRequestKeeps, LookUpKeeps DEF Settings
<1>6. ASSUME NEW r \in Clients, Handle(r) PROVE BridgeInv'
  BY <1>1, <1>6, ProcsAre, StepKeeps, AnswerKeeps, SelectKeeps, RetargetKeeps DEF Handle
<1>7. CASE UNCHANGED bridge
  BY <1>1, <1>7, StutterKeeps
<1>. QED BY <1>2, <1>3, <1>4, <1>5, <1>6, <1>7 DEF BridgeNext

LEMMA BridgeStart ==
  ASSUME BridgeInit
  PROVE  BridgeInv
<1>1. Stored
  <2>1. Init /\ IInv
    BY InitIInv DEF BridgeInit
  <2>2. FilesResolve => SelectionsResolve
    BY <2>1 DEF Init, SelectionsResolve, Resolved, EmptyConfig, FilesResolve
  <2>. QED BY <2>1, <2>2 DEF Stored
<1>2. /\ proc = [p \in Procs |-> IF p = Main THEN [Idle EXCEPT !.pc = "off"] ELSE Idle]
      /\ target = Nobody /\ ~strategy1 /\ ~agreed /\ ~synced /\ phase = "down"
  BY DEF BridgeInit, Init
<1>3. BridgeTypes
  BY <1>2, FreshTyped DEF BridgeInit, BridgeTypes
<1>. QED BY <1>1, <1>2, <1>3, FreshKeeps DEF BridgeInv

LEMMA BridgeInvariance == BridgeSpec => []BridgeInv
<1>1. BridgeInit => BridgeInv
  BY BridgeStart
<1>2. BridgeInv /\ [BridgeNext]_bridge => BridgeInv'
  BY BridgeStep
<1>. QED BY <1>1, <1>2, PTL DEF BridgeSpec

\* Each goroutine of the running bridge is at one of its own statements, and only one is
\* inside a method of the store that saves.
THEOREM BridgeTyped == BridgeSpec => []BridgeTypeOK
<1>1. BridgeInv => BridgeTypeOK
  <2>. SUFFICES ASSUME BridgeInv PROVE BridgeTypeOK
    OBVIOUS
  <2>1. Control /\ TypeOK /\ proc \in [Procs -> Locals]
    BY DEF BridgeInv, Stored, IInv, Control, BridgeTypes
  <2>2. \A p \in Procs : Placed(p)
    BY <2>1 DEF Control, Places
  <2>3. /\ \A r \in Clients : proc[r].pc \in ClientPlaces
        /\ proc[Main].pc \in MainPlaces
    BY <2>2, ProcsAre DEF Placed
  <2>4. \A p \in Procs : proc[p].todo \subseteq Slots
    BY <2>1 DEF Locals
  <2>5. phase \in {"writing", "renaming"} <=> \E p \in Procs : proc[p].pc = "save"
    BY <2>1 DEF Control, Saver, SavingPhase
  <2>6. \A p, q \in Procs : proc[p].pc = "save" /\ proc[q].pc = "save" => p = q
    BY <2>1 DEF Control, Saver
  <2>. QED BY <2>1, <2>3, <2>4, <2>5, <2>6
           DEF BridgeTypeOK, Control, BridgeTypes, ClientPlaces, MainPlaces
<1>. QED BY <1>1, BridgeInvariance, PTL

\* From a start that finds the first speaker selected, or a selection that was answered
\* and overlapped no other change, the speaker shown as active is the one the manager
\* plays on, through all edits of the list and all failed saves.
THEOREM SelectionStaysTarget ==
  ASSUME FilesResolve
  PROVE  BridgeSpec => []SelectionKept
<1>1. BridgeInv => SelectionKept
  BY DEF BridgeInv, Agrees, SelectionKept, SelectionIsTarget, Quiet, AtRest, At
<1>. QED BY <1>1, BridgeInvariance, PTL

\* After a sync that nothing disturbed each preset that names a station is on the target
\* speaker's own button, and stays there but for the requests known not to sync.
THEOREM PresetsAreOnTheSpeaker == BridgeSpec => []PresetsReachSpeaker
<1>1. BridgeInv => PresetsReachSpeaker
  BY DEF BridgeInv, Shows, PresetsReachSpeaker, Quiet, AtRest, At, Syncs, Match
<1>. QED BY <1>1, BridgeInvariance, PTL

\* Unless another change comes between, AddStation answers with the station it added,
\* although it reads the library again after it has let go of the lock.
THEOREM AnswersWhatItAdded == BridgeSpec => AnswersAddedStation
<1>. DEFINE G == \A r \in Clients : AddStationAnswer(r) /\ proc[r].clean =>
                   cfg.stations # <<>> /\ AnsweredStation = proc[r].station
<1>1. ASSUME BridgeInv PROVE G
  <2>1. ASSUME NEW r \in Clients, AddStationAnswer(r), proc[r].clean
        PROVE  cfg.stations # <<>> /\ AnsweredStation = proc[r].station
    <3>1. Knows(r) /\ At(r, "answer")
      BY <1>1, <2>1, ProcsAre DEF BridgeInv, Known, AddStationAnswer, At
    <3>. QED BY <2>1, <3>1 DEF Knows
  <2>. QED BY <2>1
<1>2. BridgeInv /\ [BridgeNext]_bridge => [G]_bridge
  BY <1>1
<1>. QED BY <1>2, BridgeInvariance, PTL DEF BridgeSpec, AnswersAddedStation
=============================================================================
