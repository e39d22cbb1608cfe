------------------------------- MODULE Bridge -------------------------------
(***************************************************************************)
(* The running bridge: main, the HTTP handlers that call both the store    *)
(* and the speaker manager, and the presets the speakers themselves keep.  *)
(*                                                                         *)
(* A handler makes several calls, each of which locks the store or the     *)
(* manager for itself; between them other handlers run. proc says where    *)
(* each goroutine is. The store is ConfigStore with all its steps, so a    *)
(* save may fail and the process be killed anywhere. What SetTarget does   *)
(* inside its lock is SpeakerManager's subject; here it is one step.       *)
(***************************************************************************)
EXTENDS ConfigStore

CONSTANTS
  Clients,          \* browsers, each with one request at a time
  Uses,             \* what each client may be used for: sets of operations
  Main,             \* the goroutine of main, from NewManager on that of Manager.Start
  Nobody,           \* no speaker: mgr is nil
  Writable,         \* speakers that accept presets over HTTP (Strategy 1)
  Found             \* the first speaker discovery may find, or Nobody

Procs == Clients \cup {Main}

ASSUME BridgeAssumption ==
  /\ Main \notin Clients
  /\ Uses \subseteq [Clients -> SUBSET {"stations", "presets", "profiles", "speakers", "select"}]
  /\ Nobody \notin ValidIPs
  /\ Writable \subseteq ValidIPs
  /\ Found \subseteq [name : SpeakerInputs, ip : ValidIPs] \cup {Nobody}

VARIABLES
  use,              \* the operations each client asks for
  target,           \* m.client's address, Nobody without a manager
  strategy1,        \* m.strategy1
  buttons,          \* speaker -> the presets it keeps itself
  proc,             \* goroutine -> its pc and local variables
  agreed,           \* history: see SelectionKept
  synced            \* history: see PresetsReachSpeaker

store   == <<cfg, file, tmp, phase, faults>>
manager == <<target, strategy1>>
bridge  == <<store, use, manager, buttons, proc, agreed, synced>>

\* Locals: where to go on when the save succeeds; the name and address of a request;
\* syncPresets' copy of the presets, the slots it has yet to send, the one it sends;
\* station is also the one AddStation appended.
\* clean says that nothing has come between since the goroutine started.
Idle == [pc |-> "idle", next |-> "idle", name |-> None, ip |-> Nobody,
         seen |-> NoPresets, todo |-> {}, slot |-> Nobody, station |-> Nobody, clean |-> TRUE]
Rest(p) == IF p = Main THEN [Idle EXCEPT !.pc = "done"] ELSE Idle

\* main serves requests from NewManager on, while Start probes and syncs.
Listening == {"probe", "probed", "sync", "slots", "send", "done"}

AtRest(p) == proc[p].pc \in {"idle", "done"}
Quiet     == \A p \in Procs : AtRest(p)

BridgeInit ==
  /\ Init
  /\ use \in Uses
  /\ target = Nobody /\ strategy1 = FALSE
  /\ buttons = [ip \in ValidIPs |-> [k \in Slots |-> Nobody]]
  /\ proc = [p \in Procs |-> IF p = Main THEN [Idle EXCEPT !.pc = "off"] ELSE Idle]
  /\ agreed = FALSE /\ synced = FALSE

Goto(p, pc) == proc' = [proc EXCEPT ![p].pc = pc]
Finish(p)   == proc' = [proc EXCEPT ![p] = Rest(p)]

\* p goes on with local variables l, having changed what others may be relying on.
Interfere(p, l) ==
  proc' = [q \in Procs |-> IF q = p THEN l
                           ELSE [proc[q] EXCEPT !.clean = @ /\ AtRest(q)]]

\* Goroutine p with locals l calls a mutating method of the store: accepted, it saves
\* and goes on at pc next; rejected, its request is answered with an error.
Change(p, l, op, next) ==
  /\ op
  /\ \/ phase' = "writing" /\ Interfere(p, [l EXCEPT !.pc = "save", !.next = next])
     \/ phase' # "writing" /\ Finish(p)

-----------------------------------------------------------------------------
(* save, whichever goroutine called it.                                    *)

WriteStep(p) ==
  /\ proc[p].pc = "save"
  /\ WriteTmp
  /\ UNCHANGED <<use, manager, buttons, proc, agreed, synced>>

RenameStep(p) ==
  /\ proc[p].pc = "save"
  /\ Rename
  /\ IF proc[p].next = "idle" THEN Finish(p) ELSE Goto(p, proc[p].next)
  /\ UNCHANGED <<use, manager, buttons, agreed, synced>>

\* A handler answers 500 and makes none of its further calls; main goes on.
SaveFails(p) ==
  /\ proc[p].pc = "save"
  /\ WriteTmpFails \/ RenameFails
  /\ IF p \in Clients THEN Finish(p)
     ELSE Goto(p, IF proc[p].next = "discover" THEN "discover" ELSE "manage")
  /\ agreed' = (agreed /\ proc[p].next # "retarget")
  /\ synced' = (synced /\ proc[p].next # "sync")
  /\ UNCHANGED <<use, manager, buttons>>

-----------------------------------------------------------------------------
(* syncPresets.                                                            *)

StationByID(id) == {cfg.stations[i] : i \in {j \in DOMAIN cfg.stations : cfg.stations[j].id = id}}
Assigned(presets) == {k \in Slots : presets[k] \notin {None, Absent}}

\* SyncPresets. Called on a nil manager it panics, which ends the request; the
\* strategy is the one Start's probe found.
SyncPresets(p) ==
  /\ proc[p].pc = "sync"
  /\ \/ /\ target = Nobody \/ ~strategy1
        /\ Finish(p)
     \/ /\ target # Nobody /\ strategy1
        /\ phase = "idle"
        /\ proc' = [proc EXCEPT ![p].pc = "slots", ![p].seen = cfg.presets,
                                ![p].todo = Assigned(cfg.presets)]
  /\ UNCHANGED <<store, use, manager, buttons, agreed, synced>>

\* Mutant: a preset whose station is gone is looked up again and again.
NextSlotInsists(p) ==
  /\ proc[p].pc = "slots"
  /\ phase = "idle"
  /\ \E k \in proc[p].todo :
       LET found == StationByID(proc[p].seen[k])
       IN  \/ found = {} /\ UNCHANGED proc
           \/ \E st \in found :
                proc' = [proc EXCEPT ![p].pc = "send", ![p].slot = k, ![p].station = st]
  /\ UNCHANGED <<store, use, manager, buttons, agreed, synced>>

\* The map is walked in any order, each station looked up when its turn comes.
NextSlot(p) ==
  /\ proc[p].pc = "slots"
  /\ phase = "idle"
  /\ \E k \in proc[p].todo :
       LET found == StationByID(proc[p].seen[k])
       IN  \/ /\ found = {}
              /\ proc' = [proc EXCEPT ![p].todo = @ \ {k}]
           \/ \E st \in found :
                proc' = [proc EXCEPT ![p].pc = "send", ![p].slot = k, ![p].station = st]
  /\ UNCHANGED <<store, use, manager, buttons, agreed, synced>>

Sent(p) == [buttons EXCEPT ![target][proc[p].slot] = proc[p].station]

\* SetPreset goes to the m.client of now.
SetPreset(p) ==
  /\ proc[p].pc = "send"
  /\ target \in Writable
  /\ buttons' = Sent(p)
  /\ proc' = [proc EXCEPT ![p].pc = "slots", ![p].todo = @ \ {proc[p].slot},
                          ![p].slot = Nobody, ![p].station = Nobody]
  /\ UNCHANGED <<store, use, manager, agreed, synced>>

\* The error is logged and the next slot tried. The speaker may have stored the preset.
SetPresetFails(p) ==
  /\ proc[p].pc = "send"
  /\ \/ /\ target \notin Writable
        /\ UNCHANGED <<buttons, faults>>
     \/ /\ Fault
        /\ buttons' \in {buttons, Sent(p)}
  /\ proc' = [proc EXCEPT ![p].pc = "slots", ![p].todo = @ \ {proc[p].slot},
                          ![p].slot = Nobody, ![p].station = Nobody, ![p].clean = FALSE]
  /\ UNCHANGED <<cfg, file, tmp, phase, use, manager, agreed, synced>>

EndSync(p) ==
  /\ proc[p].pc = "slots"
  /\ proc[p].todo = {}
  /\ synced' = proc[p].clean
  /\ Interfere(p, Rest(p))
  /\ UNCHANGED <<store, use, manager, buttons, agreed>>

-----------------------------------------------------------------------------
(* The home page's requests.                                               *)

Request(r, op) == proc[r].pc = "idle" /\ op \in use[r] /\ proc[Main].pc \in Listening

HomeFrame == UNCHANGED <<use, manager, buttons, agreed>>

\* The new station may be one a preset has been waiting for: no sync follows.
AddStationHandler(r, name) ==
  /\ Request(r, "stations")
  /\ Change(r, [Idle EXCEPT !.station = NewStation(name)], AddStation(name), "answer")
  /\ synced' = (synced /\ \A k \in Slots : cfg.presets[k] # NewStation(name).id)
  /\ HomeFrame

\* Mutant: the answer is the first station.
FirstStation == cfg.stations[1]

\* The station AddStation answers with: the last of what it then reads. If another
\* request has emptied the library, the index is out of range and the handler panics.
AnsweredStation == cfg.stations[Len(cfg.stations)]

AddStationAnswer(r) ==
  /\ proc[r].pc = "answer"
  /\ phase = "idle"
  /\ Finish(r)
  /\ UNCHANGED <<store, use, manager, buttons, agreed, synced>>

DeleteStationHandler(r, id) ==
  /\ Request(r, "stations")
  /\ Change(r, Idle, DeleteStation(id), "sync")
  /\ UNCHANGED synced /\ HomeFrame

AssignPresetHandler(r, slot, id) ==
  /\ Request(r, "presets")
  /\ Change(r, Idle, AssignPreset(slot, id), "sync")
  /\ UNCHANGED synced /\ HomeFrame

\* Mutant: loading a profile does not sync.
LoadProfileUnsynced(r, name) ==
  /\ Request(r, "profiles")
  /\ Change(r, Idle, LoadProfile(name), "idle")
  /\ UNCHANGED synced /\ HomeFrame

LoadProfileHandler(r, name) ==
  /\ Request(r, "profiles")
  /\ Change(r, Idle, LoadProfile(name), "sync")
  /\ UNCHANGED synced /\ HomeFrame

\* The other requests about profiles change neither what is played nor the manager:
\* ConfigStore has them. Switching the profile replaces the working set and does not sync.
SetActiveProfileHandler(r, name) ==
  /\ Request(r, "profiles")
  /\ Change(r, Idle, SetActiveProfile(name), "idle")
  /\ synced' = (synced /\ Working(cfg') = Working(cfg))
  /\ HomeFrame

-----------------------------------------------------------------------------
(* The settings page's requests.                                           *)

SettingsFrame == UNCHANGED <<use, manager, buttons, agreed, synced>>

AddSpeakerHandler(r, name, ip) ==
  /\ Request(r, "speakers")
  /\ Change(r, Idle, AddSpeaker(name, ip), "idle")
  /\ SettingsFrame

RemoveSpeakerHandler(r, name) ==
  /\ Request(r, "speakers")
  /\ Change(r, Idle, RemoveSpeaker(name), "idle")
  /\ SettingsFrame

RenameSpeakerHandler(r, old, new) ==
  /\ Request(r, "speakers")
  /\ Change(r, Idle, RenameSpeaker(old, new), "idle")
  /\ SettingsFrame

\* SetActiveSpeakerHandler, in three steps: the address is looked up, ...
LookUpSpeaker(r, name) ==
  /\ Request(r, "select")
  /\ phase = "idle"
  /\ Named(cfg.speakers, name) # {}
  /\ proc' = [proc EXCEPT ![r] = [Idle EXCEPT !.pc = "select", !.name = name,
                                    !.ip = cfg.speakers[First(Named(cfg.speakers, name))].ip]]
  /\ UNCHANGED store /\ SettingsFrame

\* ... the name is selected, unless it has gone meanwhile, ...
SelectSpeaker(r) ==
  /\ proc[r].pc = "select"
  /\ \/ Change(r, proc[r], SetActive(proc[r].name), "retarget")
     \/ /\ phase = "idle"
        /\ Named(cfg.speakers, proc[r].name) = {}
        /\ Finish(r)
        /\ UNCHANGED store
  /\ SettingsFrame

\* ... and the manager switched to the address. A nil manager panics.
Retarget(r) ==
  /\ proc[r].pc = "retarget"
  /\ \/ /\ target = Nobody
        /\ Finish(r)
        /\ UNCHANGED <<target, agreed, synced>>
     \/ /\ target # Nobody
        /\ target' = proc[r].ip
        /\ Interfere(r, Idle)
        /\ agreed' = proc[r].clean
        /\ synced' = (synced /\ target' = target)
  /\ UNCHANGED <<store, use, strategy1, buttons>>

-----------------------------------------------------------------------------
(* main and Manager.Start.                                                 *)

BootFrame == UNCHANGED <<use, manager, buttons, agreed, synced>>

LoadConfig ==
  /\ proc[Main].pc = "off"
  /\ NewStore
  /\ Goto(Main, "seed")
  /\ BootFrame

\* A failing seed is logged.
Seed ==
  /\ proc[Main].pc = "seed"
  /\ MaybeSeedFromFactory
  /\ proc' = [proc EXCEPT ![Main].pc = IF phase' = "writing" THEN "save" ELSE "discover",
                          ![Main].next = "discover"]
  /\ BootFrame

\* AddSpeaker refuses an empty name.
Usable == {f \in Found \ {Nobody} : Trim(f.name) # None}

\* With no speaker in the file the first one discovered is added ...
DiscoverFirst ==
  /\ proc[Main].pc = "discover"
  /\ phase = "idle"
  /\ \/ /\ cfg.speakers # <<>> \/ Found \ Usable # {}
        /\ Goto(Main, "manage")
        /\ UNCHANGED store
     \/ \E f \in Usable :
          /\ cfg.speakers = <<>>
          /\ AddSpeaker(f.name, f.ip)
          /\ proc' = [proc EXCEPT ![Main].pc = "save", ![Main].next = "adopt",
                                  ![Main].name = f.name]
  /\ BootFrame

\* ... and selected, under the name as it was found.
AdoptFound ==
  /\ proc[Main].pc = "adopt"
  /\ \/ /\ SetActive(proc[Main].name)
        /\ proc' = [proc EXCEPT ![Main].pc = "save", ![Main].next = "manage"]
     \/ /\ Named(cfg.speakers, proc[Main].name) = {}
        /\ Goto(Main, "manage")
        /\ UNCHANGED store
  /\ BootFrame

\* The manager is made for the first speaker of the list, whichever is selected.
MakeManager ==
  /\ proc[Main].pc = "manage"
  /\ phase = "idle"
  /\ \/ /\ cfg.speakers = <<>>
        /\ Finish(Main)
        /\ UNCHANGED <<target, agreed>>
     \/ /\ cfg.speakers # <<>>
        /\ target' = cfg.speakers[1].ip
        /\ agreed' = (Active(cfg) = cfg.speakers[1])
        /\ proc' = [proc EXCEPT ![Main] = [Idle EXCEPT !.pc = "probe"]]
  /\ UNCHANGED <<store, use, strategy1, buttons, synced>>

\* ProbePresetWrite asks the speaker of now and is answered later.
Probe ==
  /\ proc[Main].pc = "probe"
  /\ proc' = [proc EXCEPT ![Main].pc = "probed", ![Main].ip = target]
  /\ UNCHANGED store /\ BootFrame

\* Any answer but 404 counts as Strategy 1, also a refusal; no answer as none.
ProbeAnswered ==
  /\ proc[Main].pc = "probed"
  /\ \/ strategy1' \in {proc[Main].ip \in Writable, TRUE} /\ UNCHANGED faults
     \/ strategy1' = FALSE /\ Fault
  /\ IF strategy1' THEN Goto(Main, "sync") ELSE Finish(Main)
  /\ UNCHANGED <<cfg, file, tmp, phase, use, target, buttons, agreed, synced>>

\* The process is killed with all its goroutines; the speakers keep their presets.
Killed ==
  /\ Crash
  /\ target' = Nobody /\ strategy1' = FALSE
  /\ agreed' = FALSE /\ synced' = FALSE
  /\ proc' = [p \in Procs |-> IF p = Main THEN [Idle EXCEPT !.pc = "off"] ELSE Idle]
  /\ UNCHANGED <<use, buttons>>

-----------------------------------------------------------------------------
Home(r) ==
  \/ \E name \in StationNames : AddStationHandler(r, name)
  \/ \E id \in PresetInputs \ {None} : DeleteStationHandler(r, id)
  \/ \E slot \in Slots, id \in PresetInputs : AssignPresetHandler(r, slot, id)
  \/ \E name \in ProfileInputs : LoadProfileHandler(r, name) \/ SetActiveProfileHandler(r, name)

Settings(r) ==
  \/ \E name \in SpeakerInputs :
       \/ RemoveSpeakerHandler(r, name)
       \/ LookUpSpeaker(r, name)
       \/ \E ip \in IPInputs : AddSpeakerHandler(r, name, ip)
  \/ \E old, new \in SpeakerInputs : RenameSpeakerHandler(r, old, new)

Step(p) == \/ WriteStep(p) \/ RenameStep(p) \/ SaveFails(p)
           \/ SyncPresets(p) \/ NextSlot(p) \/ SetPreset(p) \/ SetPresetFails(p) \/ EndSync(p)
Handle(r) == Step(r) \/ AddStationAnswer(r) \/ SelectSpeaker(r) \/ Retarget(r)
Boot == \/ LoadConfig \/ Seed \/ DiscoverFirst \/ AdoptFound \/ MakeManager
        \/ Probe \/ ProbeAnswered \/ Step(Main)

BridgeNext == Boot \/ Killed \/ \E r \in Clients : Home(r) \/ Settings(r) \/ Handle(r)

BridgeSpec == BridgeInit /\ [][BridgeNext]_bridge

\* Goroutines are scheduled, the store's lock starves nobody, a killed process is
\* started again, the speaker's HTTP calls time out.
FairBridge ==
  BridgeSpec /\ SF_bridge(Boot) /\ \A r \in Clients : SF_bridge(Handle(r))

-----------------------------------------------------------------------------
(* Properties.                                                             *)

\* The store's types hold here too; each goroutine is at one of its own statements,
\* and only one is inside a method of the store that saves.
BridgeTypeOK ==
  /\ TypeOK
  /\ use \in Uses
  /\ target \in ValidIPs \cup {Nobody} /\ strategy1 \in BOOLEAN
  /\ buttons \in [ValidIPs -> [Slots -> Station \cup {Nobody}]]
  /\ \A r \in Clients : proc[r].pc \in {"idle", "save", "answer", "select", "retarget",
                                        "sync", "slots", "send"}
  /\ proc[Main].pc \in {"off", "seed", "discover", "adopt", "manage", "save"} \cup Listening
  /\ \A p \in Procs : proc[p].todo \subseteq Slots
  /\ \A p, q \in Procs : proc[p].pc = "save" /\ proc[q].pc = "save" => p = q
  /\ phase \in {"writing", "renaming"} <=> \E p \in Procs : proc[p].pc = "save"

SelectionIsTarget ==
  Quiet /\ target # Nobody => target = Active(cfg).ip

\* The active speaker is the manager's target from a start that finds the first speaker
\* selected, or from a selection that was answered with success and overlapped no other
\* change, until the next start or selection: adding, renaming and removing speakers,
\* their failed saves and everything that overlaps with them never part the two.
SelectionKept == agreed => SelectionIsTarget

\* After a sync that overlapped no other change or sync and met no error, every preset that
\* names a station is on the target speaker's own button, and stays so through all
\* later requests, but those that are known not to sync: a profile switch, a speaker
\* switch, a station added under an id that a preset already named, a failed save.
PresetsReachSpeaker ==
  Quiet /\ synced =>
    \A k \in Assigned(cfg.presets) :
      \A st \in StationByID(cfg.presets[k]) : buttons[target][k] = st

\* Unless another change comes between, AddStation answers with the station it added.
AnswersAddedStation ==
  [][\A r \in Clients : AddStationAnswer(r) /\ proc[r].clean =>
       cfg.stations # <<>> /\ AnsweredStation = proc[r].station]_bridge

\* Every request is answered and every start ends with the bridge in service, whatever
\* other requests, failing saves and speakers do.
RequestsEnd == \A p \in Procs : ~AtRest(p) ~> AtRest(p)

\* The documents: the active speaker is "the speaker that playback targets", and stays
\* it across restarts. The code does not do so.
StartTargetsSelection ==
  [][MakeManager /\ target' # Nobody => target' = Active(cfg).ip]_bridge
=============================================================================
