---------------------------- MODULE ConfigStore ----------------------------
(***************************************************************************)
(* config.Store: the configuration in memory behind s.mu, and its file.    *)
(*                                                                         *)
(* Every mutating method holds s.mu from its first check until save has    *)
(* returned, so an operation is one step that changes cfg (or rejects)     *)
(* followed by the two steps of save: write the temporary file, rename it. *)
(* Either may fail, and the process may be killed between any two steps.   *)
(* phase says where the process is:                                        *)
(*   down -> booted (NewStore) -> idle <-> writing -> renaming             *)
(***************************************************************************)
EXTENDS ConfigData

CONSTANTS
  PresetInputs,     \* station ids a client may assign to a slot, "" to clear it
  InitialFiles,     \* what config.yaml may hold before the first start
  NoFile, Torn,     \* a file that is missing; one that was partly written
  MaxFaults         \* bound: I/O errors and kills in one behaviour

VARIABLES
  cfg,              \* s.cfg
  file,             \* s.path on disk
  tmp,              \* s.path + ".tmp" on disk
  phase,
  faults            \* I/O errors and kills so far

vars == <<cfg, file, tmp, phase, faults>>

\* What a file must be for NewStore to return a usable store, whether it was
\* written by the store or by hand.
WellFormed(c) ==
  /\ DistinctIDs(c.stations)
  /\ DistinctNames(c.speakers)
  /\ DistinctNames(c.profiles)
  /\ \A i \in DOMAIN c.profiles : DistinctIDs(c.profiles[i].stations)

ASSUME StoreAssumption ==
  /\ PresetInputs \subseteq IDs \cup {None}
  /\ InitialFiles \subseteq Config \cup {NoFile}
  /\ \A f \in InitialFiles \ {NoFile} : WellFormed(f)
  /\ NoFile \notin Config /\ Torn \notin Config /\ NoFile # Torn
  /\ MaxFaults \in Nat

Init ==
  /\ cfg = EmptyConfig
  /\ file \in InitialFiles
  /\ tmp = NoFile
  /\ phase = "down"
  /\ faults = 0

-----------------------------------------------------------------------------
(* The frame of an operation.                                              *)

\* The operation changes cfg and goes on to save it.
Update(c) ==
  /\ phase = "idle"
  /\ cfg' = c
  /\ phase' = "writing"
  /\ UNCHANGED <<file, tmp, faults>>

\* The operation returns an error; c is what it leaves in memory.
Reject(c) ==
  /\ phase = "idle"
  /\ cfg' = c
  /\ UNCHANGED <<file, tmp, phase, faults>>

Return == phase' = "idle"

Fault == faults < MaxFaults /\ faults' = faults + 1

-----------------------------------------------------------------------------
(* Stations and presets.                                                   *)

\* NewStation is AddStation's append, with the id GenerateID chose.
NewStation(name) == [id |-> GenerateID(name, cfg.stations), name |-> name]

AddStation(name) ==
  /\ Len(cfg.stations) < MaxStations
  /\ Update([cfg EXCEPT !.stations = Append(@, NewStation(name))])

\* Mutant: the deleted station stays on its preset buttons.
KeptPresets(presets, id) == presets

ClearedPresets(presets, id) ==
  [k \in Slots |-> IF presets[k] = id THEN None ELSE presets[k]]

DeleteStation(id) ==
  \E kept \in Filtered(cfg.stations, id) :
    Update([cfg EXCEPT !.stations = kept, !.presets = ClearedPresets(@, id)])

\* Any id is taken: the library is not consulted.
AssignPreset(slot, id) ==
  Update([cfg EXCEPT !.presets = [@ EXCEPT ![slot] = id]])

-----------------------------------------------------------------------------
(* Speakers.                                                               *)

SetActive(name) ==
  /\ Named(cfg.speakers, name) # {}
  /\ Update([cfg EXCEPT !.activeSpeaker = name])

AddSpeaker(name, ip) ==
  /\ Trim(name) # None
  /\ ip \in ValidIPs
  /\ Named(cfg.speakers, Trim(name)) = {}
  /\ Update([cfg EXCEPT !.speakers = Append(@, [name |-> Trim(name), ip |-> ip])])

\* Mutant: the fallback to the first speaker is not protected.
ProtectedSelection(c) == c.activeSpeaker

\* The name RemoveSpeaker refuses: the selection, else the first speaker.
Protected(c) ==
  IF c.activeSpeaker = None /\ c.speakers # <<>>
  THEN c.speakers[1].name ELSE c.activeSpeaker

RemoveSpeaker(name) ==
  /\ name # Protected(cfg)
  /\ Named(cfg.speakers, name) # {}
  /\ Update([cfg EXCEPT !.speakers = Without(@, First(Named(@, name)))])

\* Mutant: the selection keeps the old name.
RenameSpeakerAlone(old, new) ==
  /\ Trim(new) # None
  /\ Named(cfg.speakers, old) # {}
  /\ Trim(new) # old => Named(cfg.speakers, Trim(new)) = {}
  /\ Update([cfg EXCEPT !.speakers[First(Named(cfg.speakers, old))].name = Trim(new)])

RenameSpeaker(old, new) ==
  /\ Trim(new) # None
  /\ Named(cfg.speakers, old) # {}
  /\ Trim(new) # old => Named(cfg.speakers, Trim(new)) = {}
  /\ LET i == First(Named(cfg.speakers, old))
     IN  Update([cfg EXCEPT !.speakers[i].name = Trim(new),
                            !.activeSpeaker = IF @ = old THEN Trim(new) ELSE @])

-----------------------------------------------------------------------------
(* Profiles. Most operations first copy the factory set into memory, and   *)
(* keep that copy when they then fail.                                     *)

Materialized(c) == [c EXCEPT !.profiles = ProfilesOf(c)]

\* c with the working set copied into profile i.
Saved(c, i) ==
  [c EXCEPT !.profiles[i].stations = c.stations, !.profiles[i].presets = c.presets]

\* c with profile i of the list copied into the working set.
Loaded(c, profiles, i) ==
  [c EXCEPT !.stations = profiles[i].stations, !.presets = profiles[i].presets]

\* Mutant: switching saves nothing.
NotAutoSaved(c, name) == c

\* The previous profile takes the working set before the new one replaces it.
AutoSaved(c, name) ==
  LET prev == Named(c.profiles, c.activeProfile)
  IN  IF c.activeProfile \notin {None, name} /\ prev # {}
      THEN Saved(c, First(prev)) ELSE c

\* Mutant: the working set is replaced first and auto-saved afterwards.
LoadThenAutoSave(name) ==
  LET c     == Materialized(cfg)
      found == Named(c.profiles, name)
  IN  \/ found = {} /\ Reject(c)
      \/ /\ found # {}
         /\ Update([AutoSaved(Loaded(c, c.profiles, First(found)), name)
                      EXCEPT !.activeProfile = name])

\* Mutant: the auto-save comes before the lookup that may fail.
AutoSaveThenLookUp(name) ==
  LET c     == Materialized(cfg)
      found == Named(c.profiles, name)
      saved == AutoSaved(c, name)
  IN  \/ found = {} /\ Reject(saved)
      \/ /\ found # {}
         /\ Update([Loaded(saved, saved.profiles, First(found))
                      EXCEPT !.activeProfile = name])

SetActiveProfile(name) ==
  LET c     == Materialized(cfg)
      found == Named(c.profiles, name)
      saved == AutoSaved(c, name)
  IN  \/ /\ found = {}
         /\ Reject(c)
      \/ /\ found # {}
         /\ Update([Loaded(saved, saved.profiles, First(found))
                      EXCEPT !.activeProfile = name])

AddProfile(name) ==
  LET c     == Materialized(cfg)
      empty == [name |-> Trim(name), stations |-> <<>>, presets |-> EmptyPresets]
  IN  /\ Trim(name) # None
      /\ \/ /\ Named(c.profiles, Trim(name)) # {}
            /\ Reject(c)
         \/ /\ Named(c.profiles, Trim(name)) = {}
            /\ Update([c EXCEPT !.profiles = Append(@, empty)])

RenameProfile(old, new) ==
  LET c       == Materialized(cfg)
      refused == \/ Trim(new) # old /\ Named(c.profiles, Trim(new)) # {}
                 \/ Named(c.profiles, old) = {}
  IN  /\ Trim(new) # None
      /\ \/ refused /\ Reject(c)
         \/ /\ ~refused
            /\ LET i == First(Named(c.profiles, old))
               IN  Update([c EXCEPT !.profiles[i].name = Trim(new),
                                    !.activeProfile = IF @ = old THEN Trim(new) ELSE @])

\* Mutant: the fallback to the first profile is not protected.
ProtectedSelectedProfile(c) == c.activeProfile

\* The name RemoveProfile refuses: the selection, else the first profile.
ProtectedProfile(c) ==
  IF c.activeProfile = None THEN c.profiles[1].name ELSE c.activeProfile

RemoveProfile(name) ==
  LET c       == Materialized(cfg)
      refused == \/ Len(c.profiles) <= 1
                 \/ name = ProtectedProfile(c)
                 \/ Named(c.profiles, name) = {}
  IN  \/ refused /\ Reject(c)
      \/ /\ ~refused
         /\ Update([c EXCEPT !.profiles = Without(@, First(Named(@, name)))])

SaveProfile(name) ==
  LET c     == Materialized(cfg)
      found == Named(c.profiles, name)
  IN  \/ found = {} /\ Reject(c)
      \/ found # {} /\ Update(Saved(c, First(found)))

\* The one profile operation that does not copy the factory set first.
LoadProfile(name) ==
  LET profiles == ProfilesOf(cfg)
      found    == Named(profiles, name)
  IN  /\ found # {}
      /\ Update(Loaded(cfg, profiles, First(found)))

-----------------------------------------------------------------------------
(* save, the start and the end of the process.                             *)

\* A failed operation returns its error and leaves cfg as it is.
WriteTmp ==
  /\ phase = "writing"
  /\ tmp' = cfg
  /\ phase' = "renaming"
  /\ UNCHANGED <<cfg, file, faults>>

\* Mutant: the error of os.WriteFile is dropped and the rename goes ahead.
WriteTmpErrorDropped ==
  /\ phase = "writing"
  /\ Fault
  /\ tmp' \in {tmp, Torn}
  /\ phase' = "renaming"
  /\ UNCHANGED <<cfg, file>>

WriteTmpFails ==
  /\ phase = "writing"
  /\ Fault
  /\ tmp' \in {tmp, Torn}
  /\ Return
  /\ UNCHANGED <<cfg, file>>

Rename ==
  /\ phase = "renaming"
  /\ file' = tmp
  /\ tmp' = NoFile
  /\ Return
  /\ UNCHANGED <<cfg, faults>>

RenameFails ==
  /\ phase = "renaming"
  /\ Fault
  /\ Return
  /\ UNCHANGED <<cfg, file, tmp>>

\* The process is killed, the machine is not: what was written and renamed stays. save
\* makes no fsync, so a loss of power could undo more. A write in progress leaves part of
\* the temporary file.
Crash ==
  /\ phase # "down"
  /\ Fault
  /\ phase' = "down"
  /\ tmp' \in IF phase = "writing" THEN {tmp, Torn, cfg} ELSE {tmp}
  /\ cfg' = EmptyConfig
  /\ UNCHANGED file

\* Mutant: a whole temporary file is taken for the newer configuration.
NewStoreFromTmp ==
  /\ phase = "down"
  /\ file # Torn
  /\ cfg' = IF tmp \notin {NoFile, Torn} THEN tmp
            ELSE IF file = NoFile THEN EmptyConfig ELSE file
  /\ phase' = "booted"
  /\ UNCHANGED <<file, tmp, faults>>

\* NewStore: the temporary file is never read, a torn file would end main.
NewStore ==
  /\ phase = "down"
  /\ file # Torn
  /\ cfg' = IF file = NoFile THEN EmptyConfig ELSE file
  /\ phase' = "booted"
  /\ UNCHANGED <<file, tmp, faults>>

\* Mutant: an empty library alone counts as a fresh configuration.
SeedableLibrary(c) == c.stations = <<>>

Seedable(c) == c.stations = <<>> /\ c.presets = NoPresets /\ c.profiles = <<>>

MaybeSeedFromFactory ==
  LET seed == Named(Factory, "PalmaSola")
  IN  /\ phase = "booted"
      /\ \/ /\ Seedable(cfg) /\ seed # {}
            /\ cfg' = Loaded(cfg, Factory, First(seed))
            /\ phase' = "writing"
         \/ /\ ~(Seedable(cfg) /\ seed # {})
            /\ Return
            /\ UNCHANGED cfg
      /\ UNCHANGED <<file, tmp, faults>>

-----------------------------------------------------------------------------
StationOps ==
  \/ \E name \in StationNames : AddStation(name)
  \/ \E id \in IDs \ {None} : DeleteStation(id)
  \/ \E slot \in Slots, id \in PresetInputs : AssignPreset(slot, id)

SpeakerOps ==
  \/ \E name \in SpeakerInputs :
       \/ SetActive(name)
       \/ RemoveSpeaker(name)
       \/ \E ip \in IPInputs : AddSpeaker(name, ip)
  \/ \E old, new \in SpeakerInputs : RenameSpeaker(old, new)

ProfileOps ==
  \/ \E name \in ProfileInputs :
       \/ SetActiveProfile(name)
       \/ AddProfile(name)
       \/ RemoveProfile(name)
       \/ SaveProfile(name)
       \/ LoadProfile(name)
  \/ \E old, new \in ProfileInputs : RenameProfile(old, new)

Saving == WriteTmp \/ Rename
Start  == NewStore \/ MaybeSeedFromFactory
Faulty == WriteTmpFails \/ RenameFails \/ Crash

Next == StationOps \/ SpeakerOps \/ ProfileOps \/ Saving \/ Start \/ Faulty

Spec == Init /\ [][Next]_vars

-----------------------------------------------------------------------------
(* Invariants.                                                             *)

\* Every variable has its type, the file is never torn, and what is renamed
\* onto it is the configuration the running operation made.
TypeOK ==
  /\ cfg \in Config
  /\ file \in Config \cup {NoFile}
  /\ tmp \in Config \cup {NoFile, Torn}
  /\ phase \in {"down", "booted", "idle", "writing", "renaming"}
  /\ phase = "renaming" => tmp = cfg
  /\ faults \in 0 .. MaxFaults

\* No two stations of the library or of one profile share an id, and no two
\* speakers or profiles a name, in memory, on disk and in the file about to be
\* renamed: presets, profiles and the selections are keys into these lists.
KeysUnique ==
  /\ WellFormed(cfg)
  /\ file # NoFile => WellFormed(file)
  /\ tmp \notin {NoFile, Torn} => WellFormed(tmp)

\* Both selections are empty or name a saved entry.
Resolved(c) ==
  /\ c.activeSpeaker # None => Named(c.speakers, c.activeSpeaker) # {}
  /\ c.activeProfile # None => Named(c.profiles, c.activeProfile) # {}

\* Removing or renaming speakers and profiles never leaves active_speaker or
\* active_profile pointing at an entry that is gone, not even in the file a
\* crash left behind. (The files a user wrote must resolve to begin with.)
SelectionsResolve ==
  /\ Resolved(cfg)
  /\ file # NoFile => Resolved(file)
  /\ tmp \notin {NoFile, Torn} => Resolved(tmp)

-----------------------------------------------------------------------------
(* What an operation may do.                                               *)

Accepted == phase = "idle" /\ phase' = "writing"
Rejected == phase = "idle" /\ phase' = "idle"

\* Once there is a speaker there always is, and the one that Active() returns
\* changes only when SetActive selects another: adding, removing and renaming
\* may move the list and the fallback to speakers[0], never the active address.
OnlySelectionMovesActive ==
  [][Accepted /\ cfg.speakers # <<>> =>
       /\ cfg'.speakers # <<>>
       /\ \/ Active(cfg').ip = Active(cfg).ip
          \/ \E name \in SpeakerInputs : SetActive(name)]_vars

\* The profile that ActiveProfile() shows changes only when SetActiveProfile
\* selects another or when that very profile is renamed, and then it is shown
\* under its new name.
OnlySelectionMovesProfile ==
  [][Accepted /\ ActiveProfile(cfg') # ActiveProfile(cfg) =>
       \E name \in ProfileInputs :
         \/ SetActiveProfile(name)
         \/ /\ RenameProfile(ActiveProfile(cfg), name)
            /\ ActiveProfile(cfg') = Trim(name)]_vars

ProfileNamesOf(c) == {ProfilesOf(c)[i].name : i \in DOMAIN ProfilesOf(c)}

\* A saved profile never changes except by becoming a copy of the working set
\* of that moment: no edit, load, rename or removal reaches into a profile.
ProfilesChangeBySaving ==
  [][Accepted => \A n \in ProfileNamesOf(cfg) \cap ProfileNamesOf(cfg') :
       \/ Snapshot(cfg', n) = Snapshot(cfg, n)
       \/ Snapshot(cfg', n) = Working(cfg)]_vars

\* SetActiveProfile keeps the working set of the profile it switches from, and
\* shows exactly what the profile it switches to had saved.
SwitchKeepsEdits ==
  [][\A n \in ProfileInputs :
       SetActiveProfile(n) /\ Accepted /\ cfg.activeProfile \notin {None, n} =>
         /\ Snapshot(cfg', cfg.activeProfile) = Working(cfg)
         /\ Working(cfg') = Snapshot(cfg, n)]_vars

\* A preset that names no station can only come from AssignPreset, which takes
\* any id: deleting a station, or saving, loading and switching profiles, never
\* leaves a new one behind.
OnlyAssignDangles ==
  [][Accepted =>
       \/ Dangling(cfg') \subseteq Dangling(cfg)
       \/ \E slot \in Slots, id \in PresetInputs : AssignPreset(slot, id)]_vars

\* What the read-only methods return of the lists and the selections.
Visible(c) == <<c.speakers, c.activeSpeaker, Working(c), ProfilesOf(c), ActiveProfile(c)>>

\* An operation that returns a validation error changes nothing a client can
\* see, although the profile operations copy the factory set before they fail.
RejectedIsInvisible == [][Rejected => Visible(cfg') = Visible(cfg)]_vars

-----------------------------------------------------------------------------
(* Failures.                                                               *)

\* A start that finds a config.yaml keeps it, although the operations may have
\* emptied the library and the profile list may never have been saved: the
\* seeding rule "only fires on truly fresh configs" (design of 2026-05-31).
StartKeepsFile ==
  [][MaybeSeedFromFactory /\ file # NoFile => cfg' = cfg]_vars

\* The store as its clients know it: one that has not saved its profiles has those
\* of the factory.
Durable == INSTANCE DurableStore WITH
  Values  <- Config,
  Empty   <- Materialized(EmptyConfig),
  Missing <- NoFile,
  memory  <- Materialized(cfg),
  disk    <- IF file = NoFile THEN NoFile ELSE Materialized(file),
  up      <- phase # "down",
  pending <- phase \in {"writing", "renaming"}

\* save and NewStore make every operation all or nothing on disk: through failed
\* writes, kills and left-over temporary files, a start finds what the last operation
\* that succeeded had made, and a rejected operation changes neither disk nor memory.
ImplementsDurable == Durable!Spec

-----------------------------------------------------------------------------
(* What a comment says and the code does not do: it is violated.           *)

\* Switching auto-saves the working set into the previously active profile "so
\* unsaved edits are not lost", for the profile that ActiveProfile() reports.
SwitchKeepsShownEdits ==
  [][\A n \in ProfileInputs :
       SetActiveProfile(n) /\ Accepted /\ ActiveProfile(cfg) # n =>
         Snapshot(cfg', ActiveProfile(cfg)) = Working(cfg)]_vars
=============================================================================
