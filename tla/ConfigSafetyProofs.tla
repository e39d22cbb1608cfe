------------------------- MODULE ConfigSafetyProofs -------------------------
(***************************************************************************)
(* What the store promises beyond well-formed configurations: it is all    *)
(* or nothing on disk, rejected calls are invisible, a file that exists is *)
(* never seeded over, and the selections resolve. All of it rests on IInv  *)
(* of ConfigStoreProofs.                                                   *)
(***************************************************************************)
EXTENDS ConfigStoreProofs

\* A configuration with its profiles made explicit keeps everything else.
LEMMA MaterializedFields ==
  ASSUME NEW c \in Config
  PROVE  /\ Materialized(c) \in [speakers : {c.speakers}, activeSpeaker : {c.activeSpeaker},
                                 stations : {c.stations}, presets : {c.presets},
                                 profiles : {ProfilesOf(c)}, activeProfile : {c.activeProfile}]
         /\ ProfilesOf(c) # <<>>
         /\ ProfilesOf(Materialized(c)) = ProfilesOf(c)
         /\ Materialized(Materialized(c)) = Materialized(c)
<1>1. ProfilesOf(c) # <<>>
  BY FactoryAssumption DEF ProfilesOf
<1>2. Materialized(c) \in [speakers : {c.speakers}, activeSpeaker : {c.activeSpeaker},
                           stations : {c.stations}, presets : {c.presets},
                           profiles : {ProfilesOf(c)}, activeProfile : {c.activeProfile}]
  BY DEF Materialized, Config
<1>. DEFINE m == Materialized(c)
<1>3. m.profiles = ProfilesOf(c)
  BY <1>2
<1>. HIDE DEF m
<1>4. ProfilesOf(m) = ProfilesOf(c)
  BY <1>1, <1>3 DEF ProfilesOf
<1>5. Materialized(m) = m
  <2>1. Materialized(m) = [m EXCEPT !.profiles = m.profiles]
    BY <1>3, <1>4 DEF Materialized
  <2>. QED BY <2>1, <1>2 DEF m
<1>. QED BY <1>1, <1>2, <1>4, <1>5 DEF m

-----------------------------------------------------------------------------
(* What a step may do, seen from the phase.                                *)

Operations == StationOps \/ SpeakerOps \/ ProfileOps

\* An operation that is not accepted leaves memory as it was, but for profiles that
\* were not yet made explicit.
LEMMA RejectLeaves ==
  ASSUME IInv, Operations, phase' # "writing"
  PROVE  cfg' = Materialized(cfg) /\ UNCHANGED <<file, tmp, phase, faults>>
<1>. DEFINE Left == cfg' = Materialized(cfg) /\ UNCHANGED <<file, tmp, phase, faults>>
<1>1. ASSUME StationOps PROVE FALSE
  BY <1>1 DEF StationOps, AddStation, DeleteStation, AssignPreset, Update
<1>2. ASSUME SpeakerOps PROVE FALSE
  BY <1>2 DEF SpeakerOps, SetActive, RemoveSpeaker, AddSpeaker, RenameSpeaker, Update
<1>3. CASE ProfileOps
  <2>1. ASSUME NEW name, SetActiveProfile(name) PROVE Left
    BY <2>1 DEF SetActiveProfile, Update, Reject
  <2>2. ASSUME NEW name, AddProfile(name) PROVE Left
    BY <2>2 DEF AddProfile, Update, Reject
  <2>3. ASSUME NEW name, RemoveProfile(name) PROVE Left
    BY <2>3 DEF RemoveProfile, Update, Reject
  <2>4. ASSUME NEW name, SaveProfile(name) PROVE Left
    BY <2>4 DEF SaveProfile, Update, Reject
  <2>5. ASSUME NEW name, LoadProfile(name) PROVE FALSE
    BY <2>5 DEF LoadProfile, Update
  <2>6. ASSUME NEW old, NEW new, RenameProfile(old, new) PROVE Left
    BY <2>6 DEF RenameProfile, Update, Reject
  <2>. HIDE DEF Left
  <2>. QED BY <1>3, <2>1, <2>2, <2>3, <2>4, <2>5, <2>6 DEF ProfileOps, Left
<1>. QED BY <1>1, <1>2, <1>3 DEF Operations

\* The step in which an operation is accepted or rejected is a step of that operation.
LEMMA OnlyOperations ==
  ASSUME [Next]_vars, phase = "idle", phase' \in {"idle", "writing"}
  PROVE  Operations \/ UNCHANGED vars
BY DEF Next, Operations, Saving, Start, Faulty, WriteTmp, Rename, NewStore,
       MaybeSeedFromFactory, WriteTmpFails, RenameFails, Crash, vars

-----------------------------------------------------------------------------
(* Rejected operations.                                                    *)

LEMMA MaterializedIsInvisible ==
  ASSUME NEW c \in Config
  PROVE  Visible(Materialized(c)) = Visible(c)
<1>. DEFINE m == Materialized(c)
<1>1. /\ m.speakers = c.speakers /\ m.activeSpeaker = c.activeSpeaker
      /\ m.stations = c.stations /\ m.presets = c.presets
      /\ m.activeProfile = c.activeProfile /\ ProfilesOf(m) = ProfilesOf(c)
  BY MaterializedFields
<1>. HIDE DEF m
<1>2. Visible(m) = Visible(c)
  BY <1>1 DEF Visible, Working, ActiveProfile
<1>. QED BY <1>2 DEF m

\* A call that returns a validation error changes nothing a client can see, whatever
\* the profile operations copied into memory before they failed.
THEOREM RejectedCallsInvisible == Spec => RejectedIsInvisible
<1>1. ASSUME IInv, [Next]_vars, Rejected PROVE Visible(cfg') = Visible(cfg)
  <2>1. CASE UNCHANGED vars
    BY <2>1 DEF vars
  <2>2. CASE Operations
    <3>1. cfg' = Materialized(cfg) /\ cfg \in Config
      BY <1>1, <2>2, RejectLeaves DEF Rejected, IInv, TypeOK
    <3>. QED BY <3>1, MaterializedIsInvisible
  <2>. QED BY <1>1, <2>1, <2>2, OnlyOperations DEF Rejected
<1>2. IInv /\ [Next]_vars => [Rejected => Visible(cfg') = Visible(cfg)]_vars
  BY <1>1
<1>. QED BY <1>2, Invariance, PTL DEF Spec, RejectedIsInvisible

-----------------------------------------------------------------------------
(* Refinement of DurableStore.                                             *)

\* What a file stands for, as in the refinement mapping.
OnDisk(f) == IF f = NoFile THEN NoFile ELSE Materialized(f)

AbstractVars == <<Materialized(cfg), OnDisk(file), phase # "down",
                  phase \in {"writing", "renaming"}>>

LEMMA DurableInit == Init => Durable!Init
<1>. SUFFICES ASSUME Init PROVE Durable!Init
  OBVIOUS
<1>1. cfg = EmptyConfig /\ phase = "down" /\ (file = NoFile \/ Sound(file))
  BY StoreAssumption DEF Init, Sound
<1>2. (IF file = NoFile THEN NoFile ELSE Materialized(file)) \in Config \cup {NoFile}
  BY <1>1, MaterializedSound DEF Sound
<1>. QED BY <1>1, <1>2 DEF Durable!Init

LEMMA DurableStep ==
  ASSUME IInv, [Next]_vars
  PROVE  [Durable!Next]_AbstractVars
<1>. DEFINE D == [Durable!Next]_AbstractVars
<1>a. cfg \in Config /\ NoFile \notin Config
  BY StoreAssumption DEF IInv, TypeOK
<1>1. CASE Operations
  <2>1. CASE phase' = "writing"
    <3>1. phase = "idle" /\ file' = file
      BY <1>1, IInvUnfolded, OperationSound DEF Operations
    <3>2. Durable!Operate
      BY <2>1, <3>1 DEF Durable!Operate
    <3>. QED BY <3>2 DEF Durable!Next
  <2>2. CASE phase' # "writing"
    <3>1. cfg' = Materialized(cfg) /\ UNCHANGED <<file, phase>>
      BY <1>1, <2>2, RejectLeaves
    <3>2. Materialized(cfg') = Materialized(cfg)
      BY <1>a, <3>1, MaterializedFields
    <3>. QED BY <3>1, <3>2 DEF AbstractVars, OnDisk
  <2>. QED BY <2>1, <2>2
<1>2. CASE WriteTmp
  BY <1>2 DEF WriteTmp, AbstractVars, OnDisk
<1>3. CASE Rename
  <2>1. phase = "renaming" /\ file' = cfg /\ phase' = "idle" /\ cfg' = cfg
    BY <1>3 DEF Rename, Return, IInv, TypeOK
  <2>2. Durable!Persist
    BY <2>1, <1>a DEF Durable!Persist
  <2>. QED BY <2>2 DEF Durable!Next
<1>4. CASE WriteTmpFails \/ RenameFails
  <2>1. Durable!GiveUp
    BY <1>4 DEF WriteTmpFails, RenameFails, Return, Durable!GiveUp
  <2>. QED BY <2>1 DEF Durable!Next
<1>5. CASE Crash
  <2>1. Durable!Kill
    BY <1>5 DEF Crash, Durable!Kill
  <2>. QED BY <2>1 DEF Durable!Next
<1>6. CASE NewStore
  <2>1. /\ phase = "down" /\ phase' = "booted" /\ file' = file
        /\ cfg' = IF file = NoFile THEN EmptyConfig ELSE file
    BY <1>6 DEF NewStore
  <2>2. file # NoFile => Materialized(file) \in Config
    BY MaterializedSound, IInvUnfolded DEF Sound
  <2>3. Durable!Load
    BY <2>1, <2>2, <1>a DEF Durable!Load
  <2>. QED BY <2>3 DEF Durable!Next
<1>7. CASE MaybeSeedFromFactory
  <2>1. CASE phase' = "writing"
    <3>1. Durable!Operate
      BY <1>7, <2>1 DEF MaybeSeedFromFactory, Durable!Operate
    <3>. QED BY <3>1 DEF Durable!Next
  <2>2. CASE phase' # "writing"
    BY <1>7, <2>2 DEF MaybeSeedFromFactory, Return, AbstractVars, OnDisk
  <2>. QED BY <2>1, <2>2
<1>8. CASE UNCHANGED vars
  BY <1>8 DEF vars, AbstractVars, OnDisk
<1>. QED BY <1>1, <1>2, <1>3, <1>4, <1>5, <1>6, <1>7, <1>8
         DEF Next, Operations, Saving, Start, Faulty

\* config.Store implements DurableStore: through failed writes, kills and left-over
\* temporary files every operation is all or nothing on disk, and a start finds what
\* the last operation that succeeded had made.
THEOREM StoreIsDurable == Spec => ImplementsDurable
<1>1. IInv /\ [Next]_vars => [Durable!Next]_Durable!vars
  BY DurableStep DEF AbstractVars, OnDisk, Durable!vars
<1>. QED BY <1>1, DurableInit, Invariance, PTL DEF Spec, ImplementsDurable, Durable!Spec


-----------------------------------------------------------------------------
(* What the operations on profiles do, field by field.                     *)

\* The operations' starting point: the configuration with its profiles made explicit.
LEMMA Explicit ==
  ASSUME Sound(cfg)
  PROVE  /\ Sound(Materialized(cfg)) /\ Materialized(cfg) \in Config
         /\ Materialized(cfg).speakers = cfg.speakers
         /\ Materialized(cfg).activeSpeaker = cfg.activeSpeaker
         /\ Materialized(cfg).stations = cfg.stations
         /\ Materialized(cfg).presets = cfg.presets
         /\ Materialized(cfg).activeProfile = cfg.activeProfile
         /\ Materialized(cfg).profiles = ProfilesOf(cfg)
         /\ ProfilesOf(cfg) \in Seq(Profile) /\ ProfilesOf(cfg) # <<>>
         /\ DOMAIN ProfilesOf(cfg) = 1 .. Len(ProfilesOf(cfg))
         /\ Len(ProfilesOf(cfg)) \in Nat \ {0}
         /\ DistinctNames(ProfilesOf(cfg))
         /\ cfg.stations \in Seq(Station) /\ cfg.presets \in Presets
<1>1. cfg \in Config /\ cfg.stations \in Seq(Station) /\ cfg.presets \in Presets
  BY DEF Sound, Config
<1>2. /\ Sound(Materialized(cfg)) /\ Materialized(cfg) \in Config
      /\ ProfilesOf(cfg) \in Seq(Profile) /\ DistinctNames(ProfilesOf(cfg))
  BY MaterializedSound, ProfilesOfSound DEF Sound
<1>3. ProfilesOf(cfg) # <<>>
  BY <1>1, MaterializedFields
<1>4. DOMAIN ProfilesOf(cfg) = 1 .. Len(ProfilesOf(cfg)) /\ Len(ProfilesOf(cfg)) \in Nat \ {0}
  BY <1>2, <1>3, EmptySeq, LenProperties
<1>. QED BY <1>1, <1>2, <1>3, <1>4, MaterializedFields

\* Saving the working set into profile i touches nothing else.
LEMMA SavedFields ==
  ASSUME NEW c \in Config, NEW i \in 1 .. Len(c.profiles)
  PROVE  /\ Saved(c, i) \in [speakers : {c.speakers}, activeSpeaker : {c.activeSpeaker},
                             stations : {c.stations}, presets : {c.presets},
                             profiles : Seq(Profile), activeProfile : {c.activeProfile}]
         /\ Len(Saved(c, i).profiles) = Len(c.profiles)
         /\ \A j \in 1 .. Len(c.profiles) :
              /\ Saved(c, i).profiles[j].name = c.profiles[j].name
              /\ Contents(Saved(c, i).profiles[j]) =
                   IF j = i THEN Working(c) ELSE Contents(c.profiles[j])
<1>. DEFINE p == [c.profiles[i] EXCEPT !.stations = c.stations, !.presets = c.presets]
            q == [c.profiles EXCEPT ![i] = p]
<1>1. /\ c.profiles \in Seq(Profile) /\ c.stations \in Seq(Station) /\ c.presets \in Presets
      /\ c.profiles[i] \in Profile /\ DOMAIN c.profiles = 1 .. Len(c.profiles)
  BY ElementOfSeq, LenProperties DEF Config
<1>2. p \in Profile /\ p.name = c.profiles[i].name /\ Contents(p) = Working(c)
  BY <1>1 DEF Profile, Contents, Working
<1>3. Saved(c, i) = [c EXCEPT !.profiles = q]
  BY <1>1 DEF Saved, Config, Profile
<1>. HIDE DEF p
<1>4. q \in Seq(Profile) /\ Len(q) = Len(c.profiles)
      /\ \A j \in 1 .. Len(c.profiles) : q[j] = IF j = i THEN p ELSE c.profiles[j]
  BY <1>1, <1>2, ExceptSeq
<1>. HIDE DEF q
<1>5. /\ Saved(c, i) \in [speakers : {c.speakers}, activeSpeaker : {c.activeSpeaker},
                          stations : {c.stations}, presets : {c.presets},
                          profiles : {q}, activeProfile : {c.activeProfile}]
      /\ Saved(c, i).profiles = q
  BY <1>3 DEF Config
<1>6. \A j \in 1 .. Len(c.profiles) :
        /\ q[j].name = c.profiles[j].name
        /\ Contents(q[j]) = IF j = i THEN Working(c) ELSE Contents(c.profiles[j])
  BY <1>2, <1>4
<1>. QED BY <1>4, <1>5, <1>6

\* The selections and the speaker list after an operation on profiles.
SpeakersKept == cfg'.speakers = cfg.speakers /\ cfg'.activeSpeaker = cfg.activeSpeaker

\* Switching to a profile saves the working set under the selected profile's name, if
\* that is another, and shows the named profile.
LEMMA SwitchEffect ==
  ASSUME Sound(cfg), NEW name, SetActiveProfile(name), phase' = "writing", phase = "idle"
  PROVE  LET ps == ProfilesOf(cfg)
             q  == cfg'.profiles
         IN  /\ SpeakersKept /\ cfg'.activeProfile = name
             /\ Named(ps, name) # {}
             /\ q \in Seq(Profile) /\ Len(q) = Len(ps)
             /\ \A j \in 1 .. Len(ps) :
                  /\ q[j].name = ps[j].name
                  /\ Contents(q[j]) =
                       IF cfg.activeProfile \notin {None, name} /\ ps[j].name = cfg.activeProfile
                       THEN Working(cfg) ELSE Contents(ps[j])
             /\ Working(cfg') = Contents(ps[First(Named(ps, name))])
<1>. DEFINE m     == Materialized(cfg)
            ps    == ProfilesOf(cfg)
            saved == AutoSaved(m, name)
            i     == First(Named(ps, name))
            prev  == Named(ps, cfg.activeProfile)
            Keeps == cfg.activeProfile \notin {None, name} /\ prev # {}
<1>1. /\ m \in Config /\ m.speakers = cfg.speakers /\ m.activeSpeaker = cfg.activeSpeaker
      /\ m.stations = cfg.stations /\ m.presets = cfg.presets
      /\ m.activeProfile = cfg.activeProfile /\ m.profiles = ps
      /\ ps \in Seq(Profile) /\ DOMAIN ps = 1 .. Len(ps) /\ DistinctNames(ps)
  BY Explicit
<1>2. /\ Named(ps, name) # {}
      /\ cfg' = [Loaded(saved, saved.profiles, i) EXCEPT !.activeProfile = name]
  BY <1>1 DEF SetActiveProfile, Update, Reject
<1>3. i \in 1 .. Len(ps) /\ ps[i].name = name
  BY <1>1, <1>2, FirstNamed
<1>. HIDE DEF m, ps, i
<1>4. saved = IF Keeps THEN Saved(m, First(prev)) ELSE m
  BY <1>1 DEF AutoSaved
<1>5. Keeps => First(prev) \in 1 .. Len(ps) /\ ps[First(prev)].name = cfg.activeProfile
  BY <1>1, FirstNamed
<1>6. \A j \in 1 .. Len(ps) : Keeps /\ ps[j].name = cfg.activeProfile => j = First(prev)
  BY <1>1, <1>5 DEF DistinctNames
<1>7. \A j \in 1 .. Len(ps) : ps[j].name = cfg.activeProfile => prev # {}
  BY <1>1 DEF Named
<1>8. Working(m) = Working(cfg)
  BY <1>1 DEF Working
<1>. HIDE DEF saved, prev, Keeps
<1>9. /\ saved \in [speakers : {cfg.speakers}, activeSpeaker : {cfg.activeSpeaker},
                    stations : {cfg.stations}, presets : {cfg.presets},
                    profiles : Seq(Profile), activeProfile : {cfg.activeProfile}]
      /\ Len(saved.profiles) = Len(ps)
      /\ \A j \in 1 .. Len(ps) :
           /\ saved.profiles[j].name = ps[j].name
           /\ Contents(saved.profiles[j]) =
                IF Keeps /\ j = First(prev) THEN Working(cfg) ELSE Contents(ps[j])
  <2>1. CASE Keeps
    BY <1>1, <1>4, <1>5, <1>8, <2>1, SavedFields
  <2>2. CASE ~Keeps
    BY <1>1, <1>4, <2>2 DEF Config
  <2>. QED BY <2>1, <2>2
<1>10. /\ cfg'.speakers = cfg.speakers /\ cfg'.activeSpeaker = cfg.activeSpeaker
       /\ cfg'.activeProfile = name /\ cfg'.profiles = saved.profiles
       /\ cfg'.stations = saved.profiles[i].stations
       /\ cfg'.presets = saved.profiles[i].presets
  BY <1>2, <1>9 DEF Loaded
<1>11. \A j \in 1 .. Len(ps) :
         (Keeps /\ j = First(prev)) <=> /\ cfg.activeProfile \notin {None, name}
                                       /\ ps[j].name = cfg.activeProfile
  BY <1>5, <1>6, <1>7 DEF Keeps
<1>12. Working(cfg') = Contents(ps[i])
  <2>1. ~(Keeps /\ i = First(prev))
    BY <1>3, <1>11
  <2>2. Contents(saved.profiles[i]) = Contents(ps[i])
    BY <1>3, <1>9, <2>1
  <2>. QED BY <1>10, <2>2 DEF Working, Contents
<1>. QED BY <1>2, <1>9, <1>10, <1>11, <1>12 DEF SpeakersKept, ps, i

\* Saving copies the working set into the named profile.
LEMMA SaveEffect ==
  ASSUME Sound(cfg), NEW name, SaveProfile(name), phase' = "writing", phase = "idle"
  PROVE  LET ps == ProfilesOf(cfg)
             q  == cfg'.profiles
         IN  /\ SpeakersKept /\ cfg'.activeProfile = cfg.activeProfile
             /\ Working(cfg') = Working(cfg)
             /\ q \in Seq(Profile) /\ Len(q) = Len(ps)
             /\ \A j \in 1 .. Len(ps) :
                  /\ q[j].name = ps[j].name
                  /\ Contents(q[j]) \in {Working(cfg), Contents(ps[j])}
<1>. DEFINE m  == Materialized(cfg)
            ps == ProfilesOf(cfg)
            i  == First(Named(ps, name))
<1>1. /\ m \in Config /\ m.speakers = cfg.speakers /\ m.activeSpeaker = cfg.activeSpeaker
      /\ m.stations = cfg.stations /\ m.presets = cfg.presets
      /\ m.activeProfile = cfg.activeProfile /\ m.profiles = ps
      /\ ps \in Seq(Profile)
  BY Explicit
<1>2. Named(ps, name) # {} /\ cfg' = Saved(m, i)
  BY <1>1 DEF SaveProfile, Update, Reject
<1>3. i \in 1 .. Len(ps)
  BY <1>1, <1>2, FirstNamed
<1>. HIDE DEF m, ps, i
<1>4. Working(m) = Working(cfg)
  BY <1>1 DEF Working
<1>. QED BY <1>1, <1>2, <1>3, <1>4, SavedFields DEF SpeakersKept, Working, ps

\* The new profile is the last one, and empty.
LEMMA AddEffect ==
  ASSUME Sound(cfg), NEW name \in ProfileInputs, AddProfile(name),
         phase' = "writing", phase = "idle"
  PROVE  LET ps == ProfilesOf(cfg)
             q  == cfg'.profiles
         IN  /\ SpeakersKept /\ cfg'.activeProfile = cfg.activeProfile
             /\ Working(cfg') = Working(cfg)
             /\ Named(ps, Trim(name)) = {}
             /\ q \in Seq(Profile) /\ Len(q) = Len(ps) + 1
             /\ \A j \in 1 .. Len(ps) : q[j] = ps[j]
             /\ q[Len(ps) + 1] = [name |-> Trim(name), stations |-> <<>>, presets |-> EmptyPresets]
<1>. DEFINE m  == Materialized(cfg)
            ps == ProfilesOf(cfg)
            e  == [name |-> Trim(name), stations |-> <<>>, presets |-> EmptyPresets]
<1>1. /\ m \in Config /\ m.speakers = cfg.speakers /\ m.activeSpeaker = cfg.activeSpeaker
      /\ m.stations = cfg.stations /\ m.presets = cfg.presets
      /\ m.activeProfile = cfg.activeProfile /\ m.profiles = ps
      /\ ps \in Seq(Profile)
  BY Explicit
<1>2. /\ Named(ps, Trim(name)) = {} /\ cfg' = [m EXCEPT !.profiles = Append(ps, e)]
  BY <1>1 DEF AddProfile, Update, Reject
<1>3. e \in Profile
  BY DEF AddProfile, Profile, ProfileNames, EmptyPresets, Presets
<1>. HIDE DEF m, ps, e
<1>4. /\ cfg'.speakers = cfg.speakers /\ cfg'.activeSpeaker = cfg.activeSpeaker
      /\ cfg'.stations = cfg.stations /\ cfg'.presets = cfg.presets
      /\ cfg'.activeProfile = cfg.activeProfile /\ cfg'.profiles = Append(ps, e)
  BY <1>1, <1>2 DEF Config
<1>5. /\ Append(ps, e) \in Seq(Profile) /\ Len(Append(ps, e)) = Len(ps) + 1
      /\ \A j \in 1 .. Len(ps) : Append(ps, e)[j] = ps[j]
      /\ Append(ps, e)[Len(ps) + 1] = e
  BY <1>1, <1>3, AppendProperties
<1>. QED BY <1>2, <1>4, <1>5 DEF SpeakersKept, Working, ps, e

\* Renaming changes one name, and the selection with it.
LEMMA RenameEffect ==
  ASSUME Sound(cfg), NEW old, NEW new \in ProfileInputs, RenameProfile(old, new),
         phase' = "writing", phase = "idle"
  PROVE  LET ps == ProfilesOf(cfg)
             q  == cfg'.profiles
             i  == First(Named(ps, old))
         IN  /\ SpeakersKept
             /\ cfg'.activeProfile = IF cfg.activeProfile = old THEN Trim(new)
                                     ELSE cfg.activeProfile
             /\ Working(cfg') = Working(cfg)
             /\ i \in 1 .. Len(ps) /\ ps[i].name = old /\ Trim(new) # None
             /\ Trim(new) # old => Named(ps, Trim(new)) = {}
             /\ q \in Seq(Profile) /\ Len(q) = Len(ps)
             /\ \A j \in 1 .. Len(ps) : j # i => q[j] = ps[j]
             /\ q[i].name = Trim(new) /\ Contents(q[i]) = Contents(ps[i])
<1>. DEFINE m  == Materialized(cfg)
            ps == ProfilesOf(cfg)
            i  == First(Named(ps, old))
            e  == [ps[i] EXCEPT !.name = Trim(new)]
            a  == IF cfg.activeProfile = old THEN Trim(new) ELSE cfg.activeProfile
<1>1. /\ m \in Config /\ m.speakers = cfg.speakers /\ m.activeSpeaker = cfg.activeSpeaker
      /\ m.stations = cfg.stations /\ m.presets = cfg.presets
      /\ m.activeProfile = cfg.activeProfile /\ m.profiles = ps
      /\ ps \in Seq(Profile)
  BY Explicit
<1>2. /\ Trim(new) # None
      /\ Trim(new) # old => Named(ps, Trim(new)) = {}
      /\ Named(ps, old) # {}
      /\ cfg' = [m EXCEPT !.profiles[i].name = Trim(new),
                          !.activeProfile = IF @ = old THEN Trim(new) ELSE @]
  BY <1>1 DEF RenameProfile, Update, Reject
<1>3. i \in 1 .. Len(ps) /\ ps[i].name = old
  BY <1>1, <1>2, FirstNamed
<1>. HIDE DEF m, ps, i
<1>4. ps[i] \in Profile
  BY <1>1, <1>3, ElementOfSeq
<1>5. e \in Profile /\ e.name = Trim(new) /\ Contents(e) = Contents(ps[i])
  BY <1>2, <1>4 DEF Profile, ProfileNames, Contents
<1>6. cfg' = [m EXCEPT !.profiles = [ps EXCEPT ![i] = e], !.activeProfile = a]
  BY <1>1, <1>2 DEF Config
<1>. HIDE DEF e, a
<1>7. /\ cfg'.speakers = cfg.speakers /\ cfg'.activeSpeaker = cfg.activeSpeaker
      /\ cfg'.stations = cfg.stations /\ cfg'.presets = cfg.presets
      /\ cfg'.activeProfile = a /\ cfg'.profiles = [ps EXCEPT ![i] = e]
  BY <1>1, <1>6 DEF Config
<1>8. /\ [ps EXCEPT ![i] = e] \in Seq(Profile) /\ Len([ps EXCEPT ![i] = e]) = Len(ps)
      /\ \A j \in 1 .. Len(ps) : [ps EXCEPT ![i] = e][j] = IF j = i THEN e ELSE ps[j]
  BY <1>1, <1>3, <1>5, ExceptSeq
<1>. QED BY <1>2, <1>3, <1>5, <1>7, <1>8 DEF SpeakersKept, Working, ps, i, a

\* Removing drops one profile, which is not the one that is shown.
LEMMA RemoveEffect ==
  ASSUME Sound(cfg), NEW name, RemoveProfile(name), phase' = "writing", phase = "idle"
  PROVE  LET ps == ProfilesOf(cfg)
             q  == cfg'.profiles
             i  == First(Named(ps, name))
         IN  /\ SpeakersKept /\ cfg'.activeProfile = cfg.activeProfile
             /\ Working(cfg') = Working(cfg)
             /\ i \in 1 .. Len(ps) /\ ps[i].name = name /\ Len(ps) > 1
             /\ name # IF cfg.activeProfile = None THEN ps[1].name ELSE cfg.activeProfile
             /\ q = Without(ps, i)
             /\ q \in Seq(Profile) /\ Len(q) = Len(ps) - 1
             /\ \A j \in 1 .. Len(ps) - 1 : q[j] = ps[IF j < i THEN j ELSE j + 1]
<1>. DEFINE m  == Materialized(cfg)
            ps == ProfilesOf(cfg)
            i  == First(Named(ps, name))
<1>1. /\ m \in Config /\ m.speakers = cfg.speakers /\ m.activeSpeaker = cfg.activeSpeaker
      /\ m.stations = cfg.stations /\ m.presets = cfg.presets
      /\ m.activeProfile = cfg.activeProfile /\ m.profiles = ps
      /\ ps \in Seq(Profile) /\ Len(ps) \in Nat
  BY Explicit
<1>2. /\ Named(ps, name) # {} /\ Len(ps) > 1
      /\ name # IF cfg.activeProfile = None THEN ps[1].name ELSE cfg.activeProfile
      /\ cfg' = [m EXCEPT !.profiles = Without(ps, i)]
  BY <1>1 DEF RemoveProfile, ProtectedProfile, Update, Reject
<1>3. i \in 1 .. Len(ps) /\ ps[i].name = name
  BY <1>1, <1>2, FirstNamed
<1>. HIDE DEF m, ps, i
<1>4. /\ cfg'.speakers = cfg.speakers /\ cfg'.activeSpeaker = cfg.activeSpeaker
      /\ cfg'.stations = cfg.stations /\ cfg'.presets = cfg.presets
      /\ cfg'.activeProfile = cfg.activeProfile /\ cfg'.profiles = Without(ps, i)
  BY <1>1, <1>2 DEF Config
<1>5. /\ Without(ps, i) \in Seq(Profile) /\ Len(Without(ps, i)) = Len(ps) - 1
      /\ \A j \in 1 .. Len(ps) - 1 : Without(ps, i)[j] = ps[IF j < i THEN j ELSE j + 1]
  BY <1>1, <1>3, WithoutElement
<1>. QED BY <1>2, <1>3, <1>4, <1>5 DEF SpeakersKept, Working, ps, i

\* Loading shows a profile and leaves the list as it is.
LEMMA LoadEffect ==
  ASSUME Sound(cfg), NEW name, LoadProfile(name)
  PROVE  LET ps == ProfilesOf(cfg)
             i  == First(Named(ps, name))
         IN  /\ SpeakersKept /\ cfg'.activeProfile = cfg.activeProfile
             /\ cfg'.profiles = cfg.profiles
             /\ i \in 1 .. Len(ps) /\ ps[i].name = name
             /\ Working(cfg') = Contents(ps[i])
<1>. DEFINE ps == ProfilesOf(cfg)
            i  == First(Named(ps, name))
<1>1. Named(ps, name) # {} /\ cfg' = Loaded(cfg, ps, i)
  BY DEF LoadProfile, Update
<1>2. i \in 1 .. Len(ps) /\ ps[i].name = name
  BY <1>1, Explicit, FirstNamed
<1>. HIDE DEF ps, i
<1>3. /\ cfg'.speakers = cfg.speakers /\ cfg'.activeSpeaker = cfg.activeSpeaker
      /\ cfg'.stations = ps[i].stations /\ cfg'.presets = ps[i].presets
      /\ cfg'.activeProfile = cfg.activeProfile /\ cfg'.profiles = cfg.profiles
  BY <1>1 DEF Loaded, Sound, Config
<1>. QED BY <1>2, <1>3 DEF SpeakersKept, Working, Contents, ps, i

\* The operations on stations, and those on speakers, leave the rest alone.
LEMMA StationFrame ==
  ASSUME Sound(cfg), StationOps
  PROVE  SpeakersKept /\ cfg'.profiles = cfg.profiles /\ cfg'.activeProfile = cfg.activeProfile
<1>1. cfg \in Config
  BY DEF Sound
<1>. QED BY <1>1 DEF StationOps, AddStation, DeleteStation, AssignPreset, Update, Config, SpeakersKept

LEMMA SpeakerFrame ==
  ASSUME Sound(cfg), SpeakerOps
  PROVE  /\ Working(cfg') = Working(cfg)
         /\ cfg'.profiles = cfg.profiles /\ cfg'.activeProfile = cfg.activeProfile
<1>1. cfg \in Config
  BY DEF Sound
<1>. QED BY <1>1 DEF SpeakerOps, SetActive, RemoveSpeaker, AddSpeaker, RenameSpeaker, Update,
                     Config, Working

-----------------------------------------------------------------------------
(* The factory seed.                                                       *)

\* A configuration that seeding leaves alone, and that no operation turns into one
\* that seeding would replace.
Kept(c) == c.presets # NoPresets \/ c.profiles # <<>>

\* Loading, without profiles of its own, shows one of the factory's, whose presets have
\* every slot; the other operations leave a list of profiles that is not empty.
LEMMA ProfileOpsKeep ==
  ASSUME Sound(cfg), ProfileOps, phase' = "writing", phase = "idle", Kept(cfg)
  PROVE  Kept(cfg')
<1>. DEFINE ps == ProfilesOf(cfg)
            q  == cfg'.profiles
            K  == Kept(cfg')
<1>1. ps \in Seq(Profile) /\ Len(ps) \in Nat \ {0}
  BY Explicit
<1>2. ASSUME q \in Seq(Profile), Len(q) >= 1 PROVE K
  BY <1>2, EmptySeq DEF Kept
<1>. HIDE DEF ps, q, K
<1>3. ASSUME NEW name, SetActiveProfile(name) PROVE K
  BY <1>1, <1>2, <1>3, SwitchEffect DEF ps, q
<1>4. ASSUME NEW name \in ProfileInputs, AddProfile(name) PROVE K
  <2>1. q \in Seq(Profile) /\ Len(q) = Len(ps) + 1
    BY <1>4, AddEffect DEF ps, q
  <2>. QED BY <1>1, <1>2, <2>1
<1>5. ASSUME NEW name, RemoveProfile(name) PROVE K
  BY <1>1, <1>2, <1>5, RemoveEffect DEF ps, q
<1>6. ASSUME NEW name, SaveProfile(name) PROVE K
  BY <1>1, <1>2, <1>6, SaveEffect DEF ps, q
<1>7. ASSUME NEW old, NEW new \in ProfileInputs, RenameProfile(old, new) PROVE K
  BY <1>1, <1>2, <1>7, RenameEffect DEF ps, q
<1>8. ASSUME NEW name, LoadProfile(name) PROVE K
  <2>1. CASE cfg.profiles # <<>>
    BY <2>1, <1>8, LoadEffect DEF Kept, K
  <2>2. CASE cfg.profiles = <<>>
    <3>1. ps = Factory
      BY <2>2 DEF ProfilesOf, ps
    <3>2. PICK i \in 1 .. Len(Factory) : cfg'.presets = Factory[i].presets
      BY <1>8, <3>1, LoadEffect DEF ps, Working, Contents
    <3>3. \A k \in Slots : cfg'.presets[k] # Absent
      BY <3>2, FactoryAssumption, LenProperties
    <3>. QED BY <3>3, ConstantAssumption DEF Kept, NoPresets, K
  <2>. QED BY <2>1, <2>2
<1>. QED BY <1>3, <1>4, <1>5, <1>6, <1>7, <1>8 DEF ProfileOps, K

LEMMA StationOpsKeep ==
  ASSUME Sound(cfg), StationOps, Kept(cfg)
  PROVE  Kept(cfg')
<1>1. cfg \in Config /\ cfg.presets \in Presets
  BY DEF Sound, Config
<1>2. ASSUME NEW name \in StationNames, AddStation(name) PROVE Kept(cfg')
  BY <1>1, <1>2 DEF AddStation, Update, Kept, Config
<1>3. ASSUME NEW id \in IDs \ {None}, DeleteStation(id) PROVE Kept(cfg')
  <2>1. cfg'.presets = ClearedPresets(cfg.presets, id) /\ cfg'.profiles = cfg.profiles
    BY <1>1, <1>3 DEF DeleteStation, Update, Config
  <2>2. CASE cfg.presets # NoPresets
    <3>1. PICK k \in Slots : cfg.presets[k] # Absent
      BY <2>2, <1>1 DEF NoPresets, Presets
    <3>2. cfg'.presets[k] # Absent
      BY <2>1, <3>1, ConstantAssumption DEF ClearedPresets
    <3>. QED BY <3>2 DEF Kept, NoPresets
  <2>. QED BY <2>1, <2>2 DEF Kept
<1>4. ASSUME NEW slot \in Slots, NEW id \in PresetInputs, AssignPreset(slot, id)
      PROVE  Kept(cfg')
  <2>1. cfg'.presets[slot] = id /\ id # Absent
    BY <1>1, <1>4, StoreAssumption, ConstantAssumption DEF AssignPreset, Update, Config, Presets
  <2>. QED BY <2>1 DEF Kept, NoPresets
<1>. QED BY <1>2, <1>3, <1>4 DEF StationOps

CanSeed == Named(Factory, "PalmaSola") # {}

\* Where there is a set to seed from, only a process that has found no file may have a
\* configuration to seed, and only until it has tried to.
SeedInv ==
  CanSeed => /\ phase \in {"idle", "writing", "renaming"} => Kept(cfg)
             /\ file # NoFile => Kept(file)
             /\ phase = "booted" => cfg = IF file = NoFile THEN EmptyConfig ELSE file

LEMMA SeedStep ==
  ASSUME IInv, SeedInv, [Next]_vars
  PROVE  SeedInv'
<1>. SUFFICES ASSUME CanSeed
              PROVE  /\ phase' \in {"idle", "writing", "renaming"} => Kept(cfg')
                     /\ file' # NoFile => Kept(file')
                     /\ phase' = "booted" => cfg' = IF file' = NoFile THEN EmptyConfig ELSE file'
  BY DEF SeedInv, CanSeed
<1>. DEFINE S == /\ phase' \in {"idle", "writing", "renaming"} => Kept(cfg')
                 /\ file' # NoFile => Kept(file')
                 /\ phase' = "booted" => cfg' = IF file' = NoFile THEN EmptyConfig ELSE file'
<1>0. Sound(cfg) /\ cfg \in Config /\ NoFile \notin Config
  BY IInvUnfolded, StoreAssumption DEF Sound
<1>1. CASE Operations
  <2>1. phase = "idle" /\ file' = file /\ phase' \in {"writing", "idle"}
    BY <1>0, <1>1, OperationSound DEF Operations
  <2>2. CASE phase' = "writing"
    <3>1. CASE StationOps
      BY <1>0, <2>1, <3>1, StationOpsKeep DEF SeedInv
    <3>2. CASE SpeakerOps
      BY <1>0, <2>1, <3>2, SpeakerFrame DEF SeedInv, Working, Kept
    <3>3. CASE ProfileOps
      BY <1>0, <2>1, <2>2, <3>3, ProfileOpsKeep DEF SeedInv
    <3>. QED BY <1>1, <3>1, <3>2, <3>3 DEF Operations
  <2>3. CASE phase' # "writing"
    <3>1. cfg' = Materialized(cfg)
      BY <1>1, <2>3, RejectLeaves
    <3>2. cfg'.profiles # <<>>
      BY <1>0, <3>1, Explicit
    <3>. QED BY <2>1, <2>3, <3>2 DEF SeedInv, Kept
  <2>. QED BY <2>2, <2>3
<1>2. CASE WriteTmp \/ WriteTmpFails \/ RenameFails
  BY <1>2 DEF WriteTmp, WriteTmpFails, RenameFails, Return, SeedInv
<1>3. CASE Rename
  BY <1>3, <1>0 DEF Rename, Return, SeedInv, IInv, TypeOK
<1>4. CASE NewStore \/ Crash
  BY <1>4 DEF NewStore, Crash, SeedInv
<1>5. CASE MaybeSeedFromFactory
  <2>1. CASE Seedable(cfg)
    <3>1. LET i == First(Named(Factory, "PalmaSola"))
          IN  phase = "booted" /\ cfg' = Loaded(cfg, Factory, i) /\ phase' = "writing"
      BY <1>5, <2>1 DEF MaybeSeedFromFactory, CanSeed
    <3>2. file' = file
      BY <1>5 DEF MaybeSeedFromFactory
    <3>3. First(Named(Factory, "PalmaSola")) \in 1 .. Len(Factory)
      BY FactoryAssumption, FirstNamed DEF CanSeed
    <3>4. cfg'.presets = Factory[First(Named(Factory, "PalmaSola"))].presets
      BY <1>0, <3>1 DEF Loaded, Config
    <3>5. \A k \in Slots : cfg'.presets[k] # Absent
      BY <3>3, <3>4, FactoryAssumption, LenProperties
    <3>6. Kept(cfg')
      BY <3>5, ConstantAssumption DEF Kept, NoPresets
    <3>. QED BY <3>1, <3>2, <3>6 DEF SeedInv
  <2>2. CASE ~Seedable(cfg)
    <3>1. phase = "booted" /\ UNCHANGED <<cfg, file>> /\ phase' = "idle"
      BY <1>5, <2>2 DEF MaybeSeedFromFactory, Return
    <3>2. file # NoFile
      BY <2>2, <3>1 DEF SeedInv, Seedable, EmptyConfig
    <3>. QED BY <3>1, <3>2 DEF SeedInv
  <2>. QED BY <2>1, <2>2
<1>6. CASE UNCHANGED vars
  BY <1>6 DEF vars, SeedInv
<1>. QED BY <1>1, <1>2, <1>3, <1>4, <1>5, <1>6 DEF Next, Operations, Saving, Start, Faulty

\* What MaybeSeedFromFactory must not take for fresh: hand-written files have a presets
\* section or profiles.
FilesKept == \A f \in InitialFiles \ {NoFile} : Kept(f)

\* A start that finds a config.yaml keeps what it holds: no sequence of operations,
\* failures and restarts makes a store look fresh again.
THEOREM NeverSeededOver ==
  ASSUME FilesKept
  PROVE  Spec => StartKeepsFile
<1>1. Init => SeedInv
  BY DEF Init, SeedInv, FilesKept
<1>2. IInv /\ SeedInv /\ [Next]_vars => SeedInv'
  BY SeedStep
<1>3. IInv /\ SeedInv /\ [Next]_vars => [MaybeSeedFromFactory /\ file # NoFile => cfg' = cfg]_vars
  <2>. SUFFICES ASSUME SeedInv, MaybeSeedFromFactory, file # NoFile PROVE cfg' = cfg
    OBVIOUS
  <2>1. CASE CanSeed
    <3>1. phase = "booted" /\ Kept(cfg)
      BY <2>1 DEF SeedInv, MaybeSeedFromFactory
    <3>. QED BY <3>1 DEF MaybeSeedFromFactory, Kept, Seedable
  <2>2. CASE ~CanSeed
    BY <2>2 DEF MaybeSeedFromFactory, CanSeed
  <2>. QED BY <2>1, <2>2
<1>. QED BY <1>1, <1>2, <1>3, Invariance, PTL DEF Spec, StartKeepsFile

-----------------------------------------------------------------------------
(* The selections.                                                         *)

LEMMA NamedSomewhere ==
  ASSUME NEW T, NEW seq \in Seq(T), NEW n
  PROVE  Named(seq, n) # {} <=> \E i \in 1 .. Len(seq) : seq[i].name = n
BY LenProperties DEF Named

\* Resolved with the entries named, for the profiles a client sees.
LEMMA ResolvedUnfolded ==
  ASSUME NEW c, Sound(c)
  PROVE  /\ Resolved(c) <=>
              /\ c.activeSpeaker # None =>
                   \E i \in 1 .. Len(c.speakers) : c.speakers[i].name = c.activeSpeaker
              /\ c.activeProfile # None =>
                   \E i \in 1 .. Len(c.profiles) : c.profiles[i].name = c.activeProfile
         /\ Resolved(c) /\ c.activeProfile # None =>
              \E i \in 1 .. Len(ProfilesOf(c)) : ProfilesOf(c)[i].name = c.activeProfile
<1>1. c.speakers \in Seq(Speaker) /\ c.profiles \in Seq(Profile)
  BY DEF Sound, Config
<1>2. Resolved(c) <=>
        /\ c.activeSpeaker # None =>
             \E i \in 1 .. Len(c.speakers) : c.speakers[i].name = c.activeSpeaker
        /\ c.activeProfile # None =>
             \E i \in 1 .. Len(c.profiles) : c.profiles[i].name = c.activeProfile
  BY <1>1, NamedSomewhere DEF Resolved
<1>3. ASSUME c.profiles # <<>> PROVE ProfilesOf(c) = c.profiles
  BY <1>3 DEF ProfilesOf
<1>4. ASSUME NEW i \in 1 .. Len(c.profiles) PROVE c.profiles # <<>>
  BY <1>1
<1>. QED BY <1>2, <1>3, <1>4

\* The operations on profiles keep both selections resolved.
LEMMA ProfileOpsResolve ==
  ASSUME Sound(cfg), Sound(cfg'), ProfileOps, phase' = "writing", phase = "idle", Resolved(cfg)
  PROVE  Resolved(cfg')
<1>. DEFINE ps == ProfilesOf(cfg)
            q  == cfg'.profiles
            a  == cfg.activeProfile
            R  == Resolved(cfg')
<1>1. Len(ps) \in Nat /\ (a # None => \E i \in 1 .. Len(ps) : ps[i].name = a)
  BY Explicit, ResolvedUnfolded
<1>2. ASSUME SpeakersKept,
             cfg'.activeProfile # None => \E i \in 1 .. Len(q) : q[i].name = cfg'.activeProfile
      PROVE  R
  BY <1>2, ResolvedUnfolded DEF SpeakersKept
<1>. HIDE DEF ps, q, a, R
<1>3. ASSUME NEW name, SetActiveProfile(name) PROVE R
  <2>1. /\ SpeakersKept /\ cfg'.activeProfile = name /\ Named(ps, name) # {}
        /\ Len(q) = Len(ps) /\ \A j \in 1 .. Len(ps) : q[j].name = ps[j].name
    BY <1>3, SwitchEffect DEF ps, q
  <2>2. \E i \in 1 .. Len(ps) : ps[i].name = name
    BY <2>1, Explicit, NamedSomewhere DEF ps
  <2>. QED BY <1>2, <2>1, <2>2
<1>4. ASSUME NEW name \in ProfileInputs, AddProfile(name) PROVE R
  <2>1. /\ SpeakersKept /\ cfg'.activeProfile = a
        /\ Len(q) = Len(ps) + 1 /\ \A j \in 1 .. Len(ps) : q[j] = ps[j]
    BY <1>4, AddEffect DEF ps, q, a
  <2>. QED BY <1>1, <1>2, <2>1
<1>5. ASSUME NEW name, RemoveProfile(name) PROVE R
  <2>. DEFINE i == First(Named(ps, name))
  <2>1. /\ SpeakersKept /\ cfg'.activeProfile = a
        /\ i \in 1 .. Len(ps) /\ ps[i].name = name
        /\ a # None => name # a
        /\ Len(q) = Len(ps) - 1
        /\ \A j \in 1 .. Len(ps) - 1 : q[j] = ps[IF j < i THEN j ELSE j + 1]
    BY <1>5, RemoveEffect DEF ps, q, a
  <2>. HIDE DEF i
  <2>2. CASE a = None
    BY <1>2, <2>1, <2>2
  <2>3. CASE a # None
    <3>1. PICK k \in 1 .. Len(ps) : ps[k].name = a
      BY <1>1, <2>3
    <3>2. k # i
      BY <2>1, <2>3, <3>1
    <3>3. \E j \in 1 .. Len(q) : q[j].name = a
      <4>1. CASE k < i
        BY <1>1, <2>1, <3>1, <4>1
      <4>2. CASE k > i
        <5>1. k - 1 \in 1 .. Len(ps) - 1 /\ q[k - 1] = ps[k]
          BY <1>1, <2>1, <3>1, <4>2
        <5>. QED BY <5>1, <2>1, <3>1
      <4>. QED BY <4>1, <4>2, <3>2, <2>1, <1>1
    <3>. QED BY <1>2, <2>1, <3>3
  <2>. QED BY <2>2, <2>3
<1>6. ASSUME NEW name, SaveProfile(name) PROVE R
  <2>1. /\ SpeakersKept /\ cfg'.activeProfile = a
        /\ Len(q) = Len(ps) /\ \A j \in 1 .. Len(ps) : q[j].name = ps[j].name
    BY <1>6, SaveEffect DEF ps, q, a
  <2>. QED BY <1>1, <1>2, <2>1
<1>7. ASSUME NEW old, NEW new \in ProfileInputs, RenameProfile(old, new) PROVE R
  <2>. DEFINE i == First(Named(ps, old))
  <2>1. /\ SpeakersKept
        /\ cfg'.activeProfile = IF a = old THEN Trim(new) ELSE a
        /\ i \in 1 .. Len(ps) /\ ps[i].name = old /\ q[i].name = Trim(new)
        /\ Len(q) = Len(ps) /\ \A j \in 1 .. Len(ps) : j # i => q[j] = ps[j]
    BY <1>7, RenameEffect DEF ps, q, a
  <2>. HIDE DEF i
  <2>2. CASE a = old
    BY <1>2, <2>1, <2>2
  <2>3. CASE a # old
    BY <1>1, <1>2, <2>1, <2>3
  <2>. QED BY <2>2, <2>3
<1>8. ASSUME NEW name, LoadProfile(name) PROVE R
  BY <1>8, LoadEffect, ResolvedUnfolded DEF R, SpeakersKept
<1>. QED BY <1>3, <1>4, <1>5, <1>6, <1>7, <1>8 DEF ProfileOps, R

\* What the operations on speakers do to the list and to the selection.
LEMMA SetActiveEffect ==
  ASSUME Sound(cfg), NEW name, SetActive(name)
  PROVE  /\ cfg'.speakers = cfg.speakers /\ cfg'.activeSpeaker = name
         /\ Named(cfg.speakers, name) # {}
BY SpeakersOfSound DEF SetActive, Update, Config

LEMMA AddSpeakerEffect ==
  ASSUME Sound(cfg), NEW name \in SpeakerInputs, NEW ip, AddSpeaker(name, ip)
  PROVE  LET ss == cfg.speakers
             q  == cfg'.speakers
         IN  /\ cfg'.activeSpeaker = cfg.activeSpeaker
             /\ Len(q) = Len(ss) + 1
             /\ \A j \in 1 .. Len(ss) : q[j] = ss[j]
<1>. DEFINE e == [name |-> Trim(name), ip |-> ip]
<1>1. /\ e \in Speaker /\ cfg.speakers \in Seq(Speaker)
      /\ cfg'.speakers = Append(cfg.speakers, e) /\ cfg'.activeSpeaker = cfg.activeSpeaker
  BY SpeakersOfSound DEF AddSpeaker, Update, Speaker, SpeakerNames, Config
<1>. QED BY <1>1, AppendProperties

LEMMA RemoveSpeakerEffect ==
  ASSUME Sound(cfg), NEW name, RemoveSpeaker(name)
  PROVE  LET ss == cfg.speakers
             q  == cfg'.speakers
             i  == First(Named(ss, name))
         IN  /\ cfg'.activeSpeaker = cfg.activeSpeaker
             /\ i \in 1 .. Len(ss) /\ ss[i].name = name
             /\ name # Protected(cfg)
             /\ Len(q) = Len(ss) - 1
             /\ \A j \in 1 .. Len(ss) - 1 : q[j] = ss[IF j < i THEN j ELSE j + 1]
<1>. DEFINE i == First(Named(cfg.speakers, name))
<1>1. /\ cfg.speakers \in Seq(Speaker) /\ Named(cfg.speakers, name) # {}
      /\ name # Protected(cfg)
      /\ cfg'.speakers = Without(cfg.speakers, i) /\ cfg'.activeSpeaker = cfg.activeSpeaker
  BY SpeakersOfSound DEF RemoveSpeaker, Update, Config
<1>2. i \in 1 .. Len(cfg.speakers) /\ cfg.speakers[i].name = name
  BY <1>1, FirstNamed
<1>. HIDE DEF i
<1>3. /\ Len(Without(cfg.speakers, i)) = Len(cfg.speakers) - 1
      /\ \A j \in 1 .. Len(cfg.speakers) - 1 :
           Without(cfg.speakers, i)[j] = cfg.speakers[IF j < i THEN j ELSE j + 1]
  BY <1>1, <1>2, WithoutElement
<1>. QED BY <1>1, <1>2, <1>3 DEF i

LEMMA RenameSpeakerEffect ==
  ASSUME Sound(cfg), NEW old, NEW new \in SpeakerInputs, RenameSpeaker(old, new)
  PROVE  LET ss == cfg.speakers
             q  == cfg'.speakers
             i  == First(Named(ss, old))
         IN  /\ cfg'.activeSpeaker = IF cfg.activeSpeaker = old THEN Trim(new)
                                     ELSE cfg.activeSpeaker
             /\ i \in 1 .. Len(ss) /\ ss[i].name = old /\ Trim(new) # None
             /\ Trim(new) # old => Named(ss, Trim(new)) = {}
             /\ Len(q) = Len(ss)
             /\ \A j \in 1 .. Len(ss) : j # i => q[j] = ss[j]
             /\ q[i].name = Trim(new) /\ q[i].ip = ss[i].ip
<1>. DEFINE ss == cfg.speakers
            i  == First(Named(ss, old))
            e  == [ss[i] EXCEPT !.name = Trim(new)]
            a  == IF cfg.activeSpeaker = old THEN Trim(new) ELSE cfg.activeSpeaker
<1>1. /\ ss \in Seq(Speaker) /\ Named(ss, old) # {} /\ Trim(new) # None
      /\ Trim(new) # old => Named(ss, Trim(new)) = {}
      /\ cfg'.speakers = [ss EXCEPT ![i] = e] /\ cfg'.activeSpeaker = a
  BY SpeakersOfSound DEF RenameSpeaker, Update, Config
<1>2. i \in 1 .. Len(ss) /\ ss[i].name = old
  BY <1>1, FirstNamed
<1>. HIDE DEF ss, i
<1>3. ss[i] \in Speaker
  BY <1>1, <1>2, ElementOfSeq
<1>4. e \in Speaker /\ e.name = Trim(new) /\ e.ip = ss[i].ip
  BY <1>1, <1>3 DEF Speaker, SpeakerNames
<1>. HIDE DEF e
<1>5. /\ Len([ss EXCEPT ![i] = e]) = Len(ss)
      /\ \A j \in 1 .. Len(ss) : [ss EXCEPT ![i] = e][j] = IF j = i THEN e ELSE ss[j]
  BY <1>1, <1>2, <1>4, ExceptSeq
<1>. QED BY <1>1, <1>2, <1>4, <1>5 DEF ss, i

\* The operations on speakers keep both selections resolved.
LEMMA SpeakerOpsResolve ==
  ASSUME Sound(cfg), Sound(cfg'), SpeakerOps, Resolved(cfg)
  PROVE  Resolved(cfg')
<1>. DEFINE ss == cfg.speakers
            q  == cfg'.speakers
            a  == cfg.activeSpeaker
            R  == Resolved(cfg')
<1>1. /\ ss \in Seq(Speaker) /\ Len(ss) \in Nat
      /\ a # None => \E i \in 1 .. Len(ss) : ss[i].name = a
  BY SpeakersOfSound, ResolvedUnfolded, LenProperties
<1>2. ASSUME cfg'.activeSpeaker # None => \E i \in 1 .. Len(q) : q[i].name = cfg'.activeSpeaker
      PROVE  R
  BY <1>2, ResolvedUnfolded, SpeakerFrame
<1>. HIDE DEF ss, q, a, R
<1>3. ASSUME NEW name, SetActive(name) PROVE R
  <2>1. \E i \in 1 .. Len(ss) : ss[i].name = name
    BY <1>1, <1>3, SetActiveEffect, NamedSomewhere DEF ss
  <2>. QED BY <1>2, <1>3, <2>1, SetActiveEffect DEF ss, q
<1>4. ASSUME NEW name \in SpeakerInputs, NEW ip, AddSpeaker(name, ip) PROVE R
  <2>1. /\ cfg'.activeSpeaker = a
        /\ Len(q) = Len(ss) + 1 /\ \A j \in 1 .. Len(ss) : q[j] = ss[j]
    BY <1>4, AddSpeakerEffect DEF ss, q, a
  <2>. QED BY <1>1, <1>2, <2>1
<1>5. ASSUME NEW name, RemoveSpeaker(name) PROVE R
  <2>. DEFINE i == First(Named(ss, name))
  <2>1. /\ cfg'.activeSpeaker = a
        /\ i \in 1 .. Len(ss) /\ ss[i].name = name
        /\ a # None => name # a
        /\ Len(q) = Len(ss) - 1
        /\ \A j \in 1 .. Len(ss) - 1 : q[j] = ss[IF j < i THEN j ELSE j + 1]
    BY <1>5, RemoveSpeakerEffect DEF Protected, ss, q, a
  <2>. HIDE DEF i
  <2>2. CASE a = None
    BY <1>2, <2>1, <2>2
  <2>3. CASE a # None
    <3>1. PICK k \in 1 .. Len(ss) : ss[k].name = a
      BY <1>1, <2>3
    <3>2. k # i
      BY <2>1, <2>3, <3>1
    <3>3. \E j \in 1 .. Len(q) : q[j].name = a
      <4>1. CASE k < i
        BY <1>1, <2>1, <3>1, <4>1
      <4>2. CASE k > i
        <5>1. k - 1 \in 1 .. Len(ss) - 1 /\ q[k - 1] = ss[k]
          BY <1>1, <2>1, <3>1, <4>2
        <5>. QED BY <5>1, <2>1, <3>1
      <4>. QED BY <4>1, <4>2, <3>2, <2>1, <1>1
    <3>. QED BY <1>2, <2>1, <3>3
  <2>. QED BY <2>2, <2>3
<1>6. ASSUME NEW old, NEW new \in SpeakerInputs, RenameSpeaker(old, new) PROVE R
  <2>. DEFINE i == First(Named(ss, old))
  <2>1. /\ cfg'.activeSpeaker = IF a = old THEN Trim(new) ELSE a
        /\ i \in 1 .. Len(ss) /\ ss[i].name = old /\ q[i].name = Trim(new)
        /\ Len(q) = Len(ss) /\ \A j \in 1 .. Len(ss) : j # i => q[j] = ss[j]
    BY <1>6, RenameSpeakerEffect DEF ss, q, a
  <2>. HIDE DEF i
  <2>2. CASE a = old
    BY <1>2, <2>1, <2>2
  <2>3. CASE a # old
    BY <1>1, <1>2, <2>1, <2>3
  <2>. QED BY <2>2, <2>3
<1>. QED BY <1>3, <1>4, <1>5, <1>6 DEF SpeakerOps, R

LEMMA OperationResolves ==
  ASSUME IInv, Operations, Resolved(cfg)
  PROVE  Resolved(cfg')
<1>1. Sound(cfg) /\ Sound(cfg') /\ cfg \in Config /\ phase = "idle"
  BY IInvUnfolded, OperationSound DEF Operations, Sound
<1>2. CASE phase' = "writing"
  <2>1. CASE StationOps
    BY <1>1, <2>1, StationFrame DEF Resolved, SpeakersKept
  <2>. QED BY <1>1, <1>2, <2>1, SpeakerOpsResolve, ProfileOpsResolve DEF Operations
<1>3. CASE phase' # "writing"
  <2>1. cfg' = Materialized(cfg)
    BY <1>3, RejectLeaves
  <2>2. /\ cfg'.speakers = cfg.speakers /\ cfg'.activeSpeaker = cfg.activeSpeaker
        /\ cfg'.activeProfile = cfg.activeProfile /\ cfg'.profiles = ProfilesOf(cfg)
    BY <1>1, <2>1, Explicit
  <2>. QED BY <1>1, <2>2, ResolvedUnfolded
<1>. QED BY <1>2, <1>3

\* Every step keeps both selections resolved in all three places.
LEMMA ResolveStep ==
  ASSUME IInv, SelectionsResolve, [Next]_vars
  PROVE  SelectionsResolve'
<1>. DEFINE R(c, f, t) == /\ Resolved(c)
                          /\ f # NoFile => Resolved(f)
                          /\ t \notin {NoFile, Torn} => Resolved(t)
<1>0. Resolved(EmptyConfig) /\ R(cfg, file, tmp)
  BY DEF Resolved, EmptyConfig, SelectionsResolve
<1>1. CASE Operations
  <2>1. UNCHANGED <<file, tmp>>
    BY <1>1, IInvUnfolded, OperationSound DEF Operations
  <2>. QED BY <1>0, <1>1, <2>1, OperationResolves DEF SelectionsResolve
<1>2. CASE Saving \/ Faulty
  BY <1>0, <1>2 DEF Saving, Faulty, WriteTmp, Rename, WriteTmpFails, RenameFails, Crash, Return,
                    SelectionsResolve, IInv, TypeOK
<1>3. CASE NewStore
  BY <1>0, <1>3 DEF NewStore, SelectionsResolve
<1>4. CASE MaybeSeedFromFactory
  <2>1. /\ cfg'.speakers = cfg.speakers /\ cfg'.activeSpeaker = cfg.activeSpeaker
        /\ cfg'.profiles = cfg.profiles /\ cfg'.activeProfile = cfg.activeProfile
        /\ UNCHANGED <<file, tmp>>
    BY <1>4 DEF MaybeSeedFromFactory, Loaded, IInv, TypeOK, Config
  <2>. QED BY <1>0, <2>1 DEF SelectionsResolve, Resolved
<1>5. CASE UNCHANGED vars
  BY <1>5 DEF vars, SelectionsResolve
<1>. QED BY <1>1, <1>2, <1>3, <1>4, <1>5 DEF Next, Operations, Start

\* The selections of the files a user wrote name saved entries.
FilesResolve == \A f \in InitialFiles \ {NoFile} : Resolved(f)

\* Neither removing nor renaming, neither a failed write nor a kill leaves a selection
\* that names an entry that is gone, in memory or on disk.
THEOREM SelectionsNeverDangle ==
  ASSUME FilesResolve
  PROVE  Spec => []SelectionsResolve
<1>1. Init => SelectionsResolve
  BY DEF Init, SelectionsResolve, Resolved, EmptyConfig, FilesResolve
<1>2. IInv /\ SelectionsResolve /\ [Next]_vars => SelectionsResolve'
  BY ResolveStep
<1>. QED BY <1>1, <1>2, Invariance, PTL DEF Spec

-----------------------------------------------------------------------------
(* The active speaker.                                                     *)

LEMMA ActiveIs ==
  ASSUME NEW c, Sound(c)
  PROVE  /\ c.activeSpeaker = None => Active(c) = c.speakers[1]
         /\ \A i \in 1 .. Len(c.speakers) :
              c.activeSpeaker # None /\ c.speakers[i].name = c.activeSpeaker =>
                Active(c) = c.speakers[i]
<1>1. /\ c.speakers \in Seq(Speaker) /\ DistinctNames(c.speakers)
      /\ DOMAIN c.speakers = 1 .. Len(c.speakers)
  BY LenProperties DEF Sound, WellFormed, Config
<1>2. ASSUME NEW i \in 1 .. Len(c.speakers),
             c.activeSpeaker # None, c.speakers[i].name = c.activeSpeaker
      PROVE  Active(c) = c.speakers[i]
  <2>. DEFINE chosen == Named(c.speakers, c.activeSpeaker)
  <2>1. chosen # {}
    BY <1>1, <1>2 DEF Named
  <2>2. First(chosen) \in 1 .. Len(c.speakers) /\ c.speakers[First(chosen)].name = c.activeSpeaker
    BY <1>1, <2>1, FirstNamed
  <2>3. First(chosen) = i
    BY <1>1, <1>2, <2>2 DEF DistinctNames
  <2>. QED BY <1>2, <2>1, <2>3 DEF Active
<1>3. c.activeSpeaker = None => Active(c) = c.speakers[1]
  BY DEF Active
<1>. QED BY <1>2, <1>3

\* The operations on profiles do not touch speakers.
LEMMA ProfileOpsKeepSpeakers ==
  ASSUME Sound(cfg), ProfileOps, phase' = "writing", phase = "idle"
  PROVE  SpeakersKept
BY SwitchEffect, AddEffect, RemoveEffect, SaveEffect, LoadEffect, RenameEffect DEF ProfileOps

\* Adding, removing and renaming may move the selected entry and the fallback to the
\* first one, never the address of the active speaker.
LEMMA EditsKeepActive ==
  ASSUME Sound(cfg), Sound(cfg'), Resolved(cfg), cfg.speakers # <<>>,
         \/ \E name \in SpeakerInputs :
              RemoveSpeaker(name) \/ \E ip \in IPInputs : AddSpeaker(name, ip)
         \/ \E old, new \in SpeakerInputs : RenameSpeaker(old, new)
  PROVE  cfg'.speakers # <<>> /\ Active(cfg').ip = Active(cfg).ip
<1>. DEFINE ss == cfg.speakers
            q  == cfg'.speakers
            a  == cfg.activeSpeaker
            b  == cfg'.activeSpeaker
            G  == q # <<>> /\ Active(cfg').ip = Active(cfg).ip
<1>1. /\ ss \in Seq(Speaker) /\ q \in Seq(Speaker)
      /\ Len(ss) \in Nat /\ Len(ss) >= 1 /\ Len(q) \in Nat
      /\ \A i \in 1 .. Len(ss) : ss[i].name # None
      /\ a # None => \E i \in 1 .. Len(ss) : ss[i].name = a
  <2>1. ss \in Seq(Speaker) /\ q \in Seq(Speaker)
    BY DEF Sound, Config
  <2>2. \A i \in 1 .. Len(ss) : ss[i] \in Speaker
    BY <2>1, ElementOfSeq
  <2>. QED BY <2>1, <2>2, ResolvedUnfolded, LenProperties, EmptySeq DEF Speaker, SpeakerNames
<1>2. ASSUME Len(q) >= 1,
             \/ a = None /\ b = None /\ q[1].ip = ss[1].ip
             \/ a # None /\ b # None /\ \E i \in 1 .. Len(ss), j \in 1 .. Len(q) :
                  ss[i].name = a /\ q[j].name = b /\ q[j].ip = ss[i].ip
      PROVE  G
  <2>1. q # <<>>
    BY <1>2
  <2>. QED BY <1>2, <2>1, ActiveIs
<1>. HIDE DEF ss, q, a, b, G
<1>3. ASSUME NEW name \in SpeakerInputs, NEW ip, AddSpeaker(name, ip) PROVE G
  <2>1. b = a /\ Len(q) = Len(ss) + 1 /\ \A j \in 1 .. Len(ss) : q[j] = ss[j]
    BY <1>3, AddSpeakerEffect DEF ss, q, a, b
  <2>2. 1 .. Len(ss) \subseteq 1 .. Len(q) /\ Len(q) >= 1 /\ q[1] = ss[1]
    BY <1>1, <2>1
  <2>. QED BY <1>1, <1>2, <2>1, <2>2
<1>4. ASSUME NEW name, RemoveSpeaker(name) PROVE G
  <2>. DEFINE i == First(Named(ss, name))
  <2>1. /\ b = a /\ i \in 1 .. Len(ss) /\ ss[i].name = name
        /\ name # IF a = None THEN ss[1].name ELSE a
        /\ Len(q) = Len(ss) - 1
        /\ \A j \in 1 .. Len(ss) - 1 : q[j] = ss[IF j < i THEN j ELSE j + 1]
    BY <1>4, RemoveSpeakerEffect DEF Protected, ss, q, a, b
  <2>. HIDE DEF i
  <2>2. CASE a = None
    <3>1. i > 1 /\ Len(ss) >= 2
      BY <1>1, <2>1, <2>2
    <3>2. q[1] = ss[1] /\ Len(q) >= 1
      BY <1>1, <2>1, <3>1
    <3>. QED BY <1>2, <2>1, <2>2, <3>2
  <2>3. CASE a # None
    <3>1. PICK k \in 1 .. Len(ss) : ss[k].name = a
      BY <1>1, <2>3
    <3>2. k # i
      BY <2>1, <2>3, <3>1
    <3>3. \E j \in 1 .. Len(q) : q[j] = ss[k]
      <4>1. CASE k < i
        BY <1>1, <2>1, <3>1, <4>1
      <4>2. CASE k > i
        <5>1. k - 1 \in 1 .. Len(ss) - 1 /\ q[k - 1] = ss[k]
          BY <1>1, <2>1, <3>1, <4>2
        <5>. QED BY <5>1, <2>1, <3>1
      <4>. QED BY <4>1, <4>2, <3>2, <2>1, <1>1
    <3>4. Len(q) >= 1
      BY <1>1, <3>3
    <3>. QED BY <1>2, <2>1, <2>3, <3>1, <3>3, <3>4
  <2>. QED BY <2>2, <2>3
<1>5. ASSUME NEW old, NEW new \in SpeakerInputs, RenameSpeaker(old, new) PROVE G
  <2>. DEFINE i == First(Named(ss, old))
  <2>1. /\ b = IF a = old THEN Trim(new) ELSE a
        /\ i \in 1 .. Len(ss) /\ ss[i].name = old /\ Trim(new) # None
        /\ Len(q) = Len(ss)
        /\ \A j \in 1 .. Len(ss) : j # i => q[j] = ss[j]
        /\ q[i].name = Trim(new) /\ q[i].ip = ss[i].ip
    BY <1>5, RenameSpeakerEffect DEF ss, q, a, b
  <2>. HIDE DEF i
  <2>2. \A j \in 1 .. Len(ss) : q[j].ip = ss[j].ip
    BY <2>1
  <2>3. CASE a = None
    <3>1. b = None /\ q[1].ip = ss[1].ip
      BY <1>1, <2>1, <2>2, <2>3
    <3>. QED BY <1>1, <1>2, <2>1, <2>3, <3>1
  <2>4. CASE a # None
    <3>1. PICK k \in 1 .. Len(ss) : ss[k].name = a
      BY <1>1, <2>4
    <3>2. b # None /\ \E j \in 1 .. Len(q) : q[j].name = b /\ q[j].ip = ss[j].ip /\ ss[j].name = a
      BY <2>1, <2>2, <2>4, <3>1
    <3>. QED BY <1>1, <1>2, <2>1, <2>4, <3>2
  <2>. QED BY <2>3, <2>4
<1>. QED BY <1>3, <1>4, <1>5 DEF G, q

LEMMA SpeakerOpsKeepActive ==
  ASSUME Sound(cfg), Sound(cfg'), SpeakerOps, Resolved(cfg), cfg.speakers # <<>>
  PROVE  /\ cfg'.speakers # <<>>
         /\ \/ Active(cfg').ip = Active(cfg).ip
            \/ \E name \in SpeakerInputs : SetActive(name)
<1>1. ASSUME NEW name, SetActive(name) PROVE cfg'.speakers # <<>>
  BY <1>1, SetActiveEffect
<1>. QED BY <1>1, EditsKeepActive DEF SpeakerOps

\* Once there is a speaker there always is one, and its address changes only when
\* SetActive selects another.
THEOREM OnlySetActiveMoves ==
  ASSUME FilesResolve
  PROVE  Spec => OnlySelectionMovesActive
<1>. DEFINE G == /\ cfg'.speakers # <<>>
                 /\ \/ Active(cfg').ip = Active(cfg).ip
                    \/ \E name \in SpeakerInputs : SetActive(name)
<1>1. ASSUME IInv, SelectionsResolve, [Next]_vars, Accepted, cfg.speakers # <<>> PROVE G
  <2>1. Operations /\ Sound(cfg) /\ Sound(cfg') /\ Resolved(cfg)
    BY <1>1, OnlyOperations, IInvUnfolded, OperationSound
       DEF Accepted, Operations, vars, SelectionsResolve
  <2>2. CASE SpeakersKept
    <3>1. Active(cfg') = Active(cfg)
      BY <2>2 DEF SpeakersKept, Active
    <3>. QED BY <1>1, <2>2, <3>1 DEF SpeakersKept
  <2>3. StationOps \/ ProfileOps => SpeakersKept
    BY <1>1, <2>1, StationFrame, ProfileOpsKeepSpeakers DEF Accepted
  <2>. QED BY <1>1, <2>1, <2>2, <2>3, SpeakerOpsKeepActive DEF Operations
<1>2. IInv /\ SelectionsResolve /\ [Next]_vars => [Accepted /\ cfg.speakers # <<>> => G]_vars
  BY <1>1
<1>. QED BY <1>2, Invariance, SelectionsNeverDangle, PTL DEF Spec, OnlySelectionMovesActive

-----------------------------------------------------------------------------
(* The profiles.                                                           *)

\* A profile's content, and the shown profile, by its place in the list.
LEMMA SnapshotIs ==
  ASSUME NEW c, Sound(c), NEW i \in 1 .. Len(ProfilesOf(c))
  PROVE  Snapshot(c, ProfilesOf(c)[i].name) = Contents(ProfilesOf(c)[i])
<1>. DEFINE ps == ProfilesOf(c)
            n  == ps[i].name
<1>1. ps \in Seq(Profile) /\ DistinctNames(ps) /\ DOMAIN ps = 1 .. Len(ps)
  BY ProfilesOfSound, LenProperties
<1>2. Named(ps, n) # {}
  BY <1>1 DEF Named
<1>3. First(Named(ps, n)) \in 1 .. Len(ps) /\ ps[First(Named(ps, n))].name = n
  BY <1>1, <1>2, FirstNamed
<1>4. First(Named(ps, n)) = i
  BY <1>1, <1>3 DEF DistinctNames
<1>. QED BY <1>4 DEF Snapshot

LEMMA ShownIs ==
  ASSUME NEW c, Sound(c), Resolved(c)
  PROVE  ActiveProfile(c) = IF c.activeProfile = None THEN ProfilesOf(c)[1].name
                            ELSE c.activeProfile
<1>1. ProfilesOf(c) \in Seq(Profile)
  BY ProfilesOfSound
<1>. QED BY <1>1, ResolvedUnfolded, NamedSomewhere DEF ActiveProfile

\* Once it is not empty, the list in memory is the one clients see.
LEMMA ListedIs ==
  ASSUME cfg'.profiles \in Seq(Profile), Len(cfg'.profiles) >= 1
  PROVE  ProfilesOf(cfg') = cfg'.profiles
BY EmptySeq DEF ProfilesOf

\* Where the content of the lists comes from: a profile that keeps its name keeps its
\* content or takes the working set, and any content was the working set's, some
\* profile's, or is blank.
Blank == [stations |-> <<>>, presets |-> EmptyPresets]

Traced(c, d) ==
  LET ps == ProfilesOf(c)
      q  == ProfilesOf(d)
  IN  \A j \in 1 .. Len(q) :
        /\ \A i \in 1 .. Len(ps) : q[j].name = ps[i].name =>
             Contents(q[j]) \in {Contents(ps[i]), Working(c)}
        /\ \/ Contents(q[j]) \in {Blank, Working(c)}
           \/ \E i \in 1 .. Len(ps) : Contents(q[j]) = Contents(ps[i])

\* The lists agree on the names, and each entry is what it was or the working set.
LEMMA TracedInPlace ==
  ASSUME Sound(cfg),
         Len(ProfilesOf(cfg')) = Len(ProfilesOf(cfg)),
         \A j \in 1 .. Len(ProfilesOf(cfg)) :
           /\ ProfilesOf(cfg')[j].name = ProfilesOf(cfg)[j].name
           /\ Contents(ProfilesOf(cfg')[j]) \in {Contents(ProfilesOf(cfg)[j]), Working(cfg)}
  PROVE  Traced(cfg, cfg')
<1>. DEFINE ps == ProfilesOf(cfg)
<1>1. \A i, j \in 1 .. Len(ps) : ps[i].name = ps[j].name => i = j
  BY Explicit DEF DistinctNames
<1>. QED BY <1>1 DEF Traced

LEMMA OperationTraces ==
  ASSUME Sound(cfg), Operations, phase' = "writing", phase = "idle"
  PROVE  Traced(cfg, cfg')
<1>. DEFINE ps == ProfilesOf(cfg)
            l  == cfg'.profiles
            q  == ProfilesOf(cfg')
            T  == Traced(cfg, cfg')
<1>1. /\ ps \in Seq(Profile) /\ Len(ps) \in Nat /\ Len(ps) >= 1
      /\ \A i, j \in 1 .. Len(ps) : ps[i].name = ps[j].name => i = j
  BY Explicit DEF DistinctNames
<1>2. ASSUME l \in Seq(Profile), Len(l) >= 1 PROVE q = l
  BY <1>2, ListedIs
<1>3. ASSUME Len(q) = Len(ps),
             \A j \in 1 .. Len(ps) : /\ q[j].name = ps[j].name
                                     /\ Contents(q[j]) \in {Contents(ps[j]), Working(cfg)}
      PROVE  T
  BY <1>3, TracedInPlace
<1>4. ASSUME q = ps PROVE T
  BY <1>4, <1>3
<1>5. ASSUME l = cfg.profiles PROVE T
  BY <1>5, <1>4 DEF ProfilesOf
<1>6. T <=> \A j \in 1 .. Len(q) :
              /\ \A i \in 1 .. Len(ps) : q[j].name = ps[i].name =>
                   Contents(q[j]) \in {Contents(ps[i]), Working(cfg)}
              /\ \/ Contents(q[j]) \in {Blank, Working(cfg)}
                 \/ \E i \in 1 .. Len(ps) : Contents(q[j]) = Contents(ps[i])
  BY DEF Traced
<1>. HIDE DEF ps, l, q, T
<1>7. CASE StationOps \/ SpeakerOps
  <2>1. cfg'.profiles = cfg.profiles
    BY <1>7, StationFrame, SpeakerFrame
  <2>. QED BY <1>5, <2>1 DEF l, T
<1>8. ASSUME NEW name, SetActiveProfile(name) PROVE T
  <2>1. /\ l \in Seq(Profile) /\ Len(l) = Len(ps)
        /\ \A j \in 1 .. Len(ps) : /\ l[j].name = ps[j].name
                                   /\ Contents(l[j]) \in {Contents(ps[j]), Working(cfg)}
    BY <1>8, SwitchEffect DEF ps, l
  <2>. QED BY <1>1, <1>2, <1>3, <2>1
<1>9. ASSUME NEW name, SaveProfile(name) PROVE T
  <2>1. /\ l \in Seq(Profile) /\ Len(l) = Len(ps)
        /\ \A j \in 1 .. Len(ps) : /\ l[j].name = ps[j].name
                                   /\ Contents(l[j]) \in {Contents(ps[j]), Working(cfg)}
    BY <1>9, SaveEffect DEF ps, l
  <2>. QED BY <1>1, <1>2, <1>3, <2>1
<1>10. ASSUME NEW name, LoadProfile(name) PROVE T
  BY <1>5, <1>10, LoadEffect DEF l
<1>11. ASSUME NEW name \in ProfileInputs, AddProfile(name) PROVE T
  <2>. DEFINE e == [name |-> Trim(name), stations |-> <<>>, presets |-> EmptyPresets]
  <2>1. /\ l \in Seq(Profile) /\ Len(l) = Len(ps) + 1
        /\ \A j \in 1 .. Len(ps) : l[j] = ps[j]
        /\ l[Len(ps) + 1] = e /\ Named(ps, Trim(name)) = {}
    BY <1>11, AddEffect DEF ps, l
  <2>2. e.name = Trim(name) /\ Contents(e) = Blank
    BY DEF Contents, Blank
  <2>3. \A i \in 1 .. Len(ps) : ps[i].name # Trim(name)
    BY <2>1 DEF Named
  <2>. HIDE DEF e
  <2>4. q = l
    BY <1>1, <1>2, <2>1
  <2>. SUFFICES ASSUME NEW j \in 1 .. Len(q)
                PROVE  /\ \A i \in 1 .. Len(ps) : q[j].name = ps[i].name =>
                            Contents(q[j]) \in {Contents(ps[i]), Working(cfg)}
                       /\ \/ Contents(q[j]) \in {Blank, Working(cfg)}
                          \/ \E i \in 1 .. Len(ps) : Contents(q[j]) = Contents(ps[i])
    BY <1>6
  <2>5. CASE j \in 1 .. Len(ps)
    BY <1>1, <2>1, <2>4, <2>5
  <2>6. CASE j = Len(ps) + 1
    BY <2>1, <2>2, <2>3, <2>4, <2>6
  <2>. QED BY <1>1, <2>1, <2>4, <2>5, <2>6
<1>12. ASSUME NEW name, RemoveProfile(name) PROVE T
  <2>. DEFINE i == First(Named(ps, name))
  <2>1. /\ l \in Seq(Profile) /\ Len(l) = Len(ps) - 1 /\ Len(ps) > 1 /\ i \in 1 .. Len(ps)
        /\ \A j \in 1 .. Len(ps) - 1 : l[j] = ps[IF j < i THEN j ELSE j + 1]
    BY <1>12, RemoveEffect DEF ps, l
  <2>. HIDE DEF i
  <2>2. q = l
    BY <1>1, <1>2, <2>1
  <2>3. \A j \in 1 .. Len(q) : \E k \in 1 .. Len(ps) : q[j] = ps[k]
    <3>. SUFFICES ASSUME NEW j \in 1 .. Len(ps) - 1
                  PROVE  \E k \in 1 .. Len(ps) : l[j] = ps[k]
      BY <2>1, <2>2
    <3>1. (IF j < i THEN j ELSE j + 1) \in 1 .. Len(ps)
      BY <1>1, <2>1
    <3>. QED BY <2>1, <3>1
  <2>. QED BY <1>1, <1>6, <2>3
<1>13. ASSUME NEW old, NEW new \in ProfileInputs, RenameProfile(old, new) PROVE T
  <2>. DEFINE i == First(Named(ps, old))
  <2>1. /\ l \in Seq(Profile) /\ Len(l) = Len(ps)
        /\ i \in 1 .. Len(ps) /\ ps[i].name = old
        /\ Trim(new) # old => Named(ps, Trim(new)) = {}
        /\ \A j \in 1 .. Len(ps) : j # i => l[j] = ps[j]
        /\ l[i].name = Trim(new) /\ Contents(l[i]) = Contents(ps[i])
    BY <1>13, RenameEffect DEF ps, l
  <2>. HIDE DEF i
  <2>2. q = l
    BY <1>1, <1>2, <2>1
  <2>3. \A k \in 1 .. Len(ps) : ps[k].name = Trim(new) => k = i
    BY <1>1, <2>1, NamedSomewhere
  <2>4. \A j \in 1 .. Len(q) : Contents(q[j]) = Contents(ps[j])
    BY <2>1, <2>2
  <2>5. \A j, k \in 1 .. Len(ps) : q[j].name = ps[k].name => j = k
    BY <1>1, <2>1, <2>2, <2>3
  <2>. QED BY <1>6, <2>1, <2>2, <2>4, <2>5
<1>. QED BY <1>7, <1>8, <1>9, <1>10, <1>11, <1>12, <1>13 DEF Operations, ProfileOps, T

\* A saved profile only ever becomes a copy of the working set of that moment.
THEOREM OnlySavingChangesProfiles == Spec => ProfilesChangeBySaving
<1>. DEFINE G == \A n \in ProfileNamesOf(cfg) \cap ProfileNamesOf(cfg') :
                   \/ Snapshot(cfg', n) = Snapshot(cfg, n)
                   \/ Snapshot(cfg', n) = Working(cfg)
<1>1. ASSUME IInv, [Next]_vars, Accepted PROVE G
  <2>1. Operations /\ Sound(cfg) /\ Sound(cfg')
    BY <1>1, OnlyOperations, IInvUnfolded, OperationSound DEF Accepted, Operations, vars
  <2>2. Traced(cfg, cfg')
    BY <1>1, <2>1, OperationTraces DEF Accepted
  <2>. SUFFICES ASSUME NEW n \in ProfileNamesOf(cfg) \cap ProfileNamesOf(cfg')
                PROVE  Snapshot(cfg', n) \in {Snapshot(cfg, n), Working(cfg)}
    BY Zenon
  <2>3. /\ DOMAIN ProfilesOf(cfg) = 1 .. Len(ProfilesOf(cfg))
        /\ DOMAIN ProfilesOf(cfg') = 1 .. Len(ProfilesOf(cfg'))
    BY <2>1, ProfilesOfSound, LenProperties
  <2>4. PICK i \in 1 .. Len(ProfilesOf(cfg)), j \in 1 .. Len(ProfilesOf(cfg')) :
          ProfilesOf(cfg)[i].name = n /\ ProfilesOf(cfg')[j].name = n
    BY <2>3 DEF ProfileNamesOf
  <2>5. Snapshot(cfg, n) = Contents(ProfilesOf(cfg)[i])
    BY <2>1, <2>4, SnapshotIs
  <2>6. Snapshot(cfg', n) = Contents(ProfilesOf(cfg')[j])
    BY <2>1, <2>4, SnapshotIs
  <2>. QED BY <2>2, <2>4, <2>5, <2>6 DEF Traced
<1>2. IInv /\ [Next]_vars => [Accepted => G]_vars
  BY <1>1
<1>. QED BY <1>2, Invariance, PTL DEF Spec, ProfilesChangeBySaving

\* Switching profiles loses no edit and shows what was saved.
THEOREM SwitchingSaves ==
  ASSUME FilesResolve
  PROVE  Spec => SwitchKeepsEdits
<1>. DEFINE G(n) == SetActiveProfile(n) /\ Accepted /\ cfg.activeProfile \notin {None, n} =>
                      /\ Snapshot(cfg', cfg.activeProfile) = Working(cfg)
                      /\ Working(cfg') = Snapshot(cfg, n)
<1>1. ASSUME IInv, SelectionsResolve, NEW n \in ProfileInputs, SetActiveProfile(n), Accepted,
             cfg.activeProfile \notin {None, n}
      PROVE  /\ Snapshot(cfg', cfg.activeProfile) = Working(cfg)
             /\ Working(cfg') = Snapshot(cfg, n)
  <2>. DEFINE ps == ProfilesOf(cfg)
              q  == cfg'.profiles
              a  == cfg.activeProfile
  <2>1. Sound(cfg) /\ Resolved(cfg) /\ Sound(cfg')
    BY <1>1, IInvUnfolded, SetActiveProfileSound DEF SelectionsResolve
  <2>2. /\ q \in Seq(Profile) /\ Len(q) = Len(ps)
        /\ \A j \in 1 .. Len(ps) :
             /\ q[j].name = ps[j].name
             /\ ps[j].name = a => Contents(q[j]) = Working(cfg)
        /\ Working(cfg') = Contents(ps[First(Named(ps, n))])
    BY <1>1, <2>1, SwitchEffect DEF Accepted
  <2>3. PICK k \in 1 .. Len(ps) : ps[k].name = a
    BY <1>1, <2>1, ResolvedUnfolded
  <2>4. ProfilesOf(cfg') = q
    BY <2>1, <2>2, <2>3, Explicit, ListedIs
  <2>5. Snapshot(cfg', a) = Contents(q[k])
    BY <2>1, <2>2, <2>3, <2>4, SnapshotIs
  <2>. QED BY <2>2, <2>3, <2>5 DEF Snapshot
<1>2. IInv /\ SelectionsResolve /\ [Next]_vars => [\A n \in ProfileInputs : G(n)]_vars
  BY <1>1
<1>. QED BY <1>2, Invariance, SelectionsNeverDangle, PTL DEF Spec, SwitchKeepsEdits

\* What profile a client sees changes by selecting another, or by renaming that one.
LEMMA OperationShows ==
  ASSUME Sound(cfg), Sound(cfg'), Operations, phase' = "writing", phase = "idle",
         Resolved(cfg), Resolved(cfg'), ActiveProfile(cfg') # ActiveProfile(cfg)
  PROVE  \E name \in ProfileInputs :
           \/ SetActiveProfile(name)
           \/ /\ RenameProfile(ActiveProfile(cfg), name)
              /\ ActiveProfile(cfg') = Trim(name)
<1>. DEFINE ps == ProfilesOf(cfg)
            l  == cfg'.profiles
            a  == cfg.activeProfile
            b  == cfg'.activeProfile
            A  == ActiveProfile(cfg)
            B  == ActiveProfile(cfg')
<1>1. /\ ps \in Seq(Profile) /\ Len(ps) \in Nat /\ Len(ps) >= 1
      /\ A = IF a = None THEN ps[1].name ELSE a
      /\ B = IF b = None THEN ProfilesOf(cfg')[1].name ELSE b
      /\ A # B
  BY Explicit, ShownIs
<1>2. ASSUME l \in Seq(Profile), Len(l) >= 1 PROVE ProfilesOf(cfg') = l
  BY <1>2, ListedIs
<1>3. \A i \in 1 .. Len(ps) : ps[i].name # None
  <2>1. \A i \in 1 .. Len(ps) : ps[i] \in Profile
    BY <1>1, ElementOfSeq
  <2>. QED BY <2>1 DEF Profile, ProfileNames
<1>4. ASSUME l = cfg.profiles PROVE ProfilesOf(cfg') = ps
  BY <1>4 DEF ProfilesOf
<1>. HIDE DEF ps, l, a, b, A, B
<1>5. CASE StationOps \/ SpeakerOps
  <2>1. l = cfg.profiles /\ b = a
    BY <1>5, StationFrame, SpeakerFrame DEF l, a, b
  <2>. QED BY <1>1, <1>4, <2>1
<1>6. ASSUME NEW name, SaveProfile(name) PROVE FALSE
  <2>1. b = a /\ l \in Seq(Profile) /\ Len(l) = Len(ps) /\ l[1].name = ps[1].name
    BY <1>1, <1>6, SaveEffect DEF ps, l, a, b
  <2>. QED BY <1>1, <1>2, <2>1
<1>7. ASSUME NEW name, LoadProfile(name) PROVE FALSE
  <2>1. l = cfg.profiles /\ b = a
    BY <1>7, LoadEffect DEF l, a, b
  <2>. QED BY <1>1, <1>4, <2>1
<1>8. ASSUME NEW name \in ProfileInputs, AddProfile(name) PROVE FALSE
  <2>1. /\ b = a /\ l \in Seq(Profile) /\ Len(l) = Len(ps) + 1
        /\ \A j \in 1 .. Len(ps) : l[j] = ps[j]
    BY <1>8, AddEffect DEF ps, l, a, b
  <2>2. l[1] = ps[1] /\ Len(l) >= 1
    BY <1>1, <2>1
  <2>. QED BY <1>1, <1>2, <2>1, <2>2
<1>9. ASSUME NEW name, RemoveProfile(name) PROVE FALSE
  <2>. DEFINE i == First(Named(ps, name))
  <2>1. /\ b = a /\ l \in Seq(Profile) /\ Len(l) = Len(ps) - 1 /\ Len(ps) > 1
        /\ i \in 1 .. Len(ps) /\ ps[i].name = name
        /\ name # IF a = None THEN ps[1].name ELSE a
        /\ \A j \in 1 .. Len(ps) - 1 : l[j] = ps[IF j < i THEN j ELSE j + 1]
    BY <1>9, RemoveEffect DEF ps, l, a, b
  <2>. HIDE DEF i
  <2>2. a = None => i > 1
    BY <1>1, <2>1
  <2>3. a = None => l[1] = ps[1]
    BY <1>1, <2>1, <2>2
  <2>. QED BY <1>1, <1>2, <2>1, <2>3
<1>10. ASSUME NEW old, NEW new \in ProfileInputs, RenameProfile(old, new)
       PROVE  old = A /\ B = Trim(new)
  <2>. DEFINE i == First(Named(ps, old))
  <2>1. /\ b = IF a = old THEN Trim(new) ELSE a
        /\ i \in 1 .. Len(ps) /\ ps[i].name = old /\ Trim(new) # None
        /\ l \in Seq(Profile) /\ Len(l) = Len(ps)
        /\ \A j \in 1 .. Len(ps) : j # i => l[j] = ps[j]
        /\ l[i].name = Trim(new)
    BY <1>10, RenameEffect DEF ps, l, a, b
  <2>. HIDE DEF i
  <2>2. ProfilesOf(cfg') = l
    BY <1>1, <1>2, <2>1
  <2>3. CASE a = None
    <3>1. b = None /\ A = ps[1].name /\ B = l[1].name
      BY <1>1, <1>3, <2>1, <2>2, <2>3
    <3>2. i = 1
      BY <1>1, <2>1, <3>1
    <3>. QED BY <2>1, <3>1, <3>2
  <2>4. CASE a # None
    BY <1>1, <2>1, <2>4
  <2>. QED BY <2>3, <2>4
<1>. QED BY <1>5, <1>6, <1>7, <1>8, <1>9, <1>10 DEF Operations, ProfileOps, A, B

\* The profile that is shown is another one only after SetActiveProfile, or has a new
\* name only after its own renaming: adding, removing, saving and loading never move it.
THEOREM OnlySwitchingMoves ==
  ASSUME FilesResolve
  PROVE  Spec => OnlySelectionMovesProfile
<1>. DEFINE G == \E name \in ProfileInputs :
                   \/ SetActiveProfile(name)
                   \/ /\ RenameProfile(ActiveProfile(cfg), name)
                      /\ ActiveProfile(cfg') = Trim(name)
<1>1. ASSUME IInv, SelectionsResolve, [Next]_vars, Accepted, ActiveProfile(cfg') # ActiveProfile(cfg)
      PROVE  G
  <2>1. Operations /\ Sound(cfg) /\ Sound(cfg') /\ Resolved(cfg)
    BY <1>1, OnlyOperations, IInvUnfolded, OperationSound
       DEF Accepted, Operations, vars, SelectionsResolve
  <2>2. Resolved(cfg')
    BY <1>1, <2>1, OperationResolves
  <2>. QED BY <1>1, <2>1, <2>2, OperationShows DEF Accepted
<1>2. IInv /\ SelectionsResolve /\ [Next]_vars =>
        [Accepted /\ ActiveProfile(cfg') # ActiveProfile(cfg) => G]_vars
  BY <1>1
<1>. QED BY <1>2, Invariance, SelectionsNeverDangle, PTL DEF Spec, OnlySelectionMovesProfile

-----------------------------------------------------------------------------
(* Presets that name no station.                                           *)

LEMMA DanglingIs ==
  ASSUME NEW c, Sound(c), NEW x
  PROVE  x \in Dangling(c) <=>
           \/ x \in DanglingIn(Working(c))
           \/ \E i \in 1 .. Len(ProfilesOf(c)) : x \in DanglingIn(Contents(ProfilesOf(c)[i]))
<1>1. DanglingIn(Working(c)) = DanglingIn(c)
  BY DEF DanglingIn, Working
<1>2. \A p : DanglingIn(Contents(p)) = DanglingIn(p)
  BY DEF DanglingIn, Contents
<1>3. DOMAIN c.profiles = 1 .. Len(c.profiles) /\ DOMAIN Factory = 1 .. Len(Factory)
  BY FactoryAssumption, LenProperties DEF Sound, Config
<1>4. CASE c.profiles = <<>>
  <2>1. ProfilesOf(c) = Factory /\ DOMAIN c.profiles = {}
    BY <1>4 DEF ProfilesOf
  <2>2. \A i \in 1 .. Len(Factory) : DanglingIn(Factory[i]) = {}
    BY <1>3, FactoryAssumption
  <2>. QED BY <1>1, <1>2, <2>1, <2>2 DEF Dangling
<1>5. CASE c.profiles # <<>>
  <2>1. ProfilesOf(c) = c.profiles
    BY <1>5 DEF ProfilesOf
  <2>. QED BY <1>1, <1>2, <1>3, <2>1 DEF Dangling
<1>. QED BY <1>4, <1>5

LEMMA BlankIsClean == DanglingIn(Blank) = {}
BY DEF DanglingIn, Blank, EmptyPresets

\* Only a change of the working set that no profile accounts for can leave a new one.
LEMMA TracedIsClean ==
  ASSUME Sound(cfg), Sound(cfg'), Traced(cfg, cfg'),
         \/ DanglingIn(Working(cfg')) \subseteq DanglingIn(Working(cfg))
         \/ \E i \in 1 .. Len(ProfilesOf(cfg)) : Working(cfg') = Contents(ProfilesOf(cfg)[i])
  PROVE  Dangling(cfg') \subseteq Dangling(cfg)
<1>. SUFFICES ASSUME NEW x \in Dangling(cfg') PROVE x \in Dangling(cfg)
  OBVIOUS
<1>1. ASSUME x \in DanglingIn(Working(cfg)) PROVE x \in Dangling(cfg)
  BY <1>1, DanglingIs
<1>2. ASSUME NEW i \in 1 .. Len(ProfilesOf(cfg)), x \in DanglingIn(Contents(ProfilesOf(cfg)[i]))
      PROVE  x \in Dangling(cfg)
  BY <1>2, DanglingIs
<1>3. CASE x \in DanglingIn(Working(cfg'))
  BY <1>1, <1>2, <1>3
<1>4. CASE \E j \in 1 .. Len(ProfilesOf(cfg')) : x \in DanglingIn(Contents(ProfilesOf(cfg')[j]))
  <2>1. PICK j \in 1 .. Len(ProfilesOf(cfg')) : x \in DanglingIn(Contents(ProfilesOf(cfg')[j]))
    BY <1>4
  <2>2. \/ Contents(ProfilesOf(cfg')[j]) \in {Blank, Working(cfg)}
        \/ \E i \in 1 .. Len(ProfilesOf(cfg)) :
             Contents(ProfilesOf(cfg')[j]) = Contents(ProfilesOf(cfg)[i])
    BY DEF Traced
  <2>. QED BY <1>1, <1>2, <2>1, <2>2, BlankIsClean
<1>. QED BY <1>3, <1>4, DanglingIs

\* A new station has a new id, and the rest of the library stays.
LEMMA AddStationIsClean ==
  ASSUME Sound(cfg), NEW name \in StationNames, AddStation(name)
  PROVE  DanglingIn(Working(cfg')) \subseteq DanglingIn(Working(cfg))
<1>. DEFINE st  == NewStation(name)
            sts == cfg.stations
<1>1. sts \in Seq(Station) /\ Len(sts) < MaxStations /\ cfg \in Config
      /\ cfg' = [cfg EXCEPT !.stations = Append(sts, st)]
  BY DEF Sound, Config, AddStation, Update
<1>2. st \in Station
  BY <1>1, GenerateIDIsFresh DEF NewStation, Station
<1>. HIDE DEF st, sts
<1>3. cfg'.stations = Append(sts, st) /\ cfg'.presets = cfg.presets
  BY <1>1 DEF Config
<1>4. /\ DOMAIN sts = 1 .. Len(sts) /\ Len(sts) \in Nat
      /\ DOMAIN Append(sts, st) = 1 .. Len(sts) + 1
      /\ \A i \in 1 .. Len(sts) : Append(sts, st)[i] = sts[i]
  BY <1>1, <1>2, AppendProperties, LenProperties
<1>5. IDsOf(sts) \subseteq IDsOf(Append(sts, st))
  BY <1>4 DEF IDsOf
<1>. QED BY <1>3, <1>5 DEF Working, DanglingIn, sts

\* Deleting a station clears the presets that name it.
LEMMA DeleteStationIsClean ==
  ASSUME Sound(cfg), NEW id \in IDs \ {None}, DeleteStation(id)
  PROVE  DanglingIn(Working(cfg')) \subseteq DanglingIn(Working(cfg))
<1>1. PICK kept \in Filtered(cfg.stations, id) :
        cfg' = [cfg EXCEPT !.stations = kept, !.presets = ClearedPresets(cfg.presets, id)]
  BY DEF DeleteStation, Update, Sound, Config
<1>2. cfg'.stations = kept /\ cfg'.presets = ClearedPresets(cfg.presets, id)
  BY <1>1 DEF Sound, Config
<1>3. cfg.stations \in Seq(Station) /\ DistinctIDs(cfg.stations)
  BY DEF Sound, WellFormed, Config
<1>4. IDsOf(cfg.stations) \ {id} \subseteq IDsOf(kept)
  BY <1>3, FilteredIDs
<1>5. \A k \in Slots : cfg'.presets[k] = IF cfg.presets[k] = id THEN None ELSE cfg.presets[k]
  BY <1>2 DEF ClearedPresets
<1>. QED BY <1>2, <1>4, <1>5 DEF Working, DanglingIn

LEMMA OperationIsClean ==
  ASSUME Sound(cfg), Sound(cfg'), Operations, phase' = "writing", phase = "idle"
  PROVE  \/ Dangling(cfg') \subseteq Dangling(cfg)
         \/ \E slot \in Slots, id \in PresetInputs : AssignPreset(slot, id)
<1>. DEFINE C == Dangling(cfg') \subseteq Dangling(cfg)
<1>1. Traced(cfg, cfg')
  BY OperationTraces
<1>2. ASSUME DanglingIn(Working(cfg')) \subseteq DanglingIn(Working(cfg)) PROVE C
  BY <1>1, <1>2, TracedIsClean
<1>3. ASSUME \E i \in 1 .. Len(ProfilesOf(cfg)) : Working(cfg') = Contents(ProfilesOf(cfg)[i])
      PROVE  C
  BY <1>1, <1>3, TracedIsClean
<1>4. ASSUME Working(cfg') = Working(cfg) PROVE C
  BY <1>2, <1>4
<1>. HIDE DEF C
<1>5. ASSUME NEW name \in StationNames, AddStation(name) PROVE C
  BY <1>2, <1>5, AddStationIsClean
<1>6. ASSUME NEW id \in IDs \ {None}, DeleteStation(id) PROVE C
  BY <1>2, <1>6, DeleteStationIsClean
<1>7. CASE SpeakerOps
  BY <1>4, <1>7, SpeakerFrame DEF C
<1>8. ASSUME NEW name, SetActiveProfile(name) PROVE C
  <2>1. /\ Named(ProfilesOf(cfg), name) # {}
        /\ Working(cfg') = Contents(ProfilesOf(cfg)[First(Named(ProfilesOf(cfg), name))])
    BY <1>8, SwitchEffect
  <2>2. First(Named(ProfilesOf(cfg), name)) \in 1 .. Len(ProfilesOf(cfg))
    BY <2>1, Explicit, FirstNamed
  <2>. QED BY <1>3, <2>1, <2>2
<1>9. ASSUME NEW name, LoadProfile(name) PROVE C
  BY <1>3, <1>9, LoadEffect
<1>10. ASSUME NEW name, SaveProfile(name) PROVE C
  BY <1>4, <1>10, SaveEffect
<1>11. ASSUME NEW name \in ProfileInputs, AddProfile(name) PROVE C
  BY <1>4, <1>11, AddEffect
<1>12. ASSUME NEW name, RemoveProfile(name) PROVE C
  BY <1>4, <1>12, RemoveEffect
<1>13. ASSUME NEW old, NEW new \in ProfileInputs, RenameProfile(old, new) PROVE C
  BY <1>4, <1>13, RenameEffect
<1>. QED BY <1>5, <1>6, <1>7, <1>8, <1>9, <1>10, <1>11, <1>12, <1>13
         DEF Operations, StationOps, ProfileOps, C

\* Whatever is deleted, saved, loaded or switched, a preset that names no station can
\* only come from AssignPreset.
THEOREM OnlyAssignmentDangles == Spec => OnlyAssignDangles
<1>. DEFINE G == \/ Dangling(cfg') \subseteq Dangling(cfg)
                 \/ \E slot \in Slots, id \in PresetInputs : AssignPreset(slot, id)
<1>1. ASSUME IInv, [Next]_vars, Accepted PROVE G
  <2>1. Operations /\ Sound(cfg) /\ Sound(cfg')
    BY <1>1, OnlyOperations, IInvUnfolded, OperationSound DEF Accepted, Operations, vars
  <2>. QED BY <1>1, <2>1, OperationIsClean DEF Accepted
<1>2. IInv /\ [Next]_vars => [Accepted => G]_vars
  BY <1>1
<1>. QED BY <1>2, Invariance, PTL DEF Spec, OnlyAssignDangles
=============================================================================
