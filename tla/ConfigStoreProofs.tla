------------------------- MODULE ConfigStoreProofs -------------------------
(***************************************************************************)
(* The store keeps its types and its keys: for every value of the          *)
(* constants, every configuration in memory and on disk is well formed.    *)
(***************************************************************************)
EXTENDS ConfigStore, ConfigDataProofs

Sound(c) == c \in Config /\ WellFormed(c)

-----------------------------------------------------------------------------
(* What the operations do to a sound configuration.                        *)

LEMMA EmptySound == Sound(EmptyConfig)
<1>1. EmptyConfig \in Config
  BY DEF EmptyConfig, NoPresets, Config, Presets
<1>2. WellFormed(EmptyConfig)
  BY DEF EmptyConfig, WellFormed, DistinctIDs, DistinctNames
<1>. QED BY <1>1, <1>2 DEF Sound

LEMMA ProfilesOfSound ==
  ASSUME NEW c, Sound(c)
  PROVE  /\ ProfilesOf(c) \in Seq(Profile)
         /\ DistinctNames(ProfilesOf(c))
         /\ \A i \in DOMAIN ProfilesOf(c) : DistinctIDs(ProfilesOf(c)[i].stations)
<1>1. /\ c.profiles \in Seq(Profile)
      /\ DistinctNames(c.profiles)
      /\ \A i \in DOMAIN c.profiles : DistinctIDs(c.profiles[i].stations)
  BY DEF Sound, WellFormed, Config
<1>2. /\ Factory \in Seq(Profile)
      /\ DistinctNames(Factory)
      /\ \A i \in DOMAIN Factory : DistinctIDs(Factory[i].stations)
  BY FactoryAssumption
<1>. QED BY <1>1, <1>2 DEF ProfilesOf

\* Replacing the profile list of a sound configuration.
LEMMA WithProfilesSound ==
  ASSUME NEW c, Sound(c),
         NEW ps \in Seq(Profile), DistinctNames(ps),
         \A i \in DOMAIN ps : DistinctIDs(ps[i].stations)
  PROVE  Sound([c EXCEPT !.profiles = ps])
<1>1. [c EXCEPT !.profiles = ps] \in Config
  BY DEF Sound, Config
<1>2. WellFormed([c EXCEPT !.profiles = ps])
  BY DEF Sound, Config, WellFormed
<1>. QED BY <1>1, <1>2 DEF Sound

LEMMA MaterializedSound ==
  ASSUME NEW c, Sound(c)
  PROVE  Sound(Materialized(c))
BY ProfilesOfSound, WithProfilesSound DEF Materialized

\* Replacing the working set of a sound configuration.
LEMMA WithWorkingSound ==
  ASSUME NEW c, Sound(c),
         NEW st \in Seq(Station), DistinctIDs(st), NEW pr \in Presets
  PROVE  Sound([c EXCEPT !.stations = st, !.presets = pr])
<1>1. [c EXCEPT !.stations = st, !.presets = pr] \in Config
  BY DEF Sound, Config
<1>2. WellFormed([c EXCEPT !.stations = st, !.presets = pr])
  BY DEF Sound, Config, WellFormed
<1>. QED BY <1>1, <1>2 DEF Sound

LEMMA LoadedSound ==
  ASSUME NEW c, Sound(c),
         NEW ps \in Seq(Profile), NEW i \in 1 .. Len(ps), DistinctIDs(ps[i].stations)
  PROVE  Sound(Loaded(c, ps, i))
<1>1. ps[i] \in Profile
  BY ElementOfSeq
<1>2. ps[i].stations \in Seq(Station) /\ ps[i].presets \in Presets
  BY <1>1 DEF Profile
<1>. QED BY <1>2, WithWorkingSound DEF Loaded

\* A list in which one profile is replaced by another of the same name.
LEMMA ReplacedProfile ==
  ASSUME NEW ps \in Seq(Profile), DistinctNames(ps),
         \A j \in DOMAIN ps : DistinctIDs(ps[j].stations),
         NEW i \in 1 .. Len(ps), NEW p \in Profile,
         DistinctIDs(p.stations),
         \A j \in DOMAIN ps : ps[j].name = p.name => j = i
  PROVE  /\ [ps EXCEPT ![i] = p] \in Seq(Profile)
         /\ DistinctNames([ps EXCEPT ![i] = p])
         /\ \A j \in DOMAIN [ps EXCEPT ![i] = p] :
              DistinctIDs([ps EXCEPT ![i] = p][j].stations)
<1>. DEFINE qs == [ps EXCEPT ![i] = p]
<1>1. /\ qs \in Seq(Profile) /\ DOMAIN qs = DOMAIN ps
      /\ DOMAIN ps = 1 .. Len(ps)
      /\ \A j \in DOMAIN ps : qs[j] = IF j = i THEN p ELSE ps[j]
  BY ExceptSeq, LenProperties
<1>. HIDE DEF qs
<1>2. DistinctNames(qs)
  BY <1>1 DEF DistinctNames
<1>3. \A j \in DOMAIN qs : DistinctIDs(qs[j].stations)
  BY <1>1
<1>. QED BY <1>1, <1>2, <1>3 DEF qs

LEMMA SavedSound ==
  ASSUME NEW c, Sound(c), NEW i \in 1 .. Len(c.profiles)
  PROVE  Sound(Saved(c, i)) /\ Len(Saved(c, i).profiles) = Len(c.profiles)
<1>. DEFINE p == [c.profiles[i] EXCEPT !.stations = c.stations, !.presets = c.presets]
<1>1. /\ c \in Config /\ c.profiles \in Seq(Profile) /\ DistinctNames(c.profiles)
      /\ \A j \in DOMAIN c.profiles : DistinctIDs(c.profiles[j].stations)
      /\ c.stations \in Seq(Station) /\ c.presets \in Presets /\ DistinctIDs(c.stations)
      /\ c.profiles[i] \in Profile
  BY ElementOfSeq DEF Sound, WellFormed, Config
<1>2. p \in Profile /\ p.name = c.profiles[i].name /\ p.stations = c.stations
  BY <1>1 DEF Profile
<1>3. \A j \in DOMAIN c.profiles : c.profiles[j].name = p.name => j = i
  BY <1>1, <1>2, LenProperties DEF DistinctNames
<1>4. Saved(c, i) = [c EXCEPT !.profiles = [c.profiles EXCEPT ![i] = p]]
  BY <1>1, LenProperties DEF Saved, Config, Profile
<1>. HIDE DEF p
<1>5. /\ [c.profiles EXCEPT ![i] = p] \in Seq(Profile)
      /\ DistinctNames([c.profiles EXCEPT ![i] = p])
      /\ \A j \in DOMAIN [c.profiles EXCEPT ![i] = p] :
           DistinctIDs([c.profiles EXCEPT ![i] = p][j].stations)
  BY <1>1, <1>2, <1>3, ReplacedProfile
<1>6. Sound([c EXCEPT !.profiles = [c.profiles EXCEPT ![i] = p]])
  BY <1>5, WithProfilesSound
<1>7. Len([c.profiles EXCEPT ![i] = p]) = Len(c.profiles)
  BY <1>1, <1>2, ExceptSeq
<1>8. [c EXCEPT !.profiles = [c.profiles EXCEPT ![i] = p]].profiles = [c.profiles EXCEPT ![i] = p]
  BY <1>1 DEF Config
<1>. QED BY <1>4, <1>6, <1>7, <1>8, Zenon

\* Replacing the speaker list and the selection of a sound configuration.
LEMMA WithSpeakersSound ==
  ASSUME NEW c, Sound(c),
         NEW ss \in Seq(Speaker), DistinctNames(ss),
         NEW a \in SpeakerNames \cup {None}
  PROVE  Sound([c EXCEPT !.speakers = ss, !.activeSpeaker = a])
<1>1. [c EXCEPT !.speakers = ss, !.activeSpeaker = a] \in Config
  BY DEF Sound, Config
<1>2. WellFormed([c EXCEPT !.speakers = ss, !.activeSpeaker = a])
  BY DEF Sound, Config, WellFormed
<1>. QED BY <1>1, <1>2 DEF Sound

\* Selecting a profile by its name.
LEMMA WithActiveProfileSound ==
  ASSUME NEW c, Sound(c), NEW a \in ProfileNames \cup {None}
  PROVE  Sound([c EXCEPT !.activeProfile = a])
<1>1. [c EXCEPT !.activeProfile = a] \in Config
  BY DEF Sound, Config
<1>2. WellFormed([c EXCEPT !.activeProfile = a])
  BY DEF Sound, Config, WellFormed
<1>. QED BY <1>1, <1>2 DEF Sound

\* Appending an element with a new name keeps names distinct.
LEMMA AppendKeepsNames ==
  ASSUME NEW T, NEW seq \in Seq(T), DistinctNames(seq),
         NEW e \in T, Named(seq, e.name) = {}
  PROVE  DistinctNames(Append(seq, e))
<1>. DEFINE s == Append(seq, e)
<1>1. /\ DOMAIN s = 1 .. Len(seq) + 1 /\ Len(seq) \in Nat /\ DOMAIN seq = 1 .. Len(seq)
      /\ \A i \in 1 .. Len(seq) : s[i] = seq[i]
      /\ s[Len(seq) + 1] = e
  BY AppendProperties, LenProperties
<1>. HIDE DEF s
<1>2. ASSUME NEW i \in DOMAIN s, NEW j \in DOMAIN s, s[i].name = s[j].name
      PROVE  i = j
  <2>1. \A k \in 1 .. Len(seq) : seq[k].name # e.name
    BY <1>1 DEF Named
  <2>. QED BY <1>1, <1>2, <2>1 DEF DistinctNames
<1>. QED BY <1>2 DEF DistinctNames, s

\* Renaming one element to a name no other has keeps names distinct.
LEMMA RenamedKeepsNames ==
  ASSUME NEW T, NEW seq \in Seq(T), DistinctNames(seq),
         NEW i \in 1 .. Len(seq), NEW e \in T,
         e.name # seq[i].name => Named(seq, e.name) = {}
  PROVE  /\ [seq EXCEPT ![i] = e] \in Seq(T)
         /\ DistinctNames([seq EXCEPT ![i] = e])
         /\ \A j \in DOMAIN seq : seq[j].name = e.name => j = i
<1>. DEFINE s == [seq EXCEPT ![i] = e]
<1>1. /\ s \in Seq(T) /\ DOMAIN s = DOMAIN seq
      /\ DOMAIN seq = 1 .. Len(seq)
      /\ \A j \in DOMAIN seq : s[j] = IF j = i THEN e ELSE seq[j]
  BY ExceptSeq, LenProperties
<1>2. \A j \in DOMAIN seq : seq[j].name = e.name => j = i
  BY <1>1 DEF Named, DistinctNames
<1>. HIDE DEF s
<1>3. DistinctNames(s)
  BY <1>1, <1>2 DEF DistinctNames
<1>. QED BY <1>1, <1>2, <1>3 DEF s

-----------------------------------------------------------------------------
(* Every operation leaves a sound configuration, accepted or rejected.     *)

LEMMA AddStationSound ==
  ASSUME Sound(cfg), NEW name \in StationNames, AddStation(name)
  PROVE  Sound(cfg')
<1>. DEFINE st  == NewStation(name)
            sts == Append(cfg.stations, st)
<1>1. /\ cfg \in Config /\ cfg.stations \in Seq(Station) /\ cfg.presets \in Presets
      /\ DistinctIDs(cfg.stations) /\ Len(cfg.stations) < MaxStations
      /\ cfg' = [cfg EXCEPT !.stations = sts]
  BY DEF Sound, WellFormed, Config, AddStation, Update
<1>2. st \in Station /\ st.id \notin IDsOf(cfg.stations)
  BY <1>1, GenerateIDIsFresh DEF NewStation, Station
<1>3. sts \in Seq(Station)
  BY <1>1, <1>2, AppendProperties
<1>4. DistinctIDs(sts)
  <2>1. /\ DOMAIN sts = 1 .. Len(cfg.stations) + 1 /\ Len(cfg.stations) \in Nat
        /\ DOMAIN cfg.stations = 1 .. Len(cfg.stations)
        /\ \A i \in 1 .. Len(cfg.stations) : sts[i] = cfg.stations[i]
        /\ sts[Len(cfg.stations) + 1] = st
    BY <1>1, <1>2, AppendProperties, LenProperties
  <2>. HIDE DEF sts, st
  <2>2. \A i \in 1 .. Len(cfg.stations) : cfg.stations[i].id # st.id
    BY <1>2, <2>1 DEF IDsOf
  <2>3. ASSUME NEW i \in DOMAIN sts, NEW j \in DOMAIN sts, sts[i].id = sts[j].id
        PROVE  i = j
    <3>1. CASE i \in 1 .. Len(cfg.stations) /\ j \in 1 .. Len(cfg.stations)
      <4>1. cfg.stations[i].id = cfg.stations[j].id
        BY <3>1, <2>1, <2>3
      <4>. QED BY <4>1, <3>1, <2>1, <1>1 DEF DistinctIDs
    <3>2. CASE i = Len(cfg.stations) + 1 /\ j \in 1 .. Len(cfg.stations)
      BY <3>2, <2>1, <2>2, <2>3
    <3>3. CASE j = Len(cfg.stations) + 1 /\ i \in 1 .. Len(cfg.stations)
      BY <3>3, <2>1, <2>2, <2>3
    <3>. QED BY <3>1, <3>2, <3>3, <2>1
  <2>. QED BY <2>3 DEF DistinctIDs
<1>. HIDE DEF sts
<1>5. Sound([cfg EXCEPT !.stations = sts, !.presets = cfg.presets])
  BY <1>1, <1>3, <1>4, WithWorkingSound
<1>6. [cfg EXCEPT !.stations = sts, !.presets = cfg.presets] = [cfg EXCEPT !.stations = sts]
  BY <1>1 DEF Config
<1>. QED BY <1>1, <1>5, <1>6

LEMMA DeleteStationSound ==
  ASSUME Sound(cfg), NEW id \in IDs, DeleteStation(id)
  PROVE  Sound(cfg')
<1>1. PICK kept \in Filtered(cfg.stations, id) :
        cfg' = [cfg EXCEPT !.stations = kept, !.presets = ClearedPresets(cfg.presets, id)]
  BY DEF DeleteStation, Update, Sound, Config
<1>2. cfg.stations \in Seq(Station) /\ DistinctIDs(cfg.stations) /\ cfg.presets \in Presets
  BY DEF Sound, WellFormed, Config
<1>3. kept \in Seq(Station) /\ DistinctIDs(kept)
  BY <1>2, FilteredStations
<1>4. ClearedPresets(cfg.presets, id) \in Presets
  BY <1>2 DEF ClearedPresets, Presets
<1>. QED BY <1>1, <1>3, <1>4, WithWorkingSound

LEMMA AssignPresetSound ==
  ASSUME Sound(cfg), NEW slot \in Slots, NEW id \in PresetInputs, AssignPreset(slot, id)
  PROVE  Sound(cfg')
<1>. DEFINE pr == [cfg.presets EXCEPT ![slot] = id]
<1>1. /\ cfg \in Config /\ cfg.stations \in Seq(Station) /\ cfg.presets \in Presets
      /\ DistinctIDs(cfg.stations) /\ cfg' = [cfg EXCEPT !.presets = pr]
  BY DEF Sound, WellFormed, Config, AssignPreset, Update
<1>2. pr \in Presets
  BY <1>1, StoreAssumption DEF Presets
<1>. HIDE DEF pr
<1>3. Sound([cfg EXCEPT !.stations = cfg.stations, !.presets = pr])
  BY <1>1, <1>2, WithWorkingSound
<1>4. [cfg EXCEPT !.stations = cfg.stations, !.presets = pr] = [cfg EXCEPT !.presets = pr]
  BY <1>1 DEF Config
<1>. QED BY <1>1, <1>3, <1>4

LEMMA SpeakersOfSound ==
  ASSUME Sound(cfg)
  PROVE  /\ cfg \in Config /\ cfg.speakers \in Seq(Speaker) /\ DistinctNames(cfg.speakers)
         /\ cfg.activeSpeaker \in SpeakerNames \cup {None}
BY DEF Sound, WellFormed, Config

LEMMA SetActiveSound ==
  ASSUME Sound(cfg), NEW name, SetActive(name)
  PROVE  Sound(cfg')
<1>1. Named(cfg.speakers, name) # {} /\ cfg' = [cfg EXCEPT !.activeSpeaker = name]
  BY DEF SetActive, Update
<1>2. name \in SpeakerNames
  <2>1. PICK i \in 1 .. Len(cfg.speakers) : cfg.speakers[i].name = name
    BY <1>1, SpeakersOfSound, FirstNamed
  <2>2. cfg.speakers[i] \in Speaker
    BY SpeakersOfSound, ElementOfSeq
  <2>. QED BY <2>1, <2>2 DEF Speaker
<1>3. Sound([cfg EXCEPT !.speakers = cfg.speakers, !.activeSpeaker = name])
  BY <1>2, SpeakersOfSound, WithSpeakersSound
<1>4. [cfg EXCEPT !.speakers = cfg.speakers, !.activeSpeaker = name]
        = [cfg EXCEPT !.activeSpeaker = name]
  BY SpeakersOfSound DEF Config
<1>. QED BY <1>1, <1>3, <1>4

\* Replacing the speaker list alone.
LEMMA NewSpeakersSound ==
  ASSUME Sound(cfg), NEW ss \in Seq(Speaker), DistinctNames(ss)
  PROVE  Sound([cfg EXCEPT !.speakers = ss])
<1>1. Sound([cfg EXCEPT !.speakers = ss, !.activeSpeaker = cfg.activeSpeaker])
  BY SpeakersOfSound, WithSpeakersSound
<1>2. [cfg EXCEPT !.speakers = ss, !.activeSpeaker = cfg.activeSpeaker]
        = [cfg EXCEPT !.speakers = ss]
  BY SpeakersOfSound DEF Config
<1>. QED BY <1>1, <1>2

LEMMA AddSpeakerSound ==
  ASSUME Sound(cfg), NEW name \in SpeakerInputs, NEW ip, AddSpeaker(name, ip)
  PROVE  Sound(cfg')
<1>. DEFINE e == [name |-> Trim(name), ip |-> ip]
<1>1. /\ e \in Speaker /\ e.name = Trim(name)
      /\ Named(cfg.speakers, Trim(name)) = {}
      /\ cfg' = [cfg EXCEPT !.speakers = Append(cfg.speakers, e)]
  BY SpeakersOfSound DEF AddSpeaker, Update, Speaker, SpeakerNames, Config
<1>. HIDE DEF e
<1>2. Append(cfg.speakers, e) \in Seq(Speaker) /\ DistinctNames(Append(cfg.speakers, e))
  BY <1>1, SpeakersOfSound, AppendProperties, AppendKeepsNames
<1>. QED BY <1>1, <1>2, NewSpeakersSound

LEMMA RemoveSpeakerSound ==
  ASSUME Sound(cfg), NEW name, RemoveSpeaker(name)
  PROVE  Sound(cfg')
<1>. DEFINE i == First(Named(cfg.speakers, name))
<1>1. /\ Named(cfg.speakers, name) # {}
      /\ cfg' = [cfg EXCEPT !.speakers = Without(cfg.speakers, i)]
  BY SpeakersOfSound DEF RemoveSpeaker, Update, Config
<1>2. i \in 1 .. Len(cfg.speakers)
  BY <1>1, SpeakersOfSound, FirstNamed
<1>. HIDE DEF i
<1>3. Without(cfg.speakers, i) \in Seq(Speaker) /\ DistinctNames(Without(cfg.speakers, i))
  BY <1>2, SpeakersOfSound, WithoutElement, WithoutKeepsNames
<1>. QED BY <1>1, <1>3, NewSpeakersSound

LEMMA RenameSpeakerSound ==
  ASSUME Sound(cfg), NEW old, NEW new \in SpeakerInputs, RenameSpeaker(old, new)
  PROVE  Sound(cfg')
<1>. DEFINE i  == First(Named(cfg.speakers, old))
            e  == [cfg.speakers[i] EXCEPT !.name = Trim(new)]
            ss == [cfg.speakers EXCEPT ![i] = e]
            a  == IF cfg.activeSpeaker = old THEN Trim(new) ELSE cfg.activeSpeaker
<1>1. /\ Named(cfg.speakers, old) # {} /\ Trim(new) \in SpeakerNames
      /\ Trim(new) # old => Named(cfg.speakers, Trim(new)) = {}
      /\ cfg' = [cfg EXCEPT !.speakers = ss, !.activeSpeaker = a]
  BY SpeakersOfSound DEF RenameSpeaker, Update, SpeakerNames, Config
<1>2. i \in 1 .. Len(cfg.speakers) /\ cfg.speakers[i].name = old
  BY <1>1, SpeakersOfSound, FirstNamed
<1>3. e \in Speaker /\ e.name = Trim(new)
  <2>. HIDE DEF i
  <2>1. cfg.speakers[i] \in Speaker
    BY <1>2, SpeakersOfSound, ElementOfSeq
  <2>. QED BY <1>1, <2>1 DEF Speaker
<1>4. a \in SpeakerNames \cup {None}
  BY <1>1, SpeakersOfSound
<1>. HIDE DEF i, e, a
<1>5. ss \in Seq(Speaker) /\ DistinctNames(ss)
  BY <1>1, <1>2, <1>3, SpeakersOfSound, RenamedKeepsNames
<1>. QED BY <1>1, <1>4, <1>5, WithSpeakersSound

LEMMA SetActiveProfileSound ==
  ASSUME Sound(cfg), NEW name, SetActiveProfile(name)
  PROVE  Sound(cfg')
<1>. DEFINE c     == Materialized(cfg)
            i     == First(Named(c.profiles, name))
            saved == AutoSaved(c, name)
<1>1. Sound(c) /\ c.profiles \in Seq(Profile)
  BY MaterializedSound DEF Sound, Config
<1>2. CASE Named(c.profiles, name) = {}
  BY <1>1, <1>2 DEF SetActiveProfile, Reject
<1>3. CASE Named(c.profiles, name) # {}
  <2>1. cfg' = [Loaded(saved, saved.profiles, i) EXCEPT !.activeProfile = name]
    BY <1>3 DEF SetActiveProfile, Update
  <2>2. i \in 1 .. Len(c.profiles) /\ c.profiles[i].name = name
    BY <1>1, <1>3, FirstNamed
  <2>3. name \in ProfileNames
    <3>1. c.profiles[i] \in Profile
      BY <1>1, <2>2, ElementOfSeq
    <3>. QED BY <2>2, <3>1 DEF Profile
  <2>. HIDE DEF c
  <2>4. Sound(saved) /\ Len(saved.profiles) = Len(c.profiles)
    <3>1. CASE saved = c
      BY <1>1, <3>1
    <3>2. CASE saved # c
      <4>1. /\ Named(c.profiles, c.activeProfile) # {}
            /\ saved = Saved(c, First(Named(c.profiles, c.activeProfile)))
        BY <3>2 DEF AutoSaved
      <4>2. First(Named(c.profiles, c.activeProfile)) \in 1 .. Len(c.profiles)
        BY <1>1, <4>1, FirstNamed
      <4>. QED BY <1>1, <4>1, <4>2, SavedSound
    <3>. QED BY <3>1, <3>2
  <2>. HIDE DEF saved, i
  <2>5. /\ saved.profiles \in Seq(Profile) /\ i \in 1 .. Len(saved.profiles)
        /\ DistinctIDs(saved.profiles[i].stations)
    BY <2>2, <2>4, LenProperties DEF Sound, WellFormed, Config
  <2>6. Sound(Loaded(saved, saved.profiles, i))
    BY <2>4, <2>5, LoadedSound
  <2>. QED BY <2>1, <2>3, <2>6, WithActiveProfileSound
<1>. QED BY <1>2, <1>3

LEMMA AddProfileSound ==
  ASSUME Sound(cfg), NEW name \in ProfileInputs, AddProfile(name)
  PROVE  Sound(cfg')
<1>. DEFINE c  == Materialized(cfg)
            e  == [name |-> Trim(name), stations |-> <<>>, presets |-> EmptyPresets]
            ps == Append(c.profiles, e)
<1>1. /\ Sound(c) /\ c.profiles \in Seq(Profile) /\ DistinctNames(c.profiles)
      /\ \A j \in DOMAIN c.profiles : DistinctIDs(c.profiles[j].stations)
  BY MaterializedSound DEF Sound, WellFormed, Config
<1>2. CASE Named(c.profiles, Trim(name)) # {}
  BY <1>1, <1>2 DEF AddProfile, Reject, Update
<1>3. CASE Named(c.profiles, Trim(name)) = {}
  <2>1. /\ e \in Profile /\ e.name = Trim(name) /\ e.stations = <<>>
        /\ cfg' = [c EXCEPT !.profiles = ps]
    BY <1>3 DEF AddProfile, Update, Profile, ProfileNames, EmptyPresets, Presets
  <2>. HIDE DEF e, c
  <2>2. ps \in Seq(Profile) /\ DistinctNames(ps)
    BY <1>1, <1>3, <2>1, AppendProperties, AppendKeepsNames
  <2>3. ASSUME NEW j \in DOMAIN ps PROVE DistinctIDs(ps[j].stations)
    <3>1. /\ DOMAIN ps = 1 .. Len(c.profiles) + 1 /\ Len(c.profiles) \in Nat
          /\ DOMAIN c.profiles = 1 .. Len(c.profiles)
          /\ \A k \in 1 .. Len(c.profiles) : ps[k] = c.profiles[k]
          /\ ps[Len(c.profiles) + 1] = e
      BY <1>1, <2>1, AppendProperties, LenProperties
    <3>2. DistinctIDs(e.stations)
      BY <2>1 DEF DistinctIDs
    <3>. HIDE DEF ps
    <3>. QED BY <1>1, <3>1, <3>2
  <2>. HIDE DEF ps
  <2>. QED BY <1>1, <2>1, <2>2, <2>3, WithProfilesSound
<1>. QED BY <1>2, <1>3

LEMMA RenameProfileSound ==
  ASSUME Sound(cfg), NEW old, NEW new \in ProfileInputs, RenameProfile(old, new)
  PROVE  Sound(cfg')
<1>. DEFINE c  == Materialized(cfg)
            i  == First(Named(c.profiles, old))
            e  == [c.profiles[i] EXCEPT !.name = Trim(new)]
            ps == [c.profiles EXCEPT ![i] = e]
            a  == IF c.activeProfile = old THEN Trim(new) ELSE c.activeProfile
            refused == \/ Trim(new) # old /\ Named(c.profiles, Trim(new)) # {}
                       \/ Named(c.profiles, old) = {}
<1>1. /\ Sound(c) /\ c \in Config /\ c.profiles \in Seq(Profile)
      /\ DistinctNames(c.profiles) /\ c.activeProfile \in ProfileNames \cup {None}
      /\ \A j \in DOMAIN c.profiles : DistinctIDs(c.profiles[j].stations)
  BY MaterializedSound DEF Sound, WellFormed, Config
<1>2. Trim(new) \in ProfileNames
  BY DEF RenameProfile, ProfileNames
<1>3. CASE refused
  BY <1>1, <1>3 DEF RenameProfile, Reject
<1>4. CASE ~refused
  <2>1. cfg' = [c EXCEPT !.profiles[i].name = Trim(new),
                         !.activeProfile = IF @ = old THEN Trim(new) ELSE @]
    BY <1>4 DEF RenameProfile, Update
  <2>. HIDE DEF c
  <2>2. i \in 1 .. Len(c.profiles) /\ c.profiles[i].name = old
    BY <1>1, <1>4, FirstNamed
  <2>3. c.profiles[i] \in Profile
    BY <1>1, <2>2, ElementOfSeq
  <2>. HIDE DEF i
  <2>4. e \in Profile /\ e.name = Trim(new) /\ e.stations = c.profiles[i].stations
    BY <1>2, <2>3 DEF Profile
  <2>5. cfg' = [[c EXCEPT !.profiles = ps] EXCEPT !.activeProfile = a]
    BY <1>1, <2>1 DEF Config
  <2>6. DistinctIDs(e.stations)
    BY <1>1, <2>2, <2>4, LenProperties
  <2>. HIDE DEF e, a
  <2>7. ps \in Seq(Profile) /\ DistinctNames(ps)
        /\ \A j \in DOMAIN c.profiles : c.profiles[j].name = e.name => j = i
    BY <1>1, <1>4, <2>2, <2>4, RenamedKeepsNames
  <2>8. \A j \in DOMAIN ps : DistinctIDs(ps[j].stations)
    BY <1>1, <2>2, <2>4, <2>6, <2>7, ReplacedProfile
  <2>9. a \in ProfileNames \cup {None}
    BY <1>1, <1>2 DEF a
  <2>. HIDE DEF ps
  <2>10. Sound([c EXCEPT !.profiles = ps])
    BY <1>1, <2>7, <2>8, WithProfilesSound
  <2>. QED BY <2>5, <2>9, <2>10, WithActiveProfileSound
<1>. QED BY <1>3, <1>4

LEMMA RemoveProfileSound ==
  ASSUME Sound(cfg), NEW name, RemoveProfile(name)
  PROVE  Sound(cfg')
<1>. DEFINE c  == Materialized(cfg)
            i  == First(Named(c.profiles, name))
            ps == Without(c.profiles, i)
<1>1. /\ Sound(c) /\ c.profiles \in Seq(Profile) /\ DistinctNames(c.profiles)
      /\ \A j \in DOMAIN c.profiles : DistinctIDs(c.profiles[j].stations)
  BY MaterializedSound DEF Sound, WellFormed, Config
<1>2. CASE cfg' = c
  BY <1>1, <1>2
<1>3. CASE cfg' # c
  <2>1. Named(c.profiles, name) # {} /\ cfg' = [c EXCEPT !.profiles = ps]
    BY <1>3 DEF RemoveProfile, Reject, Update
  <2>. HIDE DEF c
  <2>2. i \in 1 .. Len(c.profiles)
    BY <1>1, <2>1, FirstNamed
  <2>. HIDE DEF i
  <2>3. ps \in Seq(Profile) /\ DistinctNames(ps)
    BY <1>1, <2>2, WithoutElement, WithoutKeepsNames
  <2>4. ASSUME NEW j \in DOMAIN ps PROVE DistinctIDs(ps[j].stations)
    <3>1. /\ Len(ps) = Len(c.profiles) - 1 /\ Len(c.profiles) \in Nat
          /\ DOMAIN ps = 1 .. Len(ps) /\ DOMAIN c.profiles = 1 .. Len(c.profiles)
          /\ ps[j] = c.profiles[IF j < i THEN j ELSE j + 1]
      BY <1>1, <2>2, <2>3, WithoutElement, LenProperties
    <3>2. (IF j < i THEN j ELSE j + 1) \in DOMAIN c.profiles
      BY <2>2, <3>1
    <3>. QED BY <1>1, <3>1, <3>2
  <2>. HIDE DEF ps
  <2>. QED BY <1>1, <2>1, <2>3, <2>4, WithProfilesSound
<1>. QED BY <1>2, <1>3

LEMMA SaveProfileSound ==
  ASSUME Sound(cfg), NEW name, SaveProfile(name)
  PROVE  Sound(cfg')
<1>. DEFINE c == Materialized(cfg)
            i == First(Named(c.profiles, name))
<1>1. Sound(c) /\ c.profiles \in Seq(Profile)
  BY MaterializedSound DEF Sound, Config
<1>2. CASE cfg' = c
  BY <1>1, <1>2
<1>3. CASE cfg' # c
  <2>1. Named(c.profiles, name) # {} /\ cfg' = Saved(c, i)
    BY <1>3 DEF SaveProfile, Reject, Update
  <2>2. i \in 1 .. Len(c.profiles)
    BY <1>1, <2>1, FirstNamed
  <2>. HIDE DEF i, c
  <2>. QED BY <1>1, <2>1, <2>2, SavedSound
<1>. QED BY <1>2, <1>3

LEMMA LoadProfileSound ==
  ASSUME Sound(cfg), NEW name, LoadProfile(name)
  PROVE  Sound(cfg')
<1>. DEFINE ps == ProfilesOf(cfg)
            i  == First(Named(ps, name))
<1>1. Named(ps, name) # {} /\ cfg' = Loaded(cfg, ps, i)
  BY DEF LoadProfile, Update
<1>2. ps \in Seq(Profile) /\ \A j \in DOMAIN ps : DistinctIDs(ps[j].stations)
  BY ProfilesOfSound
<1>. HIDE DEF ps
<1>3. i \in 1 .. Len(ps) /\ DOMAIN ps = 1 .. Len(ps)
  BY <1>1, <1>2, FirstNamed, LenProperties
<1>. HIDE DEF i
<1>. QED BY <1>1, <1>2, <1>3, LoadedSound

LEMMA SeedSound ==
  ASSUME Sound(cfg), MaybeSeedFromFactory
  PROVE  Sound(cfg')
<1>. DEFINE i == First(Named(Factory, "PalmaSola"))
<1>1. CASE cfg' = cfg
  BY <1>1
<1>2. CASE cfg' # cfg
  <2>1. Named(Factory, "PalmaSola") # {} /\ cfg' = Loaded(cfg, Factory, i)
    BY <1>2 DEF MaybeSeedFromFactory
  <2>2. /\ Factory \in Seq(Profile) /\ DOMAIN Factory = 1 .. Len(Factory)
        /\ \A j \in DOMAIN Factory : DistinctIDs(Factory[j].stations)
    BY FactoryAssumption, LenProperties
  <2>3. i \in 1 .. Len(Factory)
    BY <2>1, <2>2, FirstNamed
  <2>. HIDE DEF i
  <2>. QED BY <2>1, <2>2, <2>3, LoadedSound
<1>. QED BY <1>1, <1>2

\* An operation leaves a sound configuration, and touches neither the disk nor
\* the fault count.
LEMMA OperationSound ==
  ASSUME Sound(cfg), StationOps \/ SpeakerOps \/ ProfileOps
  PROVE  /\ Sound(cfg')
         /\ phase = "idle"
         /\ UNCHANGED <<file, tmp, faults>>
         /\ phase' \in {"writing", phase}
<1>. DEFINE Framed == /\ phase = "idle"
                      /\ UNCHANGED <<file, tmp, faults>>
                      /\ phase' \in {"writing", phase}
<1>1. CASE StationOps
  <2>1. ASSUME NEW name \in StationNames, AddStation(name) PROVE Sound(cfg') /\ Framed
    BY <2>1, AddStationSound DEF AddStation, Update
  <2>2. ASSUME NEW id \in IDs \ {None}, DeleteStation(id) PROVE Sound(cfg') /\ Framed
    BY <2>2, DeleteStationSound DEF DeleteStation, Update
  <2>3. ASSUME NEW slot \in Slots, NEW id \in PresetInputs, AssignPreset(slot, id)
        PROVE Sound(cfg') /\ Framed
    BY <2>3, AssignPresetSound DEF AssignPreset, Update
  <2>. HIDE DEF Framed
  <2>. QED BY <1>1, <2>1, <2>2, <2>3 DEF StationOps, Framed
<1>2. CASE SpeakerOps
  <2>1. ASSUME NEW name \in SpeakerInputs, SetActive(name) PROVE Sound(cfg') /\ Framed
    BY <2>1, SetActiveSound DEF SetActive, Update
  <2>2. ASSUME NEW name \in SpeakerInputs, RemoveSpeaker(name) PROVE Sound(cfg') /\ Framed
    BY <2>2, RemoveSpeakerSound DEF RemoveSpeaker, Update
  <2>3. ASSUME NEW name \in SpeakerInputs, NEW ip, AddSpeaker(name, ip)
        PROVE Sound(cfg') /\ Framed
    BY <2>3, AddSpeakerSound DEF AddSpeaker, Update
  <2>4. ASSUME NEW old, NEW new \in SpeakerInputs, RenameSpeaker(old, new)
        PROVE Sound(cfg') /\ Framed
    BY <2>4, RenameSpeakerSound DEF RenameSpeaker, Update
  <2>. HIDE DEF Framed
  <2>. QED BY <1>2, <2>1, <2>2, <2>3, <2>4 DEF SpeakerOps, Framed
<1>3. CASE ProfileOps
  <2>1. ASSUME NEW name, SetActiveProfile(name) PROVE Sound(cfg') /\ Framed
    BY <2>1, SetActiveProfileSound DEF SetActiveProfile, Update, Reject
  <2>2. ASSUME NEW name \in ProfileInputs, AddProfile(name) PROVE Sound(cfg') /\ Framed
    BY <2>2, AddProfileSound DEF AddProfile, Update, Reject
  <2>3. ASSUME NEW name, RemoveProfile(name) PROVE Sound(cfg') /\ Framed
    BY <2>3, RemoveProfileSound DEF RemoveProfile, Update, Reject
  <2>4. ASSUME NEW name, SaveProfile(name) PROVE Sound(cfg') /\ Framed
    BY <2>4, SaveProfileSound DEF SaveProfile, Update, Reject
  <2>5. ASSUME NEW name, LoadProfile(name) PROVE Sound(cfg') /\ Framed
    BY <2>5, LoadProfileSound DEF LoadProfile, Update
  <2>6. ASSUME NEW old, NEW new \in ProfileInputs, RenameProfile(old, new)
        PROVE Sound(cfg') /\ Framed
    BY <2>6, RenameProfileSound DEF RenameProfile, Update, Reject
  <2>. HIDE DEF Framed
  <2>. QED BY <1>3, <2>1, <2>2, <2>3, <2>4, <2>5, <2>6 DEF ProfileOps, Framed
<1>. QED BY <1>1, <1>2, <1>3

-----------------------------------------------------------------------------
(* The invariant.                                                          *)

IInv == TypeOK /\ KeysUnique

LEMMA InitIInv == Init => IInv
<1>. SUFFICES ASSUME Init PROVE IInv
  OBVIOUS
<1>1. cfg = EmptyConfig /\ Sound(EmptyConfig)
  BY EmptySound DEF Init
<1>2. file \in Config \cup {NoFile} /\ (file # NoFile => WellFormed(file))
  BY StoreAssumption DEF Init
<1>3. tmp = NoFile /\ phase = "down" /\ faults \in 0 .. MaxFaults
  BY StoreAssumption DEF Init
<1>. QED BY <1>1, <1>2, <1>3 DEF IInv, TypeOK, KeysUnique, Sound

\* IInv with the soundness of each copy of the configuration in one place.
LEMMA IInvUnfolded ==
  IInv <=> /\ Sound(cfg)
           /\ file # NoFile => Sound(file)
           /\ tmp \notin {NoFile, Torn} => Sound(tmp)
           /\ phase \in {"down", "booted", "idle", "writing", "renaming"}
           /\ phase = "renaming" => tmp = cfg
           /\ faults \in 0 .. MaxFaults
BY StoreAssumption DEF IInv, TypeOK, KeysUnique, Sound

LEMMA NextIInv == IInv /\ [Next]_vars => IInv'
<1>. SUFFICES ASSUME IInv, [Next]_vars PROVE IInv'
  OBVIOUS
<1>. USE IInvUnfolded
<1>a. /\ Sound(cfg) /\ cfg \in Config /\ cfg \notin {NoFile, Torn}
      /\ Sound(EmptyConfig) /\ EmptyConfig \in Config
      /\ faults \in Nat /\ MaxFaults \in Nat
  BY EmptySound, StoreAssumption DEF Sound
<1>b. IInv' <=> /\ Sound(cfg')
                /\ file' # NoFile => Sound(file')
                /\ tmp' \notin {NoFile, Torn} => Sound(tmp')
                /\ phase' \in {"down", "booted", "idle", "writing", "renaming"}
                /\ phase' = "renaming" => tmp' = cfg'
                /\ faults' \in 0 .. MaxFaults
  BY StoreAssumption DEF IInv, TypeOK, KeysUnique, Sound
<1>1. CASE StationOps \/ SpeakerOps \/ ProfileOps
  BY <1>1, <1>a, <1>b, OperationSound
<1>2. CASE WriteTmp
  BY <1>2, <1>a, <1>b DEF WriteTmp
<1>3. CASE Rename
  BY <1>3, <1>a, <1>b DEF Rename, Return
<1>4. CASE NewStore
  BY <1>4, <1>a, <1>b DEF NewStore
<1>5. CASE MaybeSeedFromFactory
  <2>1. Sound(cfg')
    BY <1>5, <1>a, SeedSound
  <2>2. /\ UNCHANGED <<file, tmp, faults>> /\ phase' \in {"writing", "idle"}
    BY <1>5 DEF MaybeSeedFromFactory, Return
  <2>. QED BY <2>1, <2>2, <1>a, <1>b
<1>6. CASE WriteTmpFails
  BY <1>6, <1>a, <1>b DEF WriteTmpFails, Fault, Return
<1>7. CASE RenameFails
  BY <1>7, <1>a, <1>b DEF RenameFails, Fault, Return
<1>8. CASE Crash
  <2>1. tmp' \in {tmp, Torn, cfg}
    BY <1>8 DEF Crash
  <2>2. /\ cfg' = EmptyConfig /\ UNCHANGED file
        /\ phase' = "down" /\ faults' \in 0 .. MaxFaults
    BY <1>8, <1>a DEF Crash, Fault
  <2>. QED BY <2>1, <2>2, <1>a, <1>b
<1>9. CASE UNCHANGED vars
  BY <1>9, <1>a, <1>b DEF vars
<1>. QED
  BY <1>1, <1>2, <1>3, <1>4, <1>5, <1>6, <1>7, <1>8, <1>9
  DEF Next, Saving, Start, Faulty

\* The invariant holds in every reachable state.
LEMMA Invariance == Spec => []IInv
BY InitIInv, NextIInv, PTL DEF Spec

\* config.Store keeps its types whatever fails: the file is complete or missing
\* at every instant, and what is renamed onto it is what memory holds.
THEOREM TypeCorrect == Spec => []TypeOK
<1>1. IInv => TypeOK
  BY DEF IInv
<1>. QED BY <1>1, Invariance, PTL

\* Station ids are unique in the library and in every profile, and so are the
\* names of speakers and of profiles, in memory and on disk.
THEOREM KeysStayUnique == Spec => []KeysUnique
<1>1. IInv => KeysUnique
  BY DEF IInv
<1>. QED BY <1>1, Invariance, PTL
=============================================================================
