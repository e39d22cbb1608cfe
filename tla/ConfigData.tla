----------------------------- MODULE ConfigData -----------------------------
(***************************************************************************)
(* The data of internal/config: the Config struct, the factory profiles    *)
(* and the read-only methods of Store, as functions of a configuration.    *)
(* Names, slugs and IPs are atoms; a station is its id and its name.       *)
(***************************************************************************)
EXTENDS Naturals, Sequences, FiniteSets

CONSTANTS
  StationNames,     \* names a client may give a station
  Slug,             \* station name -> its slug; "" when no letter or digit is left
  Suffixed(_, _),   \* Suffixed(s, i): slug s with "-i" appended
  IDs,              \* the ids slugs and suffixes produce
  SpeakerInputs,    \* speaker names as clients send them, "" included
  ProfileInputs,    \* profile names as clients send them, "" included
  Trim(_),          \* strings.TrimSpace on such a name
  IPInputs,         \* addresses a client may send ...
  ValidIPs,         \* ... and those net.ParseIP accepts
  Slots,            \* preset slots (1..6 in the code)
  Absent,           \* a slot with no key in the presets map
  MaxStations,      \* bound: length of the station library
  Factory           \* the profiles embedded from factory_profiles.yaml

None == ""          \* Go's empty string: no name, no station

Candidate(s, i) == IF i = 1 THEN s ELSE Suffixed(s, i)

\* Names as the store compares them: what clients send, trimmed or not.
SpeakerNames == (SpeakerInputs \cup {Trim(n) : n \in SpeakerInputs}) \ {None}
ProfileNames == (ProfileInputs \cup {Trim(n) : n \in ProfileInputs}
                  \cup {Factory[i].name : i \in DOMAIN Factory}) \ {None}

Station == [id : IDs, name : StationNames]
Speaker == [name : SpeakerNames, ip : ValidIPs]
Presets == [Slots -> IDs \cup {None, Absent}]
Profile == [name : ProfileNames, stations : Seq(Station), presets : Presets]
Config  == [speakers : Seq(Speaker), activeSpeaker : SpeakerNames \cup {None},
            stations : Seq(Station), presets : Presets,
            profiles : Seq(Profile), activeProfile : ProfileNames \cup {None}]

NoPresets    == [k \in Slots |-> Absent]
EmptyPresets == [k \in Slots |-> None]
EmptyConfig  == [speakers |-> <<>>, activeSpeaker |-> None,
                 stations |-> <<>>, presets |-> NoPresets,
                 profiles |-> <<>>, activeProfile |-> None]

IDsOf(stations)  == {stations[i].id : i \in DOMAIN stations}
Named(seq, n)    == {i \in DOMAIN seq : seq[i].name = n}
First(S)         == CHOOSE i \in S : \A j \in S : i <= j
Without(seq, i)  == SubSeq(seq, 1, i - 1) \o SubSeq(seq, i + 1, Len(seq))

\* The stations whose id is not id, in their order: the one element of the set.
Filtered(stations, id) ==
  LET keep  == {i \in DOMAIN stations : stations[i].id # id}
      order == {f \in [1 .. Cardinality(keep) -> keep] :
                  \A a, b \in DOMAIN f : a < b => f[a] < f[b]}
  IN  {[k \in DOMAIN f |-> stations[f[k]]] : f \in order}

DistinctIDs(stations) ==
  \A i, j \in DOMAIN stations : stations[i].id = stations[j].id => i = j
DistinctNames(seq) ==
  \A i, j \in DOMAIN seq : seq[i].name = seq[j].name => i = j

\* Mutant: the collision counter stops at its first value.
GenerateIDOnce(name, stations) ==
  IF Slug[name] \in IDsOf(stations) THEN Suffixed(Slug[name], 2) ELSE Slug[name]

\* The first of s, s-2, s-3, ... that no station of the library has.
GenerateID(name, stations) ==
  LET free == {i \in 1 .. Len(stations) + 1 :
                 Candidate(Slug[name], i) \notin IDsOf(stations)}
  IN  Candidate(Slug[name], First(free))

-----------------------------------------------------------------------------
(* The read-only methods of Store.                                         *)

\* Active(): the selected speaker, or speakers[0] when the selection is unset
\* or names no saved speaker. Defined when there is a speaker.
Active(c) ==
  LET chosen == Named(c.speakers, c.activeSpeaker)
  IN  c.speakers[IF c.activeSpeaker # None /\ chosen # {} THEN First(chosen) ELSE 1]

\* Profiles(): the saved profiles, or the factory set when none was saved.
ProfilesOf(c) == IF c.profiles = <<>> THEN Factory ELSE c.profiles

\* ActiveProfile(): the selected profile's name, or that of the first one.
ActiveProfile(c) ==
  IF c.activeProfile # None /\ Named(ProfilesOf(c), c.activeProfile) # {}
  THEN c.activeProfile
  ELSE ProfilesOf(c)[1].name

-----------------------------------------------------------------------------
\* The working set is what the home page shows and a profile is a copy of.
Working(c)     == [stations |-> c.stations, presets |-> c.presets]
Contents(p)    == [stations |-> p.stations, presets |-> p.presets]
Snapshot(c, n) == Contents(ProfilesOf(c)[First(Named(ProfilesOf(c), n))])

\* Preset values that name no station of the same working set or profile.
DanglingIn(w)  == {w.presets[k] : k \in Slots} \ (IDsOf(w.stations) \cup {None, Absent})
Dangling(c)    == DanglingIn(c) \cup
                    UNION {DanglingIn(c.profiles[i]) : i \in DOMAIN c.profiles}

-----------------------------------------------------------------------------
\* What the data is assumed to be like.
ASSUME SlugAssumption ==
  /\ MaxStations \in Nat
  /\ \A n \in StationNames :
       /\ \A i \in 1 .. MaxStations : Candidate(Slug[n], i) \in IDs
       /\ \A i, j \in 1 .. MaxStations :
            Candidate(Slug[n], i) = Candidate(Slug[n], j) => i = j

ASSUME ConstantAssumption ==
  /\ ValidIPs \subseteq IPInputs
  /\ Slots # {}
  /\ Absent \notin IDs \cup {None}
  /\ Trim(None) = None

\* factory_profiles.yaml: well-formed profiles with every slot present.
ASSUME FactoryAssumption ==
  /\ Factory \in Seq(Profile)
  /\ Factory # <<>>
  /\ DistinctNames(Factory)
  /\ \A i \in DOMAIN Factory :
       /\ DistinctIDs(Factory[i].stations)
       /\ DanglingIn(Factory[i]) = {}
       /\ \A k \in Slots : Factory[i].presets[k] # Absent
=============================================================================
