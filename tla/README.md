# soundtouch-radio-bridge: TLA+ specification

The bridge runs on a home server. It keeps a library of internet radio stations
and six presets in `config.yaml`, serves a web page and a JSON API, listens to the
preset buttons of a Bose SoundTouch speaker over a WebSocket, and tells the speaker
over UPnP what to play, if need be through its own stream proxy. This directory
holds TLA+ modules that model it, TLC configurations that check them, and proofs
that TLAPS checks.

## The system

| Component | Code | State | Operations |
|---|---|---|---|
| config store | `internal/config/config.go`, `factory.go` | `cfg` behind `mu`, `config.yaml`, `config.yaml.tmp` | stations, presets, speakers, profiles; `save`; `NewStore`; factory seed |
| speaker manager | `internal/speaker/manager.go` | `client`, `upnp`, `ws` under `switchMu`; `nowPlaying`, `parentCtx`, `wsCancel`, `strategy1` under `mu` | `Start`, `handleEvents`, `Play`, `Stop`, `SetTarget`, `Status`, `SyncPresets` |
| websocket listener | `internal/speaker/ws.go` | connection, channel of 4 presses | `Start`, `connect`, `read` |
| UPnP client | `internal/speaker/upnp.go` | none (the speaker's) | `Play` (three calls), `Stop` |
| REST client, HEAD probe | `client.go`, `probe.go` | none | `SetPreset`, `ProbePresetWrite`, `GetInfo`, `HeadOK` |
| HLS transmuxer | `internal/hls/hls.go` | `seenSet` of 64 segments | `Stream` |
| stream proxy | `internal/api/handlers.go`, `Stream` | none | HEAD, HLS, pass-through |
| HTTP handlers | `internal/api` | singleflight group of discovery | one handler per route |
| discovery | `discover.go` | list of speakers found | `Discover` |
| TuneIn client | `internal/tunein` | none | `Search` |
| bootstrap | `main.go` | none | load, seed, discover, start, shut down |
| web page | `web/*.html` | last answers shown | polls every 3 s and 5 s |

How they interact. Every handler runs in a goroutine of its own and calls the store
(one lock per call, held while the file is written) and the manager. The manager
reads the store when it plays. `Manager.Start` runs in one goroutine for ever as the
event loop; it and every switch start a goroutine that reads buttons from the
speaker and hands them to the loop over a channel. The speaker in turn requests
`/stream/{id}` from the bridge. `Stream` runs in that request's goroutine.

What is hard, and the properties that would show it going wrong:

- *Crash and failed writes.* `save` writes a temporary file and renames it; memory is
  changed first. (`TypeOK`, `KeysUnique`, `StartKeepsFile`, `ImplementsDurable`)
- *Long sequences of legal calls.* Profiles, the working set and two selections are
  related by names and copies. (`SelectionsResolve`, `ProfilesChangeBySaving`,
  `SwitchKeepsEdits`, `OnlySelectionMoves...`, `OnlyAssignDangles`,
  `RejectedIsInvisible`)
- *Handlers that make several calls.* Each call locks the store or the manager for itself,
  and other requests run between them. (`SelectionKept`, `PresetsReachSpeaker`,
  `AnswersAddedStation`, `StartTargetsSelection`)
- *Two locks, and steps without either.* Calls to the speaker take seconds; `Start`,
  `handleEvents` and `playPreset` use the manager's connections without `switchMu`.
  (`SwitchExcludesCommands`, `OneListener`, `StatusIsTrue`)
- *Bounded channels, timeouts and cancellation.* (`PressesKept`, `CancelledEnd`,
  `FirstPressesHandled`, `PressesHandled`, `RequestsEnd`, `RequestsAnswered`,
  `UpstreamReleased`, `ShutdownEnds`, `EndsWhenCancelled`)
- *What was probed or looked up once and is used later.* (`SpeakerCanFetch`,
  `HearsWhatWasAsked`, `PlaysInTheEnd`)
- *A result shared by several requests, and partial failures of one.*
  (`AnswersWhatItHeard`, `ListsEachSpeakerOnce`, `SearchKeepsEveryItem`)
- *A cache of fixed size over a sliding window.* (`InOrder`, `NoneForgotten`,
  `ImplementsFeed`)

`PROJECT.json` lists each hazard at its line, also those no property covers yet.

## Modules

| Module | What it is |
|---|---|
| `ConfigData` | the values of a configuration and the pure functions on them: lookup, filter, `GenerateID`, `Active`, `ActiveProfile` |
| `ConfigStore` | the store as a state machine: every mutating method, `save` in two steps, kill, restart, seed |
| `DurableStore` | abstract: operations that are all or nothing on disk, whatever is stored |
| `MCConfigStore` | instances of `ConfigStore` |
| `ConfigDataProofs` | lemmas about the functions of `ConfigData` |
| `ConfigStoreProofs` | types and unique keys of `ConfigStore` |
| `ConfigSafetyProofs` | its selections, profiles, presets, seeding, and the refinement of `DurableStore` |
| `SpeakerManager` | manager, event loop, listeners and UPnP calls |
| `MCSpeakerManager` | instances of it |
| `SpeakerManagerProofs` | its theorems |
| `Bridge` | `main`, the handlers and the preset sync over `ConfigStore`, and the presets the speakers keep |
| `MCBridge` | instances of it |
| `BridgeProofs` | its theorems, over those of the store |
| `Playback` | from adding a station to hearing it: HEAD probe, profiles, `playbackURL`, the speaker, the stream proxy, shutdown |
| `MCPlayback` | an instance of it |
| `PlaybackProofs` | its theorems |
| `Finding` | TuneIn search and speaker discovery |
| `MCFinding` | an instance of it |
| `FindingProofs` | its theorems |
| `AudioFeed` | abstract: segments in order, none twice |
| `HlsStream` | `hls.Stream` and `seenSet` |
| `MCHlsStream` | instances of it |
| `HlsStreamProofs` | its theorems, among them that it refines `AudioFeed` |

A definition that follows a comment `Mutant:` is not part of the model: it is a
plausible wrong version of the definition below it, used to show that a property
can fail.

### ConfigStore

`cfg` is `s.cfg`, `file` and `tmp` are the two files, `phase` says where the process
is between `NewStore` and a kill. A mutating method holds `s.mu` from its first check
until `save` returns, so nobody sees the store between its assignments: a method is one
action that either changes `cfg` (`Update`) or returns an error (`Reject`), followed by
`WriteTmp` and `Rename`, each of which may fail. `Crash` may come between any two of
them; a kill during the write leaves `Torn` in `tmp`. It is a kill of the process only:
`save` makes no `fsync` (`config.go:192-195`), so that a loss of power may undo a rename or
leave a renamed file without its contents, and nothing here speaks of that. `NewStore` and
`MaybeSeedFromFactory` are separate steps, as in `main`.

Station names are members of a small set with the slug each has; ids are the slug and
its numbered candidates. URLs, logos and the YAML text are left out: no property tells
them apart. A `nil` presets map (`Absent`) is kept apart from an empty one, because
seeding does. Names that trimming changes or empties, and a malformed address, drive the error
returns.

`DurableStore` says what this amounts to: an operation makes something of the memory and
then either puts exactly that on disk or leaves the disk alone, and a start finds what the
disk holds. `ConfigStore` refines it with `memory <- Materialized(cfg)`: a store without
profiles of its own counts as one with the factory's, so that an operation that copies
them and is then rejected is a stutter.

### Bridge

Extends `ConfigStore`; a handler that calls a method of the store takes that method's
action. `proc[p]` is where goroutine `p` (a client's request, or `main`, which becomes
`Manager.Start`) is and its local variables: between two calls of a handler any other
may run. `target` is `m.client`'s address, `Nobody` while `mgr` is nil, `buttons` what each
speaker's own preset buttons hold. Handlers that call a nil manager panic after the store
was changed; `net/http` recovers and only the request is lost, so they finish. The search
for a first speaker finds one of `Found`, or none. A speaker that does not take presets
answers the probe with 404 or with another refusal; the latter counts as Strategy 1, as in
`client.go:98`, and each preset is then refused. `SyncPresets` reads the presets once
and each station when its slot's turn comes, and sends to the target of that moment.

`agreed` and `synced` are history: they say that a selection or a sync ran without another
change in between (`clean`, which `Interfere` clears for every goroutine under way) and
that nothing has happened since of the kind that is known not to keep the promise. What
these are is in the comments of `SelectionKept` and `PresetsReachSpeaker`. Two changes that
do overlap can part the selection from the target, or leave a stale button, for good.

### Playback

An address is three facts: `https://` or not, `.m3u8` at its end or not, and what a GET
returns. Upstreams may change their answers to HEAD and GET. The speaker is modelled
as the README describes it: HEAD first, an error makes it give up, no TLS, plain audio only.
`ProbeStation` and `AddStation` are the two halves of the handler, with the probe's answer
in between; `Play` and `GiveSpeaker` those of `Manager.Play`. Each GET of `/stream/{id}` is a
member of `conns` with its own lookup, upstream request and copy loop; `listener` says that
the speaker still reads it.

The store is `library`, the stations by id, and `profiles`, the library each profile holds.
`LoadProfile` and `SetActiveProfile` put another library in the place of this one, the second
after saving it into the active profile. Ids are unique in a library and not between two,
so the speaker's `/stream/{id}` may lead to another station, or to none, with nothing
deleted. A process starts with any of `Files`, whose stations nobody has probed: neither
`NewStore` nor the factory set asks an upstream anything (`probed` says which stations
`AddStation` has asked about).

`fickle`, `probed`, `asked`, `replaced` and `named` are history. `replaced` says that the id the
speaker was given has been deleted or put to another use since, `named` which addresses it
has led to since: `HearsWhatWasAsked` says that the speaker plays what it was told to play
until then, and afterwards nothing that the id has not led to.

### Finding

A search steps through the items TuneIn returned; each item's link is followed by a
request that may fail. A discovery is one `flight`: `singleflight` lets every further
request wait for it, and it runs on the context of its leader. `entries` is zeroconf's
channel; the deduplication is by address, the first name stays. A browse ends at its timeout or
when its leader leaves, and may leave announcements in the channel: `AnswersWhatItHeard` says
what those who wait get then.

### SpeakerManager

`target` stands for `m.client` and `m.upnp`, `ws` for `m.ws`; a switch writes them in
two steps because the event loop reads them without a lock. `proc[p].pc` is the next
statement of a request or of the event loop, the other fields its local variables.
`worker[c]` is the goroutine `ws.Start(c)` of context `c`, `chan[l]` the channel of
listener `l`, `player[s]` what speaker `s` was told last. `switchMu` is Go's
`sync.RWMutex`: a writer first waits for the writers' mutex (`wlock`), then keeps new
readers out and waits for those inside (`drain`). The three calls of `UPnPClient.Play` are
steps of their own; each may fail, and a call that failed may still have been obeyed.
`EnterSelect` reads `m.ws` once, as Go's `select` evaluates its channel operand once.

The handlers of play, stop and speaker selection are its requests; a selection is
modelled from the call of `SetTarget` on. `clients`, chosen at `Init`, says which requests
a behaviour has: one run covers a single client and several. `main` serves requests while
`Start` runs, so they may come at any of its statements. `early` is history: it says whether a
switch read `parentCtx` and `wsCancel` before `Start` had set the first (`"new"`), or between
the two (`"context"`). After the former `m.ws` may be a listener that no goroutine runs, and
`nowPlaying` is not cleared; after the latter two goroutines may be live, one of which nobody
can cancel. `OneListener` and `StatusIsTrue` except exactly these. The context of `Start`
(`ctx.Done()` in `handleEvents`) is not cancelled here: that is SIGTERM, after which the
process ends (`Playback`).

### HlsStream

Segments are numbered in the order the station publishes them. A fetched playlist is
the interval `cursor .. end`. What kind of station it is is chosen at `Init`: its playlists
list `window` segments, a cache may answer with one up to `lag` segments old, and segments
are raw AAC (`raw`) or MPEG-TS. `order` and
`seen` are the slice and the map of `seenSet`; `add` is modelled with its eviction.
`Mark` comes before the segment is fetched, as in the code, so a segment that fails is
not tried again. `Part` is a segment that breaks off: tolerated by the MPEG-TS demuxer,
returned by `io.Copy` for raw AAC. `heard`, `listed`, `lost` are history.

## Runs

Passing runs:

| Run | Instance | What it shows |
|---|---|---|
| `config_profiles` | 2 profiles and a third name, 1 station, 1 preset | saved profiles change only by saving; a switch saves the old set and shows the new one; only a selection or its own renaming moves the profile shown; a rejected call is invisible; only `AssignPreset` makes a preset dangle |
| `config_restart` | no file or the README's, up to 3 stations of one name, 4 speaker names as typed, 2 addresses, 1 fault | ids stay unique in memory and on disk; the selections always resolve; only `SetActive` moves the active address; a file that exists is never seeded over; refinement of `DurableStore` |
| `bridge` | 2 clients on the home page, on the settings page, or one on each; 2 stations, 1 preset, 2 speakers, one of which takes presets; no file or 2 saved speakers; no fault | selection and target stay together, presets reach the speaker, `AddStation` answers with its own station, whatever requests interleave |
| `bridge_requests` | 1 client with every request, no file or 2 saved speakers, a speaker found or none, 1 fault or kill, fair | types; one goroutine at a time inside `save`; every request and every start ends |
| `playback` | 3 addresses, 1 id, 2 profiles that differ under it, a library of one of them or an empty one, 2 edits, 2 plays, 1 changing upstream, 2 GETs, SIGTERM, fair | the speaker is never given an address the bridge can know it cannot fetch; it hears what it was told to, and does so in the end, unless that is taken from under it; upstreams are released; the process ends |
| `finding` | 2 clients, 2 results of 3 items, 4 announcements of which 3 arrive, channel of 2, fair | a search keeps every item; a discovery lists each address once; however it ends, all who wait get what was heard; every request is answered |
| `manager_switch` | 1 or 2 clients, 2 speakers, 1 switch at any statement of `Start` or of the loop, 1 failing call, fair | a switch waits for requests and every request is answered; afterwards one listener, on the new speaker, but for a switch in the middle of `Start`; `Status` tells the truth to a single client while nothing fails |
| `manager_presses` | capacity 1, an assigned and an unassigned button, 2 presses, 1 switch at any statement, 1 failing call, fair | presses keep their order, none lost or doubled on a live listener; all are handled before the first switch; cancelled goroutines end |
| `hls_playback` | set of 4; playlists of 1, 3, 4, and of 2 that may go back by 1; both formats; 6 segments, fair | order, once, none forgotten, refinement of `AudioFeed`; `Stream` ends when the speaker hangs up |

Runs that TLC refutes, each a disagreement between the code and what the repository
says of it (details and quotations in `PROJECT.json`, "findings"):

| Run | What happens |
|---|---|
| `first_switch` | the first profile switch of a fresh installation drops the edits made before it |
| `buttons_after_switch` | the event loop waits on the old listener's channel: buttons are dead after a switch |
| `restart_target` | after a restart the manager is made for `speakers[0]`, whichever speaker is selected |

Some more disagreements were met and are not run:

- A failed save returns its error and keeps the change in memory (`config.go:134`; the
  design of 2026-05-28, line 172, says the state is unchanged). `Operate` and `GiveUp` of
  `DurableStore` are stated accordingly.
- A switch while `Start` still probes leaves two live listeners, one of which no later
  switch can cancel (`manager.go:102`). The runs take such switches; `OneListener` promises
  that no other goroutine is live only without them.
- A station of the file or of the factory set whose upstream refuses HEAD is sent to the
  speaker as it stands, as nobody has probed it (`manager.go:46-51`). The README, line 156,
  makes the proxy an opt-in per station, so `SpeakerCanFetch` promises HEAD only for stations
  that `AddStation` has probed.
- A profile that is loaded or made active while the speaker plays can put another station
  under the id of its `/stream/{id}` (`handlers.go:178`). `HearsWhatWasAsked` and `PlaysInTheEnd`
  say what still holds.
- With two clients `nowPlaying` can name another station than the speaker plays
  (`manager.go:186`): requests share the read lock. `StatusIsTrue` is about one client.
- A playlist longer than the 64 entries of `seenSet` is played again at every refresh
  (`hls.go:31`). The runs and the theorems are about shorter ones.
- A speaker switch does not stop the old speaker (the design of 2026-05-31, line 186, says
  it does), and sends no presets to the new one (`manager.go:123`).
- A profile switch does not sync the presets (`handlers.go:454`; the design of 2026-05-28,
  line 57, says "Re-syncs whenever a preset assignment changes"); loading a profile does.
- A playlist whose address does not end in `.m3u8` is not transmuxed (`handlers.go:190`; the
  README, line 151, also names the content type).
- From a hand-written file whose `active_speaker` names no speaker, `RemoveSpeaker`
  removes the speaker that `Active()` falls back to (`config.go:267`; the comment at
  `:261-262` says it is protected). The runs start from files whose selection resolves.
- A hand-written file without a `presets` section is seeded at a later start once its
  stations were deleted (`config.go:540`; the design of 2026-05-31, line 212, says only
  truly fresh configurations are). The runs start from files with that section.
- `playPreset` does not take `switchMu`, so a switch can fall between its calls
  (`manager.go:169`; the same design, line 197, says commands under way complete first).
  `SwitchExcludesCommands` is therefore about requests.
- A raw AAC segment that breaks off ends the stream (`hls.go:149`), although a segment
  that cannot be fetched or an MPEG-TS one that breaks off does not.

### Bounds, and why they are enough

`MaxStations`, `MaxFaults`, `MaxSwitches`, `MaxPresses`, `MaxSegments`, `MaxPlays`, `MaxEdits`,
`MaxChanges`, `MaxAnnounced` and the number of `Conns` bound the behaviours; everything else
is a finite set. Three stations of one name make `GenerateID` pass two taken ids; one
station and one preset are enough to tell an edited working set from a saved one. One
fault puts a failure of either step of `save`, or a kill, anywhere in an otherwise
unbounded sequence of operations. Two clients give every pair of requests in every
order of their calls, with `main` as a third goroutine; each client may repeat its requests for
ever. One speaker that takes presets and one that does not, in either order of selection, give a
sync, a failing sync and none. One slot: slots do not interact but in the order of
sending, and `NextSlot` takes them in any order. Two speakers and one switch give every
order of a switch with requests. Capacity 1 with two presses fills the channel and leaves
one in the reader's hand; the code's 4 adds nothing but states. Two plays tell the station played
from the one before, one change lets an upstream fail, recover HEAD or lose it after the probe,
two GETs let an old relay outlive its listener while the next one starts. Two edits between or
before the plays add or delete a station and switch a profile, or switch there and back; one id
is what a deleted station's id comes back as and what two profiles have in common. Three announcements fill a channel of two and repeat
an address. A `seenSet` of 4 over 6 segments evicts twice, also with a playlist that fills the
set. The theorems about the store and about `seenSet` hold for every value of these.

Deadlock is checked except in the HLS runs, whose `Stream` ends, and in `playback`, whose
process ends.

### Fairness

- `Bridge`: strong fairness of each handler's and of `main`'s next step. Go runs the
  goroutines, the store's `sync.RWMutex` starves none of them although others keep taking
  it (hence strong), HTTP calls to speakers have a timeout, and `compose.yaml` says
  `restart: unless-stopped`, so a killed process starts again. Clients owe nothing.
- `Playback`: weak fairness of the handlers' steps (dialling and waiting for headers have
  timeouts), of the speaker's next request, and of `Exit`. None of users, of upstreams that
  stream, stall or break, or of signals.
- `Finding`: weak fairness of the search and of the timer; strong fairness of the end of a
  browse, since `select` chooses at random between a ready timer and a ready channel.
- `SpeakerManager`: weak fairness of every goroutine's next step: HTTP clients have a
  timeout of 10 s, so a call ends. Strong fairness of taking `switchMu`: `sync.RWMutex`
  starves neither side. No fairness of buttons, clients or of the
  WebSocket's dialling and breaking. A cancelled goroutine's `End` is fair: dialling
  uses the context, reading is ended by closing the connection, sending selects on the
  context.
- `HlsStream`: weak fairness of `Stream`'s steps: its client has a timeout of 15 s. The
  station may stop publishing; the speaker may listen for ever.

## Proofs

All proofs are checked by TLAPS for every value of the constants: any number of stations,
profiles, speakers, clients, listeners, connections, faults, any capacity. They use
the named assumptions of the modules (`SlugAssumption`, `StoreAssumption`,
`BridgeAssumption`, `ManagerAssumption`, `PlaybackAssumption`, `FindingAssumption`,
`StreamAssumption`): inputs have the right types, values that stand for "none" are not
inputs, hand-written files have unique keys. Every state invariant, every action property
and both refinements that a passing run checks are proved. Each proof has the same shape:
the property is not inductive alone, so a stronger one is, with one lemma per action.

Some theorems have a hypothesis of their own, because the property is false without it:

| Hypothesis | Says | Without it |
|---|---|---|
| `FilesKept` | a hand-written `config.yaml` has a `presets` section or profiles | a file without them is seeded once its stations are deleted (`config.go:540`) |
| `FilesResolve` | the selections in a hand-written `config.yaml` name entries of it | `RemoveSpeaker` removes the speaker that `Active()` falls back to (`config.go:267`) |
| `window + 2 * lag <= Cap` | a playlist lists no more segments than `seenSet` keeps, less twice what it may go back by (`PlayedInOrder`: `window <= Cap`) | segments are played again (`hls.go:31`) |

The runs satisfy all three. What files the program writes itself satisfies the first two:
that is part of what is proved.

- **`ConfigStoreProofs!TypeCorrect`, `KeysStayUnique`.** `TypeOK` says among other things
  that the file is never torn and that the temporary file about to be renamed is what
  memory holds; `KeysUnique` that ids and names are unique in memory and on disk. Neither
  is inductive alone: that an operation keeps the types needs unique keys and
  `KeysUnique` of a restarted process needs what `TypeOK` says of the file. Their
  conjunction `IInv` is inductive. There is one lemma per operation (`...Sound`: it maps
  a sound configuration to a sound one), and then one step for each step of `save`, kill
  and start. That `GenerateID` finds a free id rests on a pigeonhole argument:
  of `n + 1` numbered candidates one is not among `n` stations (`GenerateIDIsFresh`).
- **`ConfigSafetyProofs`.** All from `IInv`.
  `StoreIsDurable` maps each step to a step of `DurableStore` or a stutter: a rejected
  operation that has copied the factory's profile is a stutter under `Materialized`.
  `NeverSeededOver` needs `SeedInv`: where the factory has a set to seed from, what memory
  and disk hold never looks fresh once the process has tried to seed.
  `SelectionsNeverDangle` is inductive over `IInv`, by an effect lemma for each operation.
  `OnlySetActiveMoves`, `SwitchingSaves` and `OnlySwitchingMoves` need it in turn;
  `RejectedCallsInvisible`, `OnlySavingChangesProfiles` and `OnlyAssignmentDangles` do not.
- **`BridgeProofs`.** `BridgeInv` has four parts. `Stored` is what is known of the store, which
  the steps of the handlers preserve because each is a step of `ConfigStore`. `Control` says
  where goroutines are, that the store is saving exactly while one of them is in `save`,
  that nobody is at work before `main` serves, and that only a manager whose probe was
  answered syncs. `Known` says what a goroutine that nothing has interfered with (`clean`) still
  knows of the library, the list of speakers and the presets it read before: this is what
  makes a read, an unlock and a later use sound. `Sending`, `Shows` and `Agrees` carry the
  promise from the loop of `SyncPresets` to the buttons, and from a selection to the target.
  `BridgeTyped`, `PresetsAreOnTheSpeaker`, `AnswersWhatItAdded` and (under `FilesResolve`)
  `SelectionStaysTarget` follow.
- **`SpeakerManagerProofs`.** `TypeInv` adds to `TypeOK` how `switchMu` is held (`Mutex`:
  readers and the writer exclude each other, there is one writer, and the target of a reader
  stays) and that contexts and listeners are never used up (`Room`). `ManagerTypes` and
  `SwitchesExcludeCommands` follow. `Tracked` says which contexts have a goroutine
  (`Counted`, `Launched`), which are cancelled (`Cut`) and which listener and address `m.ws` is
  (`Aimed`) at each statement of a switch and of `Start`, whatever their order; from it follows
  `OneListenerAtATime`. `Streams` says that what a live goroutine read from a listener of its own is
  what was taken, what waits and what it holds (`NoPressLost`). `Told` says, statement by
  statement of the only client, what the speaker has been told (`StatusIsTrueForOneClient`).
- **`PlaybackProofs`.** `PlaybackInv` adds to the types: `Linked` (the speaker's connection is the
  one handler that has it for a listener), `Led` (what the speaker was told leads to the
  station asked for, at every stage of the handler that serves it, until `replaced`, and always
  to one in `named`) and `Probed` (in the library and in every profile, a station that was probed
  and not marked `needs_proxy` has an upstream that accepts HEAD, or that changed since).
  `NeverSentAstray`, `PlaysWhatItWasTold` and `PlaybackTypes` follow. Nothing is assumed of the
  flags in `Files`.
- **`FindingProofs`.** `FindingInv` says who may wait for a discovery (`Waits`), that
  the channel holds the last announcements (`Queued`), that the list holds the first
  announcement of each address received (`Listed`), and what a search has made of the items
  before the one it is at (`Searches`, with the position in the answer as the number of
  items kept so far). `EachSpeakerListedOnce`, `SearchesLoseNothing`,
  `FindingTypes` and `EverybodyGetsWhatWasHeard` (an action property: `Listed` before the step
  that ends a browse) follow.
- **`HlsStreamProofs!TypeCorrect`.** The slice and the map of `seenSet` hold the same
  segments, none twice, never more than `Cap`. One lemma says what `add` does to each
  half, one that they stay in step.
- **`HlsStreamProofs!NothingForgotten`.** For every station, also one that goes back:
  `Accounted` says that each listed segment was given or is still before the loop.
- **`HlsStreamProofs!PlayedInOrder`.** Assuming that no station's `window` exceeds `Cap`.
  (`InOrder` itself speaks only of stations with `lag = 0`: a first playlist may be
  followed by an older one.) `InOrder` is not inductive: one has to know that nothing
  below the newest entry that the playlist still lists is forgotten. `OInv` adds
  `Recent` (what the latest playlist lists and `Stream` has passed is in the set) and, to
  keep that, `Rising` (entries of the slice are at least as far apart as their places),
  from which an evicted entry is at least `Cap` segments older than the one added and so
  no longer listed.
- **`HlsStreamProofs!StreamImplementsFeed`.** For every station with `window + 2 * lag <= Cap`,
  also one whose playlists go back. `Once` says that a segment that was passed and is
  still `Due` (this playlist or a later one may list it) is in the set, and of each entry of
  the slice (`Behind`) that what was added after it is newer, or older than the playlist it
  came from. An evicted entry is no longer due by counting: `Cap` different segments were
  added after it, but while it is due at most `window + lag - 1` newer and `lag` older
  ones can have been. The bound is sharp: with `window = 2`, `lag = 1` and `Cap = 3` TLC finds
  a replay.

Only model-checked: liveness, since `ENABLED` and fairness are out of the prover's reach.
These are `RequestsEnd`, `CancelledEnd` and `FirstPressesHandled` of `SpeakerManager`,
`RequestsEnd` of `Bridge`, `PlaysInTheEnd`, `UpstreamReleased` and `ShutdownEnds` of
`Playback`, `RequestsAnswered` of `Finding`, `EndsWhenCancelled` of `HlsStream`. Recursive data (slugs, YAML) is
abstracted, so no theorem needs induction over it; recursion is written as functions,
never as `RECURSIVE` operators.

## The plan

Every component of the Go program that keeps state is modelled, and every safety property
that holds of it is proved. What is left:

1. What the liveness properties rest on, as safety: which step each goroutine that is
   not idle is waiting for (for `SpeakerManager`, that some goroutine can always move while
   a request is under way).
2. The hazards of `PROJECT.json` that no property covers.

## Not modelled

- The web pages: JavaScript that shows what the API answers. Their polls can overlap, and an
  older answer can be shown last, until the next poll.
- The two handlers that list speakers and profiles read the selection and the list in two
  calls (`handlers.go:233`, `:359`): they change nothing, and a rename in between
  shows in one answer only. `Status`, `GetInfo`, `ListStations`, `GetPresets` read once.
- SOAP, XML, OPML and YAML text, MPEG-TS bytes, mDNS packets and URL resolution.
- `SetSpeakerIP`, `SetSpeaker` and `Client.Select`, which nothing calls.
- The goroutine that closes a WebSocket on cancellation (it is the reason `End` is possible
  while reading). One is started for every connection and ends only with the
  context, so reconnections accumulate them; it changes no state.
