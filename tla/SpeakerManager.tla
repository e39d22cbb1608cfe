--------------------------- MODULE SpeakerManager ---------------------------
(***************************************************************************)
(* speaker.Manager: HTTP requests that play, stop and switch the speaker,  *)
(* the goroutine that runs Start and then handleEvents, and the WebSocket  *)
(* goroutines that report preset buttons.                                  *)
(*                                                                         *)
(* A goroutine's pc names the statement it runs next. Requests hold        *)
(* switchMu for reading in the pcs of Reading and for writing in those of  *)
(* Writing; the events goroutine holds nothing while it plays a preset.    *)
(* The context of Start is not cancelled: that is SIGTERM, which ends the  *)
(* process (Playback has it).                                              *)
(***************************************************************************)
EXTENDS Naturals, Sequences, FiniteSets

CONSTANTS
  Requests,         \* concurrent HTTP requests
  Speakers, First,  \* addresses; the one main made the manager for
  Stations,         \* stations of the library
  Preset,           \* preset slot -> station, or None
  None,             \* nothing: no station, no preset
  Unknown,          \* an id that is not in the library
  Events,           \* the goroutine of Start and handleEvents
  Capacity,         \* of the PresetPressed channel
  MaxSwitches,      \* bound: SetTarget calls
  MaxPresses,       \* bound: button presses
  MaxFaults         \* bound: calls to the speaker that fail

Procs     == Requests \cup {Events}
Slots     == DOMAIN Preset
Listeners == 1 .. MaxSwitches + 1     \* WSListener values, in order of creation
Contexts  == 1 .. MaxSwitches + 1     \* cancellable contexts, one per goroutine

ASSUME ManagerAssumption ==
  /\ First \in Speakers
  /\ Preset \in [Slots -> Stations \cup {None}]
  /\ None \notin Stations /\ Unknown \notin Stations \cup {None}
  /\ Events \notin Requests /\ IsFiniteSet(Requests)
  /\ Capacity \in Nat \ {0}
  /\ MaxSwitches \in Nat /\ MaxPresses \in Nat /\ MaxFaults \in Nat

VARIABLES
  clients,          \* the requests of this behaviour: one client after the other, or several
  target,           \* the address in m.client and m.upnp
  ws,               \* m.ws
  started,          \* m.parentCtx has been set
  wsCancel,         \* m.wsCancel: the context it cancels, 0 when nil
  nowPlaying,       \* m.nowPlaying
  proc,             \* goroutine -> its pc and local variables
  worker,           \* context -> the goroutine ws.Start(context)
  chan,             \* listener -> its PresetPressed channel
  address,          \* listener -> the speaker it dials
  player,           \* speaker -> what it was told last
  made,             \* listeners made
  contexts,         \* contexts made
  received, taken,  \* history: presses read from, and handled for, a listener
  early,            \* history: the pcs of Start at which a switch read what Start sets
  faults            \* failed calls so far

vars == <<clients, target, ws, started, wsCancel, nowPlaying, proc, worker, chan, address,
          player, made, contexts, received, taken, early, faults>>

manager   == <<clients, target, ws, started, wsCancel, nowPlaying, made, contexts, address, early>>
listening == <<worker, chan, received, taken>>

Calls      == {"stopFirst", "setURI", "start"}
Reading    == Calls \cup {"note", "stop", "clear"}
Writing    == {"cancel", "swap", "swapOnly", "listen", "listenOnly", "store", "spawn"}
RequestPCs == {"idle", "rlockPlay", "rlockStop", "wlock", "drain"}
              \cup Reading \cup Writing
EventPCs   == {"new", "context", "spawn", "enter", "wait", "lookup"} \cup Calls \cup {"note"}

\* Local variables: the speaker a command is for, its station, the slot that was
\* pressed, the listener whose channel is read, the context to cancel or start.
Idle == [pc |-> "idle", ip |-> First, station |-> None, slot |-> 0, on |-> 0, ctx |-> 0]

Init ==
  /\ clients \in SUBSET Requests \ {{}}
  /\ target = First /\ ws = 1 /\ started = FALSE /\ wsCancel = 0 /\ nowPlaying = None
  /\ proc = [p \in Procs |-> IF p = Events THEN [Idle EXCEPT !.pc = "new"] ELSE Idle]
  /\ worker = [c \in Contexts |-> [pc |-> "none", ws |-> 0, slot |-> 0, done |-> FALSE]]
  /\ chan = [l \in Listeners |-> <<>>]
  /\ address = [l \in Listeners |-> First]
  /\ player = [s \in Speakers |-> [uri |-> None, playing |-> FALSE]]
  /\ made = 1 /\ contexts = 0
  /\ received = [l \in Listeners |-> <<>>] /\ taken = [l \in Listeners |-> <<>>]
  /\ early = {}
  /\ faults = 0

Goto(p, pc) == proc' = [proc EXCEPT ![p].pc = pc]

\* A goroutine's command is over: a request returns, the event loop goes on.
Done(p) == proc' = [proc EXCEPT ![p] = IF p = Events THEN [@ EXCEPT !.pc = "enter"] ELSE Idle]

-----------------------------------------------------------------------------
(* switchMu, a sync.RWMutex: writers queue for its inner mutex in "wlock"; *)
(* the one that has it keeps new readers out and in "drain" waits for the  *)
(* readers that are in.                                                    *)

Readers == {r \in Requests : proc[r].pc \in Reading}
Writers == {r \in Requests : proc[r].pc \in Writing}
Drain   == {r \in Requests : proc[r].pc = "drain"}

NoWriter == Writers \cup Drain = {}

\* Mutant: SetTarget does not wait for the commands under way.
NotDrained == TRUE

Drained == Readers = {}

-----------------------------------------------------------------------------
(* Requests.                                                               *)

RequestPlay(r, s) ==
  /\ proc[r].pc = "idle"
  /\ proc' = [proc EXCEPT ![r].pc = "rlockPlay", ![r].station = s]
  /\ UNCHANGED <<manager, listening, player, faults>>

RequestStop(r) ==
  /\ proc[r].pc = "idle"
  /\ Goto(r, "rlockStop")
  /\ UNCHANGED <<manager, listening, player, faults>>

RequestSwitch(r, ip) ==
  /\ proc[r].pc = "idle"
  /\ made + Cardinality({q \in Requests : proc[q].pc \in Writing \cup {"wlock", "drain"}})
       <= MaxSwitches
  /\ proc' = [proc EXCEPT ![r].pc = "wlock", ![r].ip = ip]
  /\ UNCHANGED <<manager, listening, player, faults>>

\* Mutant: an unknown station is not answered.
BeginPlayKnown(r) ==
  /\ proc[r].pc = "rlockPlay" /\ NoWriter
  /\ proc[r].station \in Stations
  /\ proc' = [proc EXCEPT ![r].pc = "stopFirst", ![r].ip = target]
  /\ UNCHANGED <<manager, listening, player, faults>>

\* Play takes the lock, looks the station up and calls the m.upnp of that time.
BeginPlay(r) ==
  /\ proc[r].pc = "rlockPlay" /\ NoWriter
  /\ \/ /\ proc[r].station \in Stations
        /\ proc' = [proc EXCEPT ![r].pc = "stopFirst", ![r].ip = target]
     \/ /\ proc[r].station \notin Stations
        /\ Done(r)
  /\ UNCHANGED <<manager, listening, player, faults>>

BeginStop(r) ==
  /\ proc[r].pc = "rlockStop" /\ NoWriter
  /\ proc' = [proc EXCEPT ![r].pc = "stop", ![r].ip = target]
  /\ UNCHANGED <<manager, listening, player, faults>>

-----------------------------------------------------------------------------
(* One UPnP call of goroutine p.                                           *)

AfterCall(pc) == CASE pc = "stopFirst" -> "setURI" [] pc = "setURI" -> "start"
                   [] pc = "start" -> "note"       [] pc = "stop" -> "clear"

Obeyed(p) ==
  [player EXCEPT ![proc[p].ip] =
     CASE proc[p].pc = "setURI" -> [@ EXCEPT !.uri = proc[p].station]
       [] proc[p].pc = "start"  -> [@ EXCEPT !.playing = TRUE]
       [] OTHER                 -> [@ EXCEPT !.playing = FALSE]]

Call(p) ==
  /\ proc[p].pc \in Calls \cup {"stop"}
  /\ player' = Obeyed(p)
  /\ Goto(p, AfterCall(proc[p].pc))
  /\ UNCHANGED <<manager, listening, faults>>

\* The call returns an error, and the speaker may have obeyed it nevertheless.
CallFails(p) ==
  /\ proc[p].pc \in Calls \cup {"stop"}
  /\ faults < MaxFaults
  /\ faults' = faults + 1
  /\ player' \in {player, Obeyed(p)}
  /\ Done(p)
  /\ UNCHANGED <<manager, listening>>

NoteFrame == UNCHANGED <<clients, target, ws, started, wsCancel, made, contexts, address,
                         listening, player, early, faults>>

Note(p) ==
  /\ proc[p].pc = "note"
  /\ nowPlaying' = proc[p].station
  /\ Done(p)
  /\ NoteFrame

Clear(p) ==
  /\ proc[p].pc = "clear"
  /\ nowPlaying' = None
  /\ Done(p)
  /\ NoteFrame

-----------------------------------------------------------------------------
(* SetTarget.                                                              *)

Announce(r) ==
  /\ proc[r].pc = "wlock" /\ NoWriter
  /\ Goto(r, "drain")
  /\ UNCHANGED <<manager, listening, player, faults>>

\* parentCtx and wsCancel are read together; later changes are not seen. Start has set
\* neither at its pc "new", and only the former at "context".
BeginSwitch(r) ==
  /\ proc[r].pc = "drain" /\ Drained
  /\ proc' = [proc EXCEPT ![r].pc = IF started THEN "cancel" ELSE "swapOnly",
                          ![r].ctx = wsCancel]
  /\ early' = early \cup ({"new", "context"} \cap {proc[Events].pc})
  /\ UNCHANGED <<clients, target, ws, started, wsCancel, nowPlaying, made, contexts, address,
                 listening, player, faults>>

Cancel(r) ==
  /\ proc[r].pc = "cancel"
  /\ worker' = [c \in Contexts |->
                  IF c = proc[r].ctx THEN [worker[c] EXCEPT !.done = TRUE] ELSE worker[c]]
  /\ Goto(r, "swap")
  /\ UNCHANGED <<manager, chan, received, taken, player, faults>>

\* Before Start has set the parent context, only the connections are replaced.
Swap(r) ==
  /\ proc[r].pc \in {"swap", "swapOnly"}
  /\ target' = proc[r].ip
  /\ Goto(r, IF proc[r].pc = "swap" THEN "listen" ELSE "listenOnly")
  /\ UNCHANGED <<clients, ws, started, wsCancel, nowPlaying, made, contexts, address, listening,
                 player, early, faults>>

\* A write of its own: the events goroutine reads m.upnp and m.ws without the lock.
SwapListener(r) ==
  /\ proc[r].pc \in {"listen", "listenOnly"}
  /\ made' = made + 1
  /\ ws' = made + 1
  /\ address' = [address EXCEPT ![made + 1] = proc[r].ip]
  /\ IF proc[r].pc = "listen" THEN Goto(r, "store") ELSE Done(r)
  /\ UNCHANGED <<clients, target, started, wsCancel, nowPlaying, contexts, listening, player,
                 early, faults>>

StoreFrame == UNCHANGED <<clients, target, ws, started, made, address, listening, player, early,
                          faults>>

\* Mutant: the new cancel function is not kept.
StoreForgetsCancel(r) ==
  /\ proc[r].pc = "store"
  /\ contexts' = contexts + 1
  /\ proc' = [proc EXCEPT ![r].pc = "spawn", ![r].ctx = contexts + 1]
  /\ nowPlaying' = None
  /\ wsCancel' = wsCancel
  /\ StoreFrame

\* Mutant: nowPlaying survives the switch.
StoreKeepsPlaying(r) ==
  /\ proc[r].pc = "store"
  /\ contexts' = contexts + 1
  /\ proc' = [proc EXCEPT ![r].pc = "spawn", ![r].ctx = contexts + 1]
  /\ nowPlaying' = nowPlaying
  /\ wsCancel' = contexts + 1
  /\ StoreFrame

Store(r) ==
  /\ proc[r].pc = "store"
  /\ contexts' = contexts + 1
  /\ proc' = [proc EXCEPT ![r].pc = "spawn", ![r].ctx = contexts + 1]
  /\ nowPlaying' = None
  /\ wsCancel' = contexts + 1
  /\ StoreFrame

\* go m.ws.Start(wsCtx), with the m.ws of that moment.
Started(c) == worker' = [worker EXCEPT ![c].pc = "dial", ![c].ws = ws]

Spawn(r) ==
  /\ proc[r].pc = "spawn"
  /\ Started(proc[r].ctx)
  /\ Done(r)
  /\ UNCHANGED <<manager, chan, received, taken, player, faults>>

-----------------------------------------------------------------------------
(* Start and handleEvents. The probe of the speaker and the preset sync    *)
(* that may follow it change nothing of the manager's connections.         *)

EventStep(pc) == proc[Events].pc = pc

SetParent ==
  /\ EventStep("new")
  /\ started' = TRUE
  /\ Goto(Events, "context")
  /\ UNCHANGED <<clients, target, ws, wsCancel, nowPlaying, made, contexts, address,
                 listening, player, early, faults>>

\* After the probe has been answered.
MakeContext ==
  /\ EventStep("context")
  /\ contexts' = contexts + 1
  /\ wsCancel' = contexts + 1
  /\ proc' = [proc EXCEPT ![Events].pc = "spawn", ![Events].ctx = contexts + 1]
  /\ UNCHANGED <<clients, target, ws, started, nowPlaying, made, address, listening, player,
                 early, faults>>

SpawnFirst ==
  /\ EventStep("spawn")
  /\ Started(proc[Events].ctx)
  /\ Done(Events)
  /\ UNCHANGED <<manager, chan, received, taken, player, faults>>

\* The select statement evaluates m.ws.PresetPressed once, then blocks on it.
EnterSelect ==
  /\ EventStep("enter")
  /\ proc' = [proc EXCEPT ![Events] = [Idle EXCEPT !.pc = "wait", !.on = ws]]
  /\ UNCHANGED <<manager, listening, player, faults>>

TakePress ==
  LET l == proc[Events].on
  IN  /\ EventStep("wait")
      /\ chan[l] # <<>>
      /\ chan' = [chan EXCEPT ![l] = Tail(@)]
      /\ taken' = [taken EXCEPT ![l] = Append(@, Head(chan[l]))]
      /\ proc' = [proc EXCEPT ![Events].pc = "lookup", ![Events].slot = Head(chan[l])]
      /\ UNCHANGED <<manager, worker, received, player, faults>>

\* Mutant: an unassigned button ends the loop.
LookUpOrReturn ==
  LET s == Preset[proc[Events].slot]
  IN  /\ EventStep("lookup")
      /\ \/ s = None /\ Goto(Events, "idle")
         \/ /\ s # None
            /\ proc' = [proc EXCEPT ![Events].pc = "stopFirst",
                                    ![Events].ip = target, ![Events].station = s]
      /\ UNCHANGED <<manager, listening, player, faults>>

\* playPreset: an unassigned slot is ignored, the call goes to the m.upnp of now.
LookUp ==
  LET s == Preset[proc[Events].slot]
  IN  /\ EventStep("lookup")
      /\ \/ s = None /\ Done(Events)
         \/ /\ s # None
            /\ proc' = [proc EXCEPT ![Events].pc = "stopFirst",
                                    ![Events].ip = target, ![Events].station = s]
      /\ UNCHANGED <<manager, listening, player, faults>>

-----------------------------------------------------------------------------
(* WSListener.Start, connect and read, under context c.                    *)

WorkerFrame == UNCHANGED <<manager, proc, taken, player, faults>>

Connect(c) ==
  /\ worker[c].pc = "dial" /\ ~worker[c].done
  /\ worker' = [worker EXCEPT ![c].pc = "read"]
  /\ UNCHANGED <<chan, received>> /\ WorkerFrame

Disconnect(c) ==
  /\ worker[c].pc = "read"
  /\ worker' = [worker EXCEPT ![c].pc = "dial"]
  /\ UNCHANGED <<chan, received>> /\ WorkerFrame

Total(f) == LET sum[n \in 0 .. MaxSwitches + 1] == IF n = 0 THEN 0 ELSE sum[n - 1] + Len(f[n])
            IN  sum[MaxSwitches + 1]

\* A preset button is pressed on the speaker the goroutine is connected to.
Press(c, slot) ==
  /\ worker[c].pc = "read"
  /\ Total(received) < MaxPresses
  /\ worker' = [worker EXCEPT ![c].pc = "send", ![c].slot = slot]
  /\ received' = [received EXCEPT ![worker[c].ws] = Append(@, slot)]
  /\ UNCHANGED chan /\ WorkerFrame

\* Mutant: a press that finds the channel full is dropped.
SendOrDrop(c) ==
  /\ worker[c].pc = "send"
  /\ chan' = [chan EXCEPT ![worker[c].ws] = IF Len(@) < Capacity
                                            THEN Append(@, worker[c].slot) ELSE @]
  /\ worker' = [worker EXCEPT ![c].pc = "read"]
  /\ UNCHANGED received /\ WorkerFrame

\* Mutant: presses are buffered without a limit.
SendUnbounded(c) ==
  /\ worker[c].pc = "send"
  /\ chan' = [chan EXCEPT ![worker[c].ws] = Append(@, worker[c].slot)]
  /\ worker' = [worker EXCEPT ![c].pc = "read"]
  /\ UNCHANGED received /\ WorkerFrame

Send(c) ==
  /\ worker[c].pc = "send"
  /\ Len(chan[worker[c].ws]) < Capacity
  /\ chan' = [chan EXCEPT ![worker[c].ws] = Append(@, worker[c].slot)]
  /\ worker' = [worker EXCEPT ![c].pc = "read"]
  /\ UNCHANGED received /\ WorkerFrame

\* Mutant: a goroutine blocked on a full channel does not see the cancellation.
EndUnlessSending(c) ==
  /\ worker[c].pc \in {"dial", "read"} /\ worker[c].done
  /\ worker' = [worker EXCEPT ![c].pc = "gone"]
  /\ UNCHANGED <<chan, received>> /\ WorkerFrame

\* A cancelled goroutine returns from wherever it is; a press it held is lost.
End(c) ==
  /\ worker[c].pc \in {"dial", "read", "send"} /\ worker[c].done
  /\ worker' = [worker EXCEPT ![c].pc = "gone"]
  /\ UNCHANGED <<chan, received>> /\ WorkerFrame

-----------------------------------------------------------------------------
Arrive(r) ==
  /\ r \in clients
  /\ \/ \E s \in Stations \cup {Unknown} : RequestPlay(r, s)
     \/ RequestStop(r)
     \/ \E ip \in Speakers : RequestSwitch(r, ip)

Acquire(r)  == BeginPlay(r) \/ BeginStop(r) \/ Announce(r) \/ BeginSwitch(r)
Switch(r)   == Cancel(r) \/ Swap(r) \/ SwapListener(r) \/ Store(r) \/ Spawn(r)
Command(p)  == Call(p) \/ CallFails(p) \/ Note(p) \/ Clear(p)
Loop        == SetParent \/ MakeContext \/ SpawnFirst \/ EnterSelect \/ TakePress \/ LookUp
Listen(c)   == Connect(c) \/ Disconnect(c) \/ (\E slot \in Slots : Press(c, slot))
Deliver(c)  == Send(c) \/ End(c)

Next ==
  \/ \E r \in Requests : Arrive(r) \/ Acquire(r) \/ Switch(r)
  \/ \E p \in Procs : Command(p)
  \/ Loop
  \/ \E c \in Contexts : Listen(c) \/ Deliver(c)

Spec == Init /\ [][Next]_vars

\* Goroutines are scheduled, a call to the speaker ends (the HTTP client has a
\* timeout), sync.RWMutex starves neither readers nor writers. Nothing is promised of
\* buttons, clients and connections.
FairSpec ==
  /\ Spec
  /\ \A r \in Requests : SF_vars(Acquire(r)) /\ WF_vars(Switch(r))
  /\ \A p \in Procs : WF_vars(Command(p))
  /\ WF_vars(Loop)
  /\ \A c \in Contexts : WF_vars(Deliver(c))

-----------------------------------------------------------------------------
(* Properties.                                                             *)

\* The types of the state; no channel holds more presses than it was made for.
TypeOK ==
  /\ clients \subseteq Requests
  /\ target \in Speakers /\ ws \in Listeners
  /\ started \in BOOLEAN /\ wsCancel \in Contexts \cup {0}
  /\ nowPlaying \in Stations \cup {None}
  /\ proc \in [Procs -> [pc : RequestPCs \cup EventPCs, ip : Speakers,
                         station : Stations \cup {None, Unknown},
                         slot : Slots \cup {0}, on : Listeners \cup {0},
                         ctx : Contexts \cup {0}]]
  /\ worker \in [Contexts -> [pc : {"none", "dial", "read", "send", "gone"},
                              ws : Listeners \cup {0}, slot : Slots \cup {0},
                              done : BOOLEAN]]
  /\ chan \in [Listeners -> Seq(Slots)]
  /\ \A l \in Listeners : Len(chan[l]) <= Capacity
  /\ address \in [Listeners -> Speakers]
  /\ player \in [Speakers -> [uri : Stations \cup {None}, playing : BOOLEAN]]
  /\ made \in Listeners /\ contexts \in Contexts \cup {0}
  /\ early \subseteq {"new", "context"}
  /\ faults \in 0 .. MaxFaults

\* A switch never runs into a request: from its first call to the speaker until
\* it has noted the result, a Play or Stop request talks to the manager's target.
SwitchExcludesCommands ==
  \A r \in Requests : proc[r].pc \in Reading => proc[r].ip = target /\ Writers = {}

Live == {c \in Contexts : worker[c].pc \in {"dial", "read", "send"} /\ ~worker[c].done}

\* When Start is over and no switch is under way, the WebSocket goroutine that SetTarget
\* can cancel is live and m.ws is for the target speaker. It listens on m.ws, unless a
\* switch found no parent context; and it is the only one that is live, unless a switch
\* found the parent context and no cancel function yet.
OneListener ==
  proc[Events].pc \notin {"new", "context", "spawn"} /\ Writers = {} =>
    /\ wsCancel \in Live /\ address[ws] = target
    /\ "context" \notin early => Live = {wsCancel}
    /\ "new" \notin early => worker[wsCancel].ws = ws

\* No other goroutine was started on the listener of c.
Sole(c) == \A d \in Contexts \ {c} : worker[d].pc # "none" => worker[d].ws # worker[c].ws

\* The presses a listener read are handled in their order, none twice and none
\* dropped, as long as its goroutine is not cancelled and has the listener for itself.
PressesKept ==
  \A c \in Live : Sole(c) =>
    LET l    == worker[c].ws
        held == IF worker[c].pc = "send" THEN <<worker[c].slot>> ELSE <<>>
    IN  received[l] = taken[l] \o chan[l] \o held

Quiet == \A p \in Procs : proc[p].pc \in {"idle", "enter", "wait"}

NoneTaken == \A l \in Listeners : taken[l] = <<>>

\* When no command runs, Status reports a station only if the target speaker has been
\* told to play that station and is not stopped. So it is while one client uses the
\* bridge, across switches, until a call fails or a button is used: each of them, and a
\* second client, can leave a wrong nowPlaying behind. So can a switch that finds no
\* parent context, which keeps it.
StatusIsTrue ==
  Cardinality(clients) = 1 /\ faults = 0 /\ NoneTaken /\ Quiet /\ "new" \notin early
    /\ nowPlaying # None =>
    player[target].playing /\ player[target].uri = nowPlaying

\* Every request is answered: a switch gets the lock in the end, and a failing
\* speaker, an unknown station or another switch never leaves it held.
RequestsEnd == \A r \in Requests : proc[r].pc # "idle" ~> proc[r].pc = "idle"

\* A cancelled WebSocket goroutine ends, even one blocked on a full channel that
\* nobody reads any more.
CancelledEnd ==
  \A c \in Contexts : worker[c].pc \in {"dial", "read", "send"} /\ worker[c].done
                       ~> worker[c].pc = "gone"

\* The preset buttons pressed before the first switch are all handled in the end (there
\* are MaxPresses at most), unless the speaker is switched first: a failing call or an
\* unassigned button ends nothing.
FirstPressesHandled == received[1] # taken[1] ~> ws # 1 \/ received[1] = taken[1]

\* A preset button pressed on the target speaker is handled in the end.
PressesHandled ==
  \A l \in Listeners, n \in 1 .. MaxPresses :
    ws = l /\ Len(received[l]) >= n ~> ws # l \/ Len(taken[l]) >= n
=============================================================================
