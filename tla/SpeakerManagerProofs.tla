------------------------ MODULE SpeakerManagerProofs ------------------------
(***************************************************************************)
(* Proofs about SpeakerManager, for any number of requests, switches,      *)
(* presses and failures.                                                   *)
(***************************************************************************)
EXTENDS SpeakerManager, FiniteSetTheorems, SequenceTheorems, TLAPS

-----------------------------------------------------------------------------
(* The inductive invariant behind the types and the lock.                  *)

\* Requests that have asked for a switch and not yet replaced the listener.
Ahead   == {"wlock", "drain", "cancel", "swap", "swapOnly", "listen", "listenOnly"}
Pending == {r \in Requests : proc[r].pc \in Ahead}

\* Contexts there may be: one for Start, one for each listener a switch has made.
Spare == made - IF proc[Events].pc \in {"new", "context"} THEN 1 ELSE 0

\* What TypeOK leaves open of the local variables: they are set where they are used.
Typed ==
  /\ received \in [Listeners -> Seq(Slots)] /\ taken \in [Listeners -> Seq(Slots)]
  /\ \A r \in Requests : proc[r].pc \in RequestPCs
  /\ proc[Events].pc \in EventPCs
  /\ proc[Events].pc = "wait" => proc[Events].on \in Listeners
  /\ proc[Events].pc = "lookup" => proc[Events].slot \in Slots
  /\ \A p \in Procs : /\ proc[p].pc \in Calls \cup {"note"} => proc[p].station \in Stations
                      /\ proc[p].pc = "spawn" => proc[p].ctx \in Contexts
  /\ \A c \in Contexts :
       /\ worker[c].pc \in {"dial", "read", "send"} => worker[c].ws \in Listeners
       /\ worker[c].pc = "send" => worker[c].slot \in Slots

\* The lock: one writer, no reader beside it, and the target of a reader stays.
Mutex ==
  /\ \A r \in Requests : proc[r].pc \in Reading => proc[r].ip = target
  /\ Writers # {} => Readers = {}
  /\ \A r, q \in Writers \cup Drain : r = q

\* There is a listener and a context left for whoever is about to make one.
Room ==
  /\ made + Cardinality(Pending) <= MaxSwitches + 1
  /\ contexts <= Spare
  /\ \A r \in Requests : proc[r].pc = "store" => contexts < Spare

ProcType == [pc : RequestPCs \cup EventPCs, ip : Speakers,
             station : Stations \cup {None, Unknown},
             slot : Slots \cup {0}, on : Listeners \cup {0}, ctx : Contexts \cup {0}]

LEMMA Strings ==
  /\ RequestPCs = {"idle", "rlockPlay", "rlockStop", "wlock", "drain", "stopFirst", "setURI",
                   "start", "note", "stop", "clear", "cancel", "swap", "swapOnly", "listen",
                   "listenOnly", "store", "spawn"}
  /\ EventPCs = {"new", "context", "spawn", "enter", "wait", "lookup", "stopFirst", "setURI",
                 "start", "note"}
BY DEF RequestPCs, EventPCs, Reading, Writing, Calls

LEMMA InitTyped == Init => TypeOK /\ Typed /\ Mutex /\ Room
<1>. SUFFICES ASSUME Init PROVE TypeOK /\ Typed /\ Mutex /\ Room
  OBVIOUS
<1>1. /\ \A p \in Procs : proc[p].pc = IF p = Events THEN "new" ELSE "idle"
      /\ Events \in Procs /\ Requests \subseteq Procs /\ Events \notin Requests
  BY ManagerAssumption DEF Init, Idle, Procs
<1>2. TypeOK
  <2>1. proc \in [Procs -> ProcType]
    <3>1. Idle \in ProcType /\ [Idle EXCEPT !.pc = "new"] \in ProcType
      BY Strings, ManagerAssumption DEF Idle, ProcType
    <3>. QED BY <3>1 DEF Init
  <2>2. 1 \in Listeners /\ 0 \in 0 .. MaxFaults
    BY ManagerAssumption DEF Listeners
  <2>3. \A l \in Listeners : chan[l] = <<>> /\ Len(chan[l]) <= Capacity
    BY ManagerAssumption DEF Init
  <2>4. chan \in [Listeners -> Seq(Slots)]
    BY DEF Init
  <2>. QED BY <2>1, <2>2, <2>3, <2>4, ManagerAssumption DEF Init, TypeOK, ProcType
<1>3. Typed
  <2>1. received \in [Listeners -> Seq(Slots)] /\ taken \in [Listeners -> Seq(Slots)]
    BY DEF Init
  <2>2. \A c \in Contexts : worker[c].pc = "none"
    BY DEF Init
  <2>. QED BY <1>1, <2>1, <2>2, Strings DEF Typed, Calls
<1>4. Mutex
  BY <1>1 DEF Mutex, Writers, Readers, Drain, Writing, Reading, Calls
<1>5. Room
  <2>1. Pending = {}
    BY <1>1 DEF Pending, Ahead
  <2>2. Cardinality(Pending) = 0
    BY <2>1, FS_EmptySet
  <2>3. Spare = 0 /\ made = 1 /\ contexts = 0
    <3>1. made = 1 /\ contexts = 0
      BY DEF Init
    <3>2. proc[Events].pc = "new"
      BY <1>1
    <3>. QED BY <3>1, <3>2 DEF Spare
  <2>4. \A r \in Requests : proc[r].pc # "store"
    BY <1>1
  <2>. QED BY <2>2, <2>3, <2>4, ManagerAssumption DEF Room
<1>. QED BY <1>2, <1>3, <1>4, <1>5

WorkerType == [pc : {"none", "dial", "read", "send", "gone"}, ws : Listeners \cup {0},
               slot : Slots \cup {0}, done : BOOLEAN]

LEMMA Workers ==
  ASSUME TypeOK
  PROVE  worker \in [Contexts -> WorkerType] /\ \A c \in Contexts : worker[c] \in WorkerType
BY DEF TypeOK, WorkerType

\* A WebSocket goroutine that is started listens to the current listener.
LEMMA SpawnedWorker ==
  ASSUME TypeOK, NEW c \in Contexts, worker' = [worker EXCEPT ![c].pc = "dial", ![c].ws = ws]
  PROVE  /\ worker' \in [Contexts -> WorkerType]
         /\ worker'[c] = [worker[c] EXCEPT !.pc = "dial", !.ws = ws]
         /\ \A d \in Contexts : d # c => worker'[d] = worker[d]
<1>. DEFINE x == worker[c]
            e == [x EXCEPT !.pc = "dial", !.ws = ws]
<1>1. x \in WorkerType /\ worker \in [Contexts -> WorkerType] /\ ws \in Listeners
  BY Workers DEF TypeOK
<1>2. worker' = [worker EXCEPT ![c] = e]
  BY <1>1
<1>. HIDE DEF x
<1>3. e \in WorkerType
  BY <1>1 DEF WorkerType
<1>. QED BY <1>1, <1>2, <1>3 DEF x

TypeInv == TypeOK /\ Typed /\ Mutex /\ Room

-----------------------------------------------------------------------------
(* What a step does to the goroutines: one of them moves.                  *)

Moves(p, e) ==
  /\ proc' \in [Procs -> ProcType]
  /\ proc'[p] = e
  /\ \A q \in Procs : q # p => proc'[q] = proc[q]

LEMMA ProcStep ==
  ASSUME proc \in [Procs -> ProcType], NEW p \in Procs, NEW e \in ProcType,
         proc' = [proc EXCEPT ![p] = e]
  PROVE  Moves(p, e)
BY DEF Moves

\* The goroutines before a step.
LEMMA Locals ==
  ASSUME TypeOK
  PROVE  /\ proc \in [Procs -> ProcType]
         /\ \A p \in Procs : proc[p] \in ProcType
         /\ Idle \in ProcType /\ target \in Speakers /\ ws \in Listeners
         /\ wsCancel \in Contexts \cup {0}
         /\ Events \in Procs /\ Requests \subseteq Procs /\ Events \notin Requests
<1>1. /\ proc \in [Procs -> ProcType] /\ target \in Speakers /\ ws \in Listeners
      /\ wsCancel \in Contexts \cup {0}
  BY DEF TypeOK, ProcType
<1>2. Idle \in ProcType
  BY ManagerAssumption, Strings DEF Idle, ProcType
<1>. QED BY <1>1, <1>2, ManagerAssumption DEF Procs

LEMMA GotoMoves ==
  ASSUME TypeOK, NEW p \in Procs, NEW pc \in RequestPCs \cup EventPCs, Goto(p, pc)
  PROVE  Moves(p, [proc[p] EXCEPT !.pc = pc])
<1>1. [proc[p] EXCEPT !.pc = pc] \in ProcType
  BY Locals DEF ProcType
<1>. QED BY <1>1, Locals, ProcStep DEF Goto

LEMMA DoneMoves ==
  ASSUME TypeOK, NEW p \in Procs, Done(p)
  PROVE  Moves(p, IF p = Events THEN [proc[p] EXCEPT !.pc = "enter"] ELSE Idle)
<1>. DEFINE e == IF p = Events THEN [proc[p] EXCEPT !.pc = "enter"] ELSE Idle
<1>1. e \in ProcType
  <2>1. proc[p] \in ProcType /\ Idle \in ProcType
    BY Locals
  <2>. QED BY <2>1, Strings DEF ProcType
<1>2. proc' = [proc EXCEPT ![p] = e]
  BY DEF Done
<1>. QED BY <1>1, <1>2, Locals, ProcStep

\* The other ways in which a request moves.
LEMMA RequestMoves ==
  ASSUME TypeOK, NEW r \in Requests
  PROVE  /\ \A s \in Stations \cup {Unknown} : RequestPlay(r, s) =>
              Moves(r, [proc[r] EXCEPT !.pc = "rlockPlay", !.station = s])
         /\ \A ip \in Speakers : RequestSwitch(r, ip) =>
              Moves(r, [proc[r] EXCEPT !.pc = "wlock", !.ip = ip])
         /\ BeginStop(r) => Moves(r, [proc[r] EXCEPT !.pc = "stop", !.ip = target])
         /\ BeginPlay(r) => IF proc[r].station \in Stations
                            THEN Moves(r, [proc[r] EXCEPT !.pc = "stopFirst", !.ip = target])
                            ELSE Moves(r, Idle)
         /\ BeginSwitch(r) =>
              Moves(r, [proc[r] EXCEPT !.pc = IF started THEN "cancel" ELSE "swapOnly",
                                       !.ctx = wsCancel])
<1>. DEFINE x == proc[r]
<1>1. x \in ProcType /\ proc \in [Procs -> ProcType] /\ r \in Procs /\ r # Events
  BY Locals
<1>. HIDE DEF x
<1>8. target \in Speakers /\ wsCancel \in Contexts \cup {0}
  BY Locals
<1>2. ASSUME NEW s \in Stations \cup {Unknown}, RequestPlay(r, s)
      PROVE  Moves(r, [x EXCEPT !.pc = "rlockPlay", !.station = s])
  <2>. DEFINE e == [x EXCEPT !.pc = "rlockPlay", !.station = s]
  <2>1. e \in ProcType
    <3>1. "rlockPlay" \in RequestPCs \cup EventPCs /\ s \in Stations \cup {None, Unknown}
      BY Strings
    <3>. QED BY <1>1, <3>1 DEF ProcType
  <2>2. proc' = [proc EXCEPT ![r] = e]
    BY <1>1, <1>2 DEF RequestPlay, x
  <2>. QED BY <1>1, <2>1, <2>2, ProcStep
<1>3. ASSUME NEW ip \in Speakers, RequestSwitch(r, ip)
      PROVE  Moves(r, [x EXCEPT !.pc = "wlock", !.ip = ip])
  <2>. DEFINE e == [x EXCEPT !.pc = "wlock", !.ip = ip]
  <2>1. e \in ProcType
    BY <1>1, Strings DEF ProcType
  <2>2. proc' = [proc EXCEPT ![r] = e]
    BY <1>1, <1>3 DEF RequestSwitch, x
  <2>. QED BY <1>1, <2>1, <2>2, ProcStep
<1>4. ASSUME BeginStop(r) PROVE Moves(r, [x EXCEPT !.pc = "stop", !.ip = target])
  <2>. DEFINE e == [x EXCEPT !.pc = "stop", !.ip = target]
  <2>1. e \in ProcType
    BY <1>1, <1>8, Strings DEF ProcType
  <2>2. proc' = [proc EXCEPT ![r] = e]
    BY <1>1, <1>4 DEF BeginStop, x
  <2>. QED BY <1>1, <2>1, <2>2, ProcStep
<1>5. ASSUME BeginPlay(r), x.station \in Stations
      PROVE  Moves(r, [x EXCEPT !.pc = "stopFirst", !.ip = target])
  <2>. DEFINE e == [x EXCEPT !.pc = "stopFirst", !.ip = target]
  <2>1. e \in ProcType
    BY <1>1, <1>8, Strings DEF ProcType
  <2>2. proc' = [proc EXCEPT ![r] = e]
    BY <1>1, <1>5 DEF BeginPlay, x
  <2>. QED BY <1>1, <2>1, <2>2, ProcStep
<1>6. ASSUME BeginPlay(r), x.station \notin Stations PROVE Moves(r, Idle)
  BY <1>1, <1>6, DoneMoves DEF BeginPlay, x
<1>7. ASSUME BeginSwitch(r)
      PROVE  Moves(r, [x EXCEPT !.pc = IF started THEN "cancel" ELSE "swapOnly", !.ctx = wsCancel])
  <2>. DEFINE pc == IF started THEN "cancel" ELSE "swapOnly"
              e  == [x EXCEPT !.pc = pc, !.ctx = wsCancel]
  <2>1. e \in ProcType
    <3>1. pc \in RequestPCs
      BY Strings
    <3>. HIDE DEF pc
    <3>. QED BY <1>1, <1>8, <3>1 DEF ProcType
  <2>2. proc' = [proc EXCEPT ![r] = e]
    BY <1>1, <1>7 DEF BeginSwitch, x
  <2>. QED BY <1>1, <2>1, <2>2, ProcStep
<1>. QED BY <1>2, <1>3, <1>4, <1>5, <1>6, <1>7 DEF x

LEMMA StoreMoves ==
  ASSUME TypeOK, NEW r \in Requests, Store(r), contexts + 1 \in Contexts
  PROVE  Moves(r, [proc[r] EXCEPT !.pc = "spawn", !.ctx = contexts + 1])
<1>. DEFINE x == proc[r]
            e == [x EXCEPT !.pc = "spawn", !.ctx = contexts + 1]
<1>1. x \in ProcType /\ proc \in [Procs -> ProcType] /\ r \in Procs
  BY Locals
<1>. HIDE DEF x
<1>2. e \in ProcType
  BY <1>1, Strings DEF ProcType
<1>3. proc' = [proc EXCEPT ![r] = e]
  BY <1>1 DEF Store, x
<1>. QED BY <1>1, <1>2, <1>3, ProcStep DEF x

\* The ways in which the events goroutine moves, before it plays a preset.
LEMMA LoopMoves ==
  ASSUME TypeOK, Typed
  PROVE  /\ MakeContext /\ contexts + 1 \in Contexts =>
              Moves(Events, [proc[Events] EXCEPT !.pc = "spawn", !.ctx = contexts + 1])
         /\ EnterSelect => Moves(Events, [Idle EXCEPT !.pc = "wait", !.on = ws])
         /\ TakePress => /\ Head(chan[proc[Events].on]) \in Slots
                         /\ Moves(Events, [proc[Events] EXCEPT !.pc = "lookup",
                                                   !.slot = Head(chan[proc[Events].on])])
         /\ LookUp =>
              LET s == Preset[proc[Events].slot]
              IN  IF s = None THEN Moves(Events, [proc[Events] EXCEPT !.pc = "enter"])
                  ELSE /\ s \in Stations
                       /\ Moves(Events, [proc[Events] EXCEPT !.pc = "stopFirst",
                                                             !.ip = target, !.station = s])
<1>. DEFINE x == proc[Events]
<1>1. /\ x \in ProcType /\ proc \in [Procs -> ProcType] /\ Events \in Procs
      /\ Idle \in ProcType /\ target \in Speakers /\ ws \in Listeners
  BY Locals
<1>2. /\ x.pc = "wait" => x.on \in Listeners
      /\ x.pc = "lookup" => x.slot \in Slots
  BY DEF Typed
<1>3. ASSUME MakeContext, contexts + 1 \in Contexts
      PROVE  Moves(Events, [x EXCEPT !.pc = "spawn", !.ctx = contexts + 1])
  <2>. DEFINE e == [x EXCEPT !.pc = "spawn", !.ctx = contexts + 1]
  <2>1. proc' = [proc EXCEPT ![Events] = e]
    BY <1>1, <1>3 DEF MakeContext
  <2>. HIDE DEF x
  <2>2. e \in ProcType
    <3>1. "spawn" \in RequestPCs \cup EventPCs /\ contexts + 1 \in Contexts \cup {0}
      BY <1>3, Strings
    <3>. DEFINE n == contexts + 1
    <3>. HIDE DEF n
    <3>2. n \in Contexts \cup {0}
      BY <3>1 DEF n
    <3>. QED BY <1>1, <3>1, <3>2 DEF ProcType, n
  <2>. QED BY <1>1, <2>1, <2>2, ProcStep
<1>4. ASSUME EnterSelect
      PROVE  Moves(Events, [Idle EXCEPT !.pc = "wait", !.on = ws])
  <2>. DEFINE e == [Idle EXCEPT !.pc = "wait", !.on = ws]
  <2>1. proc' = [proc EXCEPT ![Events] = e]
    BY <1>4 DEF EnterSelect
  <2>2. e \in ProcType
    <3>1. Idle \in ProcType /\ "wait" \in RequestPCs \cup EventPCs /\ ws \in Listeners \cup {0}
      BY <1>1, Strings
    <3>. QED BY <3>1 DEF ProcType
  <2>. QED BY <1>1, <2>1, <2>2, ProcStep
<1>5. ASSUME TakePress
      PROVE  /\ Head(chan[x.on]) \in Slots
             /\ Moves(Events, [x EXCEPT !.pc = "lookup", !.slot = Head(chan[x.on])])
  <2>. DEFINE h == Head(chan[x.on])
              e == [x EXCEPT !.pc = "lookup", !.slot = h]
  <2>1. h \in Slots
    <3>1. x.pc = "wait" /\ chan[x.on] # <<>> /\ chan \in [Listeners -> Seq(Slots)]
      BY <1>5 DEF TakePress, EventStep, TypeOK
    <3>2. chan[x.on] \in Seq(Slots)
      BY <1>2, <3>1
    <3>. QED BY <3>1, <3>2, HeadTailProperties
  <2>2. proc' = [proc EXCEPT ![Events] = e]
    BY <1>1, <1>5 DEF TakePress
  <2>. HIDE DEF x, h
  <2>3. e \in ProcType
    <3>1. "lookup" \in RequestPCs \cup EventPCs /\ h \in Slots \cup {0}
      BY <2>1, Strings
    <3>. QED BY <1>1, <3>1 DEF ProcType
  <2>. QED BY <1>1, <2>1, <2>2, <2>3, ProcStep DEF h
<1>6. ASSUME LookUp, Preset[x.slot] # None
      PROVE  /\ Preset[x.slot] \in Stations
             /\ Moves(Events, [x EXCEPT !.pc = "stopFirst", !.ip = target,
                                        !.station = Preset[x.slot]])
  <2>. DEFINE s == Preset[x.slot]
              e == [x EXCEPT !.pc = "stopFirst", !.ip = target, !.station = s]
  <2>1. s \in Stations
    <3>1. x.pc = "lookup"
      BY <1>6 DEF LookUp, EventStep
    <3>. QED BY <1>2, <1>6, <3>1, ManagerAssumption
  <2>2. proc' = [proc EXCEPT ![Events] = e]
    BY <1>1, <1>6 DEF LookUp
  <2>. HIDE DEF x, s
  <2>3. e \in ProcType
    <3>1. "stopFirst" \in RequestPCs \cup EventPCs /\ s \in Stations \cup {None, Unknown}
      BY <2>1, Strings
    <3>. QED BY <1>1, <3>1 DEF ProcType
  <2>. QED BY <1>1, <2>1, <2>2, <2>3, ProcStep DEF s
<1>7. ASSUME LookUp, Preset[x.slot] = None
      PROVE  Moves(Events, [x EXCEPT !.pc = "enter"])
  <2>1. Done(Events)
    BY <1>7 DEF LookUp
  <2>. QED BY <1>1, <2>1, DoneMoves
<1>. QED BY <1>3, <1>4, <1>5, <1>6, <1>7

-----------------------------------------------------------------------------
(* What such a move must satisfy to keep each part of the invariant.       *)

\* e sets the variables that its statement uses.
Fits(p, e) ==
  /\ p \in Requests => e.pc \in RequestPCs
  /\ p = Events => /\ e.pc \in EventPCs
                   /\ e.pc = "wait" => e.on \in Listeners
                   /\ e.pc = "lookup" => e.slot \in Slots
  /\ e.pc \in Calls \cup {"note"} => e.station \in Stations
  /\ e.pc = "spawn" => e.ctx \in Contexts

LEMMA TypedMove ==
  ASSUME TypeOK, Typed, NEW p \in Procs, NEW e, Moves(p, e), Fits(p, e),
         UNCHANGED <<received, worker>>, taken' \in [Listeners -> Seq(Slots)]
  PROVE  Typed'
<1>1. Requests \subseteq Procs /\ Events \in Procs
  BY Locals
<1>. QED BY <1>1 DEF Typed, Moves, Fits

\* p enters and leaves the lock as sync.RWMutex allows.
LEMMA MutexMove ==
  ASSUME TypeOK, Mutex, NEW p \in Procs, NEW e, Moves(p, e), target' = target,
         p \in Requests /\ e.pc \in Reading =>
           e.ip = target /\ (proc[p].pc \in Reading \/ Writers = {}),
         p \in Requests /\ e.pc \in Writing => proc[p].pc \in Writing \/ Readers = {},
         p \in Requests /\ e.pc \in Writing \cup {"drain"} =>
           proc[p].pc \in Writing \cup {"drain"} \/ NoWriter
  PROVE  Mutex'
<1>1. Requests \subseteq Procs /\ Events \in Procs
  BY Locals
<1>2. \A q \in Requests : proc'[q] = IF q = p THEN e ELSE proc[q]
  BY <1>1 DEF Moves
<1>3. \A r \in Requests : proc'[r].pc \in Reading => proc'[r].ip = target'
  BY <1>2 DEF Mutex
<1>4. Writers' # {} => Readers' = {}
  <2>1. Reading \cap Writing = {}
    BY DEF Reading, Writing, Calls
  <2>. QED BY <1>2, <2>1 DEF Mutex, Writers, Readers
<1>5. \A r, q \in Writers' \cup Drain' : r = q
  BY <1>2 DEF Mutex, Writers, Drain, NoWriter
<1>. QED BY <1>3, <1>4, <1>5 DEF Mutex

\* No listener and no context is made.
LEMMA RoomMove ==
  ASSUME TypeOK, Room, NEW p \in Procs, NEW e, Moves(p, e), UNCHANGED <<made, contexts>>,
         p \in Requests /\ e.pc \in Ahead => proc[p].pc \in Ahead,
         p \in Requests => e.pc # "store",
         p = Events => (e.pc \in {"new", "context"} <=> proc[p].pc \in {"new", "context"})
  PROVE  Room'
<1>1. Requests \subseteq Procs /\ Events \in Procs
  BY Locals
<1>2. Spare' = Spare
  BY <1>1 DEF Spare, Moves
<1>3. Pending' \subseteq Pending /\ IsFiniteSet(Pending)
  <2>1. Pending' \subseteq Pending
    BY <1>1 DEF Pending, Moves
  <2>2. IsFiniteSet(Pending)
    BY ManagerAssumption, FS_Subset DEF Pending
  <2>. QED BY <2>1, <2>2
<1>4. /\ Cardinality(Pending') <= Cardinality(Pending)
      /\ Cardinality(Pending) \in Nat /\ Cardinality(Pending') \in Nat
  BY <1>3, FS_Subset, FS_CardinalityType
<1>5. \A r \in Requests : proc'[r].pc = "store" => proc[r].pc = "store"
  BY <1>1 DEF Moves
<1>6. made \in Nat /\ MaxSwitches \in Nat
  BY ManagerAssumption DEF TypeOK, Listeners
<1>7. made' + Cardinality(Pending') <= MaxSwitches + 1
  BY <1>4, <1>6 DEF Room
<1>. QED BY <1>2, <1>5, <1>7 DEF Room

\* The calls to the speaker: what they leave of its state is typed.
LEMMA ObeyedTyped ==
  ASSUME TypeOK, Typed, NEW p \in Procs
  PROVE  Obeyed(p) \in [Speakers -> [uri : Stations \cup {None}, playing : BOOLEAN]]
<1>1. /\ player \in [Speakers -> [uri : Stations \cup {None}, playing : BOOLEAN]]
      /\ proc[p].pc = "setURI" => proc[p].station \in Stations
      /\ proc[p].ip \in Speakers
  BY Locals DEF TypeOK, Typed, ProcType, Calls
<1>. QED BY <1>1 DEF Obeyed

LEMMA RequestKeepsTypes ==
  ASSUME TypeInv, NEW r \in Requests,
         \/ \E s \in Stations \cup {Unknown} : RequestPlay(r, s)
         \/ RequestStop(r)
         \/ BeginPlay(r) \/ BeginStop(r) \/ Announce(r) \/ BeginSwitch(r)
  PROVE  TypeInv'
<1>. DEFINE T == TypeInv'
<1>1. TypeOK /\ Typed /\ Mutex /\ Room /\ r \in Procs /\ r # Events
  BY Locals DEF TypeInv
<1>2. /\ UNCHANGED <<clients, target, ws, started, wsCancel, nowPlaying, made, contexts, address,
                     listening, player, faults>>
      /\ early' \subseteq {"new", "context"}
  <2>1. early \subseteq {"new", "context"}
    BY <1>1 DEF TypeOK
  <2>. QED BY <2>1 DEF RequestPlay, RequestStop, BeginPlay, BeginStop, Announce, BeginSwitch,
                       manager
<1>3. ASSUME NEW e, Moves(r, e), Fits(r, e),
             e.pc \in Reading => e.ip = target /\ (proc[r].pc \in Reading \/ Writers = {}),
             e.pc \in Writing => Readers = {},
             e.pc \in Writing \cup {"drain"} => proc[r].pc = "drain" \/ NoWriter,
             e.pc \in Ahead => proc[r].pc \in Ahead,
             e.pc # "store"
      PROVE  T
  <2>1. TypeOK'
    BY <1>1, <1>2, <1>3 DEF TypeOK, ProcType, Moves, listening
  <2>2. Typed'
    BY <1>1, <1>2, <1>3, TypedMove DEF listening, Typed
  <2>3. Mutex'
    BY <1>1, <1>2, <1>3, MutexMove
  <2>4. Room'
    BY <1>1, <1>2, <1>3, RoomMove
  <2>. QED BY <2>1, <2>2, <2>3, <2>4 DEF TypeInv
<1>. HIDE DEF T
<1>4. proc[r] \in ProcType
  BY <1>1, Locals
<1>5. ASSUME NEW s \in Stations \cup {Unknown}, RequestPlay(r, s) PROVE T
  <2>. DEFINE e == [proc[r] EXCEPT !.pc = "rlockPlay", !.station = s]
  <2>1. Moves(r, e)
    BY <1>1, <1>5, RequestMoves
  <2>2. e.pc = "rlockPlay"
    BY <1>4 DEF ProcType
  <2>. HIDE DEF e
  <2>. QED BY <1>1, <1>3, <2>1, <2>2, Strings DEF Fits, Calls, Reading, Writing, Ahead
<1>6. ASSUME RequestStop(r) PROVE T
  <2>. DEFINE e == [proc[r] EXCEPT !.pc = "rlockStop"]
  <2>1. Moves(r, e)
    BY <1>1, <1>6, GotoMoves, Strings DEF RequestStop
  <2>2. e.pc = "rlockStop"
    BY <1>4 DEF ProcType
  <2>. HIDE DEF e
  <2>. QED BY <1>1, <1>3, <2>1, <2>2, Strings DEF Fits, Calls, Reading, Writing, Ahead
<1>7. ASSUME BeginStop(r) PROVE T
  <2>. DEFINE e == [proc[r] EXCEPT !.pc = "stop", !.ip = target]
  <2>1. Moves(r, e) /\ NoWriter
    BY <1>1, <1>7, RequestMoves DEF BeginStop
  <2>2. e.pc = "stop" /\ e.ip = target
    BY <1>4 DEF ProcType
  <2>. HIDE DEF e
  <2>. QED BY <1>1, <1>3, <2>1, <2>2, Strings DEF Fits, Calls, Reading, Writing, Ahead, NoWriter
<1>8. ASSUME BeginPlay(r) PROVE T
  <2>1. CASE proc[r].station \in Stations
    <3>. DEFINE e == [proc[r] EXCEPT !.pc = "stopFirst", !.ip = target]
    <3>1. Moves(r, e) /\ NoWriter
      BY <1>1, <1>8, <2>1, RequestMoves DEF BeginPlay
    <3>2. e.pc = "stopFirst" /\ e.ip = target /\ e.station \in Stations
      BY <1>4, <2>1 DEF ProcType
    <3>. HIDE DEF e
    <3>. QED BY <1>1, <1>3, <3>1, <3>2, Strings DEF Fits, Calls, Reading, Writing, Ahead, NoWriter
  <2>2. CASE proc[r].station \notin Stations
    <3>1. Moves(r, Idle) /\ Idle.pc = "idle"
      BY <1>1, <1>8, <2>2, RequestMoves DEF Idle
    <3>. QED BY <1>1, <1>3, <3>1, Strings DEF Fits, Calls, Reading, Writing, Ahead
  <2>. QED BY <2>1, <2>2
<1>9. ASSUME Announce(r) PROVE T
  <2>. DEFINE e == [proc[r] EXCEPT !.pc = "drain"]
  <2>1. Moves(r, e) /\ NoWriter /\ proc[r].pc = "wlock"
    BY <1>1, <1>9, GotoMoves, Strings DEF Announce
  <2>2. e.pc = "drain"
    BY <1>4 DEF ProcType
  <2>. HIDE DEF e
  <2>. QED BY <1>1, <1>3, <2>1, <2>2, Strings DEF Fits, Calls, Reading, Writing, Ahead
<1>10. ASSUME BeginSwitch(r) PROVE T
  <2>. DEFINE e == [proc[r] EXCEPT !.pc = IF started THEN "cancel" ELSE "swapOnly", !.ctx = wsCancel]
  <2>1. Moves(r, e) /\ Readers = {} /\ proc[r].pc = "drain"
    BY <1>1, <1>10, RequestMoves DEF BeginSwitch, Drained
  <2>2. e.pc \in {"cancel", "swapOnly"}
    BY <1>4 DEF ProcType
  <2>. HIDE DEF e
  <2>. QED BY <1>1, <1>3, <2>1, <2>2, Strings DEF Fits, Calls, Reading, Writing, Ahead
<1>. QED BY <1>5, <1>6, <1>7, <1>8, <1>9, <1>10 DEF T

\* A switch is only asked for while there is a listener left for it.
LEMMA SwitchRequestKeepsTypes ==
  ASSUME TypeInv, NEW r \in Requests, NEW ip \in Speakers, RequestSwitch(r, ip)
  PROVE  TypeInv'
<1>. DEFINE e == [proc[r] EXCEPT !.pc = "wlock", !.ip = ip]
            W == {q \in Requests : proc[q].pc \in Writing \cup {"wlock", "drain"}}
<1>1. TypeOK /\ Typed /\ Mutex /\ Room /\ r \in Procs /\ r # Events /\ proc[r] \in ProcType
  BY Locals DEF TypeInv
<1>2. UNCHANGED <<manager, listening, player, faults>> /\ proc[r].pc = "idle"
      /\ made + Cardinality(W) <= MaxSwitches
  BY DEF RequestSwitch
<1>3. Moves(r, e) /\ e.pc = "wlock"
  BY <1>1, RequestMoves DEF ProcType
<1>. HIDE DEF e
<1>4. TypeOK'
  BY <1>1, <1>2, <1>3 DEF TypeOK, ProcType, Moves, manager, listening
<1>5. Typed'
  <2>1. Fits(r, e)
    BY <1>1, <1>3, Strings DEF Fits, Calls
  <2>. QED BY <1>1, <1>2, <1>3, <2>1, TypedMove DEF listening, Typed
<1>6. Mutex'
  BY <1>1, <1>2, <1>3, MutexMove DEF manager, Reading, Writing, Calls
<1>7. Room'
  <2>1. Requests \subseteq Procs /\ Events \in Procs
    BY Locals, <1>1
  <2>2. Pending' = Pending \cup {r} /\ Pending \subseteq W
    <3>1. r \notin Pending /\ Pending' = Pending \cup {r}
      BY <1>2, <1>3, <2>1 DEF Pending, Moves, Ahead
    <3>. QED BY <3>1 DEF Pending, Ahead, Writing
  <2>3. IsFiniteSet(W) /\ IsFiniteSet(Pending)
    BY <2>2, ManagerAssumption, FS_Subset
  <2>. HIDE DEF W
  <2>4. /\ Cardinality(Pending) <= Cardinality(W)
        /\ Cardinality(Pending \cup {r}) <= Cardinality(Pending) + 1
        /\ Cardinality(Pending) \in Nat /\ Cardinality(W) \in Nat
        /\ Cardinality(Pending \cup {r}) \in Nat
    BY <2>2, <2>3, FS_Subset, FS_AddElement, FS_CardinalityType
  <2>5. made' + Cardinality(Pending') <= MaxSwitches + 1
    <3>1. made' = made /\ made \in Nat /\ MaxSwitches \in Nat
      BY <1>1, <1>2, ManagerAssumption DEF TypeOK, Listeners, manager
    <3>. QED BY <1>2, <2>2, <2>4, <3>1
  <2>6. Spare' = Spare /\ contexts' = contexts
    BY <1>1, <1>2, <1>3, <2>1 DEF Spare, Moves, manager
  <2>7. \A q \in Requests : proc'[q].pc = "store" => proc[q].pc = "store"
    BY <1>3, <2>1 DEF Moves
  <2>. QED BY <1>1, <2>5, <2>6, <2>7 DEF Room
<1>. QED BY <1>4, <1>5, <1>6, <1>7 DEF TypeInv

\* The calls of a command, and what it notes.
LEMMA CommandKeepsTypes ==
  ASSUME TypeInv, NEW p \in Procs, Command(p)
  PROVE  TypeInv'
<1>. DEFINE T == TypeInv'
            P == [uri : Stations \cup {None}, playing : BOOLEAN]
<1>1. TypeOK /\ Typed /\ Mutex /\ Room /\ proc[p] \in ProcType /\ Idle \in ProcType
  BY Locals DEF TypeInv
<1>2. UNCHANGED <<clients, target, ws, started, wsCancel, made, contexts, address, listening,
                  early>>
  BY DEF Command, Call, CallFails, Note, Clear, NoteFrame, manager
<1>3. /\ proc[p].pc \in Calls \cup {"note", "stop", "clear"}
      /\ nowPlaying' \in Stations \cup {None}
      /\ faults' \in 0 .. MaxFaults
  BY <1>1, ManagerAssumption
     DEF Command, Call, CallFails, Note, Clear, NoteFrame, manager, TypeOK, Typed
<1>4. player' \in [Speakers -> P]
  <2>1. player' \in {player, Obeyed(p)}
    BY DEF Command, Call, CallFails, Note, Clear, NoteFrame
  <2>2. player \in [Speakers -> P]
    BY <1>1 DEF TypeOK
  <2>. QED BY <1>1, <2>1, <2>2, ObeyedTyped
<1>5. ASSUME NEW e, Moves(p, e), Fits(p, e),
             p \in Requests => e.pc \in Reading \cup {"idle"} /\ (e.pc # "idle" => e.ip = proc[p].ip),
             p = Events => e.pc \notin {"new", "context"}
      PROVE  T
  <2>1. TypeOK'
    BY <1>1, <1>2, <1>3, <1>4, <1>5 DEF TypeOK, ProcType, Moves, listening
  <2>2. Typed'
    BY <1>1, <1>2, <1>5, TypedMove DEF listening, Typed
  <2>3. p \in Requests => proc[p].pc \in Reading /\ proc[p].ip = target
    BY <1>1, <1>3 DEF Mutex, Reading
  <2>4. Mutex'
    BY <1>1, <1>2, <1>5, <2>3, MutexMove DEF Reading, Writing, Calls
  <2>5. Room'
    <3>1. p = Events => proc[p].pc \notin {"new", "context"}
      BY <1>3 DEF Calls
    <3>2. p \in Requests => e.pc \notin Ahead /\ e.pc # "store"
      BY <1>5 DEF Ahead, Reading, Calls
    <3>. QED BY <1>1, <1>2, <1>5, <3>1, <3>2, RoomMove
  <2>. QED BY <2>1, <2>2, <2>4, <2>5 DEF TypeInv
<1>. HIDE DEF T
<1>6. ASSUME Done(p) PROVE T
  <2>. DEFINE e == IF p = Events THEN [proc[p] EXCEPT !.pc = "enter"] ELSE Idle
  <2>1. Moves(p, e)
    BY <1>1, <1>6, DoneMoves
  <2>2. e.pc = IF p = Events THEN "enter" ELSE "idle"
    BY <1>1 DEF ProcType, Idle
  <2>. HIDE DEF e
  <2>. QED BY <1>5, <2>1, <2>2, Strings, ManagerAssumption DEF Fits, Calls
<1>7. ASSUME Call(p) PROVE T
  <2>. DEFINE pc == AfterCall(proc[p].pc)
              e  == [proc[p] EXCEPT !.pc = pc]
  <2>1. /\ Goto(p, pc) /\ proc[p].pc \in Calls \cup {"stop"}
        /\ pc \in {"setURI", "start", "note", "clear"}
        /\ proc[p].pc = "stop" <=> pc = "clear"
    BY <1>7 DEF Call, AfterCall, Calls
  <2>2. p = Events => proc[p].pc # "stop"
    BY <1>1, Strings DEF Typed
  <2>3. p \in Requests \/ p = Events
    BY DEF Procs
  <2>. HIDE DEF pc
  <2>4. Moves(p, e)
    BY <1>1, <2>1, GotoMoves, Strings
  <2>5. e.pc = pc /\ e.ip = proc[p].ip /\ e.station = proc[p].station
    BY <1>1 DEF ProcType
  <2>6. proc[p].pc \in Calls => e.station \in Stations
    BY <1>1, <2>5 DEF Typed
  <2>. HIDE DEF e
  <2>7. Fits(p, e)
    BY <2>1, <2>2, <2>3, <2>5, <2>6, Strings DEF Fits, Calls
  <2>. QED BY <1>5, <2>1, <2>4, <2>5, <2>7 DEF Reading, Calls
<1>. QED BY <1>6, <1>7 DEF Command, CallFails, Note, Clear, T

\* SetTarget: the step that makes a listener uses up the room that its request had.
LEMMA SwitchKeepsTypes ==
  ASSUME TypeInv, NEW r \in Requests, Switch(r)
  PROVE  TypeInv'
<1>. DEFINE T == TypeInv'
<1>1. /\ TypeOK /\ Typed /\ Mutex /\ Room /\ r \in Procs /\ r # Events
      /\ proc[r] \in ProcType /\ Idle \in ProcType
      /\ Requests \subseteq Procs /\ Events \in Procs
  BY Locals DEF TypeInv
<1>2. made \in Nat /\ made >= 1 /\ contexts \in Nat /\ MaxSwitches \in Nat
  BY <1>1, ManagerAssumption DEF TypeOK, Listeners, Contexts
<1>3. r \in Writers /\ Readers = {}
  BY <1>1 DEF Switch, Cancel, Swap, SwapListener, Store, Spawn, Writing, Writers, Mutex
\* A writer that goes on, or leaves.
<1>4. ASSUME NEW e, Moves(r, e), e.pc \in Writing \cup {"idle"} PROVE Mutex'
  <2>1. Readers' = {}
    BY <1>1, <1>3, <1>4 DEF Readers, Moves, Reading, Writing, Calls
  <2>2. \A q, t \in Writers' \cup Drain' : q = t
    BY <1>1, <1>3, <1>4 DEF Mutex, Writers, Drain, Moves
  <2>. QED BY <2>1, <2>2 DEF Mutex, Readers
<1>5. ASSUME Cancel(r) PROVE T
  <2>. DEFINE e == [proc[r] EXCEPT !.pc = "swap"]
  <2>1. Moves(r, e) /\ e.pc = "swap" /\ proc[r].pc = "cancel"
    BY <1>1, <1>5, GotoMoves, Strings DEF Cancel, ProcType
  <2>. HIDE DEF e
  <2>2. UNCHANGED <<manager, chan, received, taken, player, faults>>
    BY <1>5 DEF Cancel
  <2>3. /\ worker' \in [Contexts -> WorkerType]
        /\ \A c \in Contexts : /\ worker'[c].pc = worker[c].pc
                               /\ worker'[c].ws = worker[c].ws
                               /\ worker'[c].slot = worker[c].slot
    <3>. DEFINE w(c) == IF c = proc[r].ctx THEN [worker[c] EXCEPT !.done = TRUE] ELSE worker[c]
    <3>1. \A c \in Contexts : worker[c] \in WorkerType
      BY <1>1, Workers
    <3>2. \A c \in Contexts : /\ w(c) \in WorkerType
                              /\ w(c).pc = worker[c].pc /\ w(c).ws = worker[c].ws
                              /\ w(c).slot = worker[c].slot
      BY <3>1 DEF WorkerType
    <3>3. worker' = [c \in Contexts |-> w(c)]
      BY <1>5 DEF Cancel
    <3>. QED BY <3>2, <3>3
  <2>4. TypeOK'
    BY <1>1, <2>1, <2>2, <2>3 DEF TypeOK, ProcType, WorkerType, Moves, manager
  <2>5. Typed'
    BY <1>1, <2>1, <2>2, <2>3, Strings DEF Typed, Moves, Calls
  <2>6. Mutex'
    BY <1>4, <2>1 DEF Writing
  <2>7. Room'
    BY <1>1, <2>1, <2>2, RoomMove DEF manager, Ahead
  <2>. QED BY <2>4, <2>5, <2>6, <2>7 DEF TypeInv, T
<1>6. ASSUME Swap(r) PROVE T
  <2>. DEFINE pc == IF proc[r].pc = "swap" THEN "listen" ELSE "listenOnly"
              e  == [proc[r] EXCEPT !.pc = pc]
  <2>1. /\ pc \in RequestPCs \cup EventPCs /\ pc \in {"listen", "listenOnly"}
        /\ Goto(r, pc) /\ proc[r].pc \in {"swap", "swapOnly"}
    BY <1>6, Strings DEF Swap
  <2>. HIDE DEF pc
  <2>2. Moves(r, e) /\ e.pc = pc
    BY <1>1, <2>1, GotoMoves DEF ProcType
  <2>. HIDE DEF e
  <2>3. /\ UNCHANGED <<clients, ws, started, wsCancel, nowPlaying, made, contexts, address,
                       listening, player, early, faults>>
        /\ target' \in Speakers
    BY <1>1, <1>6 DEF Swap, ProcType
  <2>4. TypeOK'
    BY <1>1, <2>2, <2>3 DEF TypeOK, ProcType, Moves, listening
  <2>5. Typed'
    <3>1. Fits(r, e)
      BY <1>1, <2>1, <2>2, Strings DEF Fits, Calls
    <3>. QED BY <1>1, <2>2, <2>3, <3>1, TypedMove DEF listening, Typed
  <2>6. Mutex'
    BY <1>4, <2>1, <2>2 DEF Writing
  <2>7. Room'
    BY <1>1, <2>1, <2>2, <2>3, RoomMove DEF Ahead
  <2>. QED BY <2>4, <2>5, <2>6, <2>7 DEF TypeInv, T
<1>7. ASSUME SwapListener(r) PROVE T
  <2>. DEFINE e == IF proc[r].pc = "listen" THEN [proc[r] EXCEPT !.pc = "store"] ELSE Idle
  <2>1. /\ Moves(r, e) /\ e.pc \in {"store", "idle"}
        /\ proc[r].pc \in {"listen", "listenOnly"}
    <3>1. proc[r].pc \in {"listen", "listenOnly"}
      BY <1>7 DEF SwapListener
    <3>2. CASE proc[r].pc = "listen"
      BY <1>1, <1>7, <3>2, GotoMoves, Strings DEF SwapListener, ProcType
    <3>3. CASE proc[r].pc # "listen"
      BY <1>1, <1>7, <3>1, <3>3, DoneMoves DEF SwapListener, Idle
    <3>. QED BY <3>1, <3>2, <3>3
  <2>. HIDE DEF e
  <2>2. /\ made' = made + 1 /\ ws' = made + 1
        /\ address' = [address EXCEPT ![made + 1] = proc[r].ip]
        /\ UNCHANGED <<clients, target, started, wsCancel, nowPlaying, contexts, listening,
                       player, early, faults>>
    BY <1>7 DEF SwapListener
  <2>3. /\ r \in Pending /\ Pending' = Pending \ {r} /\ IsFiniteSet(Pending)
    <3>1. IsFiniteSet(Pending)
      BY ManagerAssumption, FS_Subset DEF Pending
    <3>2. r \in Pending /\ Pending' = Pending \ {r}
      BY <1>1, <2>1 DEF Pending, Moves, Ahead
    <3>. QED BY <3>1, <3>2
  <2>4. /\ Cardinality(Pending') = Cardinality(Pending) - 1
        /\ Cardinality(Pending) \in Nat /\ Cardinality(Pending') \in Nat
    BY <2>3, FS_RemoveElement, FS_CardinalityType, FS_Subset
  <2>5. /\ made + 1 \in Listeners
        /\ made' + Cardinality(Pending') <= MaxSwitches + 1
    BY <1>1, <1>2, <2>2, <2>4 DEF Room, Listeners
  <2>6. TypeOK'
    BY <1>1, <2>1, <2>2, <2>5 DEF TypeOK, ProcType, Moves, listening
  <2>7. Typed'
    <3>1. Fits(r, e)
      BY <1>1, <2>1, Strings DEF Fits, Calls
    <3>. QED BY <1>1, <2>1, <2>2, <3>1, TypedMove DEF listening, Typed
  <2>8. Mutex'
    BY <1>4, <2>1 DEF Writing
  <2>9. Room'
    <3>1. Spare' = Spare + 1 /\ Spare \in Int
      BY <1>1, <1>2, <2>1, <2>2 DEF Spare, Moves
    <3>. QED BY <1>1, <1>2, <2>2, <2>5, <3>1 DEF Room
  <2>. QED BY <2>6, <2>7, <2>8, <2>9 DEF TypeInv, T
<1>8. ASSUME Store(r) PROVE T
  <2>. DEFINE e == [proc[r] EXCEPT !.pc = "spawn", !.ctx = contexts + 1]
  <2>1. /\ proc[r].pc = "store" /\ contexts' = contexts + 1 /\ wsCancel' = contexts + 1
        /\ nowPlaying' = None
        /\ UNCHANGED <<clients, target, ws, started, made, address, listening, player, early,
                       faults>>
    BY <1>8 DEF Store, StoreFrame
  <2>2. contexts + 1 \in Contexts /\ contexts + 1 <= Spare
    <3>1. Spare \in Int /\ Spare <= made
      BY <1>2 DEF Spare
    <3>2. contexts < Spare
      BY <1>1, <2>1 DEF Room
    <3>. QED BY <1>1, <1>2, <3>1, <3>2 DEF TypeOK, Listeners, Contexts
  <2>3. Moves(r, e) /\ e.pc = "spawn" /\ e.ctx = contexts + 1
    BY <1>1, <1>8, <2>2, StoreMoves DEF ProcType
  <2>. HIDE DEF e
  <2>4. TypeOK'
    BY <1>1, <2>1, <2>2, <2>3 DEF TypeOK, ProcType, Moves, listening
  <2>5. Typed'
    <3>1. Fits(r, e)
      BY <1>1, <2>2, <2>3, Strings DEF Fits, Calls
    <3>. QED BY <1>1, <2>1, <2>3, <3>1, TypedMove DEF listening, Typed
  <2>6. Mutex'
    BY <1>4, <2>3 DEF Writing
  <2>7. Room'
    <3>1. Spare' = Spare /\ Pending' = Pending
      BY <1>1, <2>1, <2>3 DEF Spare, Pending, Moves, Ahead
    <3>2. \A q \in Requests : proc'[q].pc # "store"
      BY <1>1, <1>3, <2>3 DEF Moves, Mutex, Writers, Writing
    <3>. QED BY <1>1, <2>1, <2>2, <3>1, <3>2 DEF Room
  <2>. QED BY <2>4, <2>5, <2>6, <2>7 DEF TypeInv, T
<1>9. ASSUME Spawn(r) PROVE T
  <2>1. /\ Moves(r, Idle) /\ Idle.pc = "idle" /\ proc[r].pc = "spawn"
        /\ proc[r].ctx \in Contexts
    BY <1>1, <1>9, DoneMoves DEF Spawn, Idle, Typed
  <2>2. /\ UNCHANGED <<manager, chan, received, taken, player, faults>>
        /\ worker' = [worker EXCEPT ![proc[r].ctx].pc = "dial", ![proc[r].ctx].ws = ws]
    BY <1>9 DEF Spawn, Started
  <2>3. TypeOK'
    <3>1. worker' \in [Contexts -> WorkerType]
      BY <1>1, <2>1, <2>2, SpawnedWorker
    <3>. QED BY <1>1, <2>1, <2>2, <3>1 DEF TypeOK, ProcType, WorkerType, Moves, manager
  <2>4. Typed'
    <3>1. /\ \A c \in Contexts : worker'[c].pc = "send" => worker[c].pc = "send"
          /\ \A c \in Contexts : worker'[c].slot = worker[c].slot
          /\ \A c \in Contexts : worker'[c].pc \in {"dial", "read", "send"} =>
               worker'[c].ws \in Listeners
      BY <1>1, <2>1, <2>2 DEF TypeOK, Typed
    <3>. QED BY <1>1, <2>1, <2>2, <3>1, Strings DEF Typed, Moves, Calls
  <2>5. Mutex'
    BY <1>4, <2>1
  <2>6. Room'
    BY <1>1, <2>1, <2>2, RoomMove DEF manager, Ahead
  <2>. QED BY <2>3, <2>4, <2>5, <2>6 DEF TypeInv, T
<1>. QED BY <1>5, <1>6, <1>7, <1>8, <1>9 DEF Switch, T

\* Start and handleEvents: the first context is made while there is one to spare.
LEMMA LoopKeepsTypes ==
  ASSUME TypeInv, Loop
  PROVE  TypeInv'
<1>. DEFINE T == TypeInv'
            x == proc[Events]
<1>1. /\ TypeOK /\ Typed /\ Mutex /\ Room /\ x \in ProcType /\ Idle \in ProcType
      /\ Requests \subseteq Procs /\ Events \in Procs /\ Events \notin Requests
  BY Locals DEF TypeInv
<1>2. made \in Nat /\ made >= 1 /\ contexts \in Nat /\ MaxSwitches \in Nat
  BY <1>1, ManagerAssumption DEF TypeOK, Listeners, Contexts
<1>. HIDE DEF T, x
\* A step that makes nothing.
<1>3. ASSUME NEW e, Moves(Events, e), Fits(Events, e), TypeOK',
             e.pc \in {"new", "context"} <=> x.pc \in {"new", "context"},
             UNCHANGED <<target, made, contexts, received, worker>>,
             taken' \in [Listeners -> Seq(Slots)]
      PROVE  T
  <2>1. Typed'
    BY <1>1, <1>3, TypedMove
  <2>2. Mutex'
    BY <1>1, <1>3, MutexMove
  <2>3. Room'
    BY <1>1, <1>3, RoomMove DEF x
  <2>. QED BY <1>3, <2>1, <2>2, <2>3 DEF TypeInv, T
<1>4. taken \in [Listeners -> Seq(Slots)]
  BY <1>1 DEF Typed
<1>5. ASSUME SetParent PROVE T
  <2>. DEFINE e == [x EXCEPT !.pc = "context"]
  <2>1. Moves(Events, e) /\ e.pc = "context" /\ x.pc = "new"
    BY <1>1, <1>5, GotoMoves, Strings DEF SetParent, EventStep, ProcType, x
  <2>. HIDE DEF e
  <2>2. /\ UNCHANGED <<clients, target, ws, wsCancel, nowPlaying, made, contexts, address,
                       listening, player, early, faults>>
        /\ started' = TRUE
    BY <1>5 DEF SetParent
  <2>3. TypeOK'
    BY <1>1, <2>1, <2>2 DEF TypeOK, ProcType, Moves, listening
  <2>4. Fits(Events, e)
    BY <1>1, <2>1, Strings DEF Fits, Calls
  <2>. QED BY <1>3, <1>4, <2>1, <2>2, <2>3, <2>4 DEF listening
<1>6. ASSUME MakeContext PROVE T
  <2>. DEFINE e == [x EXCEPT !.pc = "spawn", !.ctx = contexts + 1]
  <2>1. /\ x.pc = "context" /\ contexts' = contexts + 1 /\ wsCancel' = contexts + 1
        /\ UNCHANGED <<clients, target, ws, started, nowPlaying, made, address, listening,
                       player, early, faults>>
    BY <1>6 DEF MakeContext, EventStep, x
  <2>2. Spare = made - 1 /\ contexts <= made - 1 /\ contexts + 1 \in Contexts
    <3>1. Spare = made - 1
      BY <2>1 DEF Spare, x
    <3>. QED BY <1>1, <1>2, <3>1 DEF Room, TypeOK, Listeners, Contexts
  <2>3. Moves(Events, e) /\ e.pc = "spawn" /\ e.ctx = contexts + 1
    BY <1>1, <1>6, <2>2, LoopMoves DEF ProcType, x
  <2>. HIDE DEF e
  <2>4. TypeOK'
    BY <1>1, <2>1, <2>2, <2>3 DEF TypeOK, ProcType, Moves, listening
  <2>5. Fits(Events, e)
    BY <1>1, <2>2, <2>3, Strings DEF Fits, Calls
  <2>6. Typed'
    BY <1>1, <1>4, <2>1, <2>3, <2>5, TypedMove DEF listening
  <2>7. Mutex'
    BY <1>1, <2>1, <2>3, MutexMove
  <2>8. Room'
    <3>1. Spare' = made
      BY <1>1, <1>2, <2>1, <2>3 DEF Spare, Moves
    <3>2. \A q \in Requests : proc'[q] = proc[q]
      BY <1>1, <2>3 DEF Moves
    <3>3. Pending' = Pending
      BY <3>2 DEF Pending
    <3>. QED BY <1>1, <1>2, <2>1, <2>2, <3>1, <3>2, <3>3 DEF Room
  <2>. QED BY <2>4, <2>6, <2>7, <2>8 DEF TypeInv, T
<1>7. ASSUME SpawnFirst PROVE T
  <2>. DEFINE c == x.ctx
              e == [x EXCEPT !.pc = "enter"]
  <2>1. /\ Moves(Events, e) /\ e.pc = "enter" /\ x.pc = "spawn" /\ c \in Contexts
    BY <1>1, <1>7, DoneMoves DEF SpawnFirst, EventStep, Typed, ProcType, x
  <2>2. /\ UNCHANGED <<manager, chan, received, taken, player, faults>>
        /\ worker' = [worker EXCEPT ![c].pc = "dial", ![c].ws = ws]
    BY <1>7 DEF SpawnFirst, Started, x
  <2>. HIDE DEF e, c
  <2>3. /\ worker' \in [Contexts -> WorkerType]
        /\ worker'[c] = [worker[c] EXCEPT !.pc = "dial", !.ws = ws]
        /\ \A d \in Contexts : d # c => worker'[d] = worker[d]
    BY <1>1, <2>1, <2>2, SpawnedWorker
  <2>4. TypeOK'
    BY <1>1, <2>1, <2>2, <2>3 DEF TypeOK, ProcType, WorkerType, Moves, manager
  <2>5. Typed'
    <3>1. \A d \in Contexts : /\ worker'[d].pc \in {"dial", "read", "send"} =>
                                   worker'[d].ws \in Listeners
                              /\ worker'[d].pc = "send" => worker'[d].slot \in Slots
      <4>1. worker[c] \in WorkerType /\ ws \in Listeners
        BY <1>1, <2>1, Workers DEF TypeOK
      <4>2. worker'[c].pc = "dial" /\ worker'[c].ws = ws
        BY <2>3, <4>1 DEF WorkerType
      <4>. QED BY <1>1, <2>3, <4>1, <4>2 DEF Typed
    <3>. QED BY <1>1, <2>1, <2>2, <3>1, Strings DEF Typed, Moves, Calls
  <2>6. Mutex'
    BY <1>1, <2>1, <2>2, MutexMove DEF manager
  <2>7. Room'
    BY <1>1, <2>1, <2>2, RoomMove DEF manager, x
  <2>. QED BY <2>4, <2>5, <2>6, <2>7 DEF TypeInv, T
<1>8. ASSUME EnterSelect PROVE T
  <2>. DEFINE e == [Idle EXCEPT !.pc = "wait", !.on = ws]
  <2>1. Moves(Events, e) /\ e.pc = "wait" /\ e.on = ws /\ x.pc = "enter" /\ ws \in Listeners
    BY <1>1, <1>8, LoopMoves, Locals DEF EnterSelect, EventStep, ProcType, x
  <2>2. UNCHANGED <<manager, listening, player, faults>>
    BY <1>8 DEF EnterSelect
  <2>. HIDE DEF e
  <2>3. TypeOK'
    BY <1>1, <2>1, <2>2 DEF TypeOK, ProcType, Moves, manager, listening
  <2>4. Fits(Events, e)
    BY <1>1, <2>1, Strings DEF Fits, Calls
  <2>. QED BY <1>3, <1>4, <2>1, <2>2, <2>3, <2>4 DEF manager, listening
<1>9. ASSUME TakePress PROVE T
  <2>. DEFINE l == x.on
              h == Head(chan[l])
              e == [x EXCEPT !.pc = "lookup", !.slot = h]
  <2>1. /\ Moves(Events, e) /\ e.pc = "lookup" /\ e.slot = h /\ h \in Slots
        /\ x.pc = "wait" /\ l \in Listeners
    BY <1>1, <1>9, LoopMoves DEF TakePress, EventStep, Typed, ProcType, x
  <2>2. /\ chan[l] # <<>> /\ chan' = [chan EXCEPT ![l] = Tail(chan[l])]
        /\ taken' = [taken EXCEPT ![l] = Append(taken[l], h)]
        /\ UNCHANGED <<manager, worker, received, player, faults>>
    BY <1>1, <1>9 DEF TakePress, TypeOK, Typed, x
  <2>. HIDE DEF e, h, l
  <2>3. /\ chan[l] \in Seq(Slots) /\ Len(chan[l]) <= Capacity
        /\ taken[l] \in Seq(Slots)
    BY <1>1, <2>1 DEF TypeOK, Typed
  <2>4. Tail(chan[l]) \in Seq(Slots) /\ Len(Tail(chan[l])) <= Capacity
    BY <2>2, <2>3, ManagerAssumption, HeadTailProperties, LenProperties
  <2>5. Append(taken[l], h) \in Seq(Slots)
    BY <2>1, <2>3, AppendProperties
  <2>6. /\ chan' \in [Listeners -> Seq(Slots)]
        /\ \A k \in Listeners : Len(chan'[k]) <= Capacity
        /\ taken' \in [Listeners -> Seq(Slots)]
    BY <1>1, <1>4, <2>2, <2>4, <2>5 DEF TypeOK
  <2>7. TypeOK'
    BY <1>1, <2>1, <2>2, <2>6 DEF TypeOK, ProcType, Moves, manager
  <2>8. Fits(Events, e)
    BY <1>1, <2>1, Strings DEF Fits, Calls
  <2>. QED BY <1>3, <2>1, <2>2, <2>6, <2>7, <2>8 DEF manager
<1>10. ASSUME LookUp PROVE T
  <2>1. UNCHANGED <<manager, listening, player, faults>> /\ x.pc = "lookup"
    BY <1>10 DEF LookUp, EventStep, x
  <2>2. PICK e : /\ Moves(Events, e)
                 /\ e.pc = "enter" \/ (e.pc = "stopFirst" /\ e.station \in Stations)
    <3>. DEFINE s == Preset[x.slot]
                e == IF s = None THEN [x EXCEPT !.pc = "enter"]
                     ELSE [x EXCEPT !.pc = "stopFirst", !.ip = target, !.station = s]
    <3>1. Moves(Events, e) /\ (s # None => s \in Stations)
      BY <1>1, <1>10, LoopMoves DEF x
    <3>. HIDE DEF s
    <3>2. e.pc = IF s = None THEN "enter" ELSE "stopFirst"
      BY <1>1 DEF ProcType
    <3>3. s # None => e.station = s
      BY <1>1 DEF ProcType
    <3>. HIDE DEF e
    <3>4. e.pc = "enter" \/ (e.pc = "stopFirst" /\ e.station \in Stations)
      BY <3>1, <3>2, <3>3
    <3>. QED BY <3>1, <3>4
  <2>3. TypeOK'
    BY <1>1, <2>1, <2>2 DEF TypeOK, ProcType, Moves, manager, listening
  <2>4. Fits(Events, e)
    BY <1>1, <2>2, Strings DEF Fits, Calls
  <2>. QED BY <1>3, <1>4, <2>1, <2>2, <2>3, <2>4 DEF manager, listening
<1>. QED BY <1>5, <1>6, <1>7, <1>8, <1>9, <1>10 DEF Loop, T

\* The WebSocket goroutines touch the presses only.
LEMMA ListeningKeepsTypes ==
  ASSUME TypeInv, NEW c \in Contexts, Listen(c) \/ Deliver(c)
  PROVE  TypeInv'
<1>. DEFINE x == worker[c]
            y == worker'[c]
            l == x.ws
<1>1. /\ TypeOK /\ Typed /\ Mutex /\ Room /\ x \in WorkerType
      /\ worker \in [Contexts -> WorkerType]
  BY Workers DEF TypeInv
<1>2. UNCHANGED <<manager, proc, taken, player, faults>>
  BY DEF Listen, Deliver, Connect, Disconnect, Press, Send, End, WorkerFrame
<1>3. /\ x.pc \in {"read", "send"} => l \in Listeners
      /\ x.pc = "send" => x.slot \in Slots
  BY <1>1 DEF Typed
<1>4. /\ worker' \in [Contexts -> WorkerType]
      /\ \A d \in Contexts : d # c => worker'[d] = worker[d]
      /\ y.ws = l /\ x.pc # "none"
      /\ y.pc \in {"dial", "read", "send"} => x.pc \in {"dial", "read", "send"}
      /\ y.pc = "send" => y.slot \in Slots
  <2>1. ASSUME Connect(c) \/ Disconnect(c) \/ Send(c) \/ End(c)
        PROVE  /\ worker' = [worker EXCEPT ![c] = [x EXCEPT !.pc = y.pc]]
               /\ y.pc \in {"read", "dial", "gone"} /\ x.pc \in {"dial", "read", "send"}
               /\ y = [x EXCEPT !.pc = y.pc]
    <3>1. CASE Connect(c)
      BY <1>1, <3>1 DEF Connect, WorkerType
    <3>2. CASE Disconnect(c)
      BY <1>1, <3>2 DEF Disconnect, WorkerType
    <3>3. CASE Send(c)
      BY <1>1, <3>3 DEF Send, WorkerType
    <3>4. CASE End(c)
      BY <1>1, <3>4 DEF End, WorkerType
    <3>. QED BY <2>1, <3>1, <3>2, <3>3, <3>4
  <2>2. ASSUME NEW slot \in Slots, Press(c, slot)
        PROVE  /\ worker' = [worker EXCEPT ![c] = [x EXCEPT !.pc = "send", !.slot = slot]]
               /\ y = [x EXCEPT !.pc = "send", !.slot = slot] /\ x.pc = "read"
    BY <1>1, <2>2 DEF Press, WorkerType
  <2>. HIDE DEF x, y
  <2>3. CASE Connect(c) \/ Disconnect(c) \/ Send(c) \/ End(c)
    <3>. DEFINE e == [x EXCEPT !.pc = y.pc]
    <3>1. /\ worker' = [worker EXCEPT ![c] = e] /\ y = e
          /\ y.pc \in {"read", "dial", "gone"} /\ x.pc \in {"dial", "read", "send"}
      BY <2>1, <2>3
    <3>2. e \in WorkerType /\ e.ws = x.ws
      BY <1>1, <3>1 DEF WorkerType
    <3>. HIDE DEF e
    <3>. QED BY <1>1, <3>1, <3>2 DEF l
  <2>4. ASSUME NEW slot \in Slots, Press(c, slot)
        PROVE  /\ worker' \in [Contexts -> WorkerType]
               /\ \A d \in Contexts : d # c => worker'[d] = worker[d]
               /\ y.ws = l /\ x.pc = "read" /\ y.slot \in Slots
    <3>. DEFINE e == [x EXCEPT !.pc = "send", !.slot = slot]
    <3>1. worker' = [worker EXCEPT ![c] = e] /\ y = e /\ x.pc = "read"
      BY <2>2, <2>4
    <3>2. e \in WorkerType /\ e.ws = x.ws /\ e.slot = slot
      BY <1>1, <3>1 DEF WorkerType
    <3>. HIDE DEF e
    <3>. QED BY <1>1, <3>1, <3>2 DEF l
  <2>. QED BY <2>3, <2>4 DEF Listen, Deliver
<1>5. received' \in [Listeners -> Seq(Slots)]
  <2>1. ASSUME NEW slot \in Slots, Press(c, slot) PROVE received' \in [Listeners -> Seq(Slots)]
    <3>1. l \in Listeners /\ received \in [Listeners -> Seq(Slots)]
          /\ received' = [received EXCEPT ![l] = Append(received[l], slot)]
      BY <1>1, <1>3, <2>1 DEF Press, Typed
    <3>2. Append(received[l], slot) \in Seq(Slots)
      BY <3>1, AppendProperties
    <3>. QED BY <3>1, <3>2
  <2>. QED BY <1>1, <2>1 DEF Listen, Deliver, Connect, Disconnect, Send, End, Typed
<1>6. chan' \in [Listeners -> Seq(Slots)] /\ \A k \in Listeners : Len(chan'[k]) <= Capacity
  <2>1. ASSUME Send(c)
        PROVE  chan' \in [Listeners -> Seq(Slots)] /\ \A k \in Listeners : Len(chan'[k]) <= Capacity
    <3>1. /\ l \in Listeners /\ x.slot \in Slots /\ chan \in [Listeners -> Seq(Slots)]
          /\ Len(chan[l]) < Capacity /\ \A k \in Listeners : Len(chan[k]) <= Capacity
          /\ chan' = [chan EXCEPT ![l] = Append(chan[l], x.slot)]
      BY <1>1, <1>3, <2>1 DEF Send, TypeOK
    <3>. HIDE DEF x, l
    <3>2. /\ Append(chan[l], x.slot) \in Seq(Slots)
          /\ Len(Append(chan[l], x.slot)) <= Capacity
      BY <3>1, ManagerAssumption, AppendProperties, LenProperties
    <3>. QED BY <3>1, <3>2
  <2>. QED BY <1>1, <2>1 DEF Listen, Deliver, Connect, Disconnect, Press, End, TypeOK
<1>7. TypeOK'
  BY <1>1, <1>2, <1>4, <1>6 DEF TypeOK, WorkerType, manager
<1>8. Typed'
  <2>1. \A d \in Contexts : /\ worker'[d].pc \in {"dial", "read", "send"} =>
                                 worker'[d].ws \in Listeners
                            /\ worker'[d].pc = "send" => worker'[d].slot \in Slots
    BY <1>1, <1>4 DEF Typed
  <2>. QED BY <1>1, <1>2, <1>5, <2>1 DEF Typed
<1>9. Mutex' /\ Room'
  BY <1>1, <1>2 DEF Mutex, Room, Readers, Writers, Drain, Pending, Spare, manager
<1>. QED BY <1>7, <1>8, <1>9 DEF TypeInv

LEMMA TypeStep == TypeInv /\ [Next]_vars => TypeInv'
<1>. SUFFICES ASSUME TypeInv, [Next]_vars PROVE TypeInv'
  OBVIOUS
<1>1. CASE UNCHANGED vars
  BY <1>1 DEF vars, TypeInv, TypeOK, Typed, Mutex, Room, Readers, Writers, Drain, Pending, Spare
<1>2. ASSUME NEW r \in Requests, Arrive(r) PROVE TypeInv'
  BY <1>2, RequestKeepsTypes, SwitchRequestKeepsTypes DEF Arrive
<1>3. ASSUME NEW r \in Requests, Acquire(r) PROVE TypeInv'
  BY <1>3, RequestKeepsTypes DEF Acquire
<1>4. ASSUME NEW r \in Requests, Switch(r) PROVE TypeInv'
  BY <1>4, SwitchKeepsTypes
<1>5. ASSUME NEW p \in Procs, Command(p) PROVE TypeInv'
  BY <1>5, CommandKeepsTypes
<1>6. ASSUME NEW c \in Contexts, Listen(c) \/ Deliver(c) PROVE TypeInv'
  BY <1>6, ListeningKeepsTypes
<1>. QED BY <1>1, <1>2, <1>3, <1>4, <1>5, <1>6, LoopKeepsTypes DEF Next

LEMMA TypeInvariance == Spec => []TypeInv
<1>1. Init => TypeInv
  BY InitTyped DEF TypeInv
<1>. QED BY <1>1, TypeStep, PTL DEF Spec

\* Whatever switches, presses and failing calls happen, the state is well typed: no
\* channel of a listener (ws.go) holds more presses than it was made for, and
\* SetTarget never makes a listener or a context that is not there.
THEOREM ManagerTypes == Spec => []TypeOK
<1>1. TypeInv => TypeOK
  BY DEF TypeInv
<1>. QED BY <1>1, TypeInvariance, PTL

\* From its first call to the speaker until it has noted the result, a request of Play
\* or Stop (manager.go) talks to the manager's target, and no SetTarget is under way.
THEOREM SwitchesExcludeCommands == Spec => []SwitchExcludesCommands
<1>1. TypeInv => SwitchExcludesCommands
  <2>. SUFFICES ASSUME TypeInv, NEW r \in Requests, proc[r].pc \in Reading
                PROVE  proc[r].ip = target /\ Writers = {}
    BY DEF SwitchExcludesCommands
  <2>1. r \in Readers /\ Mutex
    BY DEF Readers, TypeInv
  <2>. QED BY <2>1 DEF Mutex
<1>. QED BY <1>1, TypeInvariance, PTL

-----------------------------------------------------------------------------
(* One listener: which contexts are made, which goroutines they have, which *)
(* are cancelled, and on what they listen.                                 *)

Alive(c)  == worker[c].pc \in {"dial", "read", "send"} /\ ~worker[c].done
Cancelled == {"swap", "listen", "store"}     \* of SetTarget, from its cancel to its new context
Switching == Cancelled \cup {"cancel", "spawn"}

\* The newest context is the one that can be cancelled; the others that there may be have
\* no goroutine.
Counted ==
  /\ wsCancel = contexts
  /\ started <=> proc[Events].pc # "new"
  /\ proc[Events].pc \notin {"new", "context"} => contexts # 0
  /\ \A c \in Contexts : c > contexts => worker[c].pc = "none" /\ ~worker[c].done

\* A context that is made has a goroutine, or exactly one that is about to start it.
Launched ==
  /\ \A p \in Procs : proc[p].pc = "spawn" =>
       proc[p].ctx <= contexts /\ worker[proc[p].ctx].pc = "none"
  /\ \A p, q \in Procs :
       proc[p].pc = "spawn" /\ proc[q].pc = "spawn" /\ proc[p].ctx = proc[q].ctx => p = q
  /\ \A c \in Contexts : c <= contexts /\ worker[c].pc = "none" =>
       \E p \in Procs : proc[p].pc = "spawn" /\ proc[p].ctx = c

\* The newest context is cancelled by a switch under way only. The older ones are all
\* cancelled, unless a switch found the parent context and no cancel function yet.
Cut ==
  /\ \A c \in Contexts : worker[c].pc = "gone" => worker[c].done
  /\ contexts # 0 /\ worker[contexts].done => \E r \in Requests : proc[r].pc \in Cancelled
  /\ \A r \in Requests : proc[r].pc = "cancel" => proc[r].ctx <= contexts
  /\ "context" \notin early =>
       /\ \A c \in Contexts : c < contexts => worker[c].done
       /\ proc[Events].pc \in {"new", "context"} =>
            contexts = 0 /\ \A r \in Requests : proc[r].pc \notin Switching
       /\ \A r \in Requests : proc[r].pc = "cancel" => proc[r].ctx = contexts
       /\ \A r \in Requests : proc[r].pc \in Cancelled => worker[contexts].done

\* m.ws is for the target; the goroutine of the newest context listens on it, unless a
\* switch found no parent context.
Aimed ==
  /\ \A r \in Requests : proc[r].pc \in {"listen", "listenOnly"} => target = proc[r].ip
  /\ (\A r \in Requests : proc[r].pc \notin {"listen", "listenOnly"}) => address[ws] = target
  /\ "new" \notin early =>
       /\ \A r \in Requests : proc[r].pc \notin {"swapOnly", "listenOnly"}
       /\ (\A r \in Requests : proc[r].pc # "store")
            /\ contexts # 0 /\ worker[contexts].pc # "none" => worker[contexts].ws = ws

Tracked == Counted /\ Launched /\ Cut /\ Aimed

LEMMA TrackedInit == Init => Tracked
<1>. SUFFICES ASSUME Init PROVE Tracked
  OBVIOUS
<1>1. /\ Requests \subseteq Procs /\ Events \in Procs /\ Events \notin Requests
      /\ \A r \in Requests : proc[r] = Idle
      /\ proc[Events] = [Idle EXCEPT !.pc = "new"]
  BY ManagerAssumption DEF Init, Procs
<1>2. /\ proc[Events].pc = "new" /\ \A p \in Procs : proc[p].pc \in {"new", "idle"}
      /\ \A r \in Requests : proc[r].pc = "idle"
  BY <1>1 DEF Idle, Procs
<1>3. /\ 1 \in Listeners /\ \A c \in Contexts : ~(c <= 0) /\ ~(c < 0)
      /\ \A c \in Contexts : worker[c].pc = "none" /\ ~worker[c].done
      /\ \A l \in Listeners : address[l] = First
      /\ ws = 1 /\ contexts = 0 /\ wsCancel = 0 /\ started = FALSE /\ target = First
  BY ManagerAssumption DEF Init, Listeners, Contexts
<1>4. Counted
  BY <1>2, <1>3 DEF Counted
<1>5. Launched
  BY <1>2, <1>3 DEF Launched
<1>6. Cut
  BY <1>2, <1>3 DEF Cut, Cancelled, Switching
<1>7. Aimed
  BY <1>2, <1>3 DEF Aimed
<1>. QED BY <1>4, <1>5, <1>6, <1>7 DEF Tracked

\* The numbers of contexts and listeners.
LEMMA Numbers ==
  ASSUME TypeInv
  PROVE  /\ contexts \in Nat /\ made \in Nat /\ Contexts \subseteq Nat /\ 0 \notin Contexts
         /\ contexts # 0 => contexts \in Contexts
         /\ contexts + 1 \in Nat /\ ~(contexts + 1 <= contexts) /\ contexts + 1 # 0
         /\ \A c \in Contexts : c > contexts <=> ~(c <= contexts)
         /\ \A c \in Contexts : c < contexts <=> c <= contexts /\ c # contexts
         /\ \A c \in Contexts : c <= contexts + 1 <=> c <= contexts \/ c = contexts + 1
         /\ \A c \in Contexts : c < contexts + 1 <=> c <= contexts
         /\ \A c \in Contexts \cup {0} : c <= contexts => c <= contexts + 1
BY ManagerAssumption DEF TypeInv, TypeOK, Contexts, Listeners

\* A step that makes no context and no listener, and starts or cancels no goroutine.
LEMMA OutsideSwitch ==
  ASSUME TypeInv, Tracked, NEW p \in Procs, NEW e, Moves(p, e),
         UNCHANGED <<target, ws, started, wsCancel, contexts, address, worker>>,
         early \subseteq early',
         p \in Requests => /\ proc[p].pc \notin Writing
                           /\ e.pc \notin Writing \ {"cancel", "swapOnly"}
                           /\ e.pc = "cancel" => /\ e.ctx = wsCancel /\ started
                                                 /\ proc[Events].pc = "context" => "context" \in early'
                           /\ e.pc = "swapOnly" => "new" \in early',
         p = Events => proc[p].pc \notin {"new", "context", "spawn"}
                       /\ e.pc \notin {"new", "context", "spawn"}
  PROVE  Tracked'
<1>1. /\ Requests \subseteq Procs /\ Events \in Procs /\ Events \notin Requests
      /\ p = Events \/ p \in Requests
  BY Locals DEF TypeInv, Procs
<1>2. /\ \A q \in Procs : proc'[q] = IF q = p THEN e ELSE proc[q]
      /\ \A q \in Requests : proc'[q] = IF q = p THEN e ELSE proc[q]
      /\ proc'[Events] = IF p = Events THEN e ELSE proc[Events]
  BY <1>1 DEF Moves
<1>3. /\ proc'[Events].pc = "new" <=> proc[Events].pc = "new"
      /\ proc'[Events].pc \in {"new", "context"} <=> proc[Events].pc \in {"new", "context"}
      /\ proc'[Events].pc = "context" <=> proc[Events].pc = "context"
  BY <1>2
<1>4. /\ \A q \in Requests : proc'[q].pc \in Cancelled \cup {"spawn"} <=> proc[q].pc \in Cancelled \cup {"spawn"}
      /\ \A q \in Requests : proc'[q].pc \in {"listen", "listenOnly"} \/ proc[q].pc \in {"listen", "listenOnly"}
                               => proc'[q] = proc[q]
      /\ \A q \in Requests : proc'[q].pc = "store" <=> proc[q].pc = "store"
      /\ \A q \in Requests : proc'[q].pc \in Cancelled <=> proc[q].pc \in Cancelled
      /\ \A q \in Procs : proc'[q].pc = "spawn" \/ proc[q].pc = "spawn" => proc'[q] = proc[q]
  BY <1>1, <1>2 DEF Writing, Cancelled
<1>5. Counted'
  BY <1>3 DEF Tracked, Counted
<1>6. Launched'
  BY <1>4 DEF Tracked, Launched
<1>7. Cut'
  <2>1. \A q \in Requests : proc'[q].pc = "cancel" => proc'[q].ctx = contexts \/ proc'[q] = proc[q]
    BY <1>2 DEF Tracked, Counted
  <2>2. contexts <= contexts
    BY Numbers
  <2>3. \A q \in Requests : proc'[q].pc = "cancel" => proc'[q].ctx <= contexts
    BY <2>1, <2>2 DEF Tracked, Cut
  <2>4. ASSUME "context" \notin early', proc'[Events].pc \in {"new", "context"},
               NEW q \in Requests
        PROVE  proc'[q].pc \notin Switching
    <3>1. proc[q].pc \notin Switching /\ "context" \notin early
      BY <1>3, <2>4 DEF Tracked, Cut
    <3>2. proc'[q].pc # "cancel"
      <4>1. CASE q = p
        BY <1>1, <1>2, <1>3, <2>4, <4>1 DEF Tracked, Counted
      <4>2. CASE q # p
        BY <1>2, <3>1, <4>2 DEF Switching
      <4>. QED BY <4>1, <4>2
    <3>. QED BY <1>4, <3>1, <3>2 DEF Switching
  <2>5. \A q \in Requests : proc'[q].pc = "cancel" /\ "context" \notin early' => proc'[q].ctx = contexts
    BY <2>1 DEF Tracked, Cut
  <2>. QED BY <1>3, <1>4, <2>3, <2>4, <2>5 DEF Tracked, Cut
<1>8. Aimed'
  <2>1. ASSUME "new" \notin early', NEW q \in Requests
        PROVE  proc'[q].pc \notin {"swapOnly", "listenOnly"}
    BY <1>2, <2>1 DEF Tracked, Aimed, Writing
  <2>. QED BY <1>4, <2>1 DEF Tracked, Aimed
<1>. QED BY <1>5, <1>6, <1>7, <1>8 DEF Tracked

\* Requests that come, wait for the lock and get it.
LEMMA RequestKeepsTracked ==
  ASSUME TypeInv, Tracked, NEW r \in Requests, Arrive(r) \/ Acquire(r)
  PROVE  Tracked'
<1>1. /\ TypeOK /\ r \in Procs /\ r # Events /\ proc[r] \in ProcType
  BY Locals DEF TypeInv
<1>2. /\ UNCHANGED <<target, ws, started, wsCancel, contexts, address, worker>>
      /\ early \subseteq early'
      /\ proc[r].pc \in {"idle", "rlockPlay", "rlockStop", "wlock", "drain"}
  BY DEF Arrive, Acquire, RequestPlay, RequestStop, RequestSwitch, BeginPlay, BeginStop, Announce,
         BeginSwitch, manager, listening
<1>3. ASSUME NEW e, Moves(r, e), e.pc \notin Writing \ {"cancel", "swapOnly"},
             e.pc = "cancel" => /\ e.ctx = wsCancel /\ started
                                /\ proc[Events].pc = "context" => "context" \in early',
             e.pc = "swapOnly" => "new" \in early'
      PROVE  Tracked'
  BY <1>1, <1>2, <1>3, OutsideSwitch DEF Writing
<1>5. ASSUME NEW s \in Stations \cup {Unknown}, RequestPlay(r, s) PROVE Tracked'
  <2>. DEFINE e == [proc[r] EXCEPT !.pc = "rlockPlay", !.station = s]
  <2>1. Moves(r, e) /\ e.pc = "rlockPlay"
    BY <1>1, <1>5, RequestMoves DEF ProcType
  <2>. HIDE DEF e
  <2>. QED BY <1>3, <2>1 DEF Writing
<1>6. ASSUME RequestStop(r) PROVE Tracked'
  <2>. DEFINE e == [proc[r] EXCEPT !.pc = "rlockStop"]
  <2>1. Moves(r, e) /\ e.pc = "rlockStop"
    BY <1>1, <1>6, GotoMoves, Strings DEF RequestStop, ProcType
  <2>. HIDE DEF e
  <2>. QED BY <1>3, <2>1 DEF Writing
<1>7. ASSUME NEW ip \in Speakers, RequestSwitch(r, ip) PROVE Tracked'
  <2>. DEFINE e == [proc[r] EXCEPT !.pc = "wlock", !.ip = ip]
  <2>1. Moves(r, e) /\ e.pc = "wlock"
    BY <1>1, <1>7, RequestMoves DEF ProcType
  <2>. HIDE DEF e
  <2>. QED BY <1>3, <2>1 DEF Writing
<1>8. ASSUME BeginPlay(r) PROVE Tracked'
  <2>. DEFINE e == IF proc[r].station \in Stations
                   THEN [proc[r] EXCEPT !.pc = "stopFirst", !.ip = target] ELSE Idle
  <2>1. Moves(r, e) /\ e.pc \in {"stopFirst", "idle"}
    BY <1>1, <1>8, RequestMoves DEF ProcType, Idle
  <2>. HIDE DEF e
  <2>. QED BY <1>3, <2>1 DEF Writing
<1>9. ASSUME BeginStop(r) PROVE Tracked'
  <2>. DEFINE e == [proc[r] EXCEPT !.pc = "stop", !.ip = target]
  <2>1. Moves(r, e) /\ e.pc = "stop"
    BY <1>1, <1>9, RequestMoves DEF ProcType
  <2>. HIDE DEF e
  <2>. QED BY <1>3, <2>1 DEF Writing
<1>10. ASSUME Announce(r) PROVE Tracked'
  <2>. DEFINE e == [proc[r] EXCEPT !.pc = "drain"]
  <2>1. Moves(r, e) /\ e.pc = "drain"
    BY <1>1, <1>10, GotoMoves, Strings DEF Announce, ProcType
  <2>. HIDE DEF e
  <2>. QED BY <1>3, <2>1 DEF Writing
<1>11. ASSUME BeginSwitch(r) PROVE Tracked'
  <2>. DEFINE e == [proc[r] EXCEPT !.pc = IF started THEN "cancel" ELSE "swapOnly",
                                   !.ctx = wsCancel]
  <2>1. early' = early \cup ({"new", "context"} \cap {proc[Events].pc})
    BY <1>11 DEF BeginSwitch
  <2>2. started <=> proc[Events].pc # "new"
    BY DEF Tracked, Counted
  <2>3. Moves(r, e) /\ e.pc = (IF started THEN "cancel" ELSE "swapOnly") /\ e.ctx = wsCancel
    BY <1>1, <1>11, RequestMoves DEF ProcType
  <2>. HIDE DEF e
  <2>4. /\ e.pc \notin Writing \ {"cancel", "swapOnly"}
        /\ e.pc = "cancel" => started /\ (proc[Events].pc = "context" => "context" \in early')
        /\ e.pc = "swapOnly" => "new" \in early'
    BY <2>1, <2>2, <2>3
  <2>. QED BY <1>3, <2>3, <2>4
<1>. QED BY <1>5, <1>6, <1>7, <1>8, <1>9, <1>10, <1>11 DEF Arrive, Acquire

LEMMA CommandKeepsTracked ==
  ASSUME TypeInv, Tracked, NEW p \in Procs, Command(p)
  PROVE  Tracked'
<1>1. /\ TypeOK /\ Typed /\ proc[p] \in ProcType /\ Events \notin Requests
  BY Locals DEF TypeInv
<1>2. /\ UNCHANGED <<target, ws, started, wsCancel, contexts, address, worker, early>>
      /\ proc[p].pc \in Calls \cup {"note", "stop", "clear"}
  BY DEF Command, Call, CallFails, Note, Clear, NoteFrame, manager, listening
<1>3. /\ proc[p].pc \notin Writing /\ proc[p].pc \notin {"new", "context", "spawn"}
  BY <1>2 DEF Calls, Writing
<1>4. ASSUME NEW e, Moves(p, e),
             e.pc \in {"idle", "enter", "setURI", "start", "note", "clear"}
      PROVE  Tracked'
  BY <1>1, <1>2, <1>3, <1>4, OutsideSwitch DEF Writing
<1>5. ASSUME Done(p) PROVE Tracked'
  <2>. DEFINE e == IF p = Events THEN [proc[p] EXCEPT !.pc = "enter"] ELSE Idle
  <2>1. Moves(p, e) /\ e.pc \in {"idle", "enter"}
    BY <1>1, <1>5, DoneMoves DEF ProcType, Idle
  <2>. HIDE DEF e
  <2>. QED BY <1>4, <2>1
<1>6. ASSUME Call(p) PROVE Tracked'
  <2>. DEFINE pc == AfterCall(proc[p].pc)
              e  == [proc[p] EXCEPT !.pc = pc]
  <2>1. Goto(p, pc) /\ pc \in {"setURI", "start", "note", "clear"}
    BY <1>6 DEF Call, AfterCall, Calls
  <2>. HIDE DEF pc
  <2>2. Moves(p, e) /\ e.pc = pc
    BY <1>1, <2>1, GotoMoves, Strings DEF ProcType
  <2>. HIDE DEF e
  <2>. QED BY <1>4, <2>1, <2>2
<1>. QED BY <1>5, <1>6 DEF Command, CallFails, Note, Clear

\* Goroutine p makes a context: SetTarget, after its cancel, or Start.
LEMMA MakeKeepsTracked ==
  ASSUME TypeInv, Tracked, NEW p \in Procs, NEW e, Moves(p, e),
         proc[p].pc = IF p = Events THEN "context" ELSE "store",
         e.pc = "spawn", e.ctx = contexts + 1, contexts + 1 \in Contexts,
         contexts' = contexts + 1, wsCancel' = contexts + 1,
         UNCHANGED <<target, ws, started, address, worker, early>>
  PROVE  Tracked'
<1>1. /\ Requests \subseteq Procs /\ Events \in Procs /\ Events \notin Requests
      /\ p = Events \/ p \in Requests
  BY Locals DEF TypeInv, Procs
<1>2. /\ \A q \in Procs : proc'[q] = IF q = p THEN e ELSE proc[q]
      /\ \A q \in Requests : proc'[q] = IF q = p THEN e ELSE proc[q]
      /\ proc'[Events] = IF p = Events THEN e ELSE proc[Events]
  BY <1>1 DEF Moves
<1>3. /\ Counted /\ Launched /\ Cut /\ Aimed
      /\ worker[contexts + 1].pc = "none" /\ ~worker[contexts + 1].done
  <2>1. contexts + 1 > contexts
    BY Numbers
  <2>. QED BY <2>1 DEF Tracked, Counted
\* What a request that makes a context has found, and what Start has.
<1>4. "context" \notin early =>
        /\ p = Events => contexts = 0 /\ \A q \in Requests : proc[q].pc \notin Switching
        /\ p \in Requests => /\ worker[contexts].done
                             /\ proc[Events].pc \notin {"new", "context"}
                             /\ \A q \in Requests \ {p} : proc[q].pc \notin Switching
  <2>1. CASE p = Events
    BY <1>1, <1>3, <2>1 DEF Cut
  <2>2. CASE p \in Requests
    <3>1. proc[p].pc = "store"
      BY <1>1, <2>2
    <3>2. \A q \in Requests \ {p} : proc[q].pc \notin Writing
      BY <2>2, <3>1 DEF TypeInv, Mutex, Writers, Writing
    <3>. QED BY <1>1, <1>3, <2>2, <3>1, <3>2 DEF Cut, Switching, Cancelled, Writing
  <2>. QED BY <1>1, <2>1, <2>2
<1>5. Counted'
  <2>1. /\ contexts' # 0
        /\ started <=> proc'[Events].pc # "new"
    BY <1>1, <1>2, <1>3, Numbers DEF Counted
  <2>2. \A c \in Contexts : c > contexts + 1 => c > contexts
    BY Numbers
  <2>. QED BY <1>3, <2>1, <2>2 DEF Counted
<1>6. Launched'
  <2>1. \A q \in Procs : proc'[q].pc = "spawn" =>
          \/ q = p /\ proc'[q].ctx = contexts + 1
          \/ /\ q # p /\ proc'[q] = proc[q] /\ proc[q].ctx <= contexts
             /\ proc[q].ctx \in Contexts \cup {0} /\ worker[proc[q].ctx].pc = "none"
    <3>1. \A q \in Procs : proc[q].ctx \in Contexts \cup {0}
      BY Locals DEF TypeInv, ProcType
    <3>. QED BY <1>2, <1>3, <3>1 DEF Launched
  <2>2. ~(contexts + 1 <= contexts) /\ contexts + 1 <= contexts + 1
    BY Numbers
  <2>3. \A q \in Procs : proc'[q].pc = "spawn" =>
          proc'[q].ctx <= contexts + 1 /\ worker[proc'[q].ctx].pc = "none"
    BY <1>3, <2>1, <2>2, Numbers
  <2>4. \A q, r \in Procs : proc'[q].pc = "spawn" /\ proc'[r].pc = "spawn" /\ proc'[q].ctx = proc'[r].ctx
                              => q = r
    <3>. SUFFICES ASSUME NEW q \in Procs, NEW r \in Procs, proc'[q].pc = "spawn",
                         proc'[r].pc = "spawn", proc'[q].ctx = proc'[r].ctx
                  PROVE  q = r
      OBVIOUS
    <3>1. CASE q = p \/ r = p
      BY <2>1, <2>2, <3>1
    <3>2. CASE q # p /\ r # p
      BY <1>2, <1>3, <3>2 DEF Launched
    <3>. QED BY <3>1, <3>2
  <2>5. ASSUME NEW c \in Contexts, c <= contexts + 1, worker[c].pc = "none"
        PROVE  \E q \in Procs : proc'[q].pc = "spawn" /\ proc'[q].ctx = c
    <3>1. CASE c = contexts + 1
      BY <1>2, <3>1
    <3>2. CASE c <= contexts
      <4>1. PICK q \in Procs : proc[q].pc = "spawn" /\ proc[q].ctx = c
        BY <1>3, <2>5, <3>2 DEF Launched
      <4>. QED BY <1>2, <4>1
    <3>. QED BY <2>5, <3>1, <3>2, Numbers
  <2>. QED BY <2>3, <2>4, <2>5 DEF Launched
<1>7. Cut'
  <2>1. \A q \in Requests : proc'[q].pc = "cancel" => proc'[q] = proc[q] /\ q # p
    BY <1>2
  <2>2. \A q \in Requests : proc'[q].pc = "cancel" => proc'[q].ctx <= contexts + 1
    <3>1. \A q \in Requests : proc[q].ctx \in Contexts \cup {0}
      BY <1>1, Locals DEF TypeInv, ProcType
    <3>. QED BY <1>3, <2>1, <3>1, Numbers DEF Cut
  <2>3. ASSUME "context" \notin early
        PROVE  /\ \A c \in Contexts : c < contexts + 1 => worker[c].done
               /\ proc'[Events].pc \notin {"new", "context"}
               /\ \A q \in Requests : proc'[q].pc \notin Cancelled \cup {"cancel"}
    <3>1. ASSUME NEW c \in Contexts, c < contexts + 1 PROVE worker[c].done
      <4>1. c <= contexts /\ (c = contexts \/ c < contexts) /\ contexts # 0
        <5>1. c <= contexts /\ (c = contexts \/ c < contexts)
          BY <3>1, Numbers
        <5>2. contexts # 0
          BY <5>1, ManagerAssumption DEF Contexts
        <5>. QED BY <5>1, <5>2
      <4>. QED BY <1>1, <1>3, <1>4, <2>3, <4>1 DEF Cut
    <3>2. proc'[Events].pc \notin {"new", "context"}
      BY <1>1, <1>2, <1>4, <2>3
    <3>3. \A q \in Requests : proc'[q].pc \notin Cancelled \cup {"cancel"}
      BY <1>1, <1>2, <1>4, <2>3 DEF Switching, Cancelled
    <3>. QED BY <3>1, <3>2, <3>3
  <2>. QED BY <1>3, <2>2, <2>3 DEF Cut
<1>8. Aimed'
  <2>1. \A q \in Requests : proc'[q].pc \in {"listen", "listenOnly", "swapOnly"} =>
          proc'[q] = proc[q]
    BY <1>2
  <2>2. \A q \in Requests : proc[q].pc \in {"listen", "listenOnly"} => proc'[q] = proc[q]
    BY <1>1, <1>2
  <2>. QED BY <1>3, <2>1, <2>2 DEF Aimed
<1>. QED BY <1>5, <1>6, <1>7, <1>8 DEF Tracked

\* Goroutine p starts the goroutine of its context.
LEMMA SpawnKeepsTracked ==
  ASSUME TypeInv, Tracked, NEW p \in Procs, NEW e, Moves(p, e),
         proc[p].pc = "spawn", e.pc = IF p = Events THEN "enter" ELSE "idle",
         Started(proc[p].ctx),
         UNCHANGED <<target, ws, started, wsCancel, contexts, address, early>>
  PROVE  /\ Tracked'
         /\ proc[p].ctx \in Contexts /\ worker[proc[p].ctx].pc = "none"
<1>. DEFINE k == proc[p].ctx
<1>1. /\ Requests \subseteq Procs /\ Events \in Procs /\ Events \notin Requests
      /\ p = Events \/ p \in Requests
      /\ worker \in [Contexts -> WorkerType] /\ \A c \in Contexts : worker[c] \in WorkerType
  BY Locals, Workers DEF TypeInv, Procs
<1>2. /\ \A q \in Procs : proc'[q] = IF q = p THEN e ELSE proc[q]
      /\ \A q \in Requests : proc'[q] = IF q = p THEN e ELSE proc[q]
      /\ proc'[Events] = IF p = Events THEN e ELSE proc[Events]
  BY <1>1 DEF Moves
<1>3. /\ Counted /\ Launched /\ Cut /\ Aimed
      /\ k \in Contexts /\ k <= contexts /\ worker[k].pc = "none"
  BY DEF Tracked, Launched, TypeInv, Typed
<1>4. /\ worker'[k].pc = "dial" /\ worker'[k].ws = ws /\ worker'[k].done = worker[k].done
      /\ \A c \in Contexts : c # k => worker'[c] = worker[c]
  <2>1. /\ worker'[k] = [worker[k] EXCEPT !.pc = "dial", !.ws = ws] /\ worker[k] \in WorkerType
        /\ \A c \in Contexts : c # k => worker'[c] = worker[c]
    BY <1>1, <1>3, SpawnedWorker DEF TypeInv, Started
  <2>. QED BY <2>1 DEF WorkerType
<1>5. /\ proc'[Events].pc = "new" <=> proc[Events].pc = "new"
      /\ proc'[Events].pc \in {"new", "context"} <=> proc[Events].pc \in {"new", "context"}
      /\ \A q \in Requests : proc'[q].pc \in Cancelled \cup {"cancel", "swapOnly", "listenOnly"} \/
                             proc[q].pc \in Cancelled \cup {"cancel", "swapOnly", "listenOnly"} =>
           proc'[q] = proc[q]
  BY <1>1, <1>2 DEF Cancelled
<1>. HIDE DEF k
<1>6. Counted'
  <2>1. \A c \in Contexts : c > contexts => c # k
    BY <1>3, Numbers
  <2>. QED BY <1>3, <1>4, <1>5, <2>1 DEF Counted
<1>7. Launched'
  <2>1. \A q \in Procs : proc'[q].pc = "spawn" => q # p /\ proc'[q] = proc[q]
    BY <1>2
  <2>2. ASSUME NEW q \in Procs, proc'[q].pc = "spawn"
        PROVE  proc'[q].ctx <= contexts /\ worker'[proc'[q].ctx].pc = "none"
    <3>1. proc[q].pc = "spawn" /\ proc[q].ctx # k /\ proc[q].ctx \in Contexts
      BY <1>3, <2>1, <2>2 DEF Launched, TypeInv, Typed, k
    <3>. QED BY <1>3, <1>4, <2>1, <2>2, <3>1 DEF Launched
  <2>3. ASSUME NEW c \in Contexts, c <= contexts, worker'[c].pc = "none"
        PROVE  \E q \in Procs : proc'[q].pc = "spawn" /\ proc'[q].ctx = c
    <3>1. c # k /\ worker[c].pc = "none"
      BY <1>4, <2>3
    <3>2. PICK q \in Procs : proc[q].pc = "spawn" /\ proc[q].ctx = c
      BY <1>3, <2>3, <3>1 DEF Launched
    <3>. QED BY <1>2, <3>1, <3>2 DEF k
  <2>. QED BY <1>3, <2>1, <2>2, <2>3 DEF Launched
<1>8. Cut'
  <2>1. \A c \in Contexts : worker'[c].done = worker[c].done /\ (worker'[c].pc = "gone" => worker[c].pc = "gone")
    BY <1>4
  <2>2. contexts # 0 => contexts \in Contexts
    BY Numbers
  <2>3. "context" \notin early => \A q \in Requests : proc'[q].pc \in Cancelled => worker'[contexts].done
    <3>. SUFFICES ASSUME "context" \notin early, NEW q \in Requests, proc'[q].pc \in Cancelled
                  PROVE  worker'[contexts].done
      OBVIOUS
    <3>1. proc[q].pc \in Cancelled /\ worker[contexts].done
      BY <1>3, <1>5 DEF Cut
    <3>2. contexts # 0
      BY <1>3, <3>1 DEF Cut, Counted, Switching
    <3>. QED BY <2>1, <2>2, <3>1, <3>2
  <2>4. "context" \notin early /\ proc'[Events].pc \in {"new", "context"} =>
          contexts = 0 /\ \A q \in Requests : proc'[q].pc \notin Switching
    BY <1>1, <1>2, <1>3, <1>5 DEF Cut, Switching
  <2>. QED BY <1>3, <1>5, <2>1, <2>2, <2>3, <2>4 DEF Cut
<1>9. Aimed'
  <2>1. \A q \in Requests : /\ proc'[q].pc = "store" <=> proc[q].pc = "store"
                            /\ proc'[q].pc \in {"swapOnly", "listen", "listenOnly"} <=>
                                 proc[q].pc \in {"swapOnly", "listen", "listenOnly"}
    BY <1>5 DEF Cancelled
  <2>2. contexts # 0 => contexts \in Contexts
    BY Numbers
  <2>. QED BY <1>3, <1>4, <1>5, <2>1, <2>2 DEF Aimed, Cancelled
<1>. QED BY <1>3, <1>6, <1>7, <1>8, <1>9 DEF Tracked, k

\* SetTarget: it cancels the one who listens, replaces the listener, and starts one.
LEMMA SwitchKeepsTracked ==
  ASSUME TypeInv, Tracked, NEW r \in Requests, Switch(r)
  PROVE  Tracked'
<1>. DEFINE x == proc[r]
<1>1. /\ TypeOK /\ Typed /\ Mutex /\ x \in ProcType /\ r \in Procs /\ r # Events
      /\ Requests \subseteq Procs /\ Events \in Procs /\ Events \notin Requests
      /\ worker \in [Contexts -> WorkerType] /\ \A c \in Contexts : worker[c] \in WorkerType
  BY Locals, Workers DEF TypeInv
<1>2. Counted /\ Launched /\ Cut /\ Aimed
  BY DEF Tracked
<1>3. x.pc \in Writing /\ \A q \in Requests : q # r => proc[q].pc \notin Writing
  <2>1. x.pc \in Writing
    BY DEF Switch, Cancel, Swap, SwapListener, Store, Spawn, Writing
  <2>. QED BY <1>1, <2>1 DEF Mutex, Writers
<1>4. contexts # 0 => contexts \in Contexts
  BY Numbers
<1>. HIDE DEF x
\* A step that makes no context and starts no goroutine; the parts that ask where the
\* goroutines are.
<1>5. ASSUME NEW e, Moves(r, e), x.pc # "spawn", e.pc # "spawn",
             UNCHANGED <<started, wsCancel, contexts, early>>,
             \A c \in Contexts : worker'[c].pc = worker[c].pc /\ worker'[c].ws = worker[c].ws
      PROVE  /\ \A q \in Requests : proc'[q] = IF q = r THEN e ELSE proc[q]
             /\ proc'[r] = e /\ proc'[Events] = proc[Events]
             /\ \A q \in Requests : q # r => proc'[q] = proc[q] /\ proc'[q].pc \notin Writing
             /\ (\A c \in Contexts : c > contexts => worker'[c].done = worker[c].done) => Counted'
             /\ Launched'
  <2>1. /\ \A q \in Procs : proc'[q] = IF q = r THEN e ELSE proc[q]
        /\ \A q \in Requests : proc'[q] = IF q = r THEN e ELSE proc[q]
        /\ proc'[r] = e /\ proc'[Events] = proc[Events]
    BY <1>1, <1>5 DEF Moves
  <2>2. /\ \A q \in Procs : proc'[q].pc = "spawn" <=> proc[q].pc = "spawn"
        /\ \A q \in Procs : proc'[q].pc = "spawn" => proc'[q] = proc[q] /\ proc[q].ctx \in Contexts
    BY <1>1, <1>5, <2>1 DEF Typed, x
  <2>3. Launched'
    BY <1>2, <1>5, <2>1, <2>2 DEF Launched
  <2>. QED BY <1>2, <1>3, <1>5, <2>1, <2>3 DEF Counted
<1>6. CASE Cancel(r)
  <2>. DEFINE e == [x EXCEPT !.pc = "swap"]
  <2>1. Moves(r, e) /\ e.pc = "swap" /\ x.pc = "cancel"
    BY <1>1, <1>6, GotoMoves, Strings DEF Cancel, ProcType, x
  <2>. HIDE DEF e
  <2>2. /\ UNCHANGED <<target, ws, started, wsCancel, contexts, address, early>>
        /\ \A c \in Contexts :
             worker'[c] = IF c = x.ctx THEN [worker[c] EXCEPT !.done = TRUE] ELSE worker[c]
    BY <1>6 DEF Cancel, manager, x
  <2>3. \A c \in Contexts : /\ worker'[c].pc = worker[c].pc /\ worker'[c].ws = worker[c].ws
                            /\ worker'[c].done <=> (c = x.ctx \/ worker[c].done)
    <3>1. ASSUME NEW c \in Contexts
          PROVE  LET cut == [worker[c] EXCEPT !.done = TRUE]
                 IN  cut.pc = worker[c].pc /\ cut.ws = worker[c].ws /\ cut.done
      BY <1>1 DEF WorkerType
    <3>2. \A c \in Contexts : worker[c].done \in BOOLEAN
      BY <1>1 DEF WorkerType
    <3>. QED BY <2>2, <3>1, <3>2
  <2>4. \A c \in Contexts : c > contexts => c # x.ctx
    BY <1>2, <2>1, Numbers DEF Cut, x
  <2>5. /\ Counted' /\ Launched' /\ proc'[r] = e /\ proc'[Events] = proc[Events]
        /\ \A q \in Requests : q # r => proc'[q] = proc[q] /\ proc'[q].pc \notin Writing
    BY <1>5, <2>1, <2>2, <2>3, <2>4
  <2>6. Cut'
    <3>1. \A q \in Requests : proc'[q].pc # "cancel" /\ (proc'[q].pc \in Cancelled => q = r)
      BY <2>1, <2>5 DEF Writing, Cancelled
    <3>2. "swap" \in Cancelled
      BY DEF Cancelled
    <3>3. ASSUME "context" \notin early
          PROVE  /\ worker'[contexts].done /\ \A c \in Contexts : c < contexts => worker'[c].done
                 /\ proc[Events].pc \notin {"new", "context"}
      <4>1. proc[Events].pc \notin {"new", "context"} /\ x.ctx = contexts
        BY <1>2, <2>1, <3>3 DEF Cut, Switching, x
      <4>2. contexts \in Contexts
        BY <1>2, <1>4, <4>1 DEF Counted
      <4>. QED BY <1>2, <2>3, <3>3, <4>1, <4>2 DEF Cut
    <3>. QED BY <1>2, <2>1, <2>2, <2>3, <2>5, <3>1, <3>2, <3>3 DEF Cut
  <2>7. Aimed'
    <3>1. \A q \in Requests : /\ proc'[q].pc \in {"listen", "listenOnly", "swapOnly", "store"} =>
                                   proc'[q] = proc[q]
                              /\ proc[q].pc \in {"listen", "listenOnly", "store"} => proc'[q] = proc[q]
      BY <2>1, <2>5 DEF x
    <3>. QED BY <1>2, <1>4, <2>2, <2>3, <3>1 DEF Aimed
  <2>. QED BY <2>5, <2>6, <2>7 DEF Tracked
<1>7. CASE Swap(r)
  <2>. DEFINE pc == IF x.pc = "swap" THEN "listen" ELSE "listenOnly"
              e  == [x EXCEPT !.pc = pc]
  <2>1. /\ x.pc \in {"swap", "swapOnly"} /\ target' = x.ip /\ Goto(r, pc)
        /\ pc \in RequestPCs \cup EventPCs
        /\ UNCHANGED <<ws, started, wsCancel, contexts, address, worker, early>>
    BY <1>7, Strings DEF Swap, listening, x
  <2>. HIDE DEF pc
  <2>2. Moves(r, e) /\ e.pc = pc /\ e.ip = x.ip
    BY <1>1, <2>1, GotoMoves DEF ProcType, x
  <2>. HIDE DEF e
  <2>3. x.pc # "spawn" /\ e.pc # "spawn"
    BY <2>1, <2>2 DEF pc
  <2>4. /\ Counted' /\ Launched' /\ proc'[r] = e /\ proc'[Events] = proc[Events]
        /\ \A q \in Requests : q # r => proc'[q] = proc[q] /\ proc'[q].pc \notin Writing
    BY <1>5, <2>1, <2>2, <2>3
  <2>5. Cut'
    <3>1. \A q \in Requests : /\ proc'[q].pc \in Cancelled <=> proc[q].pc \in Cancelled
                              /\ proc'[q].pc # "cancel"
                              /\ proc'[q].pc \in Switching <=> proc[q].pc \in Switching
      BY <1>3, <2>1, <2>2, <2>4 DEF Cancelled, Switching, Writing, pc, x
    <3>. QED BY <1>2, <2>1, <2>4, <3>1 DEF Cut
  <2>6. Aimed'
    <3>1. /\ proc'[r].pc \in {"listen", "listenOnly"} /\ proc'[r].ip = target'
          /\ \A q \in Requests : proc'[q].pc \in {"listen", "listenOnly"} => q = r
      BY <2>1, <2>2, <2>4 DEF Writing, pc
    <3>2. "new" \notin early =>
             /\ \A q \in Requests : proc'[q].pc \notin {"swapOnly", "listenOnly"}
             /\ \A q \in Requests : proc[q].pc # "store"
      BY <1>2, <1>3, <2>1, <2>2, <2>4 DEF Aimed, Writing, pc, x
    <3>. QED BY <1>2, <1>4, <2>1, <3>1, <3>2 DEF Aimed
  <2>. QED BY <2>4, <2>5, <2>6 DEF Tracked
<1>8. CASE SwapListener(r)
  <2>. DEFINE e == IF x.pc = "listen" THEN [x EXCEPT !.pc = "store"] ELSE Idle
  <2>1. /\ x.pc \in {"listen", "listenOnly"} /\ made' = made + 1 /\ ws' = made + 1
        /\ address' = [address EXCEPT ![made + 1] = x.ip]
        /\ UNCHANGED <<target, started, wsCancel, contexts, worker, early>>
    BY <1>8 DEF SwapListener, listening, x
  <2>2. Moves(r, e) /\ e.pc = IF x.pc = "listen" THEN "store" ELSE "idle"
    BY <1>1, <1>8, GotoMoves, DoneMoves, Strings DEF SwapListener, ProcType, Idle, x
  <2>. HIDE DEF e
  <2>3. x.pc # "spawn" /\ e.pc # "spawn"
    BY <2>1, <2>2
  <2>4. /\ Counted' /\ Launched' /\ proc'[r] = e /\ proc'[Events] = proc[Events]
        /\ \A q \in Requests : q # r => proc'[q] = proc[q] /\ proc'[q].pc \notin Writing
    BY <1>5, <2>1, <2>2, <2>3
  <2>5. Cut'
    <3>1. \A q \in Requests : /\ proc'[q].pc \in Cancelled <=> proc[q].pc \in Cancelled
                              /\ proc'[q].pc # "cancel"
                              /\ proc'[q].pc \in Switching <=> proc[q].pc \in Switching
      BY <1>3, <2>1, <2>2, <2>4 DEF Cancelled, Switching, Writing, x
    <3>. QED BY <1>2, <2>1, <2>4, <3>1 DEF Cut
  <2>6. Aimed'
    <3>1. made + 1 \in Listeners
      <4>1. TypeInv'
        BY SwitchKeepsTypes
      <4>. QED BY <2>1, <4>1, Locals DEF TypeInv, TypeOK
    <3>2. address'[ws'] = target'
      BY <1>1, <1>2, <2>1, <3>1 DEF Aimed, TypeOK, x
    <3>3. \A q \in Requests : proc'[q].pc \notin {"listen", "listenOnly", "swapOnly"}
      BY <2>2, <2>4 DEF Writing
    <3>4. "new" \notin early => proc'[r].pc = "store"
      BY <1>2, <2>1, <2>2, <2>4 DEF Aimed, x
    <3>. QED BY <2>1, <3>2, <3>3, <3>4 DEF Aimed
  <2>. QED BY <2>4, <2>5, <2>6 DEF Tracked
<1>9. CASE Store(r)
  <2>. DEFINE e == [x EXCEPT !.pc = "spawn", !.ctx = contexts + 1]
  <2>1. /\ x.pc = "store" /\ contexts' = contexts + 1 /\ wsCancel' = contexts + 1
        /\ UNCHANGED <<target, ws, started, address, worker, early>>
    BY <1>9 DEF Store, StoreFrame, listening, x
  <2>2. contexts + 1 \in Contexts
    <3>1. TypeInv'
      BY SwitchKeepsTypes
    <3>2. contexts' \in Contexts \cup {0}
      BY <3>1 DEF TypeInv, TypeOK
    <3>. QED BY <2>1, <3>2, Numbers
  <2>3. Moves(r, e) /\ e.pc = "spawn" /\ e.ctx = contexts + 1
    BY <1>1, <1>9, <2>2, StoreMoves DEF ProcType, x
  <2>. HIDE DEF e
  <2>. QED BY <1>1, <2>1, <2>2, <2>3, MakeKeepsTracked DEF x
<1>10. CASE Spawn(r)
  <2>1. /\ Moves(r, Idle) /\ Idle.pc = "idle" /\ x.pc = "spawn" /\ Started(x.ctx)
        /\ UNCHANGED <<target, ws, started, wsCancel, contexts, address, early>>
    BY <1>1, <1>10, DoneMoves DEF Spawn, Idle, manager, x
  <2>. QED BY <1>1, <2>1, SpawnKeepsTracked DEF x
<1>. QED BY <1>6, <1>7, <1>8, <1>9, <1>10 DEF Switch

\* Start: it makes the first context, starts its goroutine, and then waits for buttons.
LEMMA LoopKeepsTracked ==
  ASSUME TypeInv, Tracked, Loop
  PROVE  Tracked'
<1>. DEFINE x == proc[Events]
<1>1. /\ TypeOK /\ Typed /\ x \in ProcType /\ Idle \in ProcType
      /\ Requests \subseteq Procs /\ Events \in Procs /\ Events \notin Requests
  BY Locals DEF TypeInv
<1>2. Counted /\ Launched /\ Cut /\ Aimed
  BY DEF Tracked
<1>. HIDE DEF x
<1>3. CASE SetParent
  <2>. DEFINE e == [x EXCEPT !.pc = "context"]
  <2>1. Moves(Events, e) /\ e.pc = "context" /\ x.pc = "new"
    BY <1>1, <1>3, GotoMoves, Strings DEF SetParent, EventStep, ProcType, x
  <2>. HIDE DEF e
  <2>2. /\ UNCHANGED <<target, ws, wsCancel, contexts, address, worker, early>> /\ started' = TRUE
    BY <1>3 DEF SetParent, listening
  <2>3. /\ \A q \in Requests : proc'[q] = proc[q]
        /\ \A q \in Procs : q # Events => proc'[q] = proc[q]
        /\ proc'[Events].pc = "context" /\ proc[Events].pc = "new"
    BY <1>1, <2>1 DEF Moves, x
  <2>4. Counted'
    BY <1>2, <2>2, <2>3 DEF Counted
  <2>5. Launched'
    <3>1. \A q \in Procs : /\ proc'[q].pc = "spawn" <=> proc[q].pc = "spawn"
                           /\ proc'[q].pc = "spawn" => proc'[q] = proc[q]
      BY <2>3
    <3>. QED BY <1>2, <2>2, <3>1 DEF Launched
  <2>6. Cut'
    BY <1>2, <2>2, <2>3 DEF Cut
  <2>7. Aimed'
    BY <1>2, <2>2, <2>3 DEF Aimed
  <2>. QED BY <2>4, <2>5, <2>6, <2>7 DEF Tracked
<1>4. CASE MakeContext
  <2>. DEFINE e == [x EXCEPT !.pc = "spawn", !.ctx = contexts + 1]
  <2>1. /\ x.pc = "context" /\ contexts' = contexts + 1 /\ wsCancel' = contexts + 1
        /\ UNCHANGED <<target, ws, started, address, worker, early>>
    BY <1>4 DEF MakeContext, EventStep, listening, x
  <2>2. contexts + 1 \in Contexts
    <3>1. TypeInv'
      BY LoopKeepsTypes
    <3>2. contexts' \in Contexts \cup {0}
      BY <3>1 DEF TypeInv, TypeOK
    <3>. QED BY <2>1, <3>2, Numbers
  <2>3. Moves(Events, e) /\ e.pc = "spawn" /\ e.ctx = contexts + 1
    BY <1>1, <1>4, <2>2, LoopMoves DEF ProcType, x
  <2>. HIDE DEF e
  <2>. QED BY <1>1, <2>1, <2>2, <2>3, MakeKeepsTracked DEF x
<1>5. CASE SpawnFirst
  <2>. DEFINE e == [x EXCEPT !.pc = "enter"]
  <2>1. /\ Moves(Events, e) /\ e.pc = "enter" /\ x.pc = "spawn" /\ Started(x.ctx)
        /\ UNCHANGED <<target, ws, started, wsCancel, contexts, address, early>>
    BY <1>1, <1>5, DoneMoves DEF SpawnFirst, EventStep, ProcType, manager, x
  <2>. HIDE DEF e
  <2>. QED BY <1>1, <2>1, SpawnKeepsTracked DEF x
<1>6. CASE EnterSelect \/ LookUp \/ TakePress
  <2>1. /\ UNCHANGED <<target, ws, started, wsCancel, contexts, address, worker, early>>
        /\ x.pc \in {"enter", "lookup", "wait"}
    BY <1>6 DEF EnterSelect, LookUp, TakePress, EventStep, manager, listening, x
  <2>2. PICK e : Moves(Events, e) /\ e.pc \in {"wait", "lookup", "enter", "stopFirst"}
    <3>1. CASE EnterSelect
      <4>. DEFINE e == [Idle EXCEPT !.pc = "wait", !.on = ws]
      <4>1. Moves(Events, e) /\ e.pc = "wait"
        BY <1>1, <3>1, LoopMoves DEF ProcType
      <4>. HIDE DEF e
      <4>. QED BY <4>1
    <3>2. CASE LookUp
      <4>. DEFINE s == Preset[x.slot]
                  e == IF s = None THEN [x EXCEPT !.pc = "enter"]
                       ELSE [x EXCEPT !.pc = "stopFirst", !.ip = target, !.station = s]
      <4>1. Moves(Events, e)
        BY <1>1, <3>2, LoopMoves DEF x
      <4>. HIDE DEF s
      <4>2. e.pc \in {"enter", "stopFirst"}
        BY <1>1 DEF ProcType
      <4>. HIDE DEF e
      <4>. QED BY <4>1, <4>2
    <3>3. CASE TakePress
      <4>. DEFINE e == [x EXCEPT !.pc = "lookup", !.slot = Head(chan[x.on])]
      <4>1. Moves(Events, e) /\ e.pc = "lookup"
        BY <1>1, <3>3, LoopMoves DEF ProcType, x
      <4>. HIDE DEF e
      <4>. QED BY <4>1
    <3>. QED BY <1>6, <3>1, <3>2, <3>3
  <2>. QED BY <1>1, <2>1, <2>2, OutsideSwitch DEF x
<1>. QED BY <1>3, <1>4, <1>5, <1>6 DEF Loop

\* What a WebSocket goroutine does to its listener: it reads a press and holds it, puts
\* the press it holds into the channel, or does neither.
LEMMA ListenerStep ==
  ASSUME TypeInv, NEW c \in Contexts, Listen(c) \/ Deliver(c)
  PROVE  LET x == worker[c]  y == worker'[c]  l == x.ws
         IN  /\ UNCHANGED <<manager, proc, taken, player, faults>>
             /\ l \in Listeners /\ y.ws = l /\ y.done = x.done
             /\ x.pc \in {"dial", "read", "send"}
             /\ y.pc \in {"dial", "read", "send"} \/ (y.pc = "gone" /\ x.done)
             /\ \A d \in Contexts : d # c => worker'[d] = worker[d]
             /\ \A k \in Listeners : k # l => received'[k] = received[k] /\ chan'[k] = chan[k]
             /\ \/ x.pc # "send" /\ y.pc # "send" /\ UNCHANGED <<received, chan>>
                \/ /\ x.pc = "read" /\ y.pc = "send" /\ y.slot \in Slots
                   /\ received'[l] = Append(received[l], y.slot) /\ chan' = chan
                \/ /\ x.pc = "send" /\ y.pc = "read" /\ x.slot \in Slots
                   /\ chan'[l] = Append(chan[l], x.slot) /\ received' = received
                \/ y.pc = "gone"
<1>. DEFINE x == worker[c]
            y == worker'[c]
            l == x.ws
<1>1. /\ TypeOK /\ Typed /\ x \in WorkerType /\ worker \in [Contexts -> WorkerType]
      /\ chan \in [Listeners -> Seq(Slots)] /\ received \in [Listeners -> Seq(Slots)]
  BY Workers DEF TypeInv, TypeOK, Typed
<1>2. UNCHANGED <<manager, proc, taken, player, faults>> /\ x.pc \in {"dial", "read", "send"}
  BY DEF Listen, Deliver, Connect, Disconnect, Press, Send, End, WorkerFrame
<1>3. l \in Listeners /\ (x.pc = "send" => x.slot \in Slots)
  BY <1>1, <1>2 DEF Typed
<1>4. \A d \in Contexts : d # c => worker'[d] = worker[d]
  BY <1>1 DEF Listen, Deliver, Connect, Disconnect, Press, Send, End
<1>5. CASE Connect(c)
  <2>1. y = [x EXCEPT !.pc = "read"] /\ x.pc = "dial" /\ UNCHANGED <<received, chan>>
    BY <1>1, <1>5 DEF Connect
  <2>. QED BY <1>1, <1>2, <1>3, <1>4, <2>1 DEF WorkerType
<1>6. CASE Disconnect(c)
  <2>1. y = [x EXCEPT !.pc = "dial"] /\ x.pc = "read" /\ UNCHANGED <<received, chan>>
    BY <1>1, <1>6 DEF Disconnect
  <2>. QED BY <1>1, <1>2, <1>3, <1>4, <2>1 DEF WorkerType
<1>7. ASSUME NEW s \in Slots, Press(c, s)
      PROVE  /\ x.pc = "read" /\ y.pc = "send" /\ y.slot = s /\ y.ws = l /\ y.done = x.done
             /\ received'[l] = Append(received[l], s) /\ chan' = chan
             /\ \A k \in Listeners : k # l => received'[k] = received[k]
  <2>1. /\ worker' = [worker EXCEPT ![c].pc = "send", ![c].slot = s]
        /\ x.pc = "read" /\ chan' = chan
        /\ received' = [received EXCEPT ![l] = Append(received[l], s)]
    BY <1>1, <1>3, <1>7 DEF Press
  <2>2. y = [x EXCEPT !.pc = "send", !.slot = s]
    BY <1>1, <2>1
  <2>. HIDE DEF x, y, l
  <2>3. y.pc = "send" /\ y.slot = s /\ y.ws = x.ws /\ y.done = x.done
    BY <1>1, <2>2 DEF WorkerType
  <2>. QED BY <1>1, <1>3, <2>1, <2>3 DEF l
<1>8. ASSUME Send(c)
      PROVE  /\ x.pc = "send" /\ y.pc = "read" /\ y.ws = l /\ y.done = x.done
             /\ chan'[l] = Append(chan[l], x.slot) /\ received' = received
             /\ \A k \in Listeners : k # l => chan'[k] = chan[k]
  <2>1. /\ y = [x EXCEPT !.pc = "read"] /\ x.pc = "send" /\ received' = received
        /\ chan' = [chan EXCEPT ![l] = Append(chan[l], x.slot)]
    BY <1>1, <1>3, <1>8 DEF Send
  <2>. HIDE DEF x, y, l
  <2>2. y.pc = "read" /\ y.ws = x.ws /\ y.done = x.done
    BY <1>1, <2>1 DEF WorkerType
  <2>. QED BY <1>1, <1>3, <2>1, <2>2 DEF l
<1>9. CASE End(c)
  <2>1. y = [x EXCEPT !.pc = "gone"] /\ x.done /\ UNCHANGED <<received, chan>>
    BY <1>1, <1>9 DEF End
  <2>. QED BY <1>1, <1>2, <1>3, <1>4, <2>1 DEF WorkerType
<1>10. ASSUME NEW s \in Slots, Press(c, s)
       PROVE  y.slot \in Slots
  BY <1>7, <1>10
<1>. QED
  <2>1. CASE \E s \in Slots : Press(c, s)
    BY <1>2, <1>3, <1>4, <1>7, <2>1
  <2>2. CASE Send(c)
    BY <1>2, <1>3, <1>4, <1>8, <2>2
  <2>. QED BY <1>5, <1>6, <1>9, <2>1, <2>2 DEF Listen, Deliver

LEMMA ListeningKeepsTracked ==
  ASSUME TypeInv, Tracked, NEW c \in Contexts, Listen(c) \/ Deliver(c)
  PROVE  Tracked'
<1>. DEFINE x == worker[c]
            y == worker'[c]
<1>1. /\ UNCHANGED <<manager, proc>>
      /\ y.ws = x.ws /\ y.done = x.done /\ x.pc # "none" /\ y.pc # "none"
      /\ x.pc # "gone" /\ (y.pc = "gone" => x.done)
      /\ \A d \in Contexts : d # c => worker'[d] = worker[d]
  BY ListenerStep
<1>. HIDE DEF x, y
<1>2. \A d \in Contexts : /\ worker'[d].pc = "none" <=> worker[d].pc = "none"
                          /\ worker'[d].ws = worker[d].ws /\ worker'[d].done = worker[d].done
                          /\ worker'[d].pc = "gone" => worker[d].pc = "gone" \/ worker[d].done
  BY <1>1 DEF x, y
<1>3. Counted /\ Launched /\ Cut /\ Aimed /\ (contexts # 0 => contexts \in Contexts)
  BY Numbers DEF Tracked
<1>4. Counted'
  BY <1>1, <1>2, <1>3 DEF Counted, manager
<1>5. Launched'
  <2>1. \A p \in Procs : proc[p].pc = "spawn" => proc[p].ctx \in Contexts
    BY DEF TypeInv, Typed
  <2>. QED BY <1>1, <1>2, <1>3, <2>1 DEF Launched, manager
<1>6. Cut'
  <2>1. "context" \notin early => \A r \in Requests : proc[r].pc \in Cancelled => contexts # 0
    BY <1>3 DEF Cut, Counted, Switching
  <2>. QED BY <1>1, <1>2, <1>3, <2>1 DEF Cut, manager
<1>7. Aimed'
  BY <1>1, <1>2, <1>3 DEF Aimed, manager
<1>. QED BY <1>4, <1>5, <1>6, <1>7 DEF Tracked

LEMMA TrackedStep == TypeInv /\ Tracked /\ [Next]_vars => Tracked'
<1>. SUFFICES ASSUME TypeInv, Tracked, [Next]_vars PROVE Tracked'
  OBVIOUS
<1>1. CASE UNCHANGED vars
  BY <1>1 DEF vars, Tracked, Counted, Launched, Cut, Aimed
<1>2. ASSUME NEW r \in Requests, Arrive(r) \/ Acquire(r) \/ Switch(r) PROVE Tracked'
  BY <1>2, RequestKeepsTracked, SwitchKeepsTracked
<1>3. ASSUME NEW p \in Procs, Command(p) PROVE Tracked'
  BY <1>3, CommandKeepsTracked
<1>4. ASSUME NEW c \in Contexts, Listen(c) \/ Deliver(c) PROVE Tracked'
  BY <1>4, ListeningKeepsTracked
<1>. QED BY <1>1, <1>2, <1>3, <1>4, LoopKeepsTracked DEF Next

LEMMA TrackedInvariance == Spec => []Tracked
BY TrackedInit, TrackedStep, TypeInvariance, PTL DEF Spec

\* Once Start is over, and while no switch is under way, the goroutine whose cancel
\* function SetTarget (manager.go) holds is live, and the listener of the manager is for
\* the target speaker. The goroutine listens on that listener, unless a switch came before
\* Start had set the parent context; and no other is live, unless a switch came between
\* that and the first cancel function.
THEOREM OneListenerAtATime == Spec => []OneListener
<1>1. TypeInv /\ Tracked => OneListener
  <2>. SUFFICES ASSUME TypeInv, Tracked, Writers = {},
                       proc[Events].pc \notin {"new", "context", "spawn"}
                PROVE  /\ wsCancel \in Live /\ address[ws] = target
                       /\ "context" \notin early => Live = {wsCancel}
                       /\ "new" \notin early => worker[wsCancel].ws = ws
    BY DEF OneListener
  <2>1. \A r \in Requests : proc[r].pc \notin Writing
    BY DEF Writers
  <2>2. /\ wsCancel = contexts /\ contexts # 0 /\ contexts \in Contexts /\ contexts <= contexts
        /\ Counted /\ Launched /\ Cut /\ Aimed
    BY Numbers DEF Tracked, Counted
  <2>3. ~worker[contexts].done
    BY <2>1, <2>2 DEF Cut, Cancelled, Writing
  <2>4. worker[contexts].pc # "none"
    <3>1. \A p \in Procs : proc[p].pc # "spawn"
      BY <2>1 DEF Procs, Writing
    <3>. QED BY <2>2, <3>1 DEF Launched
  <2>5. worker[contexts].pc \in {"dial", "read", "send"}
    BY <2>2, <2>3, <2>4, Workers DEF Cut, TypeInv, WorkerType
  <2>6. contexts \in Live
    BY <2>2, <2>3, <2>5 DEF Live
  <2>7. ASSUME "context" \notin early, NEW c \in Live PROVE c = contexts
    <3>1. c \in Contexts /\ worker[c].pc # "none" /\ ~worker[c].done
      BY DEF Live
    <3>2. c <= contexts
      BY <2>2, <3>1, Numbers DEF Counted
    <3>. QED BY <2>2, <2>7, <3>1, <3>2, Numbers DEF Cut
  <2>8. address[ws] = target
    BY <2>1, <2>2 DEF Aimed, Writing
  <2>9. "new" \notin early => worker[contexts].ws = ws
    BY <2>1, <2>2, <2>4 DEF Aimed, Writing
  <2>. QED BY <2>2, <2>6, <2>7, <2>8, <2>9
<1>. QED BY <1>1, TypeInvariance, TrackedInvariance, PTL

-----------------------------------------------------------------------------
(* No press of a running goroutine is dropped, repeated or reordered.      *)

\* The presses that a running goroutine has read, in their order, when no other goroutine
\* was started on its listener; a listener without a goroutine has none.
Streams ==
  /\ \A l \in Listeners : (\A c \in Contexts : worker[c].pc # "none" => worker[c].ws # l) =>
       received[l] = <<>> /\ taken[l] = <<>> /\ chan[l] = <<>>
  /\ \A c \in Contexts : worker[c].pc \in {"dial", "read", "send"} /\ Sole(c) =>
       LET l    == worker[c].ws
           held == IF worker[c].pc = "send" THEN <<worker[c].slot>> ELSE <<>>
       IN  received[l] = taken[l] \o chan[l] \o held

\* Sequences: moving the first element from one to the other, or adding one at the end.
LEMMA Shifted ==
  ASSUME NEW S, NEW s \in Seq(S), NEW t \in Seq(S), NEW u \in Seq(S), t # <<>>
  PROVE  Append(s, Head(t)) \o Tail(t) \o u = s \o t \o u
<1>. DEFINE h == Head(t)
            f == Append(s, h) \o Tail(t)
            g == s \o t
<1>1. /\ h \in S /\ Tail(t) \in Seq(S) /\ Len(Tail(t)) = Len(t) - 1 /\ h = t[1]
      /\ \A i \in 1 .. Len(Tail(t)) : Tail(t)[i] = t[i + 1]
  BY HeadTailProperties
<1>2. /\ Append(s, h) \in Seq(S) /\ Len(Append(s, h)) = Len(s) + 1
      /\ \A i \in 1 .. Len(s) : Append(s, h)[i] = s[i]
      /\ Append(s, h)[Len(s) + 1] = h
  BY <1>1, AppendProperties
<1>3. /\ f \in Seq(S) /\ Len(f) = Len(s) + 1 + (Len(t) - 1)
      /\ \A i \in 1 .. Len(s) + 1 + (Len(t) - 1) :
           f[i] = IF i <= Len(s) + 1 THEN Append(s, h)[i] ELSE Tail(t)[i - (Len(s) + 1)]
  BY <1>1, <1>2, ConcatProperties
<1>4. /\ g \in Seq(S) /\ Len(g) = Len(s) + Len(t)
      /\ \A i \in 1 .. Len(s) + Len(t) : g[i] = IF i <= Len(s) THEN s[i] ELSE t[i - Len(s)]
  BY ConcatProperties
<1>5. Len(s) \in Nat /\ Len(t) \in Nat
  BY LenProperties
<1>. HIDE DEF h, f, g
<1>6. ASSUME NEW i \in 1 .. Len(f) PROVE f[i] = g[i]
  <2>1. CASE i <= Len(s)
    <3>1. /\ i \in 1 .. Len(s) /\ i \in 1 .. Len(s) + Len(t) /\ i <= Len(s) + 1
          /\ i \in 1 .. Len(s) + 1 + (Len(t) - 1)
      BY <1>3, <1>5, <1>6, <2>1
    <3>2. f[i] = Append(s, h)[i] /\ g[i] = s[i]
      BY <1>3, <1>4, <2>1, <3>1
    <3>. QED BY <1>2, <3>1, <3>2
  <2>2. CASE i = Len(s) + 1
    <3>1. i \in 1 .. Len(s) + 1 + (Len(t) - 1) /\ i \in 1 .. Len(s) + Len(t)
      BY <1>3, <1>5, <1>6, <2>2
    <3>2. f[i] = Append(s, h)[Len(s) + 1]
      BY <1>3, <1>5, <2>2, <3>1
    <3>3. g[i] = t[1]
      BY <1>4, <1>5, <2>2, <3>1
    <3>. QED BY <1>1, <1>2, <3>2, <3>3
  <2>3. CASE i > Len(s) + 1
    <3>. DEFINE j == i - (Len(s) + 1)
    <3>1. j \in 1 .. Len(Tail(t)) /\ j + 1 = i - Len(s) /\ i \in 1 .. Len(s) + Len(t)
          /\ i \in 1 .. Len(s) + 1 + (Len(t) - 1)
      BY <1>1, <1>3, <1>5, <1>6, <2>3
    <3>2. ~(i <= Len(s) + 1) /\ ~(i <= Len(s))
      BY <1>5, <1>6, <2>3
    <3>3. f[i] = Tail(t)[j]
      BY <1>3, <3>1, <3>2
    <3>4. g[i] = t[j + 1]
      BY <1>4, <3>1, <3>2
    <3>. HIDE DEF j
    <3>. QED BY <1>1, <3>1, <3>3, <3>4
  <2>. QED BY <1>5, <2>1, <2>2, <2>3
<1>7. f = g
  <2>1. Len(f) = Len(g)
    BY <1>3, <1>4, <1>5
  <2>. QED BY <1>3, <1>4, <1>6, <2>1, SeqEqual
<1>. QED BY <1>7 DEF f, g, h

\* The presses held and sent at the end of the sequence.
LEMMA Extended ==
  ASSUME NEW S, NEW s \in Seq(S), NEW t \in Seq(S), NEW a \in S
  PROVE  /\ s \o t \o <<a>> = Append(s \o t \o <<>>, a)
         /\ s \o Append(t, a) \o <<>> = s \o t \o <<a>>
<1>1. s \o t \in Seq(S) /\ Append(t, a) \in Seq(S) /\ <<a>> \in Seq(S)
  BY ConcatProperties, AppendProperties
<1>2. s \o t \o <<>> = s \o t /\ Append(s \o t, a) = s \o t \o <<a>>
  BY <1>1, ConcatEmptySeq, AppendIsConcat
<1>3. s \o Append(t, a) \in Seq(S)
  BY <1>1, ConcatProperties
<1>4. s \o Append(t, a) \o <<>> = s \o Append(t, a)
  BY <1>3, ConcatEmptySeq
<1>5. s \o Append(t, a) = s \o (t \o <<a>>)
  BY AppendIsConcat
<1>6. s \o (t \o <<a>>) = (s \o t) \o <<a>>
  BY <1>1, ConcatAssociative
<1>. QED BY <1>2, <1>4, <1>5, <1>6

LEMMA StreamsInit == Init => Streams
<1>. SUFFICES ASSUME Init PROVE Streams
  OBVIOUS
<1>1. /\ \A c \in Contexts : worker[c].pc = "none"
      /\ \A l \in Listeners : received[l] = <<>> /\ taken[l] = <<>> /\ chan[l] = <<>>
  BY DEF Init
<1>. QED BY <1>1 DEF Streams

\* A step of a request, a command or the loop, except TakePress, leaves the presses
\* alone; a goroutine that it starts has read none, nor has another on its listener.
LEMMA OthersKeepStreams ==
  ASSUME TypeInv, Tracked, Streams,
         \/ \E r \in Requests : Arrive(r) \/ Acquire(r) \/ Switch(r)
         \/ \E p \in Procs : Command(p)
         \/ Loop /\ ~TakePress
  PROVE  Streams'
<1>1. /\ TypeOK /\ Typed /\ Launched /\ Requests \subseteq Procs /\ Events \in Procs
      /\ ws \in Listeners
      /\ worker \in [Contexts -> WorkerType] /\ \A c \in Contexts : worker[c] \in WorkerType
  BY Locals, Workers DEF TypeInv, Tracked
\* What the streams say of the goroutines: their state, their listener, what they hold.
<1>2. ASSUME UNCHANGED <<received, taken, chan>>,
             \A c \in Contexts : /\ worker'[c].pc = worker[c].pc /\ worker'[c].ws = worker[c].ws
                                 /\ worker'[c].slot = worker[c].slot
      PROVE  Streams'
  <2>1. \A c \in Contexts : Sole(c)' <=> Sole(c)
    BY <1>2 DEF Sole
  <2>2. \A l \in Listeners : (\A c \in Contexts : worker'[c].pc # "none" => worker'[c].ws # l) =>
          received[l] = <<>> /\ taken[l] = <<>> /\ chan[l] = <<>>
    BY <1>2 DEF Streams
  <2>. QED BY <1>2, <2>1, <2>2 DEF Streams
<1>3. ASSUME NEW p \in Procs, proc[p].pc = "spawn", Started(proc[p].ctx),
             UNCHANGED <<received, taken, chan>>
      PROVE  Streams'
  <2>. DEFINE k == proc[p].ctx
  <2>1. k \in Contexts /\ worker[k].pc = "none"
    BY <1>1, <1>3 DEF Launched, Typed
  <2>2. /\ worker'[k] = [worker[k] EXCEPT !.pc = "dial", !.ws = ws] /\ worker[k] \in WorkerType
        /\ \A c \in Contexts : c # k => worker'[c] = worker[c]
    BY <1>1, <1>3, <2>1, SpawnedWorker DEF Started
  <2>. HIDE DEF k
  <2>3. worker'[k].pc = "dial" /\ worker'[k].ws = ws
    BY <2>2 DEF WorkerType
  <2>4. ASSUME NEW l \in Listeners, \A c \in Contexts : worker'[c].pc # "none" => worker'[c].ws # l
        PROVE  received[l] = <<>> /\ taken[l] = <<>> /\ chan[l] = <<>>
    <3>1. \A c \in Contexts : worker[c].pc # "none" => worker[c].ws # l
      BY <2>1, <2>2, <2>4
    <3>. QED BY <3>1 DEF Streams
  <2>5. ASSUME NEW c \in Contexts, worker'[c].pc \in {"dial", "read", "send"}, Sole(c)'
        PROVE  received[worker'[c].ws] =
                 taken[worker'[c].ws] \o chan[worker'[c].ws] \o
                   (IF worker'[c].pc = "send" THEN <<worker'[c].slot>> ELSE <<>>)
    <3>1. CASE c = k
      <4>1. ASSUME NEW d \in Contexts, worker[d].pc # "none" PROVE worker[d].ws # ws
        <5>1. d # k /\ worker'[d] = worker[d]
          BY <2>1, <2>2, <4>1
        <5>2. worker'[d].pc # "none" => worker'[d].ws # worker'[k].ws
          BY <2>5, <3>1, <5>1 DEF Sole
        <5>. QED BY <2>3, <4>1, <5>1, <5>2
      <4>2. received[ws] = <<>> /\ taken[ws] = <<>> /\ chan[ws] = <<>>
        BY <1>1, <4>1 DEF Streams
      <4>3. <<>> \o <<>> \o <<>> = <<>>
        OBVIOUS
      <4>. QED BY <2>3, <3>1, <4>2, <4>3
    <3>2. CASE c # k
      <4>1. Sole(c)
        BY <2>1, <2>2, <2>5, <3>2 DEF Sole
      <4>. QED BY <2>2, <2>5, <3>2, <4>1 DEF Streams
    <3>. QED BY <3>1, <3>2
  <2>6. UNCHANGED <<received, taken, chan>>
    BY <1>3
  <2>. QED BY <2>4, <2>5, <2>6 DEF Streams
<1>4. ASSUME NEW r \in Requests, Arrive(r) \/ Acquire(r) PROVE Streams'
  <2>1. UNCHANGED listening
    BY <1>4 DEF Arrive, Acquire, RequestPlay, RequestStop, RequestSwitch, BeginPlay, BeginStop,
                Announce, BeginSwitch
  <2>. QED BY <1>2, <2>1 DEF listening
<1>5. ASSUME NEW r \in Requests, Switch(r) PROVE Streams'
  <2>1. CASE Swap(r) \/ SwapListener(r) \/ Store(r)
    BY <1>2, <2>1 DEF Swap, SwapListener, Store, StoreFrame, listening
  <2>2. CASE Cancel(r)
    <3>1. \A c \in Contexts :
            worker'[c] = IF c = proc[r].ctx THEN [worker[c] EXCEPT !.done = TRUE] ELSE worker[c]
      BY <2>2 DEF Cancel
    <3>2. \A c \in Contexts : /\ worker'[c].pc = worker[c].pc /\ worker'[c].ws = worker[c].ws
                              /\ worker'[c].slot = worker[c].slot
      BY <1>1, <3>1 DEF WorkerType
    <3>3. UNCHANGED <<received, taken, chan>>
      BY <2>2 DEF Cancel
    <3>. QED BY <1>2, <3>2, <3>3
  <2>3. CASE Spawn(r)
    <3>1. /\ proc[r].pc = "spawn" /\ Started(proc[r].ctx) /\ UNCHANGED <<received, taken, chan>>
          /\ r \in Procs
      BY <1>1, <2>3 DEF Spawn
    <3>. QED BY <1>3, <3>1
  <2>. QED BY <1>5, <2>1, <2>2, <2>3 DEF Switch
<1>6. ASSUME NEW p \in Procs, Command(p) PROVE Streams'
  <2>1. UNCHANGED listening
    BY <1>6 DEF Command, Call, CallFails, Note, Clear, NoteFrame
  <2>. QED BY <1>2, <2>1 DEF listening
<1>7. CASE SetParent \/ MakeContext \/ EnterSelect \/ LookUp
  <2>1. UNCHANGED listening
    BY <1>7 DEF SetParent, MakeContext, EnterSelect, LookUp
  <2>. QED BY <1>2, <2>1 DEF listening
<1>8. CASE SpawnFirst
  <2>1. /\ proc[Events].pc = "spawn" /\ Started(proc[Events].ctx)
        /\ UNCHANGED <<received, taken, chan>>
    BY <1>8 DEF SpawnFirst, EventStep
  <2>. QED BY <1>1, <1>3, <2>1
<1>. QED BY <1>4, <1>5, <1>6, <1>7, <1>8 DEF Loop

\* TakePress moves the first press of the channel to those that were handled.
LEMMA TakePressKeepsStreams ==
  ASSUME TypeInv, Streams, TakePress
  PROVE  Streams'
<1>. DEFINE l == proc[Events].on
            h == Head(chan[l])
<1>1. /\ l \in Listeners /\ chan[l] # <<>> /\ UNCHANGED <<worker, received>>
      /\ chan' = [chan EXCEPT ![l] = Tail(chan[l])]
      /\ taken' = [taken EXCEPT ![l] = Append(taken[l], h)]
      /\ chan \in [Listeners -> Seq(Slots)] /\ taken \in [Listeners -> Seq(Slots)]
  BY DEF TakePress, EventStep, TypeInv, TypeOK, Typed
<1>. HIDE DEF l
<1>2. ASSUME NEW k \in Listeners, \A c \in Contexts : worker[c].pc # "none" => worker[c].ws # k
      PROVE  received[k] = <<>> /\ taken'[k] = <<>> /\ chan'[k] = <<>>
  <2>1. received[k] = <<>> /\ taken[k] = <<>> /\ chan[k] = <<>>
    BY <1>2 DEF Streams
  <2>2. k # l
    BY <1>1, <2>1
  <2>. QED BY <1>1, <2>1, <2>2
<1>. SUFFICES ASSUME NEW c \in Contexts, worker[c].pc \in {"dial", "read", "send"}, Sole(c)
              PROVE  received[worker[c].ws] =
                       taken'[worker[c].ws] \o chan'[worker[c].ws] \o
                         (IF worker[c].pc = "send" THEN <<worker[c].slot>> ELSE <<>>)
  BY <1>1, <1>2 DEF Streams, Sole
<1>. DEFINE k == worker[c].ws
            u == IF worker[c].pc = "send" THEN <<worker[c].slot>> ELSE <<>>
<1>3. k \in Listeners /\ u \in Seq(Slots) /\ received[k] = taken[k] \o chan[k] \o u
  <2>1. k \in Listeners /\ (worker[c].pc = "send" => worker[c].slot \in Slots)
    BY DEF TypeInv, Typed
  <2>2. u \in Seq(Slots)
    BY <2>1
  <2>3. received[k] = taken[k] \o chan[k] \o u
    BY DEF Streams
  <2>. QED BY <2>1, <2>2, <2>3
<1>. HIDE DEF k, u
<1>4. CASE k = l
  <2>1. taken'[k] = Append(taken[k], Head(chan[k])) /\ chan'[k] = Tail(chan[k])
    BY <1>1, <1>3, <1>4
  <2>2. Append(taken[k], Head(chan[k])) \o Tail(chan[k]) \o u = taken[k] \o chan[k] \o u
    <3>1. taken[k] \in Seq(Slots) /\ chan[k] \in Seq(Slots) /\ chan[k] # <<>>
      BY <1>1, <1>3, <1>4
    <3>. DEFINE s == taken[k]
                t == chan[k]
    <3>. HIDE DEF s, t
    <3>2. s \in Seq(Slots) /\ t \in Seq(Slots) /\ t # <<>> /\ u \in Seq(Slots)
      BY <1>3, <3>1 DEF s, t
    <3>3. Append(s, Head(t)) \o Tail(t) \o u = s \o t \o u
      BY <3>2, Shifted
    <3>. QED BY <3>3 DEF s, t
  <2>. QED BY <1>3, <2>1, <2>2 DEF k, u
<1>5. CASE k # l
  <2>1. taken'[k] = taken[k] /\ chan'[k] = chan[k]
    BY <1>1, <1>3, <1>5
  <2>. QED BY <1>3, <2>1 DEF k, u
<1>. QED BY <1>4, <1>5

LEMMA ListeningKeepsStreams ==
  ASSUME TypeInv, Streams, NEW c \in Contexts, Listen(c) \/ Deliver(c)
  PROVE  Streams'
<1>. DEFINE x == worker[c]
            y == worker'[c]
            l == x.ws
            Held(w) == IF w.pc = "send" THEN <<w.slot>> ELSE <<>>
<1>1. /\ taken' = taken
      /\ l \in Listeners /\ y.ws = l /\ x.pc \in {"dial", "read", "send"} /\ y.pc # "none"
      /\ \A d \in Contexts : d # c => worker'[d] = worker[d]
      /\ \A k \in Listeners : k # l => received'[k] = received[k] /\ chan'[k] = chan[k]
      /\ \/ x.pc # "send" /\ y.pc # "send" /\ UNCHANGED <<received, chan>>
         \/ /\ x.pc = "read" /\ y.pc = "send" /\ y.slot \in Slots
            /\ received'[l] = Append(received[l], y.slot) /\ chan' = chan
         \/ /\ x.pc = "send" /\ y.pc = "read" /\ x.slot \in Slots
            /\ chan'[l] = Append(chan[l], x.slot) /\ received' = received
         \/ y.pc = "gone"
  BY ListenerStep
<1>2. /\ \A d \in Contexts : /\ worker'[d].pc = "none" <=> worker[d].pc = "none"
                             /\ worker'[d].ws = worker[d].ws
      /\ \A d \in Contexts : Sole(d)' <=> Sole(d)
  <2>1. \A d \in Contexts : /\ worker'[d].pc = "none" <=> worker[d].pc = "none"
                            /\ worker'[d].ws = worker[d].ws
    BY <1>1
  <2>. QED BY <2>1 DEF Sole
<1>3. /\ chan[l] \in Seq(Slots) /\ taken[l] \in Seq(Slots)
      /\ Sole(c) => received[l] = taken[l] \o chan[l] \o Held(x)
  BY <1>1 DEF TypeInv, TypeOK, Typed, Streams
<1>4. ASSUME y.pc \in {"dial", "read", "send"}, Sole(c)
      PROVE  received'[l] = taken[l] \o chan'[l] \o Held(y)
  <2>1. CASE x.pc # "send" /\ y.pc # "send" /\ UNCHANGED <<received, chan>>
    BY <1>3, <1>4, <2>1
  <2>2. CASE /\ x.pc = "read" /\ y.pc = "send" /\ y.slot \in Slots
             /\ received'[l] = Append(received[l], y.slot) /\ chan' = chan
    <3>1. Held(x) = <<>> /\ Held(y) = <<y.slot>>
      BY <2>2
    <3>. HIDE DEF x, y, l, Held
    <3>2. taken[l] \o chan[l] \o <<y.slot>> = Append(taken[l] \o chan[l] \o <<>>, y.slot)
      <4>. DEFINE s == taken[l]
                  t == chan[l]
                  a == y.slot
      <4>1. s \in Seq(Slots) /\ t \in Seq(Slots) /\ a \in Slots
        BY <1>3, <2>2
      <4>. HIDE DEF s, t, a
      <4>2. s \o t \o <<a>> = Append(s \o t \o <<>>, a)
        BY <4>1, Extended
      <4>. QED BY <4>2 DEF s, t, a
    <3>. QED BY <1>3, <1>4, <2>2, <3>1, <3>2
  <2>3. CASE /\ x.pc = "send" /\ y.pc = "read" /\ x.slot \in Slots
             /\ chan'[l] = Append(chan[l], x.slot) /\ received' = received
    <3>1. Held(x) = <<x.slot>> /\ Held(y) = <<>>
      BY <2>3
    <3>. HIDE DEF x, y, l, Held
    <3>2. taken[l] \o Append(chan[l], x.slot) \o <<>> = taken[l] \o chan[l] \o <<x.slot>>
      <4>. DEFINE s == taken[l]
                  t == chan[l]
                  a == x.slot
      <4>1. s \in Seq(Slots) /\ t \in Seq(Slots) /\ a \in Slots
        BY <1>3, <2>3
      <4>. HIDE DEF s, t, a
      <4>2. s \o Append(t, a) \o <<>> = s \o t \o <<a>>
        BY <4>1, Extended
      <4>. QED BY <4>2 DEF s, t, a
    <3>. QED BY <1>3, <1>4, <2>3, <3>1, <3>2
  <2>. QED BY <1>1, <1>4, <2>1, <2>2, <2>3
<1>5. ASSUME NEW d \in Contexts, d # c, worker'[d].pc \in {"dial", "read", "send"}, Sole(d)
      PROVE  received'[worker'[d].ws] =
               taken'[worker'[d].ws] \o chan'[worker'[d].ws] \o Held(worker'[d])
  <2>1. worker'[d] = worker[d] /\ worker[d].ws \in Listeners /\ worker[d].ws # l
    BY <1>1, <1>5 DEF TypeInv, Typed, Sole
  <2>. DEFINE k == worker[d].ws
  <2>2. received'[k] = received[k] /\ chan'[k] = chan[k] /\ taken' = taken
    BY <1>1, <2>1
  <2>3. received[k] = taken[k] \o chan[k] \o Held(worker[d])
    BY <1>5, <2>1 DEF Streams
  <2>4. worker'[d].ws = k /\ Held(worker'[d]) = Held(worker[d])
    BY <2>1
  <2>. HIDE DEF Held, k, l
  <2>. QED BY <2>2, <2>3, <2>4
<1>6. ASSUME NEW k \in Listeners, \A d \in Contexts : worker'[d].pc # "none" => worker'[d].ws # k
      PROVE  received'[k] = <<>> /\ taken'[k] = <<>> /\ chan'[k] = <<>>
  <2>1. k # l /\ \A d \in Contexts : worker[d].pc # "none" => worker[d].ws # k
    BY <1>1, <1>2, <1>6
  <2>2. received[k] = <<>> /\ taken[k] = <<>> /\ chan[k] = <<>>
    BY <2>1 DEF Streams
  <2>. QED BY <1>1, <2>1, <2>2
<1>7. ASSUME NEW d \in Contexts, worker'[d].pc \in {"dial", "read", "send"}, Sole(d)'
      PROVE  received'[worker'[d].ws] =
               taken'[worker'[d].ws] \o chan'[worker'[d].ws] \o Held(worker'[d])
  <2>1. Sole(d)
    BY <1>2, <1>7
  <2>2. CASE d = c
    BY <1>1, <1>4, <1>7, <2>1, <2>2
  <2>3. CASE d # c
    BY <1>5, <1>7, <2>1, <2>3
  <2>. QED BY <2>2, <2>3
<1>. QED BY <1>6, <1>7 DEF Streams

LEMMA StreamsStep == TypeInv /\ Tracked /\ Streams /\ [Next]_vars => Streams'
<1>. SUFFICES ASSUME TypeInv, Tracked, Streams, [Next]_vars PROVE Streams'
  OBVIOUS
<1>1. CASE UNCHANGED vars
  BY <1>1 DEF vars, Streams, Sole
<1>2. ASSUME NEW c \in Contexts, Listen(c) \/ Deliver(c) PROVE Streams'
  BY <1>2, ListeningKeepsStreams
<1>. QED BY <1>1, <1>2, TakePressKeepsStreams, OthersKeepStreams DEF Next

\* The presses that a listener's goroutine (ws.go) has read are handled by
\* handleEvents (manager.go) in their order, none twice and none dropped, as long as it
\* is not cancelled and no other was started on its listener: what was read is what was
\* taken, what waits, and what it holds.
THEOREM NoPressLost == Spec => []PressesKept
<1>1. Streams => PressesKept
  BY DEF Streams, PressesKept, Live
<1>. QED BY <1>1, StreamsInit, StreamsStep, TypeInvariance, TrackedInvariance, PTL DEF Spec

-----------------------------------------------------------------------------
(* What Status says, with one client, no failing call and no button.       *)

\* What is noted is what the target speaker has been told.
Noted == nowPlaying # None => player[target].playing /\ player[target].uri = nowPlaying

StartPCs == {"new", "context", "spawn"}

\* What holds at the statements of the only client k.
Told(k) ==
  /\ proc[Events].pc \in StartPCs \cup {"enter", "wait"}
  /\ \A r \in Requests \ {k} : proc[r].pc = "idle"
  /\ proc[k].pc \notin {"setURI", "start", "note", "clear", "listen", "store", "spawn"} =>
       Noted
  /\ proc[k].pc \in {"start", "note"} => player[target].uri = proc[k].station
  /\ proc[k].pc = "note" => player[target].playing
  /\ proc[k].pc = "spawn" => nowPlaying = None

\* One client, no failing call, no preset button, no switch before Start.
Alone(k) == clients = {k} /\ faults = 0 /\ NoneTaken /\ "new" \notin early

AloneTold == \A k \in Requests : Alone(k) => Told(k)

LEMMA StillAlone ==
  ASSUME TypeInv, [Next]_vars, NEW k \in Requests, Alone(k)'
  PROVE  Alone(k) /\ ~TakePress /\ faults' = faults /\ (\A p \in Procs : ~CallFails(p))
<1>1. TypeOK /\ Typed /\ faults \in Nat /\ faults' = 0
  BY DEF TypeInv, TypeOK, Alone
<1>2. \A p \in Procs : ~CallFails(p)
  BY <1>1 DEF CallFails
<1>3. clients' = clients /\ faults' = faults
  <2>1. CASE UNCHANGED vars
    BY <2>1 DEF vars
  <2>2. ASSUME NEW r \in Requests, Arrive(r) \/ Acquire(r) \/ Switch(r)
        PROVE  UNCHANGED <<clients, faults>>
    BY <2>2 DEF Arrive, Acquire, Switch, RequestPlay, RequestStop, RequestSwitch, BeginPlay,
                BeginStop, Announce, BeginSwitch, Cancel, Swap, SwapListener, Store, StoreFrame,
                Spawn, manager
  <2>3. ASSUME NEW p \in Procs, Command(p) PROVE UNCHANGED <<clients, faults>>
    BY <1>2, <2>3 DEF Command, Call, Note, Clear, NoteFrame, manager
  <2>4. ASSUME Loop PROVE UNCHANGED <<clients, faults>>
    BY <2>4 DEF Loop, SetParent, MakeContext, SpawnFirst, EnterSelect, TakePress, LookUp, manager
  <2>5. ASSUME NEW c \in Contexts, Listen(c) \/ Deliver(c) PROVE UNCHANGED <<clients, faults>>
    BY <2>5, ListenerStep DEF manager
  <2>. QED BY <2>1, <2>2, <2>3, <2>4, <2>5 DEF Next
<1>4. ~TakePress
  <2>. SUFFICES ASSUME TakePress PROVE FALSE
    OBVIOUS
  <2>. DEFINE l == proc[Events].on
  <2>1. /\ l \in Listeners /\ taken[l] \in Seq(Slots) /\ Head(chan[l]) \in Slots
        /\ taken'[l] = Append(taken[l], Head(chan[l]))
    BY <1>1, LoopMoves DEF TakePress, EventStep, Typed
  <2>2. taken'[l] # <<>>
    BY <2>1, AppendProperties
  <2>. QED BY <2>1, <2>2 DEF Alone, NoneTaken
<1>5. early \subseteq early'
  <2>1. CASE UNCHANGED vars
    BY <2>1 DEF vars
  <2>2. ASSUME NEW r \in Requests, Arrive(r) \/ Acquire(r) \/ Switch(r) PROVE early \subseteq early'
    BY <2>2 DEF Arrive, Acquire, Switch, RequestPlay, RequestStop, RequestSwitch, BeginPlay,
                BeginStop, Announce, BeginSwitch, Cancel, Swap, SwapListener, Store, StoreFrame,
                Spawn, manager
  <2>3. ASSUME NEW p \in Procs, Command(p) PROVE early' = early
    BY <2>3 DEF Command, Call, CallFails, Note, Clear, NoteFrame, manager
  <2>4. ASSUME Loop PROVE early' = early
    BY <2>4 DEF Loop, SetParent, MakeContext, SpawnFirst, EnterSelect, TakePress, LookUp, manager
  <2>5. ASSUME NEW c \in Contexts, Listen(c) \/ Deliver(c) PROVE early' = early
    BY <2>5, ListenerStep DEF manager
  <2>. QED BY <2>1, <2>2, <2>3, <2>4, <2>5 DEF Next
<1>6. taken' = taken
  <2>1. CASE UNCHANGED vars
    BY <2>1 DEF vars
  <2>2. ASSUME NEW r \in Requests, Arrive(r) \/ Acquire(r) \/ Switch(r) PROVE taken' = taken
    BY <2>2 DEF Arrive, Acquire, Switch, RequestPlay, RequestStop, RequestSwitch, BeginPlay,
                BeginStop, Announce, BeginSwitch, Cancel, Swap, SwapListener, Store, StoreFrame,
                Spawn, listening
  <2>3. ASSUME NEW p \in Procs, Command(p) PROVE taken' = taken
    BY <1>2, <2>3 DEF Command, Call, Note, Clear, NoteFrame, listening
  <2>4. ASSUME Loop PROVE taken' = taken
    BY <1>4, <2>4 DEF Loop, SetParent, MakeContext, SpawnFirst, EnterSelect, LookUp, listening
  <2>5. ASSUME NEW c \in Contexts, Listen(c) \/ Deliver(c) PROVE taken' = taken
    BY <2>5, ListenerStep
  <2>. QED BY <2>1, <2>2, <2>3, <2>4, <2>5 DEF Next
<1>. QED BY <1>1, <1>2, <1>3, <1>4, <1>5, <1>6 DEF Alone, NoneTaken

LEMMA ClientKeepsTold ==
  ASSUME TypeInv, Tracked, NEW k \in Requests, Alone(k), Told(k),
         NEW r \in Requests, Arrive(r) \/ Acquire(r) \/ Switch(r)
  PROVE  Told(k)'
<1>1. /\ TypeOK /\ r \in Procs /\ k \in Procs /\ r # Events /\ Events \in Procs
      /\ Requests \subseteq Procs /\ proc[r] \in ProcType
      /\ \A q \in Requests : proc[q].pc \notin {"swapOnly", "listenOnly"}
  BY Locals DEF TypeInv, Tracked, Aimed, Alone
<1>2. r = k
  <2>1. CASE Arrive(r)
    BY <2>1 DEF Arrive, Alone
  <2>2. CASE Acquire(r) \/ Switch(r)
    <3>1. proc[r].pc # "idle"
      BY <2>2 DEF Acquire, Switch, BeginPlay, BeginStop, Announce, BeginSwitch, Cancel, Swap,
                  SwapListener, Store, Spawn
    <3>. QED BY <3>1 DEF Told
  <2>. QED BY <2>1, <2>2
\* A step that leaves the noted station, the target and the speakers as they are.
<1>3. ASSUME NEW e, Moves(r, e), UNCHANGED <<target, nowPlaying, player>>,
             proc[r].pc \notin {"setURI", "start", "note", "clear", "listen", "store", "spawn"},
             e.pc \notin {"start", "note", "spawn"}
      PROVE  Told(k)'
  <2>1. /\ proc'[Events] = proc[Events] /\ proc'[k] = e
        /\ \A q \in Requests \ {k} : proc'[q] = proc[q]
    BY <1>1, <1>2, <1>3 DEF Moves
  <2>2. Noted'
    BY <1>2, <1>3 DEF Told, Noted
  <2>. QED BY <1>3, <2>1, <2>2 DEF Told
<1>4. CASE Arrive(r)
  <2>1. UNCHANGED <<target, nowPlaying, player>> /\ proc[r].pc = "idle"
    BY <1>4 DEF Arrive, RequestPlay, RequestStop, RequestSwitch, manager
  <2>2. PICK e : Moves(r, e) /\ e.pc \in {"rlockPlay", "rlockStop", "wlock"}
    <3>1. ASSUME NEW s \in Stations \cup {Unknown}, RequestPlay(r, s)
          PROVE  \E e : Moves(r, e) /\ e.pc \in {"rlockPlay", "rlockStop", "wlock"}
      <4>. DEFINE e == [proc[r] EXCEPT !.pc = "rlockPlay", !.station = s]
      <4>1. Moves(r, e) /\ e.pc = "rlockPlay"
        BY <1>1, <3>1, RequestMoves DEF ProcType
      <4>. HIDE DEF e
      <4>. QED BY <4>1
    <3>2. ASSUME RequestStop(r)
          PROVE  \E e : Moves(r, e) /\ e.pc \in {"rlockPlay", "rlockStop", "wlock"}
      <4>. DEFINE e == [proc[r] EXCEPT !.pc = "rlockStop"]
      <4>1. Moves(r, e) /\ e.pc = "rlockStop"
        BY <1>1, <3>2, GotoMoves, Strings DEF ProcType, RequestStop
      <4>. HIDE DEF e
      <4>. QED BY <4>1
    <3>3. ASSUME NEW ip \in Speakers, RequestSwitch(r, ip)
          PROVE  \E e : Moves(r, e) /\ e.pc \in {"rlockPlay", "rlockStop", "wlock"}
      <4>. DEFINE e == [proc[r] EXCEPT !.pc = "wlock", !.ip = ip]
      <4>1. Moves(r, e) /\ e.pc = "wlock"
        BY <1>1, <3>3, RequestMoves DEF ProcType
      <4>. HIDE DEF e
      <4>. QED BY <4>1
    <3>. QED BY <1>4, <3>1, <3>2, <3>3 DEF Arrive
  <2>. QED BY <1>3, <2>1, <2>2
<1>5. CASE Acquire(r)
  <2>1. /\ UNCHANGED <<target, nowPlaying, player>>
        /\ proc[r].pc \in {"rlockPlay", "rlockStop", "wlock", "drain"}
    BY <1>5 DEF Acquire, BeginPlay, BeginStop, Announce, BeginSwitch, manager
  <2>2. PICK e : Moves(r, e) /\ e.pc \in {"stopFirst", "idle", "stop", "drain", "cancel", "swapOnly"}
    <3>. DEFINE To(e) == e.pc \in {"stopFirst", "idle", "stop", "drain", "cancel", "swapOnly"}
    <3>1. ASSUME BeginPlay(r) PROVE \E e : Moves(r, e) /\ To(e)
      <4>. DEFINE e == IF proc[r].station \in Stations
                       THEN [proc[r] EXCEPT !.pc = "stopFirst", !.ip = target] ELSE Idle
      <4>1. Moves(r, e) /\ e.pc \in {"stopFirst", "idle"}
        BY <1>1, <3>1, RequestMoves DEF ProcType, Idle
      <4>. HIDE DEF e
      <4>. QED BY <4>1
    <3>2. ASSUME BeginStop(r) PROVE \E e : Moves(r, e) /\ To(e)
      <4>. DEFINE e == [proc[r] EXCEPT !.pc = "stop", !.ip = target]
      <4>1. Moves(r, e) /\ e.pc = "stop"
        BY <1>1, <3>2, RequestMoves DEF ProcType
      <4>. HIDE DEF e
      <4>. QED BY <4>1
    <3>3. ASSUME Announce(r) PROVE \E e : Moves(r, e) /\ To(e)
      <4>. DEFINE e == [proc[r] EXCEPT !.pc = "drain"]
      <4>1. Moves(r, e) /\ e.pc = "drain"
        BY <1>1, <3>3, GotoMoves, Strings DEF ProcType, Announce
      <4>. HIDE DEF e
      <4>. QED BY <4>1
    <3>4. ASSUME BeginSwitch(r) PROVE \E e : Moves(r, e) /\ To(e)
      <4>. DEFINE e == [proc[r] EXCEPT !.pc = IF started THEN "cancel" ELSE "swapOnly",
                                       !.ctx = wsCancel]
      <4>1. Moves(r, e) /\ e.pc \in {"cancel", "swapOnly"}
        BY <1>1, <3>4, RequestMoves DEF ProcType
      <4>. HIDE DEF e
      <4>. QED BY <4>1
    <3>. QED BY <1>5, <3>1, <3>2, <3>3, <3>4 DEF Acquire
  <2>. QED BY <1>3, <2>1, <2>2
<1>6. CASE Switch(r)
  <2>1. CASE Cancel(r)
    <3>. DEFINE e == [proc[r] EXCEPT !.pc = "swap"]
    <3>1. /\ Moves(r, e) /\ e.pc = "swap" /\ proc[r].pc = "cancel"
          /\ UNCHANGED <<target, nowPlaying, player>>
      BY <1>1, <2>1, GotoMoves, Strings DEF ProcType, Cancel, manager
    <3>. HIDE DEF e
    <3>. QED BY <1>3, <3>1
  <2>2. CASE Swap(r) \/ SwapListener(r)
    <3>1. PICK pc \in {"listen", "store"} : Goto(r, pc)
      BY <1>1, <2>2 DEF Swap, SwapListener
    <3>. DEFINE e == [proc[r] EXCEPT !.pc = pc]
    <3>2. Moves(r, e) /\ e.pc = pc
      BY <1>1, <3>1, GotoMoves, Strings DEF ProcType
    <3>. HIDE DEF e
    <3>3. /\ proc'[Events] = proc[Events] /\ proc'[k] = e
          /\ \A q \in Requests \ {k} : proc'[q] = proc[q]
      BY <1>1, <1>2, <3>2 DEF Moves
    <3>. QED BY <3>1, <3>2, <3>3 DEF Told
  <2>3. CASE Store(r)
    <3>. DEFINE e == [proc[r] EXCEPT !.pc = "spawn", !.ctx = contexts + 1]
    <3>1. contexts + 1 \in Contexts
      <4>1. wsCancel' \in Contexts \cup {0}
        BY <1>1, <1>6, <2>3, SwitchKeepsTypes DEF TypeInv, TypeOK
      <4>2. wsCancel' = contexts + 1
        BY <2>3 DEF Store
      <4>3. contexts \in Nat /\ contexts + 1 # 0
        BY <1>1, Numbers
      <4>. QED BY <4>1, <4>2, <4>3
    <3>2. Moves(r, e) /\ e.pc = "spawn" /\ nowPlaying' = None
      BY <1>1, <2>3, <3>1, StoreMoves DEF ProcType, Store
    <3>. HIDE DEF e
    <3>3. /\ proc'[Events] = proc[Events] /\ proc'[k] = e
          /\ \A q \in Requests \ {k} : proc'[q] = proc[q]
      BY <1>1, <1>2, <3>2 DEF Moves
    <3>. QED BY <3>2, <3>3 DEF Told
  <2>4. CASE Spawn(r)
    <3>1. Moves(r, Idle) /\ Idle.pc = "idle" /\ proc[r].pc = "spawn" /\ nowPlaying' = nowPlaying
      BY <1>1, <2>4, DoneMoves DEF Spawn, Idle, manager
    <3>2. /\ proc'[Events] = proc[Events] /\ proc'[k] = Idle
          /\ \A q \in Requests \ {k} : proc'[q] = proc[q]
      BY <1>1, <1>2, <3>1 DEF Moves
    <3>. QED BY <1>2, <3>1, <3>2 DEF Told, Noted
  <2>. QED BY <1>6, <2>1, <2>2, <2>3, <2>4 DEF Switch
<1>. QED BY <1>4, <1>5, <1>6

\* The calls that k makes to the target speaker, and what it notes of them.
LEMMA CommandKeepsTold ==
  ASSUME TypeInv, NEW k \in Requests, Told(k), NEW p \in Procs, Command(p), ~CallFails(p)
  PROVE  Told(k)'
<1>1. /\ TypeOK /\ k \in Procs /\ Events \in Procs /\ Events \notin Requests
      /\ Requests \subseteq Procs /\ proc[k] \in ProcType /\ target \in Speakers
      /\ player \in [Speakers -> [uri : Stations \cup {None}, playing : BOOLEAN]]
  BY Locals DEF TypeInv, TypeOK
<1>2. p = k
  <2>1. proc[p].pc \in {"stopFirst", "setURI", "start", "note", "stop", "clear"}
    BY DEF Command, Call, Note, Clear, Calls
  <2>. QED BY <2>1 DEF Told, StartPCs, Procs
<1>3. proc[k].pc \in Reading => proc[k].ip = target
  BY DEF TypeInv, Mutex
<1>4. ASSUME NEW e, Moves(k, e)
      PROVE  /\ proc'[Events] = proc[Events] /\ proc'[k] = e
             /\ \A q \in Requests \ {k} : proc'[q] = proc[q]
  BY <1>1, <1>4 DEF Moves
<1>5. CASE Call(p)
  <2>. DEFINE x  == proc[k]
              pc == AfterCall(x.pc)
              e  == [x EXCEPT !.pc = pc]
              y  == player[target]
  <2>1. /\ x.pc \in {"stopFirst", "setURI", "start", "stop"} /\ x.ip = target
        /\ Goto(k, pc) /\ player' = Obeyed(k) /\ UNCHANGED <<target, nowPlaying>>
    BY <1>2, <1>3, <1>5 DEF Call, Calls, Reading, manager
  <2>2. pc = CASE x.pc = "stopFirst" -> "setURI" [] x.pc = "setURI" -> "start"
               [] x.pc = "start" -> "note"       [] x.pc = "stop" -> "clear"
    BY DEF AfterCall
  <2>3. pc \in {"setURI", "start", "note", "clear"}
    BY <2>1, <2>2
  <2>. HIDE DEF pc
  <2>4. Moves(k, e) /\ e.pc = pc /\ e.station = x.station
    BY <1>1, <2>1, <2>3, GotoMoves, Strings DEF ProcType
  <2>. HIDE DEF e
  <2>5. player'[target] = CASE x.pc = "setURI" -> [y EXCEPT !.uri = x.station]
                            [] x.pc = "start"  -> [y EXCEPT !.playing = TRUE]
                            [] OTHER           -> [y EXCEPT !.playing = FALSE]
    BY <1>1, <2>1 DEF Obeyed
  <2>6. y \in [uri : Stations \cup {None}, playing : BOOLEAN]
    BY <1>1
  <2>. HIDE DEF y, x
  <2>7. pc \in {"start", "note"} => player'[target].uri = e.station
    <3>1. CASE x.pc = "setURI"
      <4>1. player'[target] = [y EXCEPT !.uri = x.station]
        BY <2>5, <3>1
      <4>. QED BY <2>4, <2>6, <4>1
    <3>2. CASE x.pc = "start"
      <4>1. player'[target] = [y EXCEPT !.playing = TRUE]
        BY <2>5, <3>2
      <4>2. y.uri = x.station
        BY <3>2 DEF Told, x, y
      <4>. QED BY <2>4, <2>6, <4>1, <4>2
    <3>3. CASE x.pc \in {"stopFirst", "stop"}
      BY <2>2, <3>3
    <3>. QED BY <2>1, <3>1, <3>2, <3>3
  <2>8. pc = "note" => player'[target].playing
    <3>1. pc = "note" => x.pc = "start"
      BY <2>1, <2>2
    <3>2. x.pc = "start" => player'[target] = [y EXCEPT !.playing = TRUE]
      BY <2>5
    <3>. QED BY <2>6, <3>1, <3>2
  <2>9. target' = target
    BY <2>1
  <2>. QED BY <1>4, <2>3, <2>4, <2>7, <2>8, <2>9 DEF Told
<1>6. CASE Note(p) \/ Clear(p)
  <2>1. /\ Moves(k, Idle) /\ Idle.pc = "idle" /\ UNCHANGED <<target, player>>
        /\ \/ proc[k].pc = "note" /\ nowPlaying' = proc[k].station
           \/ proc[k].pc = "clear" /\ nowPlaying' = None
    BY <1>1, <1>2, <1>6, DoneMoves DEF Note, Clear, NoteFrame, Idle
  <2>2. Noted'
    BY <2>1 DEF Told, Noted
  <2>3. /\ proc'[Events] = proc[Events] /\ proc'[k] = Idle
        /\ \A q \in Requests \ {k} : proc'[q] = proc[q]
    BY <1>4, <2>1
  <2>. QED BY <2>1, <2>2, <2>3 DEF Told
<1>. QED BY <1>5, <1>6 DEF Command

LEMMA LoopKeepsTold ==
  ASSUME TypeInv, NEW k \in Requests, Told(k), Loop, ~TakePress
  PROVE  Told(k)'
<1>1. /\ TypeOK /\ Typed /\ Events \in Procs /\ Events \notin Requests /\ Requests \subseteq Procs
      /\ proc[Events] \in ProcType /\ Idle \in ProcType
  BY Locals DEF TypeInv
<1>2. ~LookUp
  BY DEF LookUp, EventStep, Told, StartPCs
<1>3. UNCHANGED <<target, nowPlaying, player>>
  BY <1>2 DEF Loop, SetParent, MakeContext, SpawnFirst, EnterSelect, manager
<1>4. PICK e : Moves(Events, e) /\ e.pc \in StartPCs \cup {"enter", "wait"}
  <2>. DEFINE x == proc[Events]
  <2>1. ASSUME SetParent PROVE \E e : Moves(Events, e) /\ e.pc \in StartPCs \cup {"enter", "wait"}
    <3>. DEFINE e == [x EXCEPT !.pc = "context"]
    <3>1. Moves(Events, e) /\ e.pc = "context"
      BY <1>1, <2>1, GotoMoves, Strings DEF SetParent, ProcType
    <3>. HIDE DEF e
    <3>. QED BY <3>1 DEF StartPCs
  <2>2. ASSUME MakeContext PROVE \E e : Moves(Events, e) /\ e.pc \in StartPCs \cup {"enter", "wait"}
    <3>. DEFINE e == [x EXCEPT !.pc = "spawn", !.ctx = contexts + 1]
    <3>1. contexts + 1 \in Contexts
      <4>1. wsCancel' \in Contexts \cup {0} /\ wsCancel' = contexts + 1 /\ contexts \in Nat
        BY <1>1, <2>2, LoopKeepsTypes DEF MakeContext, TypeInv, TypeOK, Contexts
      <4>. QED BY <4>1
    <3>2. Moves(Events, e) /\ e.pc = "spawn"
      BY <1>1, <2>2, <3>1, LoopMoves DEF ProcType
    <3>. HIDE DEF e
    <3>. QED BY <3>2 DEF StartPCs
  <2>3. ASSUME SpawnFirst PROVE \E e : Moves(Events, e) /\ e.pc \in StartPCs \cup {"enter", "wait"}
    <3>. DEFINE e == [x EXCEPT !.pc = "enter"]
    <3>1. Moves(Events, e) /\ e.pc = "enter"
      BY <1>1, <2>3, DoneMoves DEF SpawnFirst, ProcType
    <3>. HIDE DEF e
    <3>. QED BY <3>1
  <2>4. ASSUME EnterSelect PROVE \E e : Moves(Events, e) /\ e.pc \in StartPCs \cup {"enter", "wait"}
    <3>. DEFINE e == [Idle EXCEPT !.pc = "wait", !.on = ws]
    <3>1. Moves(Events, e) /\ e.pc = "wait"
      BY <1>1, <2>4, LoopMoves DEF ProcType
    <3>. HIDE DEF e
    <3>. QED BY <3>1
  <2>. QED BY <1>2, <2>1, <2>2, <2>3, <2>4 DEF Loop
<1>5. proc'[Events] = e /\ \A q \in Requests : proc'[q] = proc[q]
  BY <1>1, <1>4 DEF Moves
<1>. QED BY <1>3, <1>4, <1>5 DEF Told, Noted

LEMMA ToldStep == TypeInv /\ Tracked /\ AloneTold /\ [Next]_vars => AloneTold'
<1>. SUFFICES ASSUME TypeInv, Tracked, AloneTold, [Next]_vars, NEW k \in Requests, Alone(k)'
              PROVE  Told(k)'
  BY DEF AloneTold
<1>1. /\ Alone(k) /\ Told(k) /\ ~TakePress /\ (\A p \in Procs : ~CallFails(p))
  BY StillAlone DEF AloneTold, Alone
<1>2. CASE UNCHANGED vars
  BY <1>1, <1>2 DEF vars, Told, Noted
<1>3. ASSUME NEW r \in Requests, Arrive(r) \/ Acquire(r) \/ Switch(r) PROVE Told(k)'
  BY <1>1, <1>3, ClientKeepsTold
<1>4. ASSUME NEW p \in Procs, Command(p) PROVE Told(k)'
  BY <1>1, <1>4, CommandKeepsTold
<1>5. CASE Loop
  BY <1>1, <1>5, LoopKeepsTold
<1>6. ASSUME NEW c \in Contexts, Listen(c) \/ Deliver(c) PROVE Told(k)'
  <2>1. UNCHANGED <<target, nowPlaying, player, proc>>
    BY <1>6, ListenerStep DEF manager
  <2>. QED BY <1>1, <2>1 DEF Told, Noted
<1>. QED BY <1>2, <1>3, <1>4, <1>5, <1>6 DEF Next

\* While one client uses the bridge, no call to a speaker has failed and no button was
\* used: when no command runs, the station that Status (manager.go) reports is the one the
\* target speaker was told to play last, and the speaker is not stopped. It holds across
\* switches from speaker to speaker, unless one came before Start had set the parent context.
THEOREM StatusIsTrueForOneClient == Spec => []StatusIsTrue
<1>1. Init => AloneTold
  <2>. SUFFICES ASSUME Init, NEW k \in Requests PROVE Told(k)
    BY DEF AloneTold
  <2>1. /\ Requests \subseteq Procs /\ Events \in Procs /\ Events \notin Requests
        /\ \A r \in Requests : proc[r] = Idle
        /\ proc[Events] = [Idle EXCEPT !.pc = "new"] /\ nowPlaying = None
    BY ManagerAssumption DEF Init, Procs
  <2>. QED BY <2>1 DEF Told, Noted, StartPCs, Idle
<1>2. TypeInv /\ AloneTold => StatusIsTrue
  <2>. SUFFICES ASSUME TypeInv, AloneTold, Cardinality(clients) = 1, faults = 0, NoneTaken,
                       Quiet, "new" \notin early, nowPlaying # None
                PROVE  player[target].playing /\ player[target].uri = nowPlaying
    BY DEF StatusIsTrue
  <2>1. clients \subseteq Requests /\ IsFiniteSet(clients)
    BY ManagerAssumption, FS_Subset DEF TypeInv, TypeOK
  <2>2. PICK k : clients = {k}
    BY <2>1, FS_Singleton
  <2>3. k \in Requests /\ Told(k)
    BY <2>1, <2>2 DEF AloneTold, Alone
  <2>4. proc[k].pc \in {"idle", "enter", "wait"}
    BY <2>3, Locals DEF Quiet, TypeInv
  <2>. QED BY <2>3, <2>4 DEF Told, Noted
<1>. QED BY <1>1, <1>2, ToldStep, TypeInvariance, TrackedInvariance, PTL DEF Spec
=============================================================================
