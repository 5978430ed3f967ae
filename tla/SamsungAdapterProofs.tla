-------------------------- MODULE SamsungAdapterProofs --------------------------
(***************************************************************************)
(* For every set of images, cycles and callers, every bound and every      *)
(* combination of disturbances: the adapter's state is well typed, no      *)
(* caller waits on a dead connection, a command goes out only on what was  *)
(* observed last, the TV carries it out at most once, receipts are true,   *)
(* and a TV that failed an observation is left alone.                      *)
(*                                                                         *)
(* The invariant has a part for each actor. Shape says which phases an     *)
(* operation goes through for its command; Callers what the authorizations *)
(* are worth at each of them; Pending what the connection owes a waiter;   *)
(* Once that a command not yet sent has left no trace at the TV; Traces    *)
(* where a content ID in a message can have come from.                     *)
(***************************************************************************)
EXTENDS SamsungAdapter, TLAPS

Acts     == {"set", "delete", "store", "wake", "off"}  \* requests that change the TV
Mines    == {q \in asked : q.id = "mine"}
Untaken  == taken = 0 /\ \A q \in Mines : q.name \notin Acts
Waiting  == rpc = "waiting"

\* The phases of an operation, by what it wants and how far it is.
PhasesOf(o) ==
  CASE o.kind = "none"     -> {"idle"}
    [] o.kind = "shutdown" -> {"closing"}
    [] o.kind = "observe"  -> {"device", "connect", "artmode", "inventory", "setting", "closing"}
    [] o.stage = "guard"   -> {"device", "connect", "artmode"}
                              \cup (IF o.cmd.name # "wake" THEN {"inventory"} ELSE {})
                              \cup (IF o.cmd.name = "upload" THEN {"mattes"} ELSE {})
                              \cup (IF o.cmd.name = "set" THEN {"setting"} ELSE {})
    [] o.stage = "write"   -> CASE o.cmd.name = "upload" -> {"upload", "transfer", "confirm"}
                                [] o.cmd.name = "wake"   -> {"packet"}
                                [] o.cmd.name = "off"    -> {"press", "release"}
                                [] OTHER                 -> {o.cmd.name}
    [] OTHER               -> {"device", "connect", "artmode", "inventory", "setting", "again"}

GoodShape(o, p) ==
  /\ p \in PhasesOf(o)
  /\ o.kind = "apply" <=> o.stage # "observe"
  /\ o.kind = "apply" => o.want = Capability(o.cmd)
  /\ o.content # 0 => o.kind = "apply" /\ o.stage = "verify"
  /\ o.second => o.stage # "guard"
  /\ o.seen # "not_attempted"

Shape == GoodShape(op, phase) /\ (rpc # "idle" => phase \in Reads \cup Writes)

\* An Apply that may still send its command for the first time.
Unsent ==
  op.kind = "apply" /\ \/ op.stage = "guard"
                       \/ phase \in {"packet", "press"}
                       \/ phase \in Writes /\ ~Waiting /\ ~op.second

Callers ==
  /\ op.kind = "apply" => auths[op.slot] # None
  /\ op.kind = "apply" /\ ~sent =>
       auths[op.slot].writes = 0 /\ auths[op.slot].fresh /\ auths[op.slot].cycle = runtime.cycle
  /\ \A s \in Slots : auths[s] # None /\ auths[s].fresh =>
       /\ op.kind \in {"none", "apply"}
       /\ backoff => auths[s].want = "power"
       /\ ~(op.kind = "apply" /\ sent) => auths[s].writes = 0
  /\ Unsent => ~sent
  /\ op.kind # "apply" /\ receipt.outcome = "not_attempted" => ~sent

Pending ==
  /\ reader \in {"failing", "done"} => closed
  /\ reader = "done" => \A k \in Keys : ~listen[k].registered
  /\ rpc \in {"registered", "waiting"} =>
       listen["reply"].registered \/ listen["reply"].shut \/ listen["reply"].buf # <<>>

\* An Apply whose command cannot have reached the TV.
Untried ==
  op.kind = "apply" /\ \/ op.stage = "guard"
                       \/ phase \in {"upload", "transfer", "packet", "press", "release"}
                       \/ phase \in {"set", "delete"} /\ ~Waiting

Elements(s) == {s[i] : i \in DOMAIN s}

Once ==
  /\ taken <= 1
  /\ \A q \in Mines : q.name \in Acts => taken = 0 /\ \A r \in Mines : r.name \in Acts => r = q
  /\ Untried => Untaken
  /\ \A m \in Elements(listen["reply"].buf) : m.id = "mine"
  /\ phase = "set" /\ rpc \in {"checked", "registered"} =>
       Mines = {} /\ \A m \in Elements(wire) : m.id # "mine"
  /\ phase = "set" /\ rpc = "registered" => listen["reply"].buf = <<>>
  /\ phase = "set" /\ Waiting =>
       /\ \A q \in Mines : q.name = "set"
       /\ \A m \in Elements(wire) \cup Elements(listen["reply"].buf) :
            m.id = "mine" /\ m.verdict = "error" => Untaken

Traces ==
  /\ taken = 0 => stored = 0
  /\ \A m \in Elements(wire) \cup UNION {Elements(listen[k].buf) : k \in Keys} :
       m.id = "none" /\ m.view.content # 0 => m.view.content \in strays
  /\ (phase = "upload" /\ rpc # "idle") \/ phase \in {"transfer", "confirm"} =>
       \A m \in Elements(wire) \cup Elements(listen["image_added"].buf) :
         m.id = "mine" /\ m.view.content # 0 => m.view.content = stored
  /\ op.content # 0 => op.content \in {stored} \cup strays
  /\ op.kind # "apply" /\ receipt.content # 0 => receipt.content \in {stored} \cup strays

IInv == TypeOK /\ Shape /\ Callers /\ Pending /\ Once /\ Traces /\ LeftAlone

-----------------------------------------------------------------------------
(* The parts of the type invariant.                                        *)

OpTypeOK ==
  /\ op \in Operations
  /\ phase \in {"idle", "device", "connect", "closing", "transfer", "confirm", "packet",
                "press", "release", "again"} \cup Reads \cup Writes
  /\ rpc \in {"idle", "checked", "registered", "waiting"}
  /\ auths \in [Slots -> Authorizations \cup {None}]
  /\ runtime \in [cycle : Cycles \cup {None}, inv : Inventories]
  /\ backoff \in BOOLEAN
  /\ receipt \in [outcome : Outcomes, content : Ids \cup {0}]

WorldTypeOK ==
  /\ ConnTypeOK
  /\ tv \in [power : {"on", "standby", "off", "dark"}, art : BOOLEAN, shown : SUBSET Ids,
             setting : Settings]
  /\ asked \subseteq [id : {"mine", "other"}, name : Reads \cup Effects, target : Ids \cup {0}]
  /\ shut \in BOOLEAN /\ token \in BOOLEAN
  /\ sent \in BOOLEAN /\ taken \in 0..2 /\ stored \in Ids \cup {0} /\ strays \subseteq Ids
  /\ budget \in 0..Budget /\ left \in 0..MaxOperations

LEMMA TypeParts == TypeOK <=> OpTypeOK /\ WorldTypeOK
  BY DEF TypeOK, OpTypeOK, WorldTypeOK

LEMMA IdleType ==
  /\ Idle \in Operations /\ GoodShape(Idle, "idle") /\ Idle.kind = "none" /\ Idle.content = 0
  /\ Idle.stage = "observe" /\ ~Idle.second /\ Idle.seen = "unknown"
<1>1. (CHOOSE c \in Cycles : TRUE) \in Cycles /\ (CHOOSE s \in Slots : TRUE) \in Slots
  BY SomeCaller
<1>2. Idle.cmd \in Commands
  BY DEF Idle, Commands
<1>3. Idle \in Operations
  BY <1>1, <1>2 DEF Idle, Operations, Outcomes, Inventories
<1>4. /\ Idle.kind = "none" /\ Idle.content = 0 /\ Idle.stage = "observe" /\ ~Idle.second
      /\ Idle.seen = "unknown"
  BY DEF Idle
<1> QED
  BY <1>3, <1>4 DEF GoodShape, PhasesOf

LEMMA HazardType ==
  ASSUME WorldTypeOK, NEW h, Hazard(h)
  PROVE  budget' \in 0..Budget /\ left' \in 0..MaxOperations
  BY AdapterBounds DEF WorldTypeOK, Hazard

LEMMA StaleType ==
  ASSUME NEW as \in [Slots -> Authorizations \cup {None}]
  PROVE  /\ Stale(as) \in [Slots -> Authorizations \cup {None}]
         /\ \A s \in Slots : Stale(as)[s] # None => ~Stale(as)[s].fresh
<1>1. \A s \in Slots : as[s] = None \/ as[s] \in Authorizations
  OBVIOUS
<1>2. \A a \in Authorizations : /\ [a EXCEPT !.fresh = FALSE] \in Authorizations
                                /\ ~[a EXCEPT !.fresh = FALSE].fresh
  BY DEF Authorizations
<1> QED BY <1>1, <1>2 DEF Stale

-----------------------------------------------------------------------------
(* What a fact, an answer or a failure leads to, in one of four ways.      *)

Returned ==
  /\ op.kind = "observe"
  /\ \E inv \in Inventories, reset \in BOOLEAN :
       /\ Settle(inv, reset)
       /\ UNCHANGED auths \/ \E presumed \in BOOLEAN : Issue(inv, presumed)

Failed ==
  /\ op.kind = "observe" /\ backoff' \in BOOLEAN
  /\ Goto("closing") /\ UNCHANGED <<op, auths, runtime, receipt>>

Finished ==
  /\ op.kind = "apply"
  /\ \E inv \in Inventories, outcome \in Outcomes, content \in {0, op.content} :
       FinishSeeing(inv, outcome, content) /\ (outcome = "not_attempted" => ~sent)

\* A write begins after the guard, or once more after a rejection.
Moved(retry) ==
  \E inv \in Inventories, o \in Operations : \E p \in PhasesOf(o) :
    /\ ThenSeeing(inv, p, o) /\ GoodShape(o, p) /\ p # "closing"
    /\ o.kind = op.kind /\ o.slot = op.slot /\ o.want = op.want
    /\ o.content \in {op.content, stored, 0} \cup strays
    /\ o.stage = "guard" => op.stage = "guard"
    /\ o.stage = "write" => \/ op.stage = "guard" /\ p \notin {"transfer", "confirm", "release"}
                            \/ phase = "upload" /\ Waiting /\ p = "transfer"
                            \/ phase = "transfer" /\ p = "confirm"
                            \/ phase = "set" /\ retry /\ p = "set" /\ o.second

LeadsTo(retry) == Returned \/ Failed \/ Finished \/ Moved(retry)

\* Where those operators are used.
Working ==
  OpTypeOK /\ Shape /\ (Unsent => ~sent) /\ op.kind \in {"observe", "apply"} /\ phase # "closing"

LEMMA ThenMoves ==
  ASSUME Working, NEW retry \in BOOLEAN, NEW inv \in Inventories, NEW o \in Operations,
         NEW p, ThenSeeing(inv, p, o), GoodShape(o, p), p # "closing",
         o.kind = op.kind, o.slot = op.slot, o.want = op.want,
         o.content \in {op.content, stored, 0} \cup strays,
         o.stage = "guard" => op.stage = "guard",
         o.stage = "write" => \/ op.stage = "guard" /\ p \notin {"transfer", "confirm", "release"}
                              \/ phase = "upload" /\ Waiting /\ p = "transfer"
                              \/ phase = "transfer" /\ p = "confirm"
                              \/ phase = "set" /\ retry /\ p = "set" /\ o.second
  PROVE  LeadsTo(retry)
<1>1. Moved(retry)
  BY DEF Moved, GoodShape
<1> QED BY <1>1 DEF LeadsTo

LEMMA FinishEnds ==
  ASSUME Working, op.kind = "apply", NEW inv \in Inventories, NEW outcome \in Outcomes,
         NEW content \in {0, op.content}, FinishSeeing(inv, outcome, content),
         outcome = "not_attempted" => ~sent, NEW retry \in BOOLEAN
  PROVE  LeadsTo(retry)
<1>1. Finished
  BY DEF Finished
<1> QED BY <1>1 DEF LeadsTo

LEMMA RefuseEnds ==
  ASSUME Working, op.kind = "apply", Refuse, ~sent, NEW retry \in BOOLEAN
  PROVE  LeadsTo(retry)
<1>1. runtime.inv \in Inventories /\ "not_attempted" \in Outcomes
  BY DEF Working, OpTypeOK, Outcomes
<1>2. FinishSeeing(runtime.inv, "not_attempted", 0)
  BY DEF Refuse, Finish
<1> QED BY <1>1, <1>2, FinishEnds

LEMMA FailObservationEnds ==
  ASSUME Working, op.kind = "observe", NEW kind, FailObservation(kind), NEW retry \in BOOLEAN
  PROVE  LeadsTo(retry)
<1>1. CASE kind = "canceled"
  <2>1. Settle(None, FALSE) /\ UNCHANGED auths
    BY <1>1 DEF FailObservation
  <2>2. Returned
    BY <2>1 DEF Returned, Inventories
  <2> QED BY <2>2 DEF LeadsTo
<1>2. CASE kind # "canceled"
  <2>1. Failed
    BY <1>2 DEF FailObservation, Failed, Working, OpTypeOK
  <2> QED BY <2>1 DEF LeadsTo
<1> QED BY <1>1, <1>2

LEMMA SettleEnds ==
  ASSUME Working, op.kind = "observe", NEW inv \in Inventories, NEW reset \in BOOLEAN,
         Settle(inv, reset), NEW presumed \in BOOLEAN, NEW retry \in BOOLEAN,
         UNCHANGED auths \/ Issue(inv, presumed)
  PROVE  LeadsTo(retry)
<1>1. Returned
  BY DEF Returned
<1> QED BY <1>1 DEF LeadsTo

\* The inventory is left alone, and so is the rest of the operation but for its stage.
LEMMA ContinueMoves ==
  ASSUME Working, NEW p, Continue(p), p \in PhasesOf(op), p # "closing",
         op.stage = "write" => \/ phase = "upload" /\ Waiting /\ p = "transfer"
                               \/ phase = "transfer" /\ p = "confirm",
         NEW retry \in BOOLEAN
  PROVE  LeadsTo(retry)
<1>1. runtime.inv \in Inventories /\ op \in Operations /\ ThenSeeing(runtime.inv, p, op)
  BY DEF Working, OpTypeOK, Continue, Then
<1>2. GoodShape(op, p)
  BY DEF Working, Shape, GoodShape
<1> QED BY <1>1, <1>2, ThenMoves

LEMMA WriteStageMoves ==
  ASSUME Working, op.kind = "apply", op.stage = "guard", NEW p, WriteStage(p),
         <<op.cmd.name, p>> \in {<<"upload", "upload">>, <<"wake", "packet">>, <<"off", "press">>,
                                 <<"delete", "delete">>, <<"set", "set">>},
         NEW retry \in BOOLEAN
  PROVE  LeadsTo(retry)
<1> DEFINE o == [op EXCEPT !.stage = "write"]
<1>1. runtime.inv \in Inventories /\ op \in Operations /\ ThenSeeing(runtime.inv, p, o)
  BY DEF Working, OpTypeOK, WriteStage, Then
<1>2. /\ o \in Operations /\ o.stage = "write" /\ o.kind = op.kind /\ o.slot = op.slot
      /\ o.want = op.want /\ o.content = op.content /\ o.cmd = op.cmd /\ o.seen = op.seen
  BY <1>1 DEF Operations
<1> HIDE DEF o
<1>3. p \in PhasesOf(o)
  BY <1>2 DEF PhasesOf
<1>4. p \notin {"closing", "transfer", "confirm", "release"}
  OBVIOUS
<1>5. GoodShape(op, phase)
  BY DEF Working, Shape
<1>6. GoodShape(o, p)
  BY <1>2, <1>3, <1>5 DEF GoodShape
<1> QED BY <1>1, <1>2, <1>4, <1>6, ThenMoves

LEMMA NotYetMoves ==
  ASSUME Working, op.kind = "apply", op.stage = "verify", NEW inv \in Inventories,
         NEW outcome \in Outcomes \ {"not_attempted"}, NotYetSeeing(inv, outcome),
         NEW retry \in BOOLEAN
  PROVE  LeadsTo(retry)
<1> DEFINE o == [op EXCEPT !.seen = outcome]
<1>1. op \in Operations /\ ThenSeeing(inv, "again", o)
  BY DEF Working, OpTypeOK, NotYetSeeing
<1>2. /\ o \in Operations /\ o.stage = op.stage /\ o.kind = op.kind /\ o.slot = op.slot
      /\ o.want = op.want /\ o.content = op.content /\ o.cmd = op.cmd /\ o.seen = outcome
      /\ o.second = op.second
  BY <1>1 DEF Operations
<1> HIDE DEF o
<1>3. GoodShape(op, phase)
  BY DEF Working, Shape
<1>4. "again" \in PhasesOf(o)
  BY <1>2 DEF PhasesOf
<1>5. GoodShape(o, "again")
  BY <1>2, <1>3, <1>4 DEF GoodShape
<1>6. o.stage # "guard" /\ o.stage # "write"
  BY <1>2
<1> QED BY <1>1, <1>2, <1>5, <1>6, ThenMoves

LEMMA StageOfKind ==
  ASSUME Working
  PROVE  /\ op.kind = "observe" <=> op.stage = "observe"
         /\ op.kind = "apply" <=> op.stage \in {"guard", "write", "verify"}
         /\ op.stage = "guard" => ~sent
         /\ runtime.inv \in Inventories /\ op.cmd \in Commands /\ op.inv \in Inventories
         /\ auths[op.slot] \in Authorizations \cup {None}
         /\ op \in Operations
  BY DEF Working, Shape, GoodShape, OpTypeOK, Operations, Unsent

LEMMA PowerReadLeads ==
  ASSUME Working, phase \in {"device", "connect", "artmode"},
         NEW state \in {"art", "off", "watching"}, PowerRead(state), NEW retry \in BOOLEAN
  PROVE  LeadsTo(retry)
<1>1. op.stage \in {"observe", "guard", "verify"}
  BY StageOfKind DEF Working, Shape, GoodShape, PhasesOf, Commands
<1>2. CASE op.stage = "observe" /\ state # "art"
  <2>1. /\ Settle(None, TRUE)
        /\ UNCHANGED auths \/ Issue(None, FALSE)
    BY <1>2 DEF PowerRead
  <2>2. None \in Inventories
    BY DEF Inventories
  <2> QED BY <1>2, <2>1, <2>2, SettleEnds, StageOfKind
<1>3. CASE op.stage = "guard" /\ op.cmd.name = "wake"
  <2>1. CASE state = "off" /\ HasMAC
    <3>1. WriteStage("packet")
      BY <1>3, <2>1 DEF PowerRead
    <3> QED BY <1>3, <3>1, WriteStageMoves, StageOfKind
  <2>2. CASE ~(state = "off" /\ HasMAC)
    <3>1. Refuse
      BY <1>3, <2>2 DEF PowerRead
    <3> QED BY <1>3, <3>1, RefuseEnds, StageOfKind
  <2> QED BY <2>1, <2>2
<1>4. CASE op.stage = "guard" /\ op.cmd.name # "wake" /\ state # "art"
  <2>1. Refuse
    BY <1>4 DEF PowerRead
  <2> QED BY <1>4, <2>1, RefuseEnds, StageOfKind
<1>5. CASE op.stage = "verify"
  <2>1. Finish("applied", 0) \/ NotYet("unknown")
    BY <1>5 DEF PowerRead
  <2>2. CASE Finish("applied", 0)
    BY <1>5, <2>2, FinishEnds, StageOfKind DEF Finish, Outcomes
  <2>3. CASE NotYet("unknown")
    BY <1>5, <2>3, NotYetMoves, StageOfKind DEF NotYet, Outcomes
  <2> QED BY <2>1, <2>2, <2>3
<1>6. CASE op.stage \in {"observe", "guard"} /\ state = "art" /\ ~(op.stage = "guard" /\ op.cmd.name = "wake")
  <2>1. Continue("inventory")
    BY <1>6 DEF PowerRead
  <2>2. "inventory" \in PhasesOf(op)
    BY <1>6, StageOfKind DEF PhasesOf
  <2>3. op.stage # "write"
    BY <1>6
  <2> QED BY <2>1, <2>2, <2>3, ContinueMoves
<1> QED BY <1>1, <1>2, <1>3, <1>4, <1>5, <1>6

LEMMA DeviceFailsLeads ==
  ASSUME Working, phase = "device", NEW unreachable \in BOOLEAN, DeviceFails(unreachable),
         NEW retry \in BOOLEAN
  PROVE  LeadsTo(retry)
<1>1. op.stage \in {"observe", "guard", "verify"}
  BY StageOfKind DEF Working, Shape, GoodShape, PhasesOf, Commands
<1>2. None \in Inventories
  BY DEF Inventories
<1>3. CASE op.stage = "observe"
  <2>1. CASE unreachable /\ op.want = "power" /\ HasMAC
    <3>1. Settle(None, FALSE) /\ Issue(None, TRUE)
      BY <1>3, <2>1 DEF DeviceFails
    <3> QED BY <1>2, <1>3, <2>1, <3>1, SettleEnds, StageOfKind
  <2>2. CASE ~(unreachable /\ op.want = "power" /\ HasMAC)
    <3>1. FailObservation("retryable")
      BY <1>3, <2>2 DEF DeviceFails
    <3> QED BY <1>3, <3>1, FailObservationEnds, StageOfKind
  <2> QED BY <2>1, <2>2
<1>4. CASE op.stage = "guard"
  <2>1. CASE unreachable /\ op.cmd.name = "wake" /\ auths[op.slot].presumed /\ HasMAC
    <3>1. WriteStage("packet")
      BY <1>4, <2>1 DEF DeviceFails
    <3> QED BY <1>4, <2>1, <3>1, WriteStageMoves, StageOfKind
  <2>2. CASE ~(unreachable /\ op.cmd.name = "wake" /\ auths[op.slot].presumed /\ HasMAC)
    <3>1. Refuse
      BY <1>4, <2>2 DEF DeviceFails
    <3> QED BY <1>4, <3>1, RefuseEnds, StageOfKind
  <2> QED BY <2>1, <2>2
<1>5. CASE op.stage = "verify"
  <2>1. Finish("applied", 0) \/ NotYet("unknown")
    BY <1>5 DEF DeviceFails
  <2>2. CASE Finish("applied", 0)
    BY <1>5, <2>2, FinishEnds, StageOfKind DEF Finish, Outcomes
  <2>3. CASE NotYet("unknown")
    BY <1>5, <2>3, NotYetMoves, StageOfKind DEF NotYet, Outcomes
  <2> QED BY <2>1, <2>2, <2>3
<1> QED BY <1>1, <1>3, <1>4, <1>5

LEMMA ConnectFailsLeads ==
  ASSUME Working, phase = "connect", NEW kind, ConnectFails(kind), NEW retry \in BOOLEAN
  PROVE  LeadsTo(retry)
<1>1. op.stage \in {"observe", "guard", "verify"}
  BY StageOfKind DEF Working, Shape, GoodShape, PhasesOf, Commands
<1>2. None \in Inventories
  BY DEF Inventories
<1>3. \/ PowerRead("off")
      \/ op.stage = "observe" /\ Settle(None, TRUE) /\ UNCHANGED auths
      \/ op.stage = "observe" /\ FailObservation(kind)
      \/ op.stage = "guard" /\ Refuse
      \/ op.stage = "verify" /\ NotYet("unknown")
  BY <1>1 DEF ConnectFails
<1>4. CASE PowerRead("off")
  BY <1>4, PowerReadLeads
<1>5. CASE op.stage = "observe" /\ Settle(None, TRUE) /\ UNCHANGED auths
  BY <1>2, <1>5, SettleEnds, StageOfKind
<1>6. CASE op.stage = "observe" /\ FailObservation(kind)
  BY <1>6, FailObservationEnds, StageOfKind
<1>7. CASE op.stage = "guard" /\ Refuse
  BY <1>7, RefuseEnds, StageOfKind
<1>8. CASE op.stage = "verify" /\ NotYet("unknown")
  BY <1>8, NotYetMoves, StageOfKind DEF NotYet, Outcomes
<1> QED BY <1>3, <1>4, <1>5, <1>6, <1>7, <1>8

LEMMA InventoryReadLeads ==
  ASSUME Working, phase = "inventory", NEW inv \in SUBSET Ids, InventoryRead(inv),
         NEW retry \in BOOLEAN
  PROVE  LeadsTo(retry)
<1>1. op.stage \in {"observe", "guard", "verify"}
  BY StageOfKind DEF Working, Shape, GoodShape, PhasesOf, Commands
<1>2. inv \in Inventories
  BY DEF Inventories
<1>3. GoodShape(op, phase)
  BY DEF Working, Shape
<1>4. CASE op.stage = "observe"
  <2>1. ObserveInventory(inv)
    BY <1>4 DEF InventoryRead
  <2>2. CASE op.want = "power"
    BY <1>2, <1>4, <2>1, <2>2, SettleEnds, StageOfKind DEF ObserveInventory
  <2>3. CASE op.want # "power"
    <3> DEFINE o == [op EXCEPT !.inv = inv]
    <3>1. ThenSeeing(runtime.inv, "setting", o)
      BY <2>1, <2>3 DEF ObserveInventory, Then
    <3>2. /\ o \in Operations /\ o.stage = "observe" /\ o.kind = op.kind /\ o.slot = op.slot
          /\ o.want = op.want /\ o.content = op.content /\ o.cmd = op.cmd /\ o.seen = op.seen
          /\ o.second = op.second
      BY <1>2, <1>4, StageOfKind DEF Operations
    <3> HIDE DEF o
    <3>3. GoodShape(o, "setting")
      BY <1>3, <1>4, <3>2, StageOfKind DEF GoodShape, PhasesOf
    <3>4. o.stage # "guard" /\ o.stage # "write"
      BY <3>2
    <3> QED BY <3>1, <3>2, <3>3, <3>4, ThenMoves, StageOfKind
  <2> QED BY <2>2, <2>3
<1>5. CASE op.stage = "guard"
  <2>1. GuardInventory(inv)
    BY <1>5 DEF InventoryRead
  <2>2. CASE Refuse
    BY <1>5, <2>2, RefuseEnds, StageOfKind
  <2>3. CASE ~Refuse
    <3>1. PICK p, o :
            /\ ThenSeeing(inv, p, o)
            /\ <<op.cmd.name, p>> \in {<<"upload", "mattes">>, <<"set", "setting">>,
                                       <<"delete", "delete">>, <<"off", "press">>}
            /\ o = [op EXCEPT !.inv = inv,
                              !.stage = IF op.cmd.name \in {"delete", "off"} THEN "write" ELSE @]
      <4>1. op.cmd.name \in {"upload", "set", "delete", "off"}
        BY <1>3, <1>5, StageOfKind DEF GoodShape, PhasesOf, Commands
      <4> QED BY <2>1, <2>3, <4>1 DEF GuardInventory
    <3>2. /\ o \in Operations /\ o.kind = op.kind /\ o.slot = op.slot
          /\ o.want = op.want /\ o.content = op.content /\ o.cmd = op.cmd /\ o.seen = op.seen
          /\ o.second = op.second
          /\ o.stage = IF op.cmd.name \in {"delete", "off"} THEN "write" ELSE "guard"
      BY <1>2, <1>5, <3>1, StageOfKind DEF Operations
    <3>3. p \in PhasesOf(o)
      BY <1>5, <3>1, <3>2, StageOfKind DEF PhasesOf
    <3>4. GoodShape(o, p)
      BY <1>3, <1>5, <3>2, <3>3, StageOfKind DEF GoodShape
    <3>5. p \notin {"closing", "transfer", "confirm", "release"}
      BY <3>1
    <3> QED BY <1>2, <1>5, <3>1, <3>2, <3>4, <3>5, ThenMoves, StageOfKind
  <2> QED BY <2>2, <2>3
<1>6. CASE op.stage = "verify"
  <2>1. MembershipRead(inv)
    BY <1>6 DEF InventoryRead
  <2>2. \/ FinishSeeing(inv, "applied", op.content) \/ FinishSeeing(inv, "not_applied", op.content)
        \/ FinishSeeing(inv, "applied", 0) \/ NotYetSeeing(inv, "not_applied")
    BY <2>1 DEF MembershipRead
  <2>3. CASE NotYetSeeing(inv, "not_applied")
    BY <1>2, <1>6, <2>3, NotYetMoves, StageOfKind DEF Outcomes
  <2>4. CASE \E outcome \in {"applied", "not_applied"}, content \in {0, op.content} :
               FinishSeeing(inv, outcome, content)
    BY <1>2, <1>6, <2>4, FinishEnds, StageOfKind DEF Outcomes
  <2> QED BY <2>2, <2>3, <2>4
<1> QED BY <1>1, <1>4, <1>5, <1>6

LEMMA SettingReadLeads ==
  ASSUME Working, phase = "setting", NEW value, SettingRead(value), NEW retry \in BOOLEAN
  PROVE  LeadsTo(retry)
<1>1. op.stage \in {"observe", "guard", "verify"}
  BY StageOfKind DEF Working, Shape, GoodShape, PhasesOf, Commands
<1>2. CASE op.stage = "observe"
  <2>1. Settle(op.inv, TRUE) /\ Issue(op.inv, FALSE)
    BY <1>2 DEF SettingRead
  <2> QED BY <1>2, <2>1, SettleEnds, StageOfKind
<1>3. CASE op.stage = "guard"
  <2>1. op.cmd.name = "set"
    BY <1>3, StageOfKind DEF Working, Shape, GoodShape, PhasesOf
  <2>2. CASE value = "before"
    <3>1. WriteStage("set")
      BY <1>3, <2>2 DEF SettingRead
    <3> QED BY <1>3, <2>1, <3>1, WriteStageMoves, StageOfKind
  <2>3. CASE value # "before"
    <3>1. Refuse
      BY <1>3, <2>3 DEF SettingRead
    <3> QED BY <1>3, <3>1, RefuseEnds, StageOfKind
  <2> QED BY <2>2, <2>3
<1>4. CASE op.stage = "verify"
  <2>1. PICK outcome \in Outcomes \ {"not_attempted"} : Finish(outcome, 0)
    BY <1>4 DEF SettingRead, Outcomes
  <2> QED BY <1>4, <2>1, FinishEnds, StageOfKind DEF Finish
<1> QED BY <1>1, <1>2, <1>3, <1>4

LEMMA RequestFailsLeads ==
  ASSUME Working, phase \in Reads \cup Writes, NEW r, NEW early \in BOOLEAN, early => ~Waiting,
         RequestFails(r, early)
  PROVE  LeadsTo(r = "rejected")
<1> DEFINE retry == r = "rejected"
<1>0. retry \in BOOLEAN
  OBVIOUS
<1>1. op.stage \in {"observe", "guard", "write", "verify"}
  BY StageOfKind DEF Operations
<1>2. GoodShape(op, phase)
  BY DEF Working, Shape
<1>3. CASE phase = "artmode" /\ op.standby /\ r # "canceled"
  <2>1. PowerRead("off")
    BY <1>3 DEF RequestFails
  <2> QED BY <1>0, <1>3, <2>1, PowerReadLeads
<1>4. CASE ~(phase = "artmode" /\ op.standby /\ r # "canceled") /\ op.stage = "observe"
  <2>1. \/ Settle(op.inv, TRUE) /\ Issue(op.inv, FALSE)
        \/ \E kind : FailObservation(kind)
    BY <1>4 DEF RequestFails
  <2> QED BY <1>0, <1>4, <2>1, SettleEnds, FailObservationEnds, StageOfKind
<1>5. CASE ~(phase = "artmode" /\ op.standby /\ r # "canceled") /\ op.stage = "guard"
  <2>1. CASE phase = "mattes"
    <3>1. WriteStage("upload") /\ op.cmd.name = "upload"
      BY <1>2, <1>5, <2>1, StageOfKind DEF RequestFails, GoodShape, PhasesOf
    <3> QED BY <1>0, <1>5, <3>1, WriteStageMoves, StageOfKind
  <2>2. CASE phase # "mattes"
    <3>1. Refuse
      BY <1>5, <2>2 DEF RequestFails
    <3> QED BY <1>0, <1>5, <3>1, RefuseEnds, StageOfKind
  <2> QED BY <2>1, <2>2
<1>6. CASE ~(phase = "artmode" /\ op.standby /\ r # "canceled") /\ op.stage = "verify"
  <2>1. Finish("unknown", op.content) \/ NotYet("unknown")
    BY <1>6 DEF RequestFails
  <2>2. CASE Finish("unknown", op.content)
    BY <1>0, <1>6, <2>2, FinishEnds, StageOfKind DEF Finish, Outcomes
  <2>3. CASE NotYet("unknown")
    BY <1>0, <1>6, <2>3, NotYetMoves, StageOfKind DEF NotYet, Outcomes
  <2> QED BY <2>1, <2>2, <2>3
<1>7. CASE op.stage = "write"
  <2>0. phase \in Writes /\ phase # "artmode" /\ phase = op.cmd.name
    BY <1>2, <1>7, StageOfKind DEF GoodShape, PhasesOf, Reads, Writes, Commands
  <2>1. CASE early /\ ~op.second
    <3>1. Refuse /\ ~sent
      BY <1>7, <2>0, <2>1, StageOfKind DEF RequestFails, WriteFails, Unsent, Working
    <3> QED BY <1>0, <1>7, <3>1, RefuseEnds, StageOfKind
  <2>2. CASE ~(early /\ ~op.second) /\ phase = "set" /\ r = "rejected" /\ ~op.second
    <3> DEFINE o == [op EXCEPT !.second = TRUE]
    <3>1. ThenSeeing(runtime.inv, "set", o)
      BY <1>7, <2>2 DEF RequestFails, WriteFails, NotApplied, Then
    <3>2. /\ o \in Operations /\ o.kind = op.kind /\ o.slot = op.slot /\ o.second
          /\ o.want = op.want /\ o.content = op.content /\ o.cmd = op.cmd /\ o.seen = op.seen
          /\ o.stage = "write"
      BY <1>7, StageOfKind DEF Operations
    <3> HIDE DEF o
    <3>3. GoodShape(o, "set")
      BY <1>2, <1>7, <2>0, <2>2, <3>2, StageOfKind DEF GoodShape, PhasesOf
    <3>4. o.stage # "guard"
      BY <3>2
    <3> QED BY <1>0, <2>2, <3>1, <3>2, <3>3, <3>4, ThenMoves, StageOfKind
  <2>3. CASE phase = "delete" /\ r = "timeout" /\ ~(early /\ ~op.second)
    <3> DEFINE o == [op EXCEPT !.stage = "verify"]
    <3>1. ThenSeeing(runtime.inv, "inventory", o)
      BY <1>7, <2>3 DEF RequestFails, WriteFails, NotApplied, Then
    <3>2. /\ o \in Operations /\ o.kind = op.kind /\ o.slot = op.slot /\ o.second = op.second
          /\ o.want = op.want /\ o.content = op.content /\ o.cmd = op.cmd /\ o.seen = op.seen
          /\ o.stage = "verify"
      BY <1>7, StageOfKind DEF Operations
    <3> HIDE DEF o
    <3>3. GoodShape(o, "inventory")
      BY <1>2, <1>7, <2>0, <2>3, <3>2, StageOfKind DEF GoodShape, PhasesOf
    <3>4. o.stage # "guard" /\ o.stage # "write"
      BY <3>2
    <3> QED BY <1>0, <3>1, <3>2, <3>3, <3>4, ThenMoves, StageOfKind
  <2>4. CASE /\ ~(early /\ ~op.second)
             /\ ~(phase = "set" /\ r = "rejected" /\ ~op.second)
             /\ ~(phase = "delete" /\ r = "timeout")
    <3>1. Finish("not_applied", 0) \/ Finish("unknown", 0)
      BY <1>7, <2>0, <2>4 DEF RequestFails, WriteFails, NotApplied
    <3> QED BY <1>0, <1>7, <3>1, FinishEnds, StageOfKind DEF Finish, Outcomes
  <2> QED BY <2>1, <2>2, <2>3, <2>4
<1> QED BY <1>1, <1>3, <1>4, <1>5, <1>6, <1>7

\* The verification of a write begins.
LEMMA VerifyMoves ==
  ASSUME Working, op.stage = "write", NEW p \in {"device", "setting", "inventory"},
         Then(p, [op EXCEPT !.stage = "verify"]), NEW retry \in BOOLEAN
  PROVE  LeadsTo(retry)
<1> DEFINE o == [op EXCEPT !.stage = "verify"]
<1>1. ThenSeeing(runtime.inv, p, o)
  BY DEF Then
<1>2. /\ o \in Operations /\ o.kind = op.kind /\ o.slot = op.slot /\ o.second = op.second
      /\ o.want = op.want /\ o.content = op.content /\ o.cmd = op.cmd /\ o.seen = op.seen
      /\ o.stage = "verify"
  BY StageOfKind DEF Operations
<1> HIDE DEF o
<1>3. GoodShape(o, p)
  BY <1>2, StageOfKind DEF Working, Shape, GoodShape, PhasesOf
<1>4. o.stage # "guard" /\ o.stage # "write"
  BY <1>2
<1> QED BY <1>1, <1>2, <1>3, <1>4, ThenMoves, StageOfKind

LEMMA AnsweredLeads ==
  ASSUME Working, phase \in Reads \cup Writes, Waiting, NEW m \in Messages, Answered(m)
  PROVE  LeadsTo(m.verdict = "error")
<1> DEFINE retry == m.verdict = "error"
<1>0. retry \in BOOLEAN
  OBVIOUS
<1>1. GoodShape(op, phase)
  BY DEF Working, Shape
<1>2. CASE m.verdict = "error"
  <2>1. RequestFails("rejected", FALSE)
    BY <1>2 DEF Answered
  <2>2. LeadsTo("rejected" = "rejected")
    BY <2>1, RequestFailsLeads
  <2>3. ("rejected" = "rejected") = (m.verdict = "error")
    BY <1>2
  <2> QED BY <2>2, <2>3
<1>3. CASE m.verdict = "full"
  <2>1. RequestFails("full", FALSE)
    BY <1>3 DEF Answered
  <2>2. LeadsTo("full" = "rejected")
    BY <2>1, RequestFailsLeads
  <2>3. ("full" = "rejected") = (m.verdict = "error")
    BY <1>3
  <2> QED BY <2>2, <2>3
<1>4. CASE m.verdict = "ok"
  <2>1. CASE phase = "artmode"
    <3>1. PICK state \in {"art", "off", "watching"} : PowerRead(state)
      BY <1>4, <2>1 DEF Answered, Fulfilled
    <3> QED BY <1>0, <2>1, <3>1, PowerReadLeads
  <2>2. CASE phase = "inventory"
    <3>1. InventoryRead(m.view.shown) /\ m.view.shown \in SUBSET Ids
      BY <1>4, <2>2 DEF Answered, Fulfilled, Messages, Views
    <3> QED BY <1>0, <2>2, <3>1, InventoryReadLeads
  <2>3. CASE phase = "setting"
    <3>1. SettingRead(m.view.setting)
      BY <1>4, <2>3 DEF Answered, Fulfilled
    <3> QED BY <1>0, <2>3, <3>1, SettingReadLeads
  <2>4. CASE phase = "mattes"
    <3>1. WriteStage("upload")
      BY <1>4, <2>4 DEF Answered, Fulfilled
    <3>2. op.stage = "guard" /\ op.cmd.name = "upload"
      BY <1>1, <2>4, StageOfKind DEF GoodShape, PhasesOf, Commands
    <3> QED BY <1>0, <3>1, <3>2, WriteStageMoves, StageOfKind
  <2>5. CASE phase = "upload"
    <3>1. Continue("transfer")
      BY <1>4, <2>5 DEF Answered, Fulfilled
    <3>2. "transfer" \in PhasesOf(op)
      BY <1>1, <2>5, StageOfKind DEF GoodShape, PhasesOf, Commands
    <3> QED BY <1>0, <2>5, <3>1, <3>2, ContinueMoves
  <2>6. CASE phase \in {"set", "delete"}
    <3>1. \E p \in {"setting", "inventory"} : Then(p, [op EXCEPT !.stage = "verify"])
      BY <1>4, <2>6 DEF Answered, Fulfilled
    <3>2. op.stage = "write"
      BY <1>1, <2>6, StageOfKind DEF GoodShape, PhasesOf, Commands
    <3> QED BY <1>0, <3>1, <3>2, VerifyMoves
  <2> QED BY <2>1, <2>2, <2>3, <2>4, <2>5, <2>6 DEF Reads, Writes
<1> QED BY <1>2, <1>3, <1>4 DEF Messages

-----------------------------------------------------------------------------
(* Each of the four ways keeps the invariant.                              *)

\* What is going on while an operation works, of which the messages and requests are
\* no more than before.
Onward ==
  /\ IInv /\ op.kind \in {"observe", "apply"} /\ phase # "closing"
  /\ WorldTypeOK' /\ UNCHANGED <<sent, taken, stored, strays>>
  /\ \/ UNCHANGED asked
     \/ /\ phase \in {"transfer", "release"}
        /\ asked' = asked \cup {[id |-> "mine", target |-> 0,
                                name |-> IF phase = "transfer" THEN "store" ELSE "off"]}
  /\ Elements(wire') \subseteq Elements(wire)
  /\ \A k \in Keys : Elements(listen'[k].buf) \subseteq Elements(listen[k].buf)
  /\ reader' \in {"failing", "done"} => closed'
  /\ reader' = "done" => \A k \in Keys : ~listen'[k].registered

LEMMA OnwardWorks == Onward => Working
  BY TypeParts DEF Onward, Working, IInv, Callers

LEMMA LeadsToTypes ==
  ASSUME Onward, NEW retry \in BOOLEAN, LeadsTo(retry)
  PROVE  TypeOK' /\ Shape' /\ rpc' = "idle"
<1>1. OpTypeOK /\ Shape /\ op \in Operations
  BY TypeParts DEF Onward, IInv, OpTypeOK
<1>2. CASE Returned
  <2>1. PICK inv \in Inventories, reset \in BOOLEAN :
          Settle(inv, reset) /\ (UNCHANGED auths \/ \E presumed \in BOOLEAN : Issue(inv, presumed))
    BY <1>2 DEF Returned
  <2>2. /\ op' = Idle /\ phase' = "idle" /\ rpc' = "idle" /\ receipt' = receipt
        /\ runtime' = [cycle |-> op.cycle, inv |-> inv] /\ backoff' \in BOOLEAN
    BY <2>1 DEF Settle, Goto
  <2>3. auths' \in [Slots -> Authorizations \cup {None}]
    <3>1. CASE UNCHANGED auths
      BY <1>1, <3>1 DEF OpTypeOK
    <3>2. ASSUME NEW presumed \in BOOLEAN, Issue(inv, presumed)
          PROVE  auths' \in [Slots -> Authorizations \cup {None}]
      <4>1. [fresh |-> TRUE, cycle |-> op.cycle, want |-> op.want, inv |-> inv, dry |-> op.dry,
             presumed |-> presumed, writes |-> 0] \in Authorizations
        BY <1>1 DEF Authorizations, Operations
      <4> QED BY <1>1, <3>2, <4>1 DEF OpTypeOK, Issue
    <3> QED BY <2>1, <3>1, <3>2
  <2>4. runtime' \in [cycle : Cycles \cup {None}, inv : Inventories]
    BY <1>1, <2>2 DEF Operations
  <2>5. OpTypeOK'
    BY <1>1, <2>2, <2>3, <2>4, IdleType DEF OpTypeOK
  <2>6. Shape'
    BY <2>2, IdleType DEF Shape
  <2> QED BY <2>2, <2>5, <2>6, TypeParts DEF Onward, TypeOK, OpTypeOK, WorldTypeOK
<1>3. CASE Failed
  <2>1. op' = op /\ phase' = "closing" /\ rpc' = "idle" /\ op.kind = "observe"
    BY <1>3 DEF Failed, Goto
  <2>2. OpTypeOK'
    BY <1>1, <1>3, <2>1 DEF Failed, OpTypeOK
  <2>3. Shape'
    BY <1>1, <2>1 DEF Shape, GoodShape, PhasesOf
  <2> QED BY <2>1, <2>2, <2>3 DEF Onward, TypeOK, OpTypeOK, WorldTypeOK
<1>4. CASE Finished
  <2>1. PICK inv \in Inventories, outcome \in Outcomes, content \in {0, op.content} :
          FinishSeeing(inv, outcome, content)
    BY <1>4 DEF Finished
  <2>2. /\ op' = Idle /\ phase' = "idle" /\ rpc' = "idle" /\ backoff' = backoff
        /\ receipt' = [outcome |-> outcome, content |-> content]
        /\ runtime' = [runtime EXCEPT !.inv = inv] /\ auths' = Stale(auths)
    BY <2>1 DEF FinishSeeing, Goto, Publish
  <2>3. auths' \in [Slots -> Authorizations \cup {None}]
    BY <1>1, <2>2, StaleType DEF OpTypeOK
  <2>4. content \in Ids \cup {0}
    BY <1>1 DEF Operations
  <2>5. OpTypeOK'
    BY <1>1, <2>2, <2>3, <2>4, IdleType DEF OpTypeOK
  <2>6. Shape'
    BY <2>2, IdleType DEF Shape
  <2> QED BY <2>2, <2>5, <2>6 DEF Onward, TypeOK, OpTypeOK, WorldTypeOK
<1>5. CASE Moved(retry)
  <2>0. PICK inv \in Inventories, o \in Operations :
          \E p \in PhasesOf(o) : ThenSeeing(inv, p, o) /\ GoodShape(o, p)
    BY <1>5 DEF Moved
  <2>1. PICK p \in PhasesOf(o) : ThenSeeing(inv, p, o) /\ GoodShape(o, p)
    BY <2>0
  <2>2. /\ op' = o /\ phase' = p /\ rpc' = "idle" /\ UNCHANGED <<auths, backoff, receipt>>
        /\ runtime' = [runtime EXCEPT !.inv = inv]
    BY <2>1 DEF ThenSeeing, Goto, Publish
  <2>3. /\ p \in {"idle", "device", "connect", "closing", "transfer", "confirm", "packet",
                "press", "release", "again"} \cup Reads \cup Writes
    BY <2>1 DEF GoodShape, PhasesOf, Reads, Writes, Operations, Commands
  <2>4. OpTypeOK'
    BY <1>1, <2>2, <2>3 DEF OpTypeOK
  <2>5. Shape'
    BY <2>1, <2>2 DEF Shape
  <2> QED BY <2>2, <2>4, <2>5 DEF Onward, TypeOK, OpTypeOK, WorldTypeOK
<1> QED BY <1>2, <1>3, <1>4, <1>5 DEF LeadsTo

LEMMA MovedFacts ==
  ASSUME Onward, NEW retry \in BOOLEAN, Moved(retry)
  PROVE  /\ op'.kind = op.kind /\ op'.slot = op.slot /\ op'.want = op.want
         /\ op'.content \in {op.content, stored, 0} \cup strays /\ UNCHANGED <<auths, backoff, receipt>>
         /\ runtime'.cycle = runtime.cycle /\ phase' # "closing" /\ rpc' = "idle"
         /\ op'.stage = "guard" => op.stage = "guard"
         /\ op'.stage = "write" =>
              \/ op.stage = "guard" /\ phase' \notin {"transfer", "confirm", "release"}
              \/ phase = "upload" /\ Waiting /\ phase' = "transfer"
              \/ phase = "transfer" /\ phase' = "confirm"
              \/ phase = "set" /\ retry /\ phase' = "set" /\ op'.second
         /\ GoodShape(op', phase')
<1>1. PICK inv \in Inventories, o \in Operations : \E p \in PhasesOf(o) :
        /\ ThenSeeing(inv, p, o) /\ GoodShape(o, p) /\ p # "closing"
        /\ o.kind = op.kind /\ o.slot = op.slot /\ o.want = op.want
        /\ o.content \in {op.content, stored, 0} \cup strays
        /\ o.stage = "guard" => op.stage = "guard"
        /\ o.stage = "write" => \/ op.stage = "guard" /\ p \notin {"transfer", "confirm", "release"}
                                \/ phase = "upload" /\ Waiting /\ p = "transfer"
                                \/ phase = "transfer" /\ p = "confirm"
                                \/ phase = "set" /\ retry /\ p = "set" /\ o.second
  BY DEF Moved
<1>2. op' = o /\ rpc' = "idle" /\ UNCHANGED <<auths, backoff, receipt>>
      /\ runtime' = [runtime EXCEPT !.inv = inv]
  BY <1>1 DEF ThenSeeing, Goto, Publish
<1>3. runtime'.cycle = runtime.cycle
  BY <1>2, TypeParts DEF Onward, IInv, OpTypeOK
<1> QED BY <1>1, <1>2, <1>3 DEF ThenSeeing, Goto

\* Only a stage of writing has the phases of a write.
LEMMA WritePhases ==
  ASSUME NEW o \in Operations, NEW p, GoodShape(o, p),
         p \in {"upload", "set", "delete", "transfer", "confirm", "packet", "press", "release"}
  PROVE  o.kind = "apply" /\ o.stage = "write"
  BY DEF GoodShape, PhasesOf, Operations

LEMMA LeadsToCallers ==
  ASSUME Onward, NEW retry \in BOOLEAN, LeadsTo(retry)
  PROVE  Callers' /\ LeftAlone'
<1>1. OpTypeOK /\ Shape /\ op \in Operations /\ Callers /\ LeftAlone /\ sent' = sent
  BY TypeParts DEF Onward, IInv, OpTypeOK
<1>2. OpTypeOK' /\ Shape' /\ op' \in Operations /\ rpc' = "idle"
  BY LeadsToTypes DEF TypeOK, OpTypeOK
<1>3. CASE Returned
  <2>1. PICK inv \in Inventories, reset \in BOOLEAN :
          Settle(inv, reset) /\ (UNCHANGED auths \/ \E presumed \in BOOLEAN : Issue(inv, presumed))
    BY <1>3 DEF Returned
  <2>2. /\ op'.kind = "none" /\ receipt' = receipt /\ op.kind = "observe" /\ (backoff' => backoff)
        /\ phase' = "idle"
    BY <1>3, <2>1, IdleType DEF Settle, Returned, Goto
  <2>3. \A s \in Slots : auths[s] # None => ~auths[s].fresh
    BY <1>1, <2>2 DEF Callers
  <2>4. ASSUME NEW s \in Slots, auths'[s] # None, auths'[s].fresh
        PROVE  auths'[s].writes = 0 /\ auths'[s].want = op.want
    <3>1. PICK presumed \in BOOLEAN : Issue(inv, presumed)
      BY <2>1, <2>3, <2>4
    <3>2. auths \in [Slots -> Authorizations \cup {None}]
      BY <1>1 DEF OpTypeOK
    <3>3. s = op.slot
      BY <2>3, <2>4, <3>1, <3>2 DEF Issue
    <3>4. auths'[s] = [fresh |-> TRUE, cycle |-> op.cycle, want |-> op.want, inv |-> inv,
                       dry |-> op.dry, presumed |-> presumed, writes |-> 0]
      BY <3>1, <3>2, <3>3 DEF Issue
    <3> QED BY <3>4
  <2>5. backoff => op.want = "power"
    BY <1>1, <2>2 DEF LeftAlone, Onward
  <2> QED BY <1>1, <2>2, <2>4, <2>5 DEF Callers, LeftAlone, Unsent, Writes
<1>4. CASE Failed
  <2>1. op.kind = "observe" /\ UNCHANGED <<op, auths, runtime, receipt>> /\ phase' = "closing"
    BY <1>4 DEF Failed, Goto
  <2>2. \A s \in Slots : auths[s] # None => ~auths[s].fresh
    BY <1>1, <2>1 DEF Callers
  <2> QED BY <1>1, <2>1, <2>2 DEF Callers, LeftAlone, Unsent, Writes
<1>5. CASE Finished
  <2>1. PICK inv \in Inventories, outcome \in Outcomes, content \in {0, op.content} :
          FinishSeeing(inv, outcome, content) /\ (outcome = "not_attempted" => ~sent)
    BY <1>5 DEF Finished
  <2>2. /\ op'.kind = "none" /\ receipt'.outcome = outcome /\ auths' = Stale(auths)
    BY <2>1, IdleType DEF FinishSeeing
  <2>3. \A s \in Slots : auths'[s] # None => ~auths'[s].fresh
    BY <1>1, <2>2, StaleType DEF OpTypeOK
  <2> QED BY <1>1, <2>1, <2>2, <2>3 DEF Callers, LeftAlone, Unsent
<1>6. CASE Moved(retry)
  <2>1. Unsent' => ~sent
    <3>1. CASE op'.stage = "guard"
      BY <1>1, <1>6, <3>1, MovedFacts DEF Callers, Unsent, Shape, GoodShape
    <3>2. CASE op'.stage # "guard" /\ Unsent'
      <4>1. op'.stage = "write" /\ op'.kind = "apply"
        BY <1>2, <3>2, WritePhases DEF Unsent, Shape, Writes
      <4>2. ~(phase' = "set" /\ op'.second) /\ phase' # "transfer" /\ phase' # "confirm"
        BY <3>2 DEF Unsent, Writes
      <4>3. op.stage = "guard"
        BY <1>6, <4>1, <4>2, MovedFacts
      <4> QED BY <1>1, <1>6, <4>1, <4>3, MovedFacts DEF Callers, Unsent
    <3> QED BY <3>1, <3>2
  <2> QED BY <1>1, <1>6, <2>1, MovedFacts DEF Callers, LeftAlone, Onward
<1> QED BY <1>3, <1>4, <1>5, <1>6 DEF LeadsTo

LEMMA LeadsToOnce ==
  ASSUME Onward, NEW retry \in BOOLEAN, LeadsTo(retry), retry => Untaken
  PROVE  Once'
<1>1. Shape /\ Once /\ op \in Operations /\ UNCHANGED taken
  BY DEF Onward, IInv, TypeOK
<1>2. Shape' /\ op' \in Operations /\ rpc' = "idle"
  BY LeadsToTypes DEF TypeOK
<1>3. UNCHANGED asked \/ phase \in {"transfer", "release"}
  BY DEF Onward
<1>4. Untried' => Untaken /\ UNCHANGED asked
  <2>1. CASE Returned \/ Failed \/ Finished
    <3>1. op'.kind # "apply"
      BY <2>1, IdleType DEF Returned, Settle, Failed, Finished, FinishSeeing
    <3> QED BY <3>1 DEF Untried
  <2>2. CASE Moved(retry) /\ Untried'
    <3>1. CASE op'.stage = "guard"
      <4>1. op.stage = "guard"
        BY <2>2, <3>1, MovedFacts
      <4> QED BY <1>1, <1>3, <2>2, <4>1, WritePhases, MovedFacts DEF Once, Untried, Shape
    <3>2. CASE op'.stage # "guard"
      <4>1. op'.stage = "write" /\ op'.kind = "apply"
        BY <1>2, <2>2, <3>2, WritePhases DEF Untried, Shape
      <4>2. phase' # "confirm"
        BY <2>2, <3>2 DEF Untried
      <4>3. /\ op.kind = "apply" /\ (op.stage = "guard" \/ phase = "upload" \/ retry)
            /\ op.stage = "guard" \/ phase \notin {"transfer", "release"}
        BY <2>2, <4>1, <4>2, MovedFacts
      <4> QED BY <1>1, <1>3, <4>3, WritePhases DEF Once, Untried, Shape
    <3> QED BY <3>1, <3>2
  <2> QED BY <2>1, <2>2 DEF LeadsTo
<1>5. \A m \in Elements(listen'["reply"].buf) : m.id = "mine"
  BY <1>1 DEF Once, Onward, Keys
<1>6. \A q \in Mines' : q.name \in Acts => taken = 0 /\ \A u \in Mines' : u.name \in Acts => u = q
  <2>1. CASE UNCHANGED asked
    BY <1>1, <2>1 DEF Once, Mines
  <2>2. CASE ~UNCHANGED asked
    <3>1. Untaken
      BY <1>1, <1>3, <2>2, WritePhases DEF Once, Untried, Shape
    <3>2. PICK n : asked' = asked \cup {n} /\ n.id = "mine"
      BY <2>2 DEF Onward
    <3>3. Mines' = Mines \cup {n}
      BY <3>2 DEF Mines
    <3> QED BY <3>1, <3>3 DEF Untaken
  <2> QED BY <2>1, <2>2
<1>7. Untried' => Untaken'
  BY <1>1, <1>4 DEF Untaken, Mines
<1> QED BY <1>1, <1>2, <1>5, <1>6, <1>7 DEF Once, Waiting

LEMMA LeadsToTraces ==
  ASSUME Onward, NEW retry \in BOOLEAN, LeadsTo(retry)
  PROVE  Traces'
<1>1. Shape /\ Traces /\ op \in Operations /\ UNCHANGED <<taken, stored, strays>>
  BY DEF Onward, IInv, TypeOK
<1>2. Shape' /\ op' \in Operations /\ rpc' = "idle"
  BY LeadsToTypes DEF TypeOK
<1>3. \A m \in Elements(wire') \cup UNION {Elements(listen'[k].buf) : k \in Keys} :
        m.id = "none" /\ m.view.content # 0 => m.view.content \in strays
  BY <1>1 DEF Traces, Onward
<1>4. phase' \in {"transfer", "confirm"} =>
        \A m \in Elements(wire') \cup Elements(listen'["image_added"].buf) :
          m.id = "mine" /\ m.view.content # 0 => m.view.content = stored
  <2>1. CASE Returned \/ Failed \/ Finished
    BY <2>1 DEF Returned, Settle, Failed, Finished, FinishSeeing, Goto
  <2>2. CASE Moved(retry) /\ phase' \in {"transfer", "confirm"}
    <3>1. op'.stage = "write"
      BY <1>2, <2>2, WritePhases DEF Shape
    <3>2. (phase = "upload" /\ Waiting) \/ phase = "transfer"
      BY <2>2, <3>1, MovedFacts
    <3>3. \A m \in Elements(wire) \cup Elements(listen["image_added"].buf) :
            m.id = "mine" /\ m.view.content # 0 => m.view.content = stored
      BY <1>1, <3>2 DEF Traces, Waiting
    <3> QED BY <3>3 DEF Onward, Keys
  <2> QED BY <2>1, <2>2 DEF LeadsTo
<1>5. op'.content # 0 => op'.content \in {stored} \cup strays
  <2>1. CASE Moved(retry)
    BY <1>1, <2>1, MovedFacts DEF Traces
  <2>2. CASE Failed
    BY <1>1, <2>2 DEF Failed, Traces
  <2>3. CASE Returned \/ Finished
    <3>1. op' = Idle
      BY <2>3 DEF Returned, Settle, Finished, FinishSeeing
    <3> QED BY <3>1, IdleType
  <2> QED BY <2>1, <2>2, <2>3 DEF LeadsTo
<1>6. op'.kind # "apply" /\ receipt'.content # 0 => receipt'.content \in {stored} \cup strays
  <2>1. CASE Moved(retry)
    BY <1>1, <2>1, MovedFacts DEF Traces
  <2>2. CASE Returned \/ Failed
    BY <1>1, <2>2 DEF Returned, Settle, Failed, Traces
  <2>3. CASE Finished
    <3>1. receipt'.content \in {0, op.content}
      BY <2>3 DEF Finished, FinishSeeing
    <3> QED BY <1>1, <3>1 DEF Traces
  <2> QED BY <2>1, <2>2, <2>3 DEF LeadsTo
<1> QED BY <1>1, <1>2, <1>3, <1>4, <1>5, <1>6 DEF Traces

LEMMA LeadsToKeeps ==
  ASSUME Onward, NEW retry \in BOOLEAN, LeadsTo(retry), retry => Untaken
  PROVE  IInv'
<1>1. Pending'
  BY LeadsToTypes DEF Pending, Onward
<1> QED BY <1>1, LeadsToTypes, LeadsToCallers, LeadsToOnce, LeadsToTraces DEF IInv

-----------------------------------------------------------------------------
(* Listeners and messages.                                                 *)

\* listen is well typed.
Table(l) == l \in [Keys -> Listeners] /\ \A k \in Keys : Len(l[k].buf) <= PendingBuffer

LEMMA ElementsOfSeq ==
  ASSUME NEW S, NEW s \in Seq(S)
  PROVE  /\ Elements(s) \subseteq S
         /\ s # <<>> => Head(s) \in Elements(s) /\ Head(s) \in S
         /\ s # <<>> => Tail(s) \in Seq(S) /\ Elements(Tail(s)) \subseteq Elements(s)
                        /\ Len(Tail(s)) = Len(s) - 1
         /\ \A m \in S : /\ Append(s, m) \in Seq(S) /\ Len(Append(s, m)) = Len(s) + 1
                         /\ Elements(Append(s, m)) = Elements(s) \cup {m}
                         /\ Append(s, m) # <<>>
<1>1. Elements(s) \subseteq S
  BY DEF Elements
<1>2. ASSUME s # <<>>
      PROVE  /\ Head(s) \in Elements(s) /\ Head(s) \in S
             /\ Tail(s) \in Seq(S) /\ Elements(Tail(s)) \subseteq Elements(s)
             /\ Len(Tail(s)) = Len(s) - 1
  <2>1. Len(s) \in Nat \ {0} /\ Head(s) = s[1] /\ DOMAIN s = 1..Len(s)
    BY <1>2
  <2>2. Tail(s) \in Seq(S) /\ Len(Tail(s)) = Len(s) - 1
        /\ \A i \in DOMAIN Tail(s) : Tail(s)[i] = s[i + 1] /\ i + 1 \in DOMAIN s
    BY <1>2, <2>1
  <2>3. Elements(Tail(s)) \subseteq Elements(s)
    BY <2>2 DEF Elements
  <2>4. Head(s) \in Elements(s)
    BY <2>1 DEF Elements
  <2> QED BY <1>1, <2>2, <2>3, <2>4
<1>3. ASSUME NEW m \in S
      PROVE  /\ Append(s, m) \in Seq(S) /\ Len(Append(s, m)) = Len(s) + 1
             /\ Elements(Append(s, m)) = Elements(s) \cup {m}
             /\ Append(s, m) # <<>>
  <2>1. /\ Append(s, m) \in Seq(S) /\ Len(Append(s, m)) = Len(s) + 1 /\ Len(s) \in Nat
        /\ \A i \in 1..Len(s) : Append(s, m)[i] = s[i]
        /\ Append(s, m)[Len(s) + 1] = m /\ Append(s, m) # <<>>
    OBVIOUS
  <2>2. DOMAIN Append(s, m) = 1..Len(s) \cup {Len(s) + 1} /\ DOMAIN s = 1..Len(s)
    BY <2>1
  <2>3. Elements(Append(s, m)) = Elements(s) \cup {m}
    BY <2>1, <2>2 DEF Elements
  <2> QED BY <2>1, <2>3
<1> QED BY <1>1, <1>2, <1>3

LEMMA EmptyElements == Elements(<<>>) = {} /\ <<>> \in Seq(Messages) /\ Len(<<>>) = 0
  BY DEF Elements

LEMMA SilentType == Silent \in Listeners /\ Silent.buf = <<>> /\ ~Silent.registered /\ ~Silent.shut
  BY DEF Silent, Listeners

LEMMA SilentTable ==
  /\ Table([k \in Keys |-> Silent])
  /\ \A k \in Keys : [j \in Keys |-> Silent][k].buf = <<>> /\ ~[j \in Keys |-> Silent][k].registered
<1>1. \A k \in Keys : [j \in Keys |-> Silent][k] = Silent
  OBVIOUS
<1> QED BY <1>1, SilentType, EmptyElements, BufferIsPositive DEF Table

LEMMA UnregisteredTable ==
  ASSUME NEW l, Table(l), NEW ks
  PROVE  /\ Table(Unregistered(l, ks))
         /\ \A k \in Keys : /\ Elements(Unregistered(l, ks)[k].buf) \subseteq Elements(l[k].buf)
                            /\ Unregistered(l, ks)[k].registered => l[k].registered
                            /\ k \in ks => Unregistered(l, ks)[k] = Silent
                            /\ k \notin ks => Unregistered(l, ks)[k] = l[k]
<1>1. \A k \in Keys : Unregistered(l, ks)[k] = IF k \in ks THEN Silent ELSE l[k]
  BY DEF Unregistered
<1>2. Unregistered(l, ks) \in [Keys -> Listeners]
  BY SilentType DEF Unregistered, Table
<1> QED BY <1>1, <1>2, SilentType, EmptyElements, BufferIsPositive DEF Table

LEMMA RegisteredTable ==
  ASSUME NEW l, Table(l), NEW ks
  PROVE  /\ Table(Registered(l, ks))
         /\ \A k \in Keys : /\ Elements(Registered(l, ks)[k].buf) \subseteq Elements(l[k].buf)
                            /\ k \in ks => Registered(l, ks)[k].buf = <<>>
                                           /\ Registered(l, ks)[k].registered
                            /\ k \notin ks => Registered(l, ks)[k] = l[k]
<1> DEFINE open == [Silent EXCEPT !.registered = TRUE]
<1>1. open \in Listeners /\ open.buf = <<>> /\ open.registered
  BY SilentType DEF Listeners
<1>2. Registered(l, ks) = [k \in Keys |-> IF k \in ks THEN open ELSE l[k]]
  BY DEF Registered
<1> HIDE DEF open
<1>3. Registered(l, ks) \in [Keys -> Listeners]
  BY <1>1, <1>2 DEF Table
<1> QED BY <1>1, <1>2, <1>3, EmptyElements, BufferIsPositive DEF Table

LEMMA FailPendingTable ==
  ASSUME NEW l, Table(l)
  PROVE  /\ Table(FailPending(l))
         /\ \A k \in Keys : /\ FailPending(l)[k].buf = l[k].buf /\ ~FailPending(l)[k].registered
                            /\ l[k].registered => FailPending(l)[k].shut
                            /\ l[k].shut => FailPending(l)[k].shut
<1>1. \A v \in Listeners :
        LET w == [v EXCEPT !.registered = FALSE, !.shut = TRUE]
        IN  w \in Listeners /\ w.buf = v.buf /\ ~w.registered /\ w.shut
  BY DEF Listeners
<1>2. \A k \in Keys : l[k] \in Listeners /\ l[k].registered \in BOOLEAN
  BY DEF Table, Listeners
<1> QED BY <1>1, <1>2 DEF FailPending, Table

-----------------------------------------------------------------------------
(* The steps of an operation.                                              *)

Spent == Calm \/ Begins \/ \E h : Hazard(h)

LEMMA SpentType ==
  ASSUME WorldTypeOK, Spent
  PROVE  budget' \in 0..Budget /\ left' \in 0..MaxOperations
  BY HazardType, AdapterBounds DEF WorldTypeOK, Spent, Calm, Begins, Hazard

\* An operation is at work in these phases.
LEMMA AtWork ==
  ASSUME IInv, phase \notin {"idle", "closing"}
  PROVE  op.kind \in {"observe", "apply"} /\ op \in Operations /\ GoodShape(op, phase)
         /\ OpTypeOK /\ WorldTypeOK
         /\ (phase \notin Reads \cup Writes => rpc = "idle")
  BY TypeParts DEF IInv, Shape, GoodShape, PhasesOf, OpTypeOK, Operations

LEMMA OnwardFrom ==
  ASSUME IInv, phase \notin {"idle", "closing"}, Spent,
         UNCHANGED <<sock, closed, reader, wire, tv, shut, token, sent, taken, stored, strays>>,
         UNCHANGED listen \/ \E ks : listen' = Unregistered(listen, ks),
         \/ UNCHANGED asked
         \/ /\ phase \in {"transfer", "release"}
            /\ asked' = asked \cup {[id |-> "mine", target |-> 0,
                                     name |-> IF phase = "transfer" THEN "store" ELSE "off"]}
  PROVE  Onward
<1>1. WorldTypeOK /\ ConnTypeOK /\ Table(listen)
  BY AtWork DEF WorldTypeOK, ConnTypeOK, Table
<1>2. /\ Table(listen')
      /\ \A k \in Keys : /\ Elements(listen'[k].buf) \subseteq Elements(listen[k].buf)
                         /\ listen'[k].registered => listen[k].registered
  BY <1>1, UnregisteredTable
<1>3. ConnTypeOK'
  BY <1>1, <1>2 DEF ConnTypeOK, Table
<1>4. asked' \subseteq [id : {"mine", "other"}, name : Reads \cup Effects, target : Ids \cup {0}]
  BY <1>1 DEF WorldTypeOK, Effects
<1>5. WorldTypeOK'
  BY <1>1, <1>3, <1>4, SpentType DEF WorldTypeOK
<1> QED BY <1>2, <1>5, AtWork DEF Onward, IInv, Pending

\* The retry is of a set only.
LEMMA LeadsToOther ==
  ASSUME NEW retry \in BOOLEAN, LeadsTo(retry), phase # "set" \/ ~retry
  PROVE  LeadsTo(FALSE)
<1>1. CASE Moved(retry)
  <2>1. Moved(FALSE)
    BY <1>1 DEF Moved
  <2> QED BY <2>1 DEF LeadsTo
<1>2. CASE ~Moved(retry)
  BY <1>2 DEF LeadsTo
<1> QED BY <1>1, <1>2

LEMMA NotPreparedKeeps ==
  ASSUME IInv, NotPrepared
  PROVE  IInv'
<1>1. Onward
  BY OnwardFrom DEF NotPrepared, Spent, connVars
<1>2. LeadsTo(FALSE)
  <2>1. Refuse
    BY DEF NotPrepared, Refuse
  <2> QED BY <1>1, <2>1, OnwardWorks, RefuseEnds, StageOfKind DEF NotPrepared
<1> QED BY <1>1, <1>2, LeadsToKeeps

LEMMA ReadDeviceKeeps ==
  ASSUME IInv, ReadDevice
  PROVE  IInv'
<1>1. Onward /\ Working
  BY OnwardFrom, OnwardWorks DEF ReadDevice, Spent, connVars, Same
<1>2. CASE Then("connect", [op EXCEPT !.standby = tv.power = "standby"])
  <2> DEFINE o == [op EXCEPT !.standby = tv.power = "standby"]
  <2>1. ThenSeeing(runtime.inv, "connect", o)
    BY <1>2 DEF Then
  <2>2. /\ o \in Operations /\ o.kind = op.kind /\ o.slot = op.slot /\ o.second = op.second
        /\ o.want = op.want /\ o.content = op.content /\ o.cmd = op.cmd /\ o.seen = op.seen
        /\ o.stage = op.stage
    BY <1>1, StageOfKind DEF Operations
  <2> HIDE DEF o
  <2>3. GoodShape(op, "device")
    BY DEF IInv, Shape, ReadDevice
  <2>4. GoodShape(o, "connect") /\ o.stage # "write"
    BY <1>1, <2>2, <2>3, StageOfKind DEF GoodShape, PhasesOf, Commands
  <2>5. LeadsTo(FALSE)
    BY <1>1, <2>1, <2>2, <2>4, ThenMoves, StageOfKind
  <2> QED BY <1>1, <2>5, LeadsToKeeps
<1>3. CASE PowerRead("off") \/ DeviceFails(TRUE) \/ DeviceFails(FALSE)
  <2>1. LeadsTo(FALSE)
    BY <1>1, <1>3, PowerReadLeads, DeviceFailsLeads DEF ReadDevice
  <2> QED BY <1>1, <2>1, LeadsToKeeps
<1> QED BY <1>2, <1>3 DEF ReadDevice

LEMMA ConnectKeeps ==
  ASSUME IInv, Connect
  PROVE  IInv'
<1>1. /\ WorldTypeOK /\ OpTypeOK /\ ConnTypeOK /\ op.kind \in {"observe", "apply"} /\ phase = "connect"
      /\ op \in Operations /\ Spent
  BY AtWork DEF Connect, WorldTypeOK, Spent
<1>2. token' \in BOOLEAN
  BY <1>1 DEF Connect, WorldTypeOK, Operations
<1>3. /\ ConnTypeOK' /\ Elements(wire') \subseteq Elements(wire)
      /\ \A k \in Keys : Elements(listen'[k].buf) \subseteq Elements(listen[k].buf)
      /\ reader' \in {"failing", "done"} => closed'
      /\ reader' = "done" => \A k \in Keys : ~listen'[k].registered
  <2>1. CASE UNCHANGED connVars
    BY <1>1, <2>1 DEF connVars, ConnTypeOK, IInv, Pending
  <2>2. CASE Opened \/ Dropped
    <3>1. /\ sock' \in {"up", "none"} /\ closed' \in BOOLEAN /\ reader' \in {"reading", "off"}
          /\ wire' = <<>> /\ listen' = [k \in Keys |-> Silent]
      BY <2>2 DEF Opened, Dropped
    <3>2. ConnTypeOK'
      BY <3>1, SilentTable, EmptyElements, MaxWireIsPositive DEF ConnTypeOK, Table
    <3>3. Elements(wire') = {} /\ \A k \in Keys : Elements(listen'[k].buf) = {}
      BY <3>1, SilentType, EmptyElements
    <3> QED BY <3>1, <3>2, <3>3
  <2> QED BY <2>1, <2>2 DEF Connect
<1>4. WorldTypeOK'
  BY <1>1, <1>2, <1>3, SpentType DEF Connect, WorldTypeOK
<1>5. Onward
  BY <1>1, <1>3, <1>4 DEF Onward, Connect
<1>6. Working
  BY <1>5, OnwardWorks
<1>7. CASE Continue("artmode")
  <2>1. GoodShape(op, "connect")
    BY <1>1 DEF IInv, Shape
  <2>2. "artmode" \in PhasesOf(op) /\ op.stage # "write"
    BY <1>1, <2>1 DEF GoodShape, PhasesOf, Operations, Commands
  <2>3. LeadsTo(FALSE)
    BY <1>6, <1>7, <2>2, ContinueMoves
  <2> QED BY <1>5, <2>3, LeadsToKeeps
<1>8. CASE \E kind : ConnectFails(kind)
  <2>1. LeadsTo(FALSE)
    BY <1>1, <1>6, <1>8, ConnectFailsLeads
  <2> QED BY <1>5, <2>1, LeadsToKeeps
<1> QED BY <1>7, <1>8 DEF Connect

LEMMA StopWaitingKeeps ==
  ASSUME IInv, StopWaiting
  PROVE  IInv'
<1>1. phase \in Reads \cup Writes
  BY DEF IInv, Shape, StopWaiting
<1>2. Onward /\ Working
  BY <1>1, OnwardFrom, OnwardWorks DEF StopWaiting, Spent, connVars, Same, Reads, Writes
<1>3. PICK r \in {"timeout", "canceled"} : RequestFails(r, FALSE)
  BY DEF StopWaiting
<1>4. LeadsTo(r = "rejected")
  BY <1>1, <1>2, <1>3, RequestFailsLeads
<1>5. (r = "rejected") = FALSE
  BY <1>3
<1> QED BY <1>2, <1>4, <1>5, LeadsToKeeps

LEMMA ReceiveAnswerKeeps ==
  ASSUME IInv, ReceiveAnswer
  PROVE  IInv'
<1>1. phase \in Reads \cup Writes /\ Waiting
  BY DEF IInv, Shape, ReceiveAnswer, Waiting
<1>2. Onward /\ Working
  BY <1>1, OnwardFrom, OnwardWorks DEF ReceiveAnswer, Spent, connVars, Same, Reads, Writes, Heard
<1>3. CASE RequestFails("gone", FALSE)
  <2>1. LeadsTo("gone" = "rejected")
    BY <1>1, <1>2, <1>3, RequestFailsLeads
  <2>2. ("gone" = "rejected") = FALSE
    OBVIOUS
  <2> QED BY <1>2, <2>1, <2>2, LeadsToKeeps
<1>4. CASE \E k \in Awaited : listen[k].buf # <<>> /\ Answered(Head(listen[k].buf))
  <2>1. PICK k \in Awaited : listen[k].buf # <<>> /\ Answered(Head(listen[k].buf))
    BY <1>4
  <2> DEFINE m == Head(listen[k].buf)
  <2>2. listen[k].buf \in Seq(Messages)
    BY AtWork, <1>1 DEF WorldTypeOK, ConnTypeOK, Listeners, Awaited, Keys, Reads, Writes
  <2>3. m \in Messages /\ m \in Elements(listen[k].buf)
    BY <2>1, <2>2, ElementsOfSeq
  <2> HIDE DEF m
  <2>4. LeadsTo(m.verdict = "error")
    BY <1>1, <1>2, <2>1, <2>3, AnsweredLeads DEF m
  <2>5. CASE phase = "set"
    <3>1. k = "reply"
      BY <2>5 DEF Awaited
    <3>2. m.verdict = "error" => Untaken
      BY <1>1, <2>3, <2>5, <3>1 DEF IInv, Once
    <3> QED BY <1>2, <2>4, <3>2, LeadsToKeeps
  <2>6. CASE phase # "set"
    <3>1. LeadsTo(FALSE)
      BY <2>4, <2>6, LeadsToOther
    <3> QED BY <1>2, <3>1, LeadsToKeeps
  <2> QED BY <2>5, <2>6
<1> QED BY <1>3, <1>4 DEF ReceiveAnswer

LEMMA NeverConnected ==
  ASSUME IInv, phase \in Reads \cup Writes, Onward, NEW early \in BOOLEAN, early => ~Waiting,
         RequestFails("gone", early)
  PROVE  IInv'
<1>1. LeadsTo("gone" = "rejected")
  BY OnwardWorks, RequestFailsLeads
<1>2. ("gone" = "rejected") = FALSE
  OBVIOUS
<1> QED BY <1>1, <1>2, LeadsToKeeps

LEMMA AgedType ==
  ASSUME NEW s \in Seq(Messages)
  PROVE  /\ Aged(s) \in Seq(Messages) /\ Len(Aged(s)) = Len(s)
         /\ \A m \in Elements(Aged(s)) :
              m.id # "mine" /\ \E n \in Elements(s) : m.view = n.view /\ (m.id = "none" => n.id = "none")
<1> DEFINE Older(m) == [m EXCEPT !.id = IF @ = "mine" THEN "other" ELSE @]
<1>1. \A m \in Messages : /\ Older(m) \in Messages /\ Older(m).id # "mine" /\ Older(m).view = m.view
                          /\ Older(m).id = "none" => m.id = "none"
  BY DEF Messages
<1>2. Aged(s) = [i \in 1..Len(s) |-> Older(s[i])]
  BY DEF Aged
<1> HIDE DEF Older
<1>3. /\ Aged(s) \in Seq(Messages) /\ Len(Aged(s)) = Len(s) /\ DOMAIN Aged(s) = DOMAIN s
      /\ \A i \in DOMAIN s : Aged(s)[i] = Older(s[i])
  BY <1>1, <1>2
<1> QED BY <1>1, <1>3 DEF Elements

LEMMA CheckConnectionKeeps ==
  ASSUME IInv, CheckConnection
  PROVE  IInv'
<1>1. /\ phase \in Reads \cup Writes /\ rpc = "idle" /\ WorldTypeOK /\ OpTypeOK /\ ConnTypeOK
      /\ op \in Operations /\ Table(listen) /\ GoodShape(op, phase)
  BY AtWork DEF CheckConnection, Reads, Writes, WorldTypeOK, ConnTypeOK, Table
<1>2. CASE ~IsAlive
  <2>1. RequestFails("gone", TRUE) /\ UNCHANGED <<listen, wire, asked>>
    BY <1>2 DEF CheckConnection
  <2>2. Onward
    BY <1>1, <2>1, OnwardFrom DEF CheckConnection, Spent, Same, Reads, Writes
  <2> QED BY <1>1, <2>1, <2>2, NeverConnected DEF Waiting
<1>3. CASE IsAlive
  <2>1. /\ listen' = Registered(listen, Events(phase)) /\ rpc' = "checked" /\ wire' = Aged(wire)
        /\ asked' = {[q EXCEPT !.id = IF q.name = "store" THEN @ ELSE "other"] : q \in asked}
        /\ UNCHANGED <<sock, closed, reader, op, phase, auths, runtime, backoff, receipt>>
        /\ UNCHANGED <<tv, shut, token, sent, taken, stored, strays, budget, left>>
    BY <1>3 DEF CheckConnection, Same, Calm
  <2>2. /\ Table(listen') /\ wire' \in Seq(Messages) /\ Len(wire') <= MaxWire
        /\ \A k \in Keys : Elements(listen'[k].buf) \subseteq Elements(listen[k].buf)
        /\ \A m \in Elements(wire') :
             m.id # "mine" /\ \E n \in Elements(wire) : m.view = n.view /\ (m.id = "none" => n.id = "none")
    BY <1>1, <2>1, RegisteredTable, AgedType DEF ConnTypeOK
  <2>3. \A q \in asked : q.id \in {"mine", "other"} /\ q.name \in Reads \cup Effects /\ q.target \in Ids \cup {0}
    BY <1>1 DEF WorldTypeOK
  <2>4. asked' \subseteq [id : {"mine", "other"}, name : Reads \cup Effects, target : Ids \cup {0}]
    BY <1>1, <2>1 DEF WorldTypeOK
  <2>5. Mines' \subseteq {q \in Mines : q.name = "store"}
    <3>1. ASSUME NEW q \in asked, [q EXCEPT !.id = IF q.name = "store" THEN @ ELSE "other"].id = "mine"
          PROVE  q \in Mines /\ q.name = "store"
                 /\ [q EXCEPT !.id = IF q.name = "store" THEN @ ELSE "other"] = q
      BY <1>1, <3>1 DEF WorldTypeOK, Mines
    <3> QED BY <2>1, <3>1 DEF Mines
  <2>6. TypeOK'
    BY <1>1, <2>1, <2>2, <2>4 DEF TypeOK, OpTypeOK, WorldTypeOK, ConnTypeOK, Table
  <2>7. Shape' /\ Callers' /\ LeftAlone'
    BY <1>1, <2>1 DEF IInv, Shape, Callers, LeftAlone, Unsent, Waiting
  <2>8. Pending'
    BY <1>3, <2>1 DEF IInv, Pending, IsAlive
  <2>9. Once'
    <3>1. Untried' => Untaken'
      BY <1>1, <2>1, <2>5 DEF IInv, Once, Untried, Untaken, Waiting
    <3>2. phase = "set" => Mines' = {}
      <4>1. phase = "set" => Untaken
        BY <1>1, WritePhases DEF IInv, Once, Untried, Waiting
      <4> QED BY <2>5, <4>1 DEF Untaken, Acts
    <3>3. taken <= 1 /\ \A q \in Mines' : q.name \in Acts => taken = 0 /\ \A u \in Mines' : u.name \in Acts => u = q
      BY <2>5 DEF IInv, Once
    <3>4. \A m \in Elements(listen'["reply"].buf) : m.id = "mine"
      BY <2>2 DEF IInv, Once, Keys
    <3> QED BY <2>1, <2>2, <3>1, <3>2, <3>3, <3>4 DEF Once, Waiting
  <2>10. Traces'
    <3>1. Traces
      BY DEF IInv
    <3>2. \A m \in Elements(wire') \cup UNION {Elements(listen'[k].buf) : k \in Keys} :
            m.id = "none" /\ m.view.content # 0 => m.view.content \in strays
      BY <2>2, <3>1 DEF Traces
    <3>3. phase = "upload" => \A m \in Elements(wire') \cup Elements(listen'["image_added"].buf) : m.id # "mine"
      <4>1. phase = "upload" => listen'["image_added"].buf = <<>>
        BY <1>1, <2>1, RegisteredTable DEF Events, Keys
      <4> QED BY <2>2, <4>1, EmptyElements
    <3> QED BY <1>1, <2>1, <3>1, <3>2, <3>3 DEF Traces, Reads, Writes
  <2> QED BY <2>6, <2>7, <2>8, <2>9, <2>10 DEF IInv
<1> QED BY <1>2, <1>3

LEMMA RegisterReplyKeeps ==
  ASSUME IInv, RegisterReply
  PROVE  IInv'
<1>1. /\ phase \in Reads \cup Writes /\ rpc = "checked"
      /\ phase \notin {"idle", "closing"}
  BY DEF IInv, Shape, RegisterReply, Reads, Writes
<1>2. /\ WorldTypeOK /\ OpTypeOK /\ ConnTypeOK /\ op \in Operations /\ Table(listen)
  BY <1>1, AtWork DEF WorldTypeOK, ConnTypeOK, Table
<1>3. CASE ~CanRegister("reply")
  <2>1. RequestFails("gone", phase = "delete") /\ listen' = Unregistered(listen, Keys)
    BY <1>3 DEF RegisterReply
  <2>2. Onward
    BY <1>1, <2>1, OnwardFrom DEF RegisterReply, Spent, Same
  <2> QED BY <1>1, <2>1, <2>2, NeverConnected DEF Waiting
<1>4. CASE CanRegister("reply")
  <2>1. /\ listen' = Registered(listen, {"reply"}) /\ rpc' = "registered"
        /\ UNCHANGED <<sock, closed, reader, wire, op, phase, auths, runtime, backoff, receipt>>
        /\ UNCHANGED <<tv, asked, shut, token, sent, taken, stored, strays, budget, left>>
    BY <1>4 DEF RegisterReply, Same, Calm
  <2>2. /\ Table(listen')
        /\ \A k \in Keys : Elements(listen'[k].buf) \subseteq Elements(listen[k].buf)
        /\ listen'["reply"].buf = <<>> /\ listen'["reply"].registered
    BY <1>2, <2>1, RegisteredTable DEF Keys
  <2>3. TypeOK'
    BY <1>2, <2>1, <2>2 DEF TypeOK, OpTypeOK, WorldTypeOK, ConnTypeOK, Table
  <2>4. Shape' /\ Callers' /\ LeftAlone'
    BY <1>1, <2>1 DEF IInv, Shape, Callers, LeftAlone, Unsent, Waiting
  <2>5. Pending'
    BY <1>4, <2>1, <2>2 DEF IInv, Pending, CanRegister
  <2>6. Once'
    <3>1. Mines' = Mines /\ (Untried' <=> Untried) /\ (Untaken' <=> Untaken)
      BY <1>1, <2>1 DEF Mines, Untried, Untaken, Waiting
    <3>2. Elements(listen'["reply"].buf) = {}
      BY <2>2, EmptyElements
    <3> QED BY <1>1, <2>1, <2>2, <3>1, <3>2 DEF IInv, Once, Waiting
  <2>7. Traces'
    <3>1. Traces /\ Elements(listen'["image_added"].buf) \subseteq Elements(listen["image_added"].buf)
      BY <2>2 DEF IInv, Keys
    <3>2. \A m \in Elements(wire') \cup UNION {Elements(listen'[k].buf) : k \in Keys} :
            m.id = "none" /\ m.view.content # 0 => m.view.content \in strays
      BY <2>1, <2>2, <3>1 DEF Traces
    <3> QED BY <1>1, <2>1, <3>1, <3>2 DEF Traces
  <2> QED BY <2>3, <2>4, <2>5, <2>6, <2>7 DEF IInv
<1> QED BY <1>3, <1>4

LEMMA CountedType ==
  ASSUME OpTypeOK
  PROVE  /\ Counted \in [Slots -> Authorizations \cup {None}]
         /\ \A s \in Slots : /\ Counted[s] = None <=> auths[s] = None
                             /\ Counted[s] # None => Counted[s].fresh = auths[s].fresh
                                                     /\ Counted[s].want = auths[s].want
                                                     /\ Counted[s].cycle = auths[s].cycle
<1>1. \A a \in Authorizations :
        LET b == [a EXCEPT !.writes = 1]
        IN  b \in Authorizations /\ b # None /\ b.fresh = a.fresh /\ b.want = a.want /\ b.cycle = a.cycle
  <2>1. ASSUME NEW a \in Authorizations
        PROVE  LET b == [a EXCEPT !.writes = 1]
               IN  b \in Authorizations /\ b.fresh = a.fresh /\ b.want = a.want /\ b.cycle = a.cycle
    BY DEF Authorizations
  <2> QED BY <2>1, NoAuthorization
<1>2. auths \in [Slots -> Authorizations \cup {None}]
  BY DEF OpTypeOK
<1>3. \A s \in Slots : Counted[s] = IF auths[s] = None THEN None ELSE [auths[s] EXCEPT !.writes = 1]
  BY DEF Counted
<1>4. Counted \in [Slots -> Authorizations \cup {None}]
  BY <1>1, <1>2 DEF Counted
<1>5. ASSUME NEW s \in Slots, auths[s] # None
      PROVE  /\ Counted[s] # None /\ Counted[s].fresh = auths[s].fresh
             /\ Counted[s].want = auths[s].want /\ Counted[s].cycle = auths[s].cycle
  <2>1. auths[s] \in Authorizations
    BY <1>2, <1>5
  <2> QED BY <1>1, <1>3, <1>5, <2>1
<1> QED BY <1>3, <1>4, <1>5

\* A request goes out that counts as a write for a write only.
LEMMA SendRequestKeeps ==
  ASSUME IInv, SendRequest
  PROVE  IInv'
<1>1. /\ phase \in Reads \cup Writes /\ rpc = "registered" /\ phase \notin {"idle", "closing"}
  BY DEF IInv, Shape, SendRequest, Reads, Writes
<1>2. /\ WorldTypeOK /\ OpTypeOK /\ ConnTypeOK /\ op \in Operations /\ Table(listen) /\ GoodShape(op, phase)
      /\ op.kind \in {"observe", "apply"}
  BY <1>1, AtWork DEF WorldTypeOK, ConnTypeOK, Table
<1>3. CASE RequestFails("gone", FALSE) /\ listen' = Unregistered(listen, Keys) /\ UNCHANGED <<asked, sent>>
  <2>1. Onward
    BY <1>1, <1>3, OnwardFrom DEF SendRequest, Spent
  <2> QED BY <1>1, <1>3, <2>1, NeverConnected
<1>4. CASE rpc' = "waiting" /\ UNCHANGED <<listen, op, phase, runtime, backoff, receipt>>
           /\ asked' = (IF sock = "up" THEN asked \cup {[id |-> "mine", name |-> phase, target |-> op.cmd.target]}
                        ELSE asked)
           /\ sent' = (sent \/ phase \in Writes)
           /\ auths' = IF phase \in Writes THEN Counted ELSE auths
  <2> DEFINE q == [id |-> "mine", name |-> phase, target |-> op.cmd.target]
  <2>1. UNCHANGED <<sock, closed, reader, wire, tv, shut, token, taken, stored, strays, budget, left>>
    BY DEF SendRequest, Calm
  <2>2. q \in [id : {"mine", "other"}, name : Reads \cup Effects, target : Ids \cup {0}]
        /\ q.id = "mine" /\ q.name = phase
    BY <1>1, <1>2 DEF Operations, Commands, Effects
  <2>3. asked' = asked \/ asked' = asked \cup {q}
    BY <1>4
  <2> HIDE DEF q
  <2>4. auths' \in [Slots -> Authorizations \cup {None}]
        /\ \A s \in Slots : /\ auths'[s] = None <=> auths[s] = None
                            /\ auths[s] # None => auths'[s].fresh = auths[s].fresh
                                                  /\ auths'[s].want = auths[s].want
    BY <1>2, <1>4, CountedType DEF OpTypeOK
  <2>5. TypeOK'
    BY <1>2, <1>4, <2>1, <2>2, <2>3, <2>4 DEF TypeOK, OpTypeOK, WorldTypeOK, ConnTypeOK
  <2>6. Shape' /\ LeftAlone'
    BY <1>1, <1>4 DEF IInv, Shape, LeftAlone
  <2>7. phase \in Writes => op.kind = "apply" /\ op.stage = "write"
    BY <1>2, WritePhases DEF Writes
  <2>8. Callers'
    <3>1. Callers
      BY DEF IInv
    <3>2. op.slot \in Slots
      BY <1>2 DEF Operations
    <3>3. CASE phase \in Writes
      <4>1. Unsent' => FALSE
        BY <1>4, <2>7, <3>3 DEF Unsent, Waiting, Writes
      <4> QED BY <1>4, <2>4, <2>7, <3>1, <3>2, <3>3, <4>1 DEF Callers
    <3>4. CASE phase \notin Writes
      <4>1. Unsent' => Unsent
        BY <1>1, <1>4, <3>4 DEF Unsent, Waiting, Reads
      <4>2. sent' = sent /\ auths' = auths
        BY <1>2, <1>4, <3>4 DEF WorldTypeOK
      <4> QED BY <1>4, <3>1, <4>1, <4>2 DEF Callers
    <3> QED BY <3>3, <3>4
  <2>9. Pending'
    BY <1>1, <1>4, <2>1 DEF IInv, Pending
  <2>10. Once'
    <3>1. Once /\ Mines' \subseteq Mines \cup {q}
      BY <2>3 DEF IInv, Mines
    <3>2. phase \in {"set", "delete"} => Untaken
      BY <1>1, <2>7, <3>1 DEF Once, Untried, Waiting, Writes
    <3>3. phase \notin {"set", "delete"} => q.name \notin Acts
      BY <1>1, <2>2 DEF Reads, Writes, Acts
    <3>4. \A r \in Mines' : r.name \in Acts => taken = 0 /\ \A u \in Mines' : u.name \in Acts => u = r
      <4>1. CASE phase \in {"set", "delete"}
        BY <3>1, <3>2, <4>1 DEF Untaken
      <4>2. CASE phase \notin {"set", "delete"}
        BY <3>1, <3>3, <4>2 DEF Once
      <4> QED BY <4>1, <4>2
    <3>5. Untried' => Untaken'
      <4>1. Untried' => Untried /\ phase \notin {"set", "delete"}
        BY <1>1, <1>4, <2>7 DEF Untried, Waiting, Writes
      <4> QED BY <2>1, <3>1, <3>3, <4>1 DEF Once, Untaken
    <3>6. phase = "set" => /\ \A r \in Mines' : r.name = "set"
                           /\ \A m \in Elements(wire) \cup Elements(listen["reply"].buf) : m.id # "mine"
      BY <1>1, <2>2, <3>1, EmptyElements DEF Once
    <3> QED BY <1>1, <1>4, <2>1, <3>1, <3>4, <3>5, <3>6 DEF Once, Waiting
  <2>11. Traces'
    BY <1>1, <1>4, <2>1 DEF IInv, Traces
  <2> QED BY <2>5, <2>6, <2>8, <2>9, <2>10, <2>11 DEF IInv
<1> QED BY <1>3, <1>4 DEF SendRequest

LEMMA TransferKeeps ==
  ASSUME IInv, Transfer
  PROVE  IInv'
<1>1. phase = "transfer" /\ op.kind = "apply" /\ op.stage = "write" /\ op \in Operations
  BY AtWork, WritePhases DEF Transfer
<1>2. Onward /\ Working
  BY <1>1, OnwardFrom, OnwardWorks DEF Transfer, Spent, Same
<1>3. GoodShape(op, phase)
  BY DEF IInv, Shape
<1>4. CASE Continue("confirm")
  <2>1. "confirm" \in PhasesOf(op)
    BY <1>1, <1>3 DEF GoodShape, PhasesOf, Operations, Commands
  <2>2. LeadsTo(FALSE)
    BY <1>1, <1>2, <1>4, <2>1, ContinueMoves
  <2> QED BY <1>2, <2>2, LeadsToKeeps
<1>5. CASE Finish("unknown", 0)
  <2>1. LeadsTo(FALSE)
    BY <1>1, <1>2, <1>5, FinishEnds, StageOfKind DEF Finish, Outcomes
  <2> QED BY <1>2, <2>1, LeadsToKeeps
<1> QED BY <1>4, <1>5 DEF Transfer

LEMMA WaitForImageAddedKeeps ==
  ASSUME IInv, WaitForImageAdded
  PROVE  IInv'
<1> DEFINE ch == listen["image_added"]
           m  == Head(ch.buf)
<1>1. /\ phase = "confirm" /\ op.kind = "apply" /\ op.stage = "write" /\ op \in Operations /\ rpc = "idle"
      /\ GoodShape(op, phase)
  BY AtWork, WritePhases DEF WaitForImageAdded, Reads, Writes
<1>2. /\ WorldTypeOK /\ OpTypeOK /\ ConnTypeOK /\ Table(listen) /\ ch \in Listeners
  BY <1>1, AtWork DEF WorldTypeOK, ConnTypeOK, Table, Keys
<1>3. ch.buf \in Seq(Messages)
  BY <1>2 DEF Listeners
<1>4. CASE /\ ch.buf # <<>> /\ listen' = [listen EXCEPT !["image_added"].buf = Tail(@)]
           /\ UNCHANGED <<op, phase, rpc, auths, runtime, backoff, receipt>>
  <2>1. UNCHANGED <<sock, closed, reader, wire, tv, asked, shut, token, sent, taken, stored, strays, budget, left>>
    BY DEF WaitForImageAdded, Same, Calm
  <2>2. \A k \in Keys : listen'[k] = IF k = "image_added" THEN [ch EXCEPT !.buf = Tail(@)] ELSE listen[k]
    BY <1>2, <1>4 DEF Table
  <2>3. [ch EXCEPT !.buf = Tail(@)] \in Listeners
        /\ [ch EXCEPT !.buf = Tail(@)].buf = Tail(ch.buf)
        /\ [ch EXCEPT !.buf = Tail(@)].registered = ch.registered
        /\ Elements(Tail(ch.buf)) \subseteq Elements(ch.buf) /\ Len(Tail(ch.buf)) <= Len(ch.buf)
    <3>1. /\ Tail(ch.buf) \in Seq(Messages) /\ Elements(Tail(ch.buf)) \subseteq Elements(ch.buf)
          /\ Len(Tail(ch.buf)) = Len(ch.buf) - 1 /\ Len(ch.buf) \in Nat
      BY <1>3, <1>4, ElementsOfSeq
    <3> HIDE DEF ch
    <3>2. [ch EXCEPT !.buf = Tail(@)] \in Listeners
          /\ [ch EXCEPT !.buf = Tail(@)].buf = Tail(ch.buf)
          /\ [ch EXCEPT !.buf = Tail(@)].registered = ch.registered
      BY <1>2, <3>1 DEF Listeners
    <3> QED BY <3>1, <3>2
  <2>4. listen' \in [Keys -> Listeners]
    BY <1>2, <1>4, <2>3 DEF Table
  <2>5. \A k \in Keys : /\ Elements(listen'[k].buf) \subseteq Elements(listen[k].buf)
                        /\ Len(listen'[k].buf) <= PendingBuffer
                        /\ listen'[k].registered = listen[k].registered
    <3>1. \A k \in Keys : Len(listen[k].buf) <= PendingBuffer /\ Len(listen[k].buf) \in Nat
      BY <1>2 DEF Table, Listeners
    <3>2. Len(Tail(ch.buf)) \in Nat /\ "image_added" \in Keys
      BY <1>3, <1>4, ElementsOfSeq DEF Keys
    <3>3. listen'["image_added"].buf = Tail(ch.buf) /\ listen'["image_added"].registered = ch.registered
      BY <2>2, <2>3, <3>2
    <3>4. \A k \in Keys \ {"image_added"} : listen'[k] = listen[k]
      BY <2>2
    <3>5. Len(Tail(ch.buf)) <= PendingBuffer
      BY <2>3, <3>1, <3>2, BufferIsPositive
    <3> QED BY <2>3, <3>1, <3>3, <3>4, <3>5
  <2>6. TypeOK'
    BY <1>2, <1>4, <2>1, <2>4, <2>5 DEF TypeOK, OpTypeOK, WorldTypeOK, ConnTypeOK
  <2>7. Shape' /\ Callers' /\ LeftAlone' /\ Pending'
    BY <1>1, <1>4, <2>1, <2>5 DEF IInv, Shape, Callers, LeftAlone, Unsent, Waiting, Pending
  <2>8. Once'
    BY <1>1, <1>4, <2>1, <2>5 DEF IInv, Once, Untried, Untaken, Mines, Waiting, Keys
  <2>9. Traces'
    BY <1>1, <1>4, <2>1, <2>5 DEF IInv, Traces, Keys
  <2> QED BY <2>6, <2>7, <2>8, <2>9 DEF IInv
<1>5. CASE /\ listen' = Unregistered(listen, Keys)
           /\ \/ \E outcome \in {"not_applied", "unknown"} : Finish(outcome, 0)
              \/ /\ ch.buf # <<>> /\ Mine(m)
                 /\ Then("inventory", [op EXCEPT !.stage = "verify", !.content = m.view.content])
  <2>1. Onward /\ Working
    BY <1>1, <1>5, OnwardFrom, OnwardWorks DEF WaitForImageAdded, Spent, Same
  <2>2. CASE \E outcome \in {"not_applied", "unknown"} : Finish(outcome, 0)
    <3>1. LeadsTo(FALSE)
      BY <1>1, <2>1, <2>2, FinishEnds, StageOfKind DEF Finish, Outcomes
    <3> QED BY <2>1, <3>1, LeadsToKeeps
  <2>3. CASE /\ ch.buf # <<>> /\ Mine(m)
             /\ Then("inventory", [op EXCEPT !.stage = "verify", !.content = m.view.content])
    <3>1. m \in Messages /\ m \in Elements(ch.buf)
      BY <1>3, <2>3, ElementsOfSeq
    <3> DEFINE c == m.view.content
               o == [op EXCEPT !.stage = "verify", !.content = c]
    <3>2. c \in Ids \cup {0}
      BY <3>1 DEF Messages, Views
    <3>3. c \in {stored, 0} \cup strays
      BY <1>1, <2>3, <3>1 DEF IInv, Traces, Mine, Keys
    <3>4. ThenSeeing(runtime.inv, "inventory", o)
      BY <2>3 DEF Then
    <3> HIDE DEF c
    <3>5. /\ o \in Operations /\ o.kind = op.kind /\ o.slot = op.slot /\ o.second = op.second
          /\ o.want = op.want /\ o.content = c /\ o.cmd = op.cmd /\ o.seen = op.seen
          /\ o.stage = "verify"
      BY <1>1, <3>2 DEF Operations
    <3> HIDE DEF o
    <3>6. GoodShape(o, "inventory") /\ o.stage # "guard" /\ o.stage # "write"
      BY <1>1, <3>5 DEF GoodShape, PhasesOf
    <3>7. LeadsTo(FALSE)
      BY <2>1, <3>3, <3>4, <3>5, <3>6, ThenMoves, StageOfKind
    <3> QED BY <2>1, <3>7, LeadsToKeeps
  <2> QED BY <1>5, <2>2, <2>3
<1> QED BY <1>1, <1>4, <1>5 DEF WaitForImageAdded

LEMMA SendPacketKeeps ==
  ASSUME IInv, SendPacket
  PROVE  IInv'
<1> DEFINE q == [id |-> "mine", name |-> "wake", target |-> 0]
<1>1. /\ phase = "packet" /\ op.kind = "apply" /\ op.stage = "write" /\ op \in Operations /\ rpc = "idle"
      /\ GoodShape(op, phase) /\ WorldTypeOK /\ OpTypeOK
  BY AtWork, WritePhases DEF SendPacket, Reads, Writes
<1>2. /\ sent' = TRUE /\ auths' = Stale(Counted) /\ rpc' = "idle" /\ Spent
      /\ UNCHANGED <<connVars, tv, runtime, backoff, shut, token, taken, stored, strays>>
      /\ asked' = asked \/ asked' = asked \cup {q}
  BY DEF SendPacket, Goto, Spent
<1>3. /\ q.id = "mine"
      /\ q \in [id : {"mine", "other"}, name : Reads \cup Effects, target : Ids \cup {0}]
  BY DEF Effects
<1> HIDE DEF q
<1>4. /\ auths' \in [Slots -> Authorizations \cup {None}]
      /\ \A s \in Slots : auths'[s] # None => ~auths'[s].fresh
      /\ auths'[op.slot] # None
  <2>1. Counted \in [Slots -> Authorizations \cup {None}] /\ Counted[op.slot] # None /\ op.slot \in Slots
    BY <1>1, CountedType DEF IInv, Callers, Operations
  <2>2. Counted[op.slot] \in Authorizations
    BY <2>1
  <2>3. [Counted[op.slot] EXCEPT !.fresh = FALSE] \in Authorizations
    BY <2>2 DEF Authorizations
  <2>4. Stale(Counted)[op.slot] # None
    BY <2>1, <2>3, NoAuthorization DEF Stale
  <2> QED BY <1>2, <2>1, <2>4, StaleType
<1>5. /\ op' \in Operations /\ GoodShape(op', phase') /\ phase' \in {"idle", "device"}
      /\ op'.content = 0 /\ op'.stage # "guard" /\ op'.kind \in {"none", "apply"}
      /\ op'.kind = "apply" => op'.slot = op.slot /\ op'.want = op.want
      /\ receipt' \in [outcome : Outcomes, content : Ids \cup {0}]
      /\ op'.kind = "none" => receipt'.outcome = "unknown" /\ receipt'.content = 0
  <2>1. CASE op' = [op EXCEPT !.stage = "verify"] /\ Goto("device") /\ UNCHANGED receipt
    <3> DEFINE o == [op EXCEPT !.stage = "verify"]
    <3>1. /\ o \in Operations /\ o.kind = op.kind /\ o.slot = op.slot /\ o.second = op.second
          /\ o.want = op.want /\ o.content = op.content /\ o.cmd = op.cmd /\ o.seen = op.seen
          /\ o.stage = "verify"
      BY <1>1 DEF Operations
    <3>2. op' = o /\ phase' = "device"
      BY <2>1 DEF Goto
    <3> HIDE DEF o
    <3>3. GoodShape(o, "device") /\ o.content = 0
      BY <1>1, <3>1 DEF GoodShape, PhasesOf
    <3> QED BY <1>1, <2>1, <3>1, <3>2, <3>3 DEF OpTypeOK
  <2>2. CASE op' = Idle /\ Goto("idle") /\ receipt' = [outcome |-> "unknown", content |-> 0]
    BY <2>2, IdleType DEF Goto, Outcomes
  <2> QED BY <2>1, <2>2 DEF SendPacket
<1>6. TypeOK'
  BY <1>1, <1>2, <1>3, <1>4, <1>5, SpentType DEF TypeOK, OpTypeOK, WorldTypeOK, ConnTypeOK, connVars
<1>7. Shape' /\ LeftAlone'
  BY <1>1, <1>2, <1>5 DEF IInv, Shape, LeftAlone
<1>8. Callers'
  BY <1>1, <1>2, <1>4, <1>5 DEF IInv, Callers, Unsent, Writes
<1>9. Pending'
  BY <1>2 DEF IInv, Pending, connVars
<1>10. Once'
  <2>1. Untaken /\ Once
    BY <1>1 DEF IInv, Once, Untried
  <2>2. Mines' \subseteq Mines \cup {q}
    BY <1>2 DEF Mines
  <2>3. \A u \in Mines' : u.name \in Acts => taken = 0 /\ \A v \in Mines' : v.name \in Acts => v = u
    BY <2>1, <2>2 DEF Untaken
  <2> QED BY <1>2, <1>5, <2>1, <2>3 DEF Once, Untried, connVars
<1>11. Traces'
  BY <1>1, <1>2, <1>5 DEF IInv, Traces, connVars
<1> QED BY <1>6, <1>7, <1>8, <1>9, <1>10, <1>11 DEF IInv

LEMMA PressPowerKeyKeeps ==
  ASSUME IInv, PressPowerKey
  PROVE  IInv'
<1>1. /\ phase = "press" /\ op.kind = "apply" /\ op.stage = "write" /\ op \in Operations /\ rpc = "idle"
      /\ GoodShape(op, phase) /\ WorldTypeOK /\ OpTypeOK /\ ~sent
  BY AtWork, WritePhases DEF PressPowerKey, Reads, Writes, IInv, Callers, Unsent
<1>2. CASE Refuse /\ UNCHANGED sent
  <2>1. Onward /\ Working
    BY <1>1, <1>2, OnwardFrom, OnwardWorks DEF PressPowerKey, Spent, connVars
  <2>2. LeadsTo(FALSE)
    BY <1>1, <1>2, <2>1, RefuseEnds
  <2> QED BY <2>1, <2>2, LeadsToKeeps
<1>3. CASE /\ Calm /\ sent' = TRUE /\ auths' = Counted
           /\ op' = op /\ Goto("release") /\ UNCHANGED <<runtime, backoff, receipt>>
  <2>1. /\ phase' = "release" /\ rpc' = "idle"
        /\ UNCHANGED <<connVars, tv, asked, shut, token, taken, stored, strays, budget, left>>
    BY <1>3 DEF PressPowerKey, Goto, Calm
  <2>2. /\ auths' \in [Slots -> Authorizations \cup {None}] /\ op.slot \in Slots
        /\ \A s \in Slots : /\ auths'[s] = None <=> auths[s] = None
                            /\ auths[s] # None => auths'[s].fresh = auths[s].fresh
                                                  /\ auths'[s].want = auths[s].want
    BY <1>1, <1>3, CountedType DEF Operations
  <2>3. TypeOK'
    BY <1>1, <1>3, <2>1, <2>2 DEF TypeOK, OpTypeOK, WorldTypeOK, ConnTypeOK, connVars
  <2>4. Shape' /\ LeftAlone'
    BY <1>1, <1>3, <2>1 DEF IInv, Shape, LeftAlone, GoodShape, PhasesOf, Commands, Operations
  <2>5. Callers'
    BY <1>1, <1>3, <2>1, <2>2 DEF IInv, Callers, Unsent, Writes
  <2>6. Pending'
    BY <2>1 DEF IInv, Pending, connVars
  <2>7. Once'
    BY <1>1, <1>3, <2>1 DEF IInv, Once, Untried, Untaken, Mines, connVars, Waiting
  <2>8. Traces'
    BY <1>1, <1>3, <2>1 DEF IInv, Traces, connVars
  <2> QED BY <2>3, <2>4, <2>5, <2>6, <2>7, <2>8 DEF IInv
<1> QED BY <1>2, <1>3 DEF PressPowerKey

LEMMA ReleasePowerKeyKeeps ==
  ASSUME IInv, ReleasePowerKey
  PROVE  IInv'
<1>1. phase = "release" /\ op.kind = "apply" /\ op.stage = "write"
  BY AtWork, WritePhases DEF ReleasePowerKey
<1>2. Onward /\ Working
  <2>1. UNCHANGED asked \/ asked' = asked \cup {[id |-> "mine", target |-> 0,
                                     name |-> IF phase = "transfer" THEN "store" ELSE "off"]}
    BY <1>1 DEF ReleasePowerKey
  <2> QED BY <1>1, <2>1, OnwardFrom, OnwardWorks DEF ReleasePowerKey, Spent, connVars, Same
<1>3. LeadsTo(FALSE)
  <2>1. CASE Then("device", [op EXCEPT !.stage = "verify"])
    BY <1>1, <1>2, <2>1, VerifyMoves
  <2>2. CASE Finish("unknown", 0)
    BY <1>1, <1>2, <2>2, FinishEnds, StageOfKind DEF Finish, Outcomes
  <2> QED BY <2>1, <2>2 DEF ReleasePowerKey
<1> QED BY <1>2, <1>3, LeadsToKeeps

LEMMA PollKeeps ==
  ASSUME IInv, PollAgain \/ PollEnds
  PROVE  IInv'
<1>1. phase = "again" /\ op.kind = "apply" /\ op.stage = "verify" /\ op \in Operations /\ GoodShape(op, phase)
  BY AtWork DEF PollAgain, PollEnds, GoodShape, PhasesOf, Commands, Operations
<1>2. Onward /\ Working
  BY <1>1, OnwardFrom, OnwardWorks DEF PollAgain, PollEnds, Spent, connVars, Same
<1>3. LeadsTo(FALSE)
  <2>1. CASE \E p \in {"device", "inventory"} : Continue(p)
    BY <1>1, <1>2, <2>1, ContinueMoves DEF PhasesOf
  <2>2. CASE \E outcome \in {op.seen, "unknown"} : Finish(outcome, 0)
    BY <1>1, <1>2, <2>2, FinishEnds, StageOfKind DEF Finish, Outcomes, GoodShape, Operations
  <2> QED BY <2>1, <2>2 DEF PollAgain, PollEnds
<1> QED BY <1>2, <1>3, LeadsToKeeps

LEMMA CloseSocketKeeps ==
  ASSUME IInv, CloseSocket
  PROVE  IInv'
<1>1. /\ sock' = "none" /\ closed' = TRUE /\ wire' = <<>> /\ phase = "closing"
      /\ UNCHANGED <<reader, listen, tv, asked, op, phase, rpc, auths, runtime, backoff, shut, token,
                     receipt, sent, taken, stored, strays, budget, left>>
  BY DEF CloseSocket, Closing, Calm, adapterVars
<1>2. TypeOK'
  BY <1>1, EmptyElements, MaxWireIsPositive DEF IInv, TypeOK, ConnTypeOK
<1>3. Shape' /\ Callers' /\ LeftAlone' /\ Pending'
  BY <1>1 DEF IInv, Shape, Callers, LeftAlone, Pending, Unsent, Waiting
<1>4. Once'
  BY <1>1, EmptyElements DEF IInv, Once, Untried, Untaken, Mines, Waiting
<1>5. Traces'
  BY <1>1, EmptyElements DEF IInv, Traces
<1> QED BY <1>2, <1>3, <1>4, <1>5 DEF IInv

LEMMA CloseEndsKeeps ==
  ASSUME IInv, CloseEnds
  PROVE  IInv'
<1>1. /\ listen' = FailPending(listen) /\ reader' = "off" /\ phase = "closing" /\ auths' = Stale(auths)
      /\ UNCHANGED <<sock, closed, wire, tv, asked, shut, token, sent, taken, stored, strays, budget, left>>
      /\ op' = Idle /\ phase' = "idle" /\ rpc' = "idle" /\ receipt' = receipt
      /\ backoff' = backoff \/ backoff' = (backoff /\ ~FALSE)
      /\ runtime' = runtime \/ runtime' = [cycle |-> op.cycle, inv |-> None]
  BY DEF CloseEnds, Closed, Settle, Goto, Calm, Same
<1>2. OpTypeOK /\ WorldTypeOK /\ ConnTypeOK /\ op \in Operations /\ Table(listen)
  BY TypeParts DEF IInv, OpTypeOK, WorldTypeOK, ConnTypeOK, Table
<1>3. /\ auths' \in [Slots -> Authorizations \cup {None}]
      /\ \A s \in Slots : auths'[s] # None => ~auths'[s].fresh
  BY <1>1, <1>2, StaleType DEF OpTypeOK
<1>4. Table(listen') /\ \A k \in Keys : listen'[k].buf = listen[k].buf
  BY <1>1, <1>2, FailPendingTable
<1>5. runtime' \in [cycle : Cycles \cup {None}, inv : Inventories]
  BY <1>1, <1>2 DEF OpTypeOK, Operations, Inventories
<1>6. TypeOK'
  BY <1>1, <1>2, <1>3, <1>4, <1>5, IdleType DEF TypeOK, OpTypeOK, WorldTypeOK, ConnTypeOK, Table
<1>7. Shape' /\ LeftAlone' /\ Pending'
  BY <1>1, IdleType DEF Shape, LeftAlone, Pending
<1>8. op.kind \in {"observe", "shutdown"}
  BY <1>1, <1>2 DEF IInv, Shape, GoodShape, PhasesOf, Operations, Commands
<1>9. Callers'
  BY <1>1, <1>3, <1>8, IdleType DEF IInv, Callers, Unsent
<1>10. Once'
  BY <1>1, <1>4, IdleType DEF IInv, Once, Untried, Untaken, Mines, Waiting, Keys
<1>11. Traces'
  BY <1>1, <1>4, <1>8, IdleType DEF IInv, Traces
<1> QED BY <1>6, <1>7, <1>9, <1>10, <1>11 DEF IInv

-----------------------------------------------------------------------------
(* Operations begin.                                                       *)

\* Nothing is in hand between operations.
LEMMA AtRest ==
  ASSUME IInv, op.kind = "none"
  PROVE  phase = "idle" /\ rpc = "idle" /\ OpTypeOK /\ WorldTypeOK /\ op \in Operations
  BY TypeParts DEF IInv, Shape, GoodShape, PhasesOf, OpTypeOK, Reads, Writes

LEMMA CommandNames ==
  ASSUME NEW cmd \in Commands
  PROVE  Capability(cmd) \in {"art", "setting", "power"}
  BY DEF Commands, Capability

LEMMA BeginObserveKeeps ==
  ASSUME IInv, BeginObserve
  PROVE  IInv'
<1>1. PICK want \in {"art", "setting", "power"}, cycle \in Cycles, dry \in BOOLEAN, slot \in Slots :
        IF Blocked(want)
        THEN /\ runtime' = [cycle |-> cycle, inv |-> None]
             /\ UNCHANGED <<op, phase, auths>>
        ELSE /\ op' = [Idle EXCEPT !.kind = "observe", !.want = want, !.cycle = cycle,
                                   !.dry = dry, !.slot = slot]
             /\ phase' = "device" /\ auths' = Stale(auths)
             /\ UNCHANGED runtime
  BY DEF BeginObserve
<1>2. /\ op.kind = "none" /\ Spent
      /\ UNCHANGED <<connVars, tv, asked, rpc, backoff, shut, token, receipt, sent, taken, stored, strays>>
  BY DEF BeginObserve, Spent
<1>3. phase = "idle" /\ rpc = "idle" /\ OpTypeOK /\ WorldTypeOK /\ op \in Operations
  BY <1>2, AtRest
<1>4. ASSUME op'.kind \in {"none", "observe"}, op'.content = 0, phase' \in {"idle", "device"}
      PROVE  Once' /\ Traces' /\ Pending'
  BY <1>2, <1>3, <1>4 DEF IInv, Once, Traces, Pending, Untried, Mines, connVars
<1>5. CASE Blocked(want)
  <2>1. UNCHANGED <<op, phase, auths>> /\ runtime' = [cycle |-> cycle, inv |-> None]
    BY <1>1, <1>5
  <2>2. TypeOK'
    BY <1>2, <1>3, <2>1, SpentType
       DEF TypeOK, OpTypeOK, WorldTypeOK, ConnTypeOK, connVars, Inventories
  <2>3. Shape' /\ Callers' /\ LeftAlone'
    BY <1>2, <1>3, <2>1 DEF IInv, Shape, Callers, LeftAlone, Unsent
  <2>4. op.content = 0
    BY <1>2 DEF IInv, Shape, GoodShape
  <2> QED BY <1>2, <1>3, <1>4, <2>1, <2>2, <2>3, <2>4 DEF IInv
<1>6. CASE ~Blocked(want)
  <2> DEFINE o == [Idle EXCEPT !.kind = "observe", !.want = want, !.cycle = cycle,
                               !.dry = dry, !.slot = slot]
  <2>1. op' = o /\ phase' = "device" /\ auths' = Stale(auths) /\ runtime' = runtime
    BY <1>1, <1>6
  <2>2. /\ o \in Operations /\ o.kind = "observe" /\ o.want = want /\ o.content = 0
        /\ o.stage = "observe" /\ ~o.second /\ o.seen = "unknown"
    BY IdleType DEF Operations
  <2> HIDE DEF o
  <2>3. GoodShape(o, "device")
    BY <2>2 DEF GoodShape, PhasesOf
  <2>4. /\ auths' \in [Slots -> Authorizations \cup {None}]
        /\ \A s \in Slots : auths'[s] # None => ~auths'[s].fresh
    BY <1>3, <2>1, StaleType DEF OpTypeOK
  <2>5. TypeOK'
    BY <1>2, <1>3, <2>1, <2>2, <2>4, SpentType
       DEF TypeOK, OpTypeOK, WorldTypeOK, ConnTypeOK, connVars
  <2>6. Shape' /\ LeftAlone'
    BY <1>2, <1>3, <1>6, <2>1, <2>2, <2>3 DEF Shape, LeftAlone, Blocked
  <2>7. Callers'
    BY <1>2, <2>1, <2>2, <2>4 DEF IInv, Callers, Unsent
  <2> QED BY <1>4, <2>1, <2>2, <2>5, <2>6, <2>7 DEF IInv
<1> QED BY <1>5, <1>6

LEMMA BeginApplyKeeps ==
  ASSUME IInv, BeginApply
  PROVE  IInv'
<1>1. PICK slot \in Slots, cmd \in Commands :
        /\ auths[slot] # None /\ Authorized(auths[slot], cmd)
        /\ op' = [Idle EXCEPT !.kind = "apply", !.slot = slot, !.cmd = cmd, !.stage = "guard",
                              !.want = Capability(cmd), !.cycle = auths[slot].cycle]
  BY DEF BeginApply
<1>2. /\ op.kind = "none" /\ phase' = "device" /\ sent' = FALSE /\ taken' = 0 /\ stored' = 0
      /\ receipt' = [outcome |-> "unknown", content |-> 0] /\ Spent
      /\ UNCHANGED <<connVars, tv, rpc, auths, runtime, backoff, shut, token, strays>>
  BY DEF BeginApply, Spent
<1>3. phase = "idle" /\ rpc = "idle" /\ OpTypeOK /\ WorldTypeOK
  BY <1>2, AtRest
<1>4. auths[slot] \in Authorizations
  BY <1>1, <1>3 DEF OpTypeOK
<1> DEFINE o == [Idle EXCEPT !.kind = "apply", !.slot = slot, !.cmd = cmd, !.stage = "guard",
                             !.want = Capability(cmd), !.cycle = auths[slot].cycle]
<1>5. /\ o \in Operations /\ o.kind = "apply" /\ o.want = Capability(cmd) /\ o.content = 0
      /\ o.stage = "guard" /\ ~o.second /\ o.seen = "unknown" /\ o.cmd = cmd /\ o.slot = slot
  BY <1>4, IdleType, CommandNames DEF Operations, Authorizations
<1>6. op' = o
  BY <1>1
<1> HIDE DEF o
<1>7. GoodShape(o, "device")
  BY <1>5 DEF GoodShape, PhasesOf
<1>8. /\ asked' \subseteq [id : {"mine", "other"}, name : Reads \cup Effects, target : Ids \cup {0}]
      /\ \A q \in asked' : q.id = "other"
  <2>1. \A q \in asked : /\ [q EXCEPT !.id = "other"].id = "other"
                         /\ [q EXCEPT !.id = "other"]
                              \in [id : {"mine", "other"}, name : Reads \cup Effects, target : Ids \cup {0}]
    BY <1>3 DEF WorldTypeOK
  <2> QED BY <2>1 DEF BeginApply
<1>9. TypeOK'
  <2>1. OpTypeOK'
    BY <1>2, <1>3, <1>5, <1>6 DEF OpTypeOK, Outcomes
  <2>2. WorldTypeOK'
    <3>1. ConnTypeOK'
      BY <1>2, <1>3 DEF WorldTypeOK, ConnTypeOK, connVars
    <3>2. budget' \in 0..Budget /\ left' \in 0..MaxOperations
      BY <1>2, <1>3, SpentType
    <3>3. taken' \in 0..2 /\ stored' \in Ids \cup {0} /\ sent' \in BOOLEAN
      <4>1. taken' = 0 /\ stored' = 0
        BY <1>2
      <4>2. 0 \in 0..2 /\ 0 \in Ids \cup {0}
        OBVIOUS
      <4>3. sent' \in BOOLEAN
        BY <1>2
      <4> QED BY <4>1, <4>2, <4>3
    <3>4. /\ tv' \in [power : {"on", "standby", "off", "dark"}, art : BOOLEAN, shown : SUBSET Ids,
                      setting : Settings]
          /\ shut' \in BOOLEAN /\ token' \in BOOLEAN /\ strays' \subseteq Ids
      BY <1>2, <1>3 DEF WorldTypeOK
    <3>5. asked' \subseteq [id : {"mine", "other"}, name : Reads \cup Effects, target : Ids \cup {0}]
      BY <1>8
    <3> QED BY <3>1, <3>2, <3>3, <3>4, <3>5 DEF WorldTypeOK
  <2> QED BY <2>1, <2>2 DEF TypeOK, OpTypeOK, WorldTypeOK
<1>10. Shape'
  BY <1>2, <1>3, <1>6, <1>7 DEF Shape
<1>11. auths[slot].fresh /\ auths[slot].cycle = runtime.cycle /\ auths[slot].want = Capability(cmd)
  BY <1>1 DEF Authorized
<1>12. Callers' /\ LeftAlone'
  BY <1>1, <1>2, <1>5, <1>6, <1>11 DEF IInv, Callers, LeftAlone
<1>13. Pending'
  BY <1>2, <1>3 DEF IInv, Pending, connVars
<1>14. Mines' = {}
  BY <1>8 DEF Mines
<1>15. Once'
  BY <1>2, <1>3, <1>14 DEF IInv, Once, Untaken, connVars
<1>16. Traces'
  BY <1>2, <1>3, <1>5, <1>6 DEF IInv, Traces, connVars
<1> QED BY <1>9, <1>10, <1>12, <1>13, <1>15, <1>16 DEF IInv

LEMMA NotAuthorizedKeeps ==
  ASSUME IInv, NotAuthorized
  PROVE  IInv'
<1>1. /\ op.kind = "none" /\ receipt' = [outcome |-> "not_attempted", content |-> 0] /\ sent' = FALSE /\ Spent
      /\ UNCHANGED <<connVars, tv, asked, op, phase, rpc, auths, runtime, backoff, shut, token, taken,
                     stored, strays>>
  BY DEF NotAuthorized, Spent
<1>2. phase = "idle" /\ rpc = "idle" /\ OpTypeOK /\ WorldTypeOK
  BY <1>1, AtRest
<1>3. TypeOK'
  <2>1. OpTypeOK'
    BY <1>1, <1>2 DEF OpTypeOK, Outcomes
  <2>2. WorldTypeOK'
    BY <1>1, <1>2, SpentType DEF WorldTypeOK, ConnTypeOK, connVars
  <2> QED BY <2>1, <2>2 DEF TypeOK, OpTypeOK, WorldTypeOK
<1>4. Shape' /\ Callers' /\ LeftAlone' /\ Pending'
  BY <1>1 DEF IInv, Shape, Callers, LeftAlone, Pending, Unsent, connVars
<1>5. Once' /\ Traces'
  BY <1>1, <1>2 DEF IInv, Once, Traces, Untried, Untaken, Mines, Waiting, connVars
<1> QED BY <1>3, <1>4, <1>5 DEF IInv

LEMMA BeginCloseKeeps ==
  ASSUME IInv, BeginClose
  PROVE  IInv'
<1> DEFINE o == [Idle EXCEPT !.kind = "shutdown"]
<1>1. /\ op.kind = "none" /\ shut' = TRUE /\ auths' = Stale(auths) /\ op' = o /\ phase' = "closing" /\ Spent
      /\ UNCHANGED <<connVars, tv, asked, rpc, runtime, backoff, token, receipt, sent, taken, stored, strays>>
  BY DEF BeginClose, Spent
<1>2. phase = "idle" /\ rpc = "idle" /\ OpTypeOK /\ WorldTypeOK
  BY <1>1, AtRest
<1>3. /\ o \in Operations /\ o.kind = "shutdown" /\ o.content = 0 /\ o.stage = "observe" /\ ~o.second
      /\ o.seen = "unknown"
  BY IdleType DEF Operations
<1> HIDE DEF o
<1>4. /\ auths' \in [Slots -> Authorizations \cup {None}]
      /\ \A s \in Slots : auths'[s] # None => ~auths'[s].fresh
  BY <1>1, <1>2, StaleType DEF OpTypeOK
<1>5. TypeOK'
  BY <1>1, <1>2, <1>3, <1>4, SpentType DEF TypeOK, OpTypeOK, WorldTypeOK, ConnTypeOK, connVars
<1>6. Shape' /\ LeftAlone' /\ Pending'
  BY <1>1, <1>2, <1>3 DEF IInv, Shape, GoodShape, PhasesOf, LeftAlone, Pending, connVars
<1>7. Callers'
  BY <1>1, <1>3, <1>4 DEF IInv, Callers, Unsent
<1>8. Once' /\ Traces'
  BY <1>1, <1>2, <1>3 DEF IInv, Once, Traces, Untried, Mines, connVars
<1> QED BY <1>5, <1>6, <1>7, <1>8 DEF IInv

LEMMA BackoffEndsKeeps ==
  ASSUME IInv, BackoffEnds
  PROVE  IInv'
<1>1. /\ backoff' = FALSE
      /\ UNCHANGED <<connVars, tv, asked, op, phase, rpc, auths, runtime, shut, token, receipt, sent,
                     taken, stored, strays, budget, left>>
  BY DEF BackoffEnds, Calm
<1>2. TypeOK'
  <2>1. OpTypeOK /\ WorldTypeOK
    BY TypeParts DEF IInv
  <2>2. OpTypeOK'
    BY <1>1, <2>1 DEF OpTypeOK
  <2>3. WorldTypeOK'
    BY <1>1, <2>1 DEF WorldTypeOK, ConnTypeOK, connVars
  <2> QED BY <2>2, <2>3 DEF TypeOK, OpTypeOK, WorldTypeOK
<1>3. Shape' /\ Callers' /\ LeftAlone' /\ Pending'
  BY <1>1 DEF IInv, Shape, Callers, LeftAlone, Pending, Unsent, Waiting, connVars
<1>4. Once' /\ Traces'
  BY <1>1 DEF IInv, Once, Traces, Untried, Untaken, Mines, Waiting, connVars
<1> QED BY <1>2, <1>3, <1>4 DEF IInv

-----------------------------------------------------------------------------
(* The TV, its owner and the network.                                      *)

TVs == [power : {"on", "standby", "off", "dark"}, art : BOOLEAN, shown : SUBSET Ids, setting : Settings]

LEMMA AroundKeeps ==
  ASSUME IInv, UNCHANGED <<op, phase, rpc, auths, runtime, backoff, receipt, sent>>,
         WorldTypeOK', Pending', Once', Traces'
  PROVE  IInv'
<1>1. OpTypeOK'
  BY TypeParts DEF IInv, OpTypeOK
<1>2. TypeOK'
  BY <1>1 DEF TypeOK, OpTypeOK, WorldTypeOK
<1>3. Shape' /\ Callers' /\ LeftAlone'
  BY DEF IInv, Shape, Callers, LeftAlone, Unsent, Waiting
<1> QED BY <1>2, <1>3 DEF IInv

Requested == [id : {"mine", "other"}, name : Reads \cup Effects, target : Ids \cup {0}]

LEMMA AnswerType ==
  ASSUME tv' \in TVs, NEW content \in Ids \cup {0}, NEW q \in Requested,
         NEW verdict \in {"ok", "error", "full"}
  PROVE  /\ Answer(q, verdict, content) \in Messages /\ Answer(q, verdict, content).id = q.id
         /\ Answer(q, verdict, content).verdict = verdict
         /\ Answer(q, verdict, content).view.content = content
  BY DEF Answer, Messages, Views, TVs, Requested

LEMMA EventType ==
  ASSUME tv' \in TVs, NEW content \in Ids \cup {0}, NEW id \in {"mine", "other", "none"},
         NEW event \in {"image_added", "image_deleted"}
  PROVE  /\ Event(id, event, content) \in Messages /\ Event(id, event, content).id = id
         /\ Event(id, event, content).verdict = "ok"
         /\ Event(id, event, content).view.content = content
  BY DEF Event, Messages, Views, TVs

LEMMA FailureType ==
  ASSUME NEW m \in Messages
  PROVE  /\ [m EXCEPT !.verdict = "error"] \in Messages /\ [m EXCEPT !.verdict = "error"].id = m.id
         /\ [m EXCEPT !.verdict = "error"].view = m.view
  BY DEF Messages

LEMMA SaysType ==
  ASSUME WorldTypeOK, NEW m \in Messages, Says(m)
  PROVE  /\ wire' \in Seq(Messages) /\ Len(wire') <= MaxWire
         /\ Elements(wire') \subseteq Elements(wire) \cup {m}
<1>1. wire \in Seq(Messages) /\ Len(wire) <= MaxWire /\ Len(wire) \in Nat
  BY DEF WorldTypeOK, ConnTypeOK
<1>2. CASE sock = "up"
  <2>1. wire' = Append(wire, m) /\ Len(wire) < MaxWire
    BY <1>2 DEF Says
  <2> QED BY <1>1, <2>1, ElementsOfSeq, MaxWireIsPositive
<1>3. CASE sock # "up"
  BY <1>1, <1>3 DEF Says
<1> QED BY <1>2, <1>3

\* What handling a request can come to.
Handled(q) ==
  /\ tv' \in TVs /\ Spent /\ wire' \in Seq(Messages) /\ Len(wire') <= MaxWire
  /\ strays \subseteq strays' /\ strays' \subseteq Ids /\ stored' \in Ids \cup {0}
  /\ \/ UNCHANGED <<taken, stored>>
     \/ /\ q.id = "mine" /\ q.name \in Acts /\ taken' = (IF taken < 2 THEN taken + 1 ELSE taken)
        /\ stored' = stored \/ q.name = "store"
  /\ \/ Elements(wire') \subseteq Elements(wire)
     \/ \E m \in Messages :
          /\ Elements(wire') \subseteq Elements(wire) \cup {m}
          /\ m.id \in {q.id, "none"}
          /\ m.id = "none" /\ m.view.content # 0 => m.view.content \in strays'
          /\ m.id = "mine" /\ m.view.content # 0 => m.view.content = stored'
          /\ m.id = "mine" /\ m.verdict = "error" => taken' = taken

LEMMA TVHandled ==
  ASSUME IInv, NEW q \in asked,
         TVAnswers(q) \/ TVRejects(q) \/ TVSets(q) \/ TVDeletes(q) \/ TVStores(q) \/ TVPowers(q)
  PROVE  Handled(q)
<1>1. /\ WorldTypeOK /\ tv \in TVs /\ strays \subseteq Ids /\ stored \in Ids \cup {0} /\ taken \in 0..2
      /\ wire \in Seq(Messages) /\ Len(wire) <= MaxWire
      /\ q \in Requested
  BY TypeParts DEF IInv, WorldTypeOK, TVs, ConnTypeOK, Requested
<1>2. /\ "wanted" \in Settings /\ q.id \in {"mine", "other"} /\ 0 \in Ids \cup {0}
  BY <1>1 DEF Settings, Requested
<1>3. ASSUME tv' \in TVs, NEW m \in Messages, m.id \in {q.id, "none"},
             m.view.content = 0, Says(m), Spent, UNCHANGED <<stored, strays>>,
             \/ UNCHANGED taken
             \/ m.verdict # "error" /\ Took(q) /\ q.name \in Acts
      PROVE  Handled(q)
  BY <1>1, <1>2, <1>3, SaysType DEF Handled, Took
<1>4. ASSUME tv' \in TVs, UNCHANGED <<wire, strays, stored>>, Spent, Took(q), q.name \in Acts
      PROVE  Handled(q)
  BY <1>1, <1>2, <1>4 DEF Handled, Took
<1>5. CASE TVAnswers(q)
  <2>1. tv' \in TVs /\ Says(Answer(q, "ok", 0)) /\ UNCHANGED <<taken, stored, strays>> /\ Spent
    BY <1>1, <1>5 DEF TVAnswers, Spent
  <2> QED BY <1>1, <1>2, <1>3, <2>1, AnswerType
<1>6. CASE TVRejects(q)
  <2>1. /\ tv' \in TVs /\ UNCHANGED <<taken, stored, strays>> /\ Spent
        /\ \E verdict \in {"error", "full"} : Says(Answer(q, verdict, 0))
    BY <1>1, <1>6 DEF TVRejects, Spent
  <2> QED BY <1>1, <1>2, <1>3, <2>1, AnswerType
<1>7. CASE TVSets(q)
  <2>1. tv' \in TVs /\ Took(q) /\ UNCHANGED <<stored, strays>> /\ q.name \in Acts /\ Spent
    BY <1>1, <1>2, <1>7 DEF TVSets, TVs, Acts, Spent
  <2>2. CASE UNCHANGED wire
    BY <1>4, <2>1, <2>2
  <2>3. CASE Says(Answer(q, "ok", 0))
    BY <1>1, <1>2, <1>3, <2>1, <2>3, AnswerType
  <2> QED BY <1>7, <2>2, <2>3 DEF TVSets
<1>8. CASE TVDeletes(q)
  <2>1. tv' \in TVs /\ Took(q) /\ UNCHANGED <<stored, strays>> /\ q.name \in Acts /\ Spent
    BY <1>1, <1>8 DEF TVDeletes, TVs, Acts, Spent
  <2>2. CASE UNCHANGED wire
    BY <1>4, <2>1, <2>2
  <2>3. CASE Says(Answer(q, "ok", 0))
    BY <1>1, <1>2, <1>3, <2>1, <2>3, AnswerType
  <2>4. CASE Says(Event("none", "image_deleted", 0))
    BY <1>2, <1>3, <2>1, <2>4, EventType
  <2> QED BY <1>8, <2>2, <2>3, <2>4 DEF TVDeletes
<1>9. CASE TVPowers(q)
  <2>1. tv' \in TVs
    BY <1>1, <1>9 DEF TVPowers, TVs
  <2> QED BY <1>1, <1>2, <1>4, <1>9, <2>1 DEF TVPowers, Spent, Acts
<1>10. CASE TVStores(q)
  <2>1. CASE /\ Hazard("reject") /\ UNCHANGED <<tv, taken, stored, strays>>
             /\ Says([Event(q.id, "image_added", 0) EXCEPT !.verdict = "error"])
    <3> DEFINE m == Event(q.id, "image_added", 0)
    <3>1. m \in Messages /\ m.id = q.id /\ m.view.content = 0
      BY <1>1, <1>2, <2>1, EventType
    <3>2. Says([m EXCEPT !.verdict = "error"]) /\ Spent /\ tv' \in TVs /\ UNCHANGED <<taken, stored, strays>>
      BY <1>1, <2>1 DEF Spent
    <3> HIDE DEF m
    <3> QED BY <1>3, <3>1, <3>2, FailureType
  <2>2. CASE \E c \in Ids \ tv.shown :
               /\ tv' = [tv EXCEPT !.shown = @ \cup {c}] /\ Took(q)
               /\ stored' = IF q.id = "mine" THEN c ELSE stored
               /\ \/ Calm /\ Announces(q.id, c)
                  \/ Hazard("uncorrelated") /\ Announces("none", c)
                  \/ Hazard("silent") /\ UNCHANGED <<wire, strays>>
    <3>1. PICK c \in Ids \ tv.shown :
               /\ tv' = [tv EXCEPT !.shown = @ \cup {c}] /\ Took(q)
               /\ stored' = IF q.id = "mine" THEN c ELSE stored
               /\ \/ Calm /\ Announces(q.id, c)
                  \/ Hazard("uncorrelated") /\ Announces("none", c)
                  \/ Hazard("silent") /\ UNCHANGED <<wire, strays>>
      BY <2>2
    <3>2. tv' \in TVs
      BY <1>1, <3>1 DEF TVs
    <3>3. /\ q.name = "store" /\ Spent /\ stored' \in Ids \cup {0} /\ c \in Ids \cup {0}
          /\ q.id = "mine" => taken' = IF taken < 2 THEN taken + 1 ELSE taken
          /\ q.id # "mine" => UNCHANGED <<taken, stored>>
      BY <1>1, <1>10, <3>1 DEF TVStores, Spent, Took
    <3>4. CASE UNCHANGED <<wire, strays>>
      BY <1>1, <3>2, <3>3, <3>4 DEF Handled, Acts
    <3>5. CASE \E id \in {q.id, "none"} : Announces(id, c)
      <4>1. PICK id \in {q.id, "none"} : Announces(id, c)
        BY <3>5
      <4> DEFINE m == Event(id, "image_added", c)
      <4>2. m \in Messages /\ m.id = id /\ m.verdict = "ok" /\ m.view.content = c
        BY <1>2, <3>2, <3>3, <4>1, EventType
      <4>3. Says(m) /\ strays' = IF id = "none" THEN strays \cup {c} ELSE strays
        BY <4>1 DEF Announces
      <4> HIDE DEF m
      <4>4. /\ wire' \in Seq(Messages) /\ Len(wire') <= MaxWire
            /\ Elements(wire') \subseteq Elements(wire) \cup {m}
        BY <1>1, <4>2, <4>3, SaysType
      <4>5. strays \subseteq strays' /\ strays' \subseteq Ids /\ (id = "none" => c \in strays')
        BY <1>1, <3>1, <4>3
      <4>6. id = "mine" => c = stored'
        BY <1>2, <3>1, <4>1
      <4> QED BY <1>2, <3>2, <3>3, <4>1, <4>2, <4>4, <4>5, <4>6 DEF Handled, Acts
    <3> QED BY <3>1, <3>4, <3>5
  <2> QED BY <1>10, <2>1, <2>2 DEF TVStores
<1> QED BY <1>5, <1>6, <1>7, <1>8, <1>9, <1>10

LEMMA TVHandlesKeeps ==
  ASSUME IInv, TVHandles
  PROVE  IInv'
<1>1. PICK q \in asked :
        /\ asked' = asked \ {q}
        /\ TVAnswers(q) \/ TVRejects(q) \/ TVSets(q) \/ TVDeletes(q) \/ TVStores(q) \/ TVPowers(q)
        /\ UNCHANGED <<sock, closed, reader, listen, op, phase, rpc, auths, runtime, backoff, shut,
                       token, receipt, sent>>
  BY DEF TVHandles
<1>2. Handled(q)
  BY <1>1, TVHandled
<1>3. /\ WorldTypeOK /\ Once /\ Traces /\ Shape /\ op \in Operations /\ taken \in 0..2
  BY TypeParts DEF IInv, OpTypeOK, WorldTypeOK
<1>4. taken' \in 0..2 /\ taken \in {0, 1}
  BY <1>2, <1>3 DEF Handled, Once
<1>5. WorldTypeOK'
  <2>1. ConnTypeOK'
    BY <1>1, <1>2, <1>3 DEF WorldTypeOK, ConnTypeOK, Handled
  <2>2. budget' \in 0..Budget /\ left' \in 0..MaxOperations
    BY <1>2, <1>3, SpentType DEF Handled
  <2> QED BY <1>1, <1>2, <1>3, <1>4, <2>1, <2>2 DEF WorldTypeOK, Handled, TVs
<1>6. Pending'
  BY <1>1 DEF IInv, Pending
<1>7. Mines' = Mines \ {q}
  BY <1>1 DEF Mines
<1>8. q.id = "mine" <=> q \in Mines
  BY DEF Mines
\* Once the TV has taken up the request in hand, no request of the operation is left to act on.
<1>9. CASE UNCHANGED <<taken, stored>>
  <2>1. Untaken => Untaken'
    BY <1>7, <1>9 DEF Untaken
  <2>2. Once'
    <3>1. Untried' => Untaken'
      BY <1>1, <1>3, <2>1 DEF Once, Untried, Waiting
    <3>2. \A u \in Mines' : u.name \in Acts => taken = 0 /\ \A v \in Mines' : v.name \in Acts => v = u
      BY <1>3, <1>7 DEF Once
    <3>3. ASSUME phase = "set", rpc \in {"checked", "registered"}
          PROVE  Mines' = {} /\ \A m \in Elements(wire') : m.id # "mine"
      BY <1>2, <1>3, <1>7, <1>8, <3>3 DEF Once, Handled
    <3>4. ASSUME phase = "set", Waiting
          PROVE  /\ \A u \in Mines' : u.name = "set"
                 /\ \A m \in Elements(wire') \cup Elements(listen["reply"].buf) :
                      m.id = "mine" /\ m.verdict = "error" => Untaken'
      <4>1. ASSUME NEW m \in Elements(wire') \ Elements(wire), m.id = "mine"
            PROVE  Untaken'
        <5>1. q \in Mines
          BY <1>2, <1>8, <4>1 DEF Handled
        <5>2. q.name = "set" /\ taken = 0 /\ \A v \in Mines : v.name \in Acts => v = q
          BY <1>3, <3>4, <5>1 DEF Once, Acts
        <5> QED BY <1>7, <1>9, <5>2 DEF Untaken
      <4> QED BY <1>3, <1>7, <2>1, <3>4, <4>1 DEF Once
    <3> QED BY <1>1, <1>3, <1>9, <3>1, <3>2, <3>3, <3>4 DEF Once, Waiting
  <2>3. Traces'
    <3>1. \A m \in Elements(wire') \cup UNION {Elements(listen[k].buf) : k \in Keys} :
            m.id = "none" /\ m.view.content # 0 => m.view.content \in strays'
      BY <1>2, <1>3 DEF Traces, Handled
    <3>2. ASSUME (phase = "upload" /\ rpc # "idle") \/ phase \in {"transfer", "confirm"}
          PROVE  \A m \in Elements(wire') \cup Elements(listen["image_added"].buf) :
                   m.id = "mine" /\ m.view.content # 0 => m.view.content = stored'
      BY <1>2, <1>3, <1>9, <3>2 DEF Traces, Handled
    <3>3. strays \subseteq strays'
      BY <1>2 DEF Handled
    <3> QED BY <1>1, <1>3, <1>9, <3>1, <3>2, <3>3 DEF Traces
  <2> QED BY <1>1, <1>5, <1>6, <2>2, <2>3, AroundKeeps
<1>10. CASE ~UNCHANGED <<taken, stored>>
  <2>1. /\ q \in Mines /\ q.name \in Acts /\ taken = 0 /\ \A v \in Mines : v.name \in Acts => v = q
    BY <1>2, <1>3, <1>8, <1>10 DEF Handled, Once
  <2>2. taken' = 1 /\ \A v \in Mines' : v.name \notin Acts
    BY <1>2, <1>7, <1>10, <2>1 DEF Handled
  <2>3. ~Untaken /\ ~Untried /\ stored = 0
    BY <1>3, <2>1 DEF Once, Untaken, Traces
  <2>4. Once'
    <3>1. ASSUME phase = "set", Waiting
          PROVE  /\ \A u \in Mines' : u.name = "set"
                 /\ \A m \in Elements(wire') \cup Elements(listen["reply"].buf) :
                      ~(m.id = "mine" /\ m.verdict = "error")
      BY <1>2, <1>3, <1>7, <2>1, <2>2, <2>3, <3>1 DEF Once, Handled
    <3>2. ASSUME phase = "set", rpc \in {"checked", "registered"}
          PROVE  FALSE
      BY <1>3, <2>1, <3>2 DEF Once
    <3> QED BY <1>1, <1>3, <2>2, <2>3, <3>1, <3>2 DEF Once, Untried, Waiting
  <2>5. Traces'
    <3>1. \A m \in Elements(wire') \cup UNION {Elements(listen[k].buf) : k \in Keys} :
            m.id = "none" /\ m.view.content # 0 => m.view.content \in strays'
      BY <1>2, <1>3 DEF Traces, Handled
    <3>2. ASSUME (phase = "upload" /\ rpc # "idle") \/ phase \in {"transfer", "confirm"}
          PROVE  \A m \in Elements(wire') \cup Elements(listen["image_added"].buf) :
                   m.id = "mine" /\ m.view.content # 0 => m.view.content = stored'
      BY <1>2, <1>3, <2>3, <3>2 DEF Traces, Handled
    <3>3. strays \subseteq strays'
      BY <1>2 DEF Handled
    <3>4. op.content # 0 => op.content \in strays'
      BY <1>3, <2>3, <3>3 DEF Traces
    <3>5. op.kind # "apply" /\ receipt.content # 0 => receipt.content \in strays'
      BY <1>3, <2>3, <3>3 DEF Traces
    <3> QED BY <1>1, <2>2, <3>1, <3>2, <3>4, <3>5 DEF Traces
  <2> QED BY <1>1, <1>5, <1>6, <2>4, <2>5, AroundKeeps
<1> QED BY <1>9, <1>10

\* The TV says something unasked, the network loses something or the TV skips a request.
LEMMA OutsideKeeps ==
  ASSUME IInv, Spent, tv' \in TVs, sock' \in {"none", "up", "down"},
         wire' \in Seq(Messages), Len(wire') <= MaxWire, asked' \subseteq asked,
         strays \subseteq strays', strays' \subseteq Ids,
         \A m \in Elements(wire') \ Elements(wire) :
           m.id # "mine" /\ (m.id = "none" /\ m.view.content # 0 => m.view.content \in strays'),
         UNCHANGED <<closed, reader, listen, op, phase, rpc, auths, runtime, backoff, shut,
                     token, receipt, sent, taken, stored>>
  PROVE  IInv'
<1>1. /\ WorldTypeOK /\ Once /\ Traces
  BY TypeParts DEF IInv
<1>2. WorldTypeOK'
  <2>1. ConnTypeOK'
    BY <1>1 DEF WorldTypeOK, ConnTypeOK
  <2>2. budget' \in 0..Budget /\ left' \in 0..MaxOperations
    BY <1>1, SpentType
  <2> QED BY <1>1, <2>1, <2>2 DEF WorldTypeOK, TVs
<1>3. Pending'
  BY DEF IInv, Pending
<1>4. Mines' \subseteq Mines
  BY DEF Mines
<1>5. Untaken => Untaken'
  BY <1>4 DEF Untaken
<1>6. Once'
  BY <1>1, <1>4, <1>5 DEF Once, Untried, Waiting
<1>7. Traces'
  BY <1>1 DEF Traces
<1> QED BY <1>2, <1>3, <1>6, <1>7, AroundKeeps

LEMMA EnvironmentKeeps ==
  ASSUME IInv, TVIgnores \/ OwnerActs \/ PowerChanges \/ Drops
  PROVE  IInv'
<1>1. /\ WorldTypeOK /\ tv \in TVs /\ strays \subseteq Ids /\ wire \in Seq(Messages) /\ Len(wire) <= MaxWire
      /\ sock \in {"none", "up", "down"}
  BY TypeParts DEF IInv, WorldTypeOK, TVs, ConnTypeOK
<1>2. CASE TVIgnores
  <2>1. Spent /\ asked' \subseteq asked /\ UNCHANGED <<connVars, tv, adapterVars>>
    BY <1>2 DEF TVIgnores, Spent
  <2> QED BY <1>1, <2>1, OutsideKeeps DEF connVars, adapterVars
<1>3. CASE PowerChanges
  <2>1. Spent /\ tv' \in TVs /\ UNCHANGED <<connVars, asked, adapterVars>>
    BY <1>1, <1>3 DEF PowerChanges, Spent, TVs
  <2> QED BY <1>1, <2>1, OutsideKeeps DEF connVars, adapterVars
<1>4. CASE Drops
  <2>1. /\ Spent /\ UNCHANGED <<tv, asked, adapterVars, closed, reader, listen>> /\ sock' = "down"
        /\ wire' \in {wire, <<>>}
    BY <1>4 DEF Drops, SocketDrops, Spent
  <2>2. wire' \in Seq(Messages) /\ Len(wire') <= MaxWire /\ Elements(wire') \subseteq Elements(wire)
    <3>1. CASE wire' = wire
      BY <1>1, <3>1
    <3>2. CASE wire' = <<>>
      BY <3>2, EmptyElements, MaxWireIsPositive
    <3> QED BY <2>1, <3>1, <3>2
  <2> QED BY <1>1, <2>1, <2>2, OutsideKeeps DEF adapterVars
<1>5. CASE OwnerActs
  <2>1. /\ Spent
        /\ UNCHANGED <<sock, closed, reader, listen, asked, op, phase, rpc, auths, runtime, backoff, shut,
                       token, receipt, sent, taken, stored>>
    BY <1>5 DEF OwnerActs, Spent
  <2>2. CASE \E c \in Ids \ tv.shown :
               /\ tv' = [tv EXCEPT !.shown = @ \cup {c}]
               /\ \/ Announces("other", c)
                  \/ "uncorrelated" \in Hazards /\ Announces("none", c)
    <3>1. PICK c \in Ids, id \in {"other", "none"} :
            tv' = [tv EXCEPT !.shown = @ \cup {c}] /\ Announces(id, c)
      BY <2>2
    <3>2. tv' \in TVs
      BY <1>1, <3>1 DEF TVs
    <3> DEFINE m == Event(id, "image_added", c)
    <3>3. m \in Messages /\ m.id = id /\ m.view.content = c
      BY <3>2, EventType
    <3>4. Says(m) /\ strays' = IF id = "none" THEN strays \cup {c} ELSE strays
      BY <3>1 DEF Announces
    <3> HIDE DEF m
    <3>5. /\ wire' \in Seq(Messages) /\ Len(wire') <= MaxWire
          /\ Elements(wire') \subseteq Elements(wire) \cup {m}
      BY <1>1, <3>3, <3>4, SaysType
    <3>6. strays \subseteq strays' /\ strays' \subseteq Ids /\ (id = "none" => c \in strays')
      BY <1>1, <3>4
    <3> QED BY <1>1, <2>1, <3>2, <3>3, <3>5, <3>6, OutsideKeeps
  <2>3. CASE \E c \in tv.shown :
               tv' = [tv EXCEPT !.shown = @ \ {c}] /\ Says(Event("none", "image_deleted", 0)) /\ UNCHANGED strays
    <3>1. tv' \in TVs
      BY <1>1, <2>3 DEF TVs
    <3> DEFINE m == Event("none", "image_deleted", 0)
    <3>2. m \in Messages /\ m.id = "none" /\ m.view.content = 0
      BY <3>1, EventType
    <3>3. Says(m) /\ UNCHANGED strays
      BY <2>3
    <3> HIDE DEF m
    <3>4. /\ wire' \in Seq(Messages) /\ Len(wire') <= MaxWire
          /\ Elements(wire') \subseteq Elements(wire) \cup {m}
      BY <1>1, <3>2, <3>3, SaysType
    <3> QED BY <1>1, <2>1, <3>1, <3>2, <3>3, <3>4, OutsideKeeps
  <2>4. CASE tv' \in {[tv EXCEPT !.setting = "other"], [tv EXCEPT !.art = ~@]} /\ UNCHANGED <<wire, strays>>
    <3>1. tv' \in TVs
      BY <1>1, <2>4 DEF TVs, Settings
    <3> QED BY <1>1, <2>1, <2>4, <3>1, OutsideKeeps
  <2> QED BY <1>5, <2>2, <2>3, <2>4 DEF OwnerActs
<1> QED BY <1>2, <1>3, <1>4, <1>5

-----------------------------------------------------------------------------
(* The reader.                                                             *)

LEMMA RouteTable ==
  ASSUME NEW l, Table(l), NEW m \in Messages
  PROVE  /\ Table(Route(l, m))
         /\ \A k \in Keys :
              /\ Route(l, m)[k].registered = l[k].registered /\ Route(l, m)[k].shut = l[k].shut
              /\ Elements(Route(l, m)[k].buf) \subseteq Elements(l[k].buf) \cup {m}
              /\ Route(l, m)[k].buf = l[k].buf \/ Route(l, m)[k].buf # <<>>
         /\ Route(l, m)["reply"] = l["reply"] \/ m.id = "mine"
<1> DEFINE hits == {i \in DOMAIN KeysOf(m) : KeysOf(m)[i] \in Keys /\ l[KeysOf(m)[i]].registered}
           key  == KeysOf(m)[CHOOSE i \in hits : \A j \in hits : i <= j]
<1>1. CASE Route(l, m) = l
  BY <1>1
<1>2. CASE Route(l, m) # l
  <2>0. \A k \in Keys : l[k].buf \in Seq(Messages) /\ Len(l[k].buf) \in Nat
    BY DEF Table, Listeners
  <2>1. /\ DOMAIN KeysOf(m) \subseteq {1, 2} /\ m.event # "reply"
        /\ \A i \in DOMAIN KeysOf(m) : KeysOf(m)[i] = "reply" => m.id = "mine"
    BY DEF KeysOf, Messages
  <2>2. /\ hits # {} /\ ~(Len(l[key].buf) >= PendingBuffer)
        /\ Route(l, m) = [l EXCEPT ![key].buf = Append(@, m)]
    BY <1>2 DEF Route
  <2>3. \E i \in hits : \A j \in hits : i <= j
    <3>1. hits \subseteq {1, 2}
      BY <2>1
    <3>2. hits # {}
      BY <2>2
    <3> HIDE DEF hits
    <3>3. CASE 1 \in hits
      BY <3>1, <3>3
    <3>4. CASE 1 \notin hits
      <4>1. \A j \in hits : j = 2
        BY <3>1, <3>4
      <4>2. 2 \in hits
        BY <3>2, <4>1
      <4> QED BY <4>1, <4>2
    <3> QED BY <3>3, <3>4
  <2>4. (CHOOSE i \in hits : \A j \in hits : i <= j) \in hits
    BY <2>3
  <2>5. key \in Keys
    BY <2>4
  <2>6. key = "reply" => m.id = "mine"
    BY <2>1, <2>4
  <2> HIDE DEF key, hits
  <2>7. l[key] \in Listeners /\ l[key].buf \in Seq(Messages) /\ Len(l[key].buf) \in Nat
    BY <2>0, <2>5 DEF Table
  <2>8. /\ Append(l[key].buf, m) \in Seq(Messages) /\ Len(Append(l[key].buf, m)) = Len(l[key].buf) + 1
        /\ Elements(Append(l[key].buf, m)) = Elements(l[key].buf) \cup {m}
        /\ Append(l[key].buf, m) # <<>>
    BY <2>7, ElementsOfSeq
  <2> DEFINE e == [l[key] EXCEPT !.buf = Append(@, m)]
  <2>9. /\ e \in Listeners /\ e.buf = Append(l[key].buf, m) /\ e.registered = l[key].registered
        /\ e.shut = l[key].shut
    BY <2>7, <2>8 DEF Listeners
  <2>10. Route(l, m) = [l EXCEPT ![key] = e]
    BY <2>2
  <2> HIDE DEF e
  <2>11. Route(l, m) \in [Keys -> Listeners] /\ \A k \in Keys : Route(l, m)[k] = IF k = key THEN e ELSE l[k]
    BY <2>5, <2>9, <2>10 DEF Table
  <2>12. Len(e.buf) <= PendingBuffer
    BY <2>2, <2>7, <2>8, <2>9, BufferIsPositive
  <2> QED BY <2>5, <2>6, <2>8, <2>9, <2>11, <2>12 DEF Table, Keys
<1> QED BY <1>1, <1>2

LEMMA ReaderKeeps ==
  ASSUME IInv, Reader
  PROVE  IInv'
<1>1. /\ UNCHANGED <<tv, asked, adapterVars, budget, left, sock>>
      /\ ReaderReads \/ ReaderFails \/ ReaderFailsPending
  BY DEF Reader, ReaderStep, Calm, ReaderReads, ReaderFails, ReaderFailsPending
<1>2. /\ WorldTypeOK /\ ConnTypeOK /\ Once /\ Traces /\ Pending /\ Table(listen)
  BY TypeParts DEF IInv, WorldTypeOK, ConnTypeOK, Table
<1>3. UNCHANGED <<op, phase, rpc, auths, runtime, backoff, shut, token, receipt, sent, taken, stored, strays>>
  BY <1>1 DEF adapterVars
<1>4. Mines' = Mines /\ (Untaken' <=> Untaken) /\ (Untried' <=> Untried)
  BY <1>1, <1>3 DEF Mines, Untaken, Untried, Waiting
<1>5. CASE ReaderReads
  <2> DEFINE m == Head(wire)
  <2>1. /\ reader = "reading" /\ wire # <<>> /\ listen' = Route(listen, m) /\ wire' = Tail(wire)
        /\ UNCHANGED <<closed, reader>>
    BY <1>5 DEF ReaderReads
  <2>2. /\ m \in Messages /\ m \in Elements(wire) /\ wire' \in Seq(Messages)
        /\ Elements(wire') \subseteq Elements(wire) /\ Len(wire') <= MaxWire
    <3>1. wire \in Seq(Messages) /\ Len(wire) <= MaxWire /\ Len(wire) \in Nat
      BY <1>2 DEF ConnTypeOK
    <3> QED BY <2>1, <3>1, ElementsOfSeq, MaxWireIsPositive
  <2> HIDE DEF m
  <2>3. /\ Table(listen')
        /\ \A k \in Keys :
              /\ listen'[k].registered = listen[k].registered /\ listen'[k].shut = listen[k].shut
              /\ Elements(listen'[k].buf) \subseteq Elements(listen[k].buf) \cup {m}
              /\ listen'[k].buf = listen[k].buf \/ listen'[k].buf # <<>>
        /\ listen'["reply"] = listen["reply"] \/ m.id = "mine"
    BY <1>2, <2>1, <2>2, RouteTable
  <2>4. WorldTypeOK'
    BY <1>1, <1>2, <1>3, <2>1, <2>2, <2>3 DEF WorldTypeOK, ConnTypeOK, Table
  <2>5. Pending'
    BY <1>2, <1>3, <2>1, <2>3 DEF Pending, Keys
  <2>6. Once'
    <3>1. \A n \in Elements(listen'["reply"].buf) : n.id = "mine"
      BY <1>2, <2>3 DEF Once, Keys
    <3>2. phase = "set" /\ rpc = "registered" => listen'["reply"].buf = <<>>
      BY <1>2, <2>2, <2>3 DEF Once
    <3>3. Elements(wire') \cup Elements(listen'["reply"].buf) \subseteq Elements(wire) \cup Elements(listen["reply"].buf)
      BY <2>2, <2>3 DEF Keys
    <3> QED BY <1>2, <1>3, <1>4, <2>2, <3>1, <3>2, <3>3 DEF Once, Waiting
  <2>7. Traces'
    <3>1. Elements(wire') \cup UNION {Elements(listen'[k].buf) : k \in Keys}
            \subseteq Elements(wire) \cup UNION {Elements(listen[k].buf) : k \in Keys}
      BY <2>2, <2>3
    <3>2. Elements(wire') \cup Elements(listen'["image_added"].buf)
            \subseteq Elements(wire) \cup Elements(listen["image_added"].buf)
      BY <2>2, <2>3 DEF Keys
    <3> QED BY <1>2, <1>3, <3>1, <3>2 DEF Traces
  <2> QED BY <1>3, <2>4, <2>5, <2>6, <2>7, AroundKeeps
<1>6. CASE ReaderFails
  <2>1. reader' = "failing" /\ closed' = TRUE /\ UNCHANGED <<listen, wire>>
    BY <1>6 DEF ReaderFails
  <2>2. WorldTypeOK' /\ Pending'
    BY <1>1, <1>2, <1>3, <2>1 DEF WorldTypeOK, ConnTypeOK, Pending
  <2>3. Once' /\ Traces'
    BY <1>2, <1>3, <1>4, <2>1 DEF Once, Traces, Waiting
  <2> QED BY <1>3, <2>2, <2>3, AroundKeeps
<1>7. CASE ReaderFailsPending
  <2>1. reader = "failing" /\ listen' = FailPending(listen) /\ reader' = "done" /\ UNCHANGED <<closed, wire>>
    BY <1>7 DEF ReaderFailsPending
  <2>2. /\ Table(listen')
        /\ \A k \in Keys : /\ listen'[k].buf = listen[k].buf /\ ~listen'[k].registered
                           /\ listen[k].registered => listen'[k].shut
                           /\ listen[k].shut => listen'[k].shut
    BY <1>2, <2>1, FailPendingTable
  <2>3. WorldTypeOK'
    BY <1>1, <1>2, <1>3, <2>1, <2>2 DEF WorldTypeOK, ConnTypeOK, Table
  <2>4. Pending'
    BY <1>2, <1>3, <2>1, <2>2 DEF Pending, Keys
  <2>5. Once' /\ Traces'
    BY <1>2, <1>3, <1>4, <2>1, <2>2 DEF Once, Traces, Waiting, Keys
  <2> QED BY <1>3, <2>3, <2>4, <2>5, AroundKeeps
<1> QED BY <1>1, <1>5, <1>6, <1>7

-----------------------------------------------------------------------------
(* The theorems.                                                           *)

LEMMA InitHolds == Init => IInv
<1> SUFFICES ASSUME Init PROVE IInv
  OBVIOUS
<1>1. /\ sock = "none" /\ closed = TRUE /\ reader = "off" /\ listen = [k \in Keys |-> Silent] /\ wire = <<>>
      /\ asked = {} /\ op = Idle /\ phase = "idle" /\ rpc = "idle" /\ auths = [s \in Slots |-> None]
      /\ runtime = [cycle |-> None, inv |-> None] /\ backoff = FALSE /\ shut = FALSE /\ token = FALSE
      /\ receipt = [outcome |-> "not_attempted", content |-> 0]
      /\ sent = FALSE /\ taken = 0 /\ stored = 0 /\ strays = {} /\ budget = Budget /\ left = MaxOperations
  BY DEF Init, ConnInit
<1>2. tv \in TVs
  BY InitialImages DEF Init, TVs, Settings
<1>3. ConnTypeOK
  BY <1>1, SilentTable, EmptyElements, MaxWireIsPositive DEF ConnTypeOK, Table
<1>4. OpTypeOK
  BY <1>1, IdleType DEF OpTypeOK, Inventories, Outcomes
<1>5. WorldTypeOK
  <2>1. asked = {} /\ strays = {} /\ taken = 0 /\ stored = 0
    BY <1>1
  <2>2. taken \in 0..2 /\ stored \in Ids \cup {0}
    BY <2>1
  <2>3. shut \in BOOLEAN /\ token \in BOOLEAN /\ sent \in BOOLEAN
    BY <1>1
  <2>4. budget \in 0..Budget /\ left \in 0..MaxOperations
    BY <1>1, AdapterBounds
  <2> QED BY <1>2, <1>3, <2>1, <2>2, <2>3, <2>4 DEF WorldTypeOK, TVs
<1>6. TypeOK
  BY <1>4, <1>5, TypeParts
<1>7. Shape /\ Callers /\ LeftAlone /\ Pending
  BY <1>1, IdleType DEF Shape, Callers, LeftAlone, Pending, Unsent
<1>8. Elements(wire) = {} /\ \A k \in Keys : Elements(listen[k].buf) = {}
  BY <1>1, SilentTable, EmptyElements
<1>9. Mines = {}
  BY <1>1 DEF Mines
<1>10. Once
  BY <1>1, <1>8, <1>9, IdleType DEF Once, Untried, Waiting, Keys
<1>11. Traces
  BY <1>1, <1>8, IdleType DEF Traces
<1> QED BY <1>6, <1>7, <1>10, <1>11 DEF IInv

LEMMA NextKeeps == IInv /\ [Next]_vars => IInv'
<1> SUFFICES ASSUME IInv, [Next]_vars PROVE IInv'
  OBVIOUS
<1>1. CASE Begin
  BY <1>1, BeginObserveKeeps, BeginApplyKeeps, NotAuthorizedKeeps, BeginCloseKeeps DEF Begin
<1>2. CASE Exchange
  BY <1>2, CheckConnectionKeeps, RegisterReplyKeeps, SendRequestKeeps, ReceiveAnswerKeeps, StopWaitingKeeps
     DEF Exchange
<1>3. CASE Step /\ ~Exchange
  BY <1>3, ReadDeviceKeeps, ConnectKeeps, CloseSocketKeeps, CloseEndsKeeps, TransferKeeps,
     WaitForImageAddedKeeps, SendPacketKeeps, PressPowerKeyKeeps, ReleasePowerKeyKeeps, PollKeeps,
     NotPreparedKeeps
     DEF Step
<1>4. CASE Reader
  BY <1>4, ReaderKeeps
<1>5. CASE Environment
  BY <1>5, TVHandlesKeeps, EnvironmentKeeps, BackoffEndsKeeps DEF Environment
<1>6. CASE UNCHANGED vars
  <2>1. UNCHANGED <<connVars, tv, asked, op, phase, rpc, auths, runtime, backoff, shut, token, receipt,
                    sent, taken, stored, strays, budget, left>>
    BY <1>6 DEF vars, adapterVars
  <2>2. OpTypeOK /\ WorldTypeOK
    BY TypeParts DEF IInv
  <2>3. WorldTypeOK'
    BY <2>1, <2>2 DEF WorldTypeOK, ConnTypeOK, connVars
  <2>4. Pending' /\ Once' /\ Traces'
    BY <2>1 DEF IInv, Pending, Once, Traces, Untried, Untaken, Mines, Waiting, connVars
  <2> QED BY <2>1, <2>3, <2>4, AroundKeeps
<1> QED BY <1>1, <1>2, <1>3, <1>4, <1>5, <1>6 DEF Next

\* The invariant holds in every state of the adapter: each step of an operation, of the
\* reader, the TV, its owner and the network keeps it.
THEOREM Inductive == Spec => []IInv
  BY InitHolds, NextKeeps, PTL DEF Spec

\* The adapter, its connection and the TV keep to their types, whatever is lost,
\* refused or done by others.
THEOREM AdapterTypes == Spec => []TypeOK
<1>1. IInv => TypeOK
  BY DEF IInv
<1> QED BY <1>1, Inductive, PTL

\* Nobody waits on a connection whose reader is gone: recvLoop marks it closed before
\* failPending goes through the table, and registerPending refuses a closed one.
THEOREM NobodyWaitsInVain == Spec => []WaitersAreServed
<1>1. IInv => WaitersAreServed
  <2> SUFFICES ASSUME IInv, reader = "done" PROVE WaitersAreServed
    BY DEF WaitersAreServed
  <2>1. Pending
    BY DEF IInv
  <2> QED BY <2>1 DEF Pending, WaitersAreServed, Keys
<1> QED BY <1>1, Inductive, PTL

\* One Apply has the TV carry out its command at most once: what is sent again was
\* rejected in so many words, and a message of an earlier request is no rejection of
\* this one.
THEOREM CarriedOutOnce == Spec => []TakenOnce
<1>1. IInv => TakenOnce
  BY DEF IInv, Once, TakenOnce
<1> QED BY <1>1, Inductive, PTL

\* A receipt says what is so: nothing was sent, or the TV stored the upload under this
\* content ID, or announced that ID for no request.
THEOREM TrueReceipts == Spec => []ReceiptsAreTrue
<1>1. IInv => ReceiptsAreTrue
  BY DEF IInv, Callers, Traces, ReceiptsAreTrue
<1> QED BY <1>1, Inductive, PTL

\* A TV that failed an observation is asked nothing until the backoff ends.
THEOREM FailedTVLeftAlone == Spec => []LeftAlone
<1>1. IInv => LeftAlone
  BY DEF IInv
<1> QED BY <1>1, Inductive, PTL

\* A command goes out only on what was observed last.
THEOREM NothingInBetween == Spec => NothingBetween
<1> DEFINE Fresh == /\ auths[op.slot].writes = 0 /\ auths[op.slot].fresh
                    /\ auths[op.slot].cycle = runtime.cycle
<1>1. ASSUME IInv, [Next]_vars, ~sent, sent'
      PROVE  Fresh
  <2>1. SendRequest \/ SendPacket \/ PressPowerKey
    <3>1. sent' # sent
      BY <1>1
    <3>2. ~UNCHANGED vars
      BY <3>1 DEF vars, adapterVars
    <3>3. ~Begin
      BY <1>1, <3>1 DEF Begin, BeginObserve, BeginApply, NotAuthorized, BeginClose
    <3>4. ~Reader /\ ~Environment
      BY <3>1 DEF Reader, Environment, TVHandles, TVIgnores, OwnerActs, PowerChanges, Drops, BackoffEnds,
                  adapterVars
    <3>5. ~(CheckConnection \/ RegisterReply \/ ReceiveAnswer \/ StopWaiting)
      BY <3>1 DEF CheckConnection, RegisterReply, ReceiveAnswer, StopWaiting, Same
    <3>6. ~(ReadDevice \/ Connect \/ CloseSocket \/ CloseEnds \/ Transfer \/ WaitForImageAdded)
      BY <3>1 DEF ReadDevice, Connect, CloseSocket, CloseEnds, Transfer, WaitForImageAdded, Same, adapterVars
    <3>7. ~(ReleasePowerKey \/ PollAgain \/ PollEnds \/ NotPrepared)
      BY <3>1 DEF ReleasePowerKey, PollAgain, PollEnds, NotPrepared, Same
    <3> QED BY <1>1, <3>2, <3>3, <3>4, <3>5, <3>6, <3>7 DEF Next, Step, Exchange
  <2>2. phase \in Writes \cup {"packet", "press"}
    BY <1>1, <2>1 DEF SendRequest, SendPacket, PressPowerKey
  <2>3. op.kind = "apply"
    <3>1. op \in Operations /\ GoodShape(op, phase)
      BY <1>1 DEF IInv, TypeOK, Shape
    <3> QED BY <2>2, <3>1, WritePhases DEF Writes
  <2> QED BY <1>1, <2>3 DEF IInv, Callers
<1>2. IInv /\ [Next]_vars => [~sent /\ sent' => Fresh]_vars
  BY <1>1
<1> QED BY <1>2, Inductive, PTL DEF Spec, NothingBetween
=============================================================================
