---------------------------- MODULE SamsungAdapter ----------------------------
(***************************************************************************)
(* The adapter of one TV (internal/samsung/adapter*.go, protocol*.go) over  *)
(* its ArtConnection: Observe reads the TV and issues an authorization,     *)
(* Apply spends one on a command, checks the facts it was issued on against *)
(* the TV, writes, and reads back what became of it. Operations hold        *)
(* operationMu, so one op describes them; the reader, the TV and its owner  *)
(* go on meanwhile.                                                         *)
(***************************************************************************)
EXTENDS ArtConnection

CONSTANTS None,
          Cycles,      \* identities of a sync cycle and its collection
          Slots,       \* places a caller keeps authorizations in
          Initially,   \* images on the TV at the start
          MaxOperations, \* bound: operations of a behaviour
          MaxAsked,    \* bound: requests the TV has not handled
          QuietGate,   \* the configuration asks the REST gate before connecting
          HasMAC,      \* the configuration names a MAC address to wake
          Hazards,     \* the disturbances a behaviour may meet
          Budget       \* how many of them

ASSUME AdapterConfig == QuietGate \in BOOLEAN /\ HasMAC \in BOOLEAN
ASSUME SomeCaller    == Cycles # {} /\ Slots # {}
ASSUME InitialImages == Initially \subseteq Ids
ASSUME AdapterBounds == MaxOperations \in Nat /\ MaxAsked \in Nat \ {0} /\ Budget \in Nat

Commands == [name : {"upload", "delete", "set", "wake", "off"}, target : Ids \cup {0}]
Power(c) == c.name \in {"wake", "off"}
Capability(c) == IF Power(c) THEN "power" ELSE IF c.name = "set" THEN "setting" ELSE "art"
Reads    == {"artmode", "inventory", "setting", "mattes"}
Writes   == {"upload", "delete", "set"}
Effects  == Writes \cup {"store", "wake", "off"}   \* what the TV does on a command
Outcomes == {"not_attempted", "not_applied", "applied", "unknown"}

Inventories == (SUBSET Ids) \cup {None}

\* The generation an authorization carries is of use only as equal or not equal
\* to the adapter's, which never returns to an earlier one: fresh.
Authorizations ==
  [fresh : BOOLEAN, cycle : Cycles, want : {"art", "setting", "power"}, inv : Inventories,
   dry : BOOLEAN, presumed : BOOLEAN,
   writes : 0..1]       \* history: commands sent since it was issued, 1 for more

ASSUME NoAuthorization == None \notin Authorizations

Operations ==
  [kind : {"none", "observe", "apply", "shutdown"}, want : {"art", "setting", "power"}, cycle : Cycles,
   dry : BOOLEAN, slot : Slots, cmd : Commands, stage : {"observe", "guard", "write", "verify"},
   standby : BOOLEAN, inv : Inventories, content : Ids \cup {0}, second : BOOLEAN, seen : Outcomes]

VARIABLES
  tv,       \* power, Art Mode, uploaded images and a setting of the TV
  asked,    \* requests the TV has not handled
  op,       \* the operation that holds operationMu
  phase,    \* what it does next
  rpc,      \* how far SendAndWait is
  auths,    \* the authorizations callers hold
  runtime,  \* adapterRuntime: cycle and inventory last published
  backoff,  \* adapterRuntime: NextAttemptAt is ahead
  shut,     \* adapter.closed
  token,    \* an authentication token is on disk
  receipt,  \* outcome and content ID of the last Apply
  sent,     \* history: the present or last Apply has sent its command
  taken,    \* history: times the TV has carried that command out
  stored,   \* history: content ID the TV gave to that upload
  strays,   \* history: content IDs the TV announced without the ID of a request
  budget,   \* disturbances left
  left      \* operations left

adapterVars == <<op, phase, rpc, auths, runtime, backoff, shut, token, receipt, sent, taken, stored, strays>>
vars == <<connVars, tv, asked, adapterVars, budget, left>>

Idle == [kind |-> "none", want |-> "art", cycle |-> CHOOSE c \in Cycles : TRUE, dry |-> FALSE,
         slot |-> CHOOSE s \in Slots : TRUE, cmd |-> [name |-> "set", target |-> 0],
         stage |-> "observe", standby |-> FALSE, inv |-> None, content |-> 0, second |-> FALSE,
         seen |-> "unknown"]

TypeOK ==
  /\ ConnTypeOK
  /\ tv \in [power : {"on", "standby", "off", "dark"}, art : BOOLEAN, shown : SUBSET Ids,
             setting : Settings]
  /\ asked \subseteq [id : {"mine", "other"}, name : Reads \cup Effects, target : Ids \cup {0}]
  /\ op \in Operations
  /\ phase \in {"idle", "device", "connect", "closing", "transfer", "confirm", "packet",
                "press", "release", "again"} \cup Reads \cup Writes
  /\ rpc \in {"idle", "checked", "registered", "waiting"}
  /\ auths \in [Slots -> Authorizations \cup {None}]
  /\ runtime \in [cycle : Cycles \cup {None}, inv : Inventories]
  /\ backoff \in BOOLEAN
  /\ shut \in BOOLEAN /\ token \in BOOLEAN
  /\ receipt \in [outcome : Outcomes, content : Ids \cup {0}]
  /\ sent \in BOOLEAN /\ taken \in 0..2 /\ stored \in Ids \cup {0} /\ strays \subseteq Ids
  /\ budget \in 0..Budget /\ left \in 0..MaxOperations

Init ==
  /\ ConnInit
  /\ tv \in [power : {"on", "off"}, art : {TRUE}, shown : {Initially}, setting : {"before"}]
  /\ asked = {} /\ op = Idle /\ phase = "idle" /\ rpc = "idle"
  /\ auths = [s \in Slots |-> None]
  /\ runtime = [cycle |-> None, inv |-> None]
  /\ backoff = FALSE
  /\ shut = FALSE /\ token = FALSE
  /\ receipt = [outcome |-> "not_attempted", content |-> 0]
  /\ sent = FALSE /\ taken = 0 /\ stored = 0 /\ strays = {}
  /\ budget = Budget /\ left = MaxOperations

Hazard(h) == h \in Hazards /\ budget > 0 /\ budget' = budget - 1 /\ UNCHANGED left
Calm      == UNCHANGED <<budget, left>>
Begins    == left > 0 /\ left' = left - 1 /\ UNCHANGED budget

-----------------------------------------------------------------------------
\* How operations end.

\* mutant: an Apply leaves the generation alone
StillFresh(as) == as

\* connectionGeneration++
Stale(as) == [s \in Slots |-> IF as[s] = None THEN None ELSE [as[s] EXCEPT !.fresh = FALSE]]

Goto(p) == phase' = p /\ rpc' = "idle"

\* Observe returns: publishAuthorizationFacts, and settleObservation's reset.
Settle(inv, reset) ==
  /\ runtime' = [cycle |-> op.cycle, inv |-> inv]
  /\ backoff' = (backoff /\ ~reset)
  /\ op' = Idle /\ Goto("idle")
  /\ UNCHANGED <<receipt>>

Issue(inv, presumed) ==
  auths' = [auths EXCEPT ![op.slot] =
     [fresh |-> TRUE, cycle |-> op.cycle, want |-> op.want, inv |-> inv, dry |-> op.dry,
      presumed |-> presumed, writes |-> 0]]

\* failObservation. A failure worth a retry delays the next attempt; all but a
\* cancelled observation drop the connection.
FailObservation(kind) ==
  IF kind = "canceled"
  THEN Settle(None, FALSE) /\ UNCHANGED auths
  ELSE /\ backoff' = (backoff \/ kind # "unauthorized")
       /\ Goto("closing")
       /\ UNCHANGED <<op, auths, runtime, receipt>>

\* publishGuardInventory: an inventory read by Apply replaces the published one.
Publish(inv) == runtime' = [runtime EXCEPT !.inv = inv]

\* Apply returns (finishCommand) and invalidates every authorization.
FinishSeeing(inv, outcome, content) ==
  /\ receipt' = [outcome |-> outcome, content |-> content]
  /\ auths' = Stale(auths)
  /\ op' = Idle /\ Goto("idle") /\ Publish(inv)
  /\ UNCHANGED backoff
Finish(outcome, content) == FinishSeeing(runtime.inv, outcome, content)

ThenSeeing(inv, p, o) ==
  op' = o /\ Goto(p) /\ Publish(inv) /\ UNCHANGED <<auths, backoff, receipt>>
Then(p, o)  == ThenSeeing(runtime.inv, p, o)
Continue(p) == Then(p, op)

\* A check of the postcondition did not confirm it.
NotYetSeeing(inv, outcome) == ThenSeeing(inv, "again", [op EXCEPT !.seen = outcome])
NotYet(outcome) == NotYetSeeing(runtime.inv, outcome)

-----------------------------------------------------------------------------
\* Operations begin.

\* mutant: the backoff is never asked
NeverBlocked(want) == FALSE

\* A wake only asks REST and sends a packet: no backoff delays it.
Blocked(want) == backoff /\ want # "power"

BeginObserve ==
  \E want \in {"art", "setting", "power"}, cycle \in Cycles, dry \in BOOLEAN, slot \in Slots :
    /\ op.kind = "none" /\ ~shut
    /\ IF Blocked(want)
       THEN /\ runtime' = [cycle |-> cycle, inv |-> None]
            /\ UNCHANGED <<op, phase, auths>>
       ELSE /\ op' = [Idle EXCEPT !.kind = "observe", !.want = want, !.cycle = cycle,
                                  !.dry = dry, !.slot = slot]
            /\ phase' = "device" /\ auths' = Stale(auths)
            /\ UNCHANGED runtime
    /\ Begins
    /\ UNCHANGED <<connVars, tv, asked, rpc, backoff, shut, token, receipt, sent, taken, stored, strays>>

\* authorizeCommand
Authorized(a, cmd) ==
  /\ ~shut /\ ~a.dry /\ a.want = Capability(cmd)
  /\ a.fresh /\ a.cycle = runtime.cycle /\ a.inv = runtime.inv

BeginApply ==
  \E slot \in Slots, cmd \in Commands :
    /\ op.kind = "none" /\ auths[slot] # None
    /\ (cmd.name = "delete") <=> (cmd.target # 0)
    /\ Authorized(auths[slot], cmd)
    /\ op' = [Idle EXCEPT !.kind = "apply", !.slot = slot, !.cmd = cmd, !.stage = "guard",
                          !.want = Capability(cmd), !.cycle = auths[slot].cycle]
    /\ phase' = "device" /\ sent' = FALSE /\ taken' = 0 /\ stored' = 0
    /\ receipt' = [outcome |-> "unknown", content |-> 0]
    /\ asked' = {[q EXCEPT !.id = "other"] : q \in asked}
    /\ Begins
    /\ UNCHANGED <<connVars, tv, rpc, auths, runtime, backoff, shut, token, strays>>

NotAuthorized ==
  \E slot \in Slots, cmd \in Commands :
    /\ op.kind = "none" /\ auths[slot] # None /\ ~Authorized(auths[slot], cmd)
    /\ receipt' = [outcome |-> "not_attempted", content |-> 0] /\ sent' = FALSE
    /\ Begins
    /\ UNCHANGED <<connVars, tv, asked, op, phase, rpc, auths, runtime, backoff, shut, token, taken,
                   stored, strays>>

\* The artwork file is not the committed one, or the caller gave up
\* (prepareCommand, ctx.Err).
NotPrepared ==
  /\ op.kind = "apply" /\ op.stage = "guard" /\ phase = "device"
  /\ Hazard("file")
  /\ Finish("not_attempted", 0)
  /\ UNCHANGED <<connVars, tv, asked, shut, token, sent, taken, stored, strays>>

BeginClose ==
  /\ op.kind = "none" /\ ~shut
  /\ shut' = TRUE /\ auths' = Stale(auths)
  /\ op' = [Idle EXCEPT !.kind = "shutdown"] /\ phase' = "closing"
  /\ Begins
  /\ UNCHANGED <<connVars, tv, asked, rpc, runtime, backoff, token, receipt, sent, taken, stored, strays>>

BackoffEnds ==
  /\ backoff /\ backoff' = FALSE
  /\ Calm
  /\ UNCHANGED <<connVars, tv, asked, op, phase, rpc, auths, runtime, shut, token, receipt, sent,
                 taken, stored, strays>>

-----------------------------------------------------------------------------
\* What the facts read lead to, by the stage of the operation.

WriteStage(p) == Then(p, [op EXCEPT !.stage = "write"])
Refuse        == Finish("not_attempted", 0)

\* operationalState: showing art, on without it, or off.
PowerRead(state) ==
  CASE op.stage = "observe" /\ state = "off" ->
         /\ Settle(None, TRUE)
         /\ IF op.want = "power" /\ HasMAC THEN Issue(None, FALSE) ELSE UNCHANGED auths
    [] op.stage = "observe" /\ state = "watching" -> Settle(None, TRUE) /\ UNCHANGED auths
    [] op.stage = "guard" /\ op.cmd.name = "wake" ->
         IF state = "off" /\ HasMAC THEN WriteStage("packet") ELSE Refuse
    [] op.stage = "guard" /\ op.cmd.name # "wake" /\ state # "art" -> Refuse
    [] op.stage = "verify" ->
         IF (state = "off") <=> (op.cmd.name = "off") THEN Finish("applied", 0) ELSE NotYet("unknown")
    [] OTHER -> Continue("inventory")

DeviceFails(unreachable) ==
  CASE op.stage = "observe" ->
         IF unreachable /\ op.want = "power" /\ HasMAC
         THEN Settle(None, FALSE) /\ Issue(None, TRUE) ELSE FailObservation("retryable")
    [] op.stage = "guard" ->
         IF unreachable /\ op.cmd.name = "wake" /\ auths[op.slot].presumed /\ HasMAC
         THEN WriteStage("packet") ELSE Refuse
    [] op.stage = "verify" ->
         IF unreachable /\ op.cmd.name = "off" THEN Finish("applied", 0) ELSE NotYet("unknown")

\* readPowerState after a failed Connect: a TV in standby that does not let the
\* adapter in is off.
ConnectFails(kind) ==
  IF op.standby /\ kind # "unauthorized" THEN PowerRead("off")
  ELSE CASE op.stage = "observe" ->
              IF kind = "gate" THEN Settle(None, TRUE) /\ UNCHANGED auths ELSE FailObservation(kind)
         [] op.stage = "guard" -> Refuse
         [] op.stage = "verify" -> NotYet("unknown")

ObserveInventory(inv) ==
  IF op.want = "power" THEN Settle(inv, TRUE) /\ Issue(inv, FALSE)
  ELSE Then("setting", [op EXCEPT !.inv = inv])

GuardInventory(inv) ==
  IF inv # auths[op.slot].inv \/ (op.cmd.name = "delete" /\ op.cmd.target \notin inv) THEN Refuse
  ELSE ThenSeeing(inv,
         CASE op.cmd.name = "upload" -> "mattes" [] op.cmd.name = "set" -> "setting"
           [] op.cmd.name = "delete" -> "delete" [] OTHER -> "press",
         [op EXCEPT !.inv = inv, !.stage = IF op.cmd.name \in {"delete", "off"} THEN "write" ELSE @])

\* verifyInventoryMembership
MembershipRead(inv) ==
  IF op.cmd.name = "upload"
  THEN FinishSeeing(inv, IF op.content \in inv THEN "applied" ELSE "not_applied", op.content)
  ELSE IF op.cmd.target \notin inv THEN FinishSeeing(inv, "applied", 0)
       ELSE NotYetSeeing(inv, "not_applied")

InventoryRead(inv) ==
  CASE op.stage = "observe" -> ObserveInventory(inv)
    [] op.stage = "guard"   -> GuardInventory(inv)
    [] OTHER                -> MembershipRead(inv)

SettingRead(value) ==
  CASE op.stage = "observe" -> Settle(op.inv, TRUE) /\ Issue(op.inv, FALSE)
    [] op.stage = "guard"   -> IF value = "before" THEN WriteStage("set") ELSE Refuse
    [] OTHER -> Finish(CASE value = "wanted" -> "applied" [] value = "before" -> "not_applied"
                         [] OTHER -> "unknown", 0)

\* mutant: a request without an answer is sent again under the other name
NotAnswered(r) == r \in {"rejected", "timeout"}

\* Only an explicit rejection proves that a write was not applied.
NotApplied(r) == r = "rejected"

\* A request that failed: rejected, full, gone, timeout or canceled. early: before
\* anything could have reached the TV.
WriteFails(r, early) ==
  IF early /\ ~op.second THEN Refuse
  ELSE IF phase = "set" /\ NotApplied(r) /\ ~op.second THEN Then("set", [op EXCEPT !.second = TRUE])
  ELSE IF phase = "delete" /\ r = "timeout" THEN Then("inventory", [op EXCEPT !.stage = "verify"])
  ELSE Finish(IF r \in {"rejected", "full"} THEN "not_applied" ELSE "unknown", 0)

RequestFails(r, early) ==
  IF phase = "artmode" /\ op.standby /\ r # "canceled" THEN PowerRead("off")
  ELSE CASE op.stage = "observe" ->
              IF phase = "setting" /\ op.want = "art" /\ r \notin {"gone", "canceled"}
              THEN Settle(op.inv, TRUE) /\ Issue(op.inv, FALSE)
              ELSE FailObservation(IF r = "canceled" THEN r ELSE "retryable")
         [] op.stage = "guard" -> IF phase = "mattes" THEN WriteStage("upload") ELSE Refuse
         [] op.stage = "verify" ->
              IF op.cmd.name \in {"upload", "set"} THEN Finish("unknown", op.content)
              ELSE NotYet("unknown")
         [] op.stage = "write" -> WriteFails(r, early)

Fulfilled(view) ==
  CASE phase = "artmode"   -> PowerRead(IF view.art THEN "art" ELSE IF op.standby THEN "off" ELSE "watching")
    [] phase = "inventory" -> InventoryRead(view.shown)
    [] phase = "setting"   -> SettingRead(view.setting)
    [] phase = "mattes"    -> WriteStage("upload")
    [] phase = "upload"    -> Continue("transfer")
    [] phase = "set"       -> Then("setting", [op EXCEPT !.stage = "verify"])
    [] phase = "delete"    -> Then("inventory", [op EXCEPT !.stage = "verify"])

Answered(m) ==
  CASE m.verdict = "error" -> RequestFails("rejected", FALSE)
    [] m.verdict = "full"  -> RequestFails("full", FALSE)
    [] m.verdict = "ok"    -> Fulfilled(m.view)

-----------------------------------------------------------------------------
\* Steps of an operation outside the art channel.

Same == UNCHANGED <<shut, token, sent, taken, stored, strays>>

ReadDevice ==
  /\ phase = "device"
  /\ \/ tv.power \in {"on", "standby"} /\ Calm /\ Then("connect", [op EXCEPT !.standby = tv.power = "standby"])
     \/ tv.power = "off" /\ Calm /\ PowerRead("off")
     \/ tv.power = "dark" /\ Calm /\ DeviceFails(TRUE)
     \/ Hazard("rest") /\ DeviceFails(FALSE)
  /\ UNCHANGED <<connVars, tv, asked>> /\ Same

LetsIn == tv.power = "on" \/ (tv.power = "standby" /\ tv.art)

\* The former connection object is dropped, with its table and its reader.
Dropped ==
  /\ sock' = "none" /\ closed' = TRUE /\ reader' = "off" /\ wire' = <<>>
  /\ listen' = [k \in Keys |-> Silent]

Connect ==
  /\ phase = "connect"
  /\ \/ /\ QuietGate => tv.art
        /\ op.dry => token
        /\ \/ IsAlive /\ UNCHANGED <<connVars, token>>
           \/ ~IsAlive /\ LetsIn /\ Opened /\ token' = (token \/ ~op.dry)
        /\ Calm /\ Continue("artmode")
     \/ QuietGate /\ ~tv.art /\ Calm /\ ConnectFails("gate") /\ UNCHANGED <<connVars, token>>
     \/ op.dry /\ ~token /\ Calm /\ ConnectFails("unauthorized") /\ UNCHANGED <<connVars, token>>
     \/ /\ ~IsAlive /\ (op.dry => token) /\ Dropped
        /\ \/ ~LetsIn /\ Calm /\ ConnectFails("retryable") /\ UNCHANGED token
           \/ /\ Hazard("connect")
              /\ \E kind \in {"retryable", "unauthorized", "canceled"} : ConnectFails(kind)
              /\ token' \in {token, token \/ ~op.dry}
  /\ UNCHANGED <<tv, asked, shut, sent, taken, stored, strays>>

\* transport.Close in two parts, the reader's exit or the grace period between.
CloseSocket ==
  /\ phase = "closing" /\ sock # "none" /\ Closing
  /\ Calm
  /\ UNCHANGED <<tv, asked, adapterVars>>

CloseEnds ==
  /\ phase = "closing" /\ sock = "none" /\ Closed
  /\ auths' = Stale(auths)
  /\ IF op.kind = "observe"
     THEN Settle(None, FALSE)
     ELSE op' = Idle /\ Goto("idle") /\ UNCHANGED <<runtime, backoff, receipt>>
  /\ Calm
  /\ UNCHANGED <<tv, asked>> /\ Same

-----------------------------------------------------------------------------
\* SendAndWait: look at the connection and register, send, wait.

Events(p) == CASE p = "upload" -> {"image_added"} [] p = "delete" -> {"image_deleted"} [] OTHER -> {}

Heard(l) == IF phase = "upload" THEN Unregistered(l, {"reply"}) ELSE Unregistered(l, Keys)

CheckConnection ==
  /\ phase \in Reads \cup Writes /\ rpc = "idle" /\ Calm
  /\ IF IsAlive
     THEN /\ listen' = Registered(listen, Events(phase)) /\ rpc' = "checked"
          /\ wire' = Aged(wire) /\ asked' = {[q EXCEPT !.id = IF q.name = "store" THEN @ ELSE "other"] : q \in asked}
          /\ UNCHANGED <<op, phase, auths, runtime, backoff, receipt>>
     ELSE RequestFails("gone", TRUE) /\ UNCHANGED <<listen, wire, asked>>
  /\ UNCHANGED <<sock, closed, reader, tv>> /\ Same

RegisterReply ==
  /\ rpc = "checked" /\ Calm
  /\ IF CanRegister("reply")
     THEN /\ listen' = Registered(listen, {"reply"}) /\ rpc' = "registered"
          /\ UNCHANGED <<op, phase, auths, runtime, backoff, receipt>>
     ELSE listen' = Unregistered(listen, Keys) /\ RequestFails("gone", phase = "delete")
  /\ UNCHANGED <<sock, closed, reader, wire, tv, asked>> /\ Same

Counted == [s \in Slots |-> IF auths[s] = None THEN None ELSE [auths[s] EXCEPT !.writes = 1]]

SendRequest ==
  /\ rpc = "registered" /\ Calm
  /\ Cardinality(asked) < MaxAsked
  /\ \/ /\ rpc' = "waiting"
        /\ asked' = IF sock = "up" THEN asked \cup {[id |-> "mine", name |-> phase, target |-> op.cmd.target]}
                    ELSE asked
        /\ sent' = (sent \/ phase \in Writes)
        /\ auths' = IF phase \in Writes THEN Counted ELSE auths
        /\ UNCHANGED <<listen, op, phase, runtime, backoff, receipt>>
     \/ /\ sock # "up" /\ listen' = Unregistered(listen, Keys)
        /\ RequestFails("gone", FALSE)
        /\ UNCHANGED <<asked, sent>>
  /\ UNCHANGED <<sock, closed, reader, wire, tv, shut, token, taken, stored, strays>>

Awaited == IF phase = "delete" THEN {"reply", "image_deleted"} ELSE {"reply"}

ReceiveAnswer ==
  /\ rpc = "waiting" /\ Calm
  /\ \E k \in Awaited :
       \/ listen[k].buf # <<>> /\ Answered(Head(listen[k].buf))
          /\ listen' = IF Head(listen[k].buf).verdict = "ok" THEN Heard(listen) ELSE Unregistered(listen, Keys)
       \/ listen[k].buf = <<>> /\ listen[k].shut /\ RequestFails("gone", FALSE)
          /\ listen' = Unregistered(listen, Keys)
  /\ UNCHANGED <<sock, closed, reader, wire, tv, asked>> /\ Same

\* The request's timer, or the caller's context, ends the wait.
StopWaiting ==
  /\ rpc = "waiting"
  /\ \/ Calm /\ RequestFails("timeout", FALSE)
     \/ Hazard("cancel") /\ RequestFails("canceled", FALSE)
  /\ listen' = Unregistered(listen, Keys)
  /\ UNCHANGED <<sock, closed, reader, wire, tv, asked>> /\ Same

-----------------------------------------------------------------------------
\* The rest of an upload: the transfer on its own socket, then image_added.

Transfer ==
  /\ phase = "transfer" /\ Cardinality(asked) < MaxAsked
  /\ \E arrives \in BOOLEAN :
       /\ asked' = IF arrives THEN asked \cup {[id |-> "mine", name |-> "store", target |-> 0]} ELSE asked
       /\ \/ arrives /\ Calm /\ Continue("confirm") /\ UNCHANGED listen
          \/ Hazard("transfer") /\ Finish("unknown", 0) /\ listen' = Unregistered(listen, Keys)
  /\ UNCHANGED <<sock, closed, reader, wire, tv>> /\ Same

\* mutant: the first image_added is taken for the upload's own
AnyImageAdded(m) == m.verdict = "ok" /\ m.view.content # 0

\* parseImageAdded: the event of another upload, or one that names an image the
\* TV had before, is skipped.
Mine(m) ==
  \/ m.id = "mine"
  \/ m.id = "none" /\ m.verdict = "ok" /\ m.view.content \notin op.inv \cup {0}

WaitForImageAdded ==
  /\ phase = "confirm" /\ Calm
  /\ LET ch == listen["image_added"]
         m  == Head(ch.buf)
     IN  \/ /\ ch.buf # <<>> /\ ~Mine(m)
            /\ listen' = [listen EXCEPT !["image_added"].buf = Tail(@)]
            /\ UNCHANGED <<op, phase, rpc, auths, runtime, backoff, receipt>>
         \/ /\ ch.buf # <<>> /\ Mine(m) /\ listen' = Unregistered(listen, Keys)
            /\ IF m.verdict = "ok"
               THEN Then("inventory", [op EXCEPT !.stage = "verify", !.content = m.view.content])
               ELSE Finish("not_applied", 0)
         \/ /\ ch.buf = <<>> /\ listen' = Unregistered(listen, Keys)
            /\ Finish("unknown", 0)
  /\ UNCHANGED <<sock, closed, reader, wire, tv, asked>> /\ Same

-----------------------------------------------------------------------------
\* Power commands. They use sockets of their own: a packet, or the remote
\* control channel, whose opening can fail before anything is sent.

SendPacket ==
  /\ phase = "packet" /\ Cardinality(asked) < MaxAsked
  /\ sent' = TRUE /\ auths' = Stale(Counted)
  /\ \/ /\ Calm /\ op' = [op EXCEPT !.stage = "verify"] /\ Goto("device")
        /\ asked' = asked \cup {[id |-> "mine", name |-> "wake", target |-> 0]}
        /\ UNCHANGED receipt
     \/ /\ Hazard("packet") /\ op' = Idle /\ Goto("idle")
        /\ asked' \in {asked, asked \cup {[id |-> "mine", name |-> "wake", target |-> 0]}}
        /\ receipt' = [outcome |-> "unknown", content |-> 0]
  /\ UNCHANGED <<connVars, tv, runtime, backoff, shut, token, taken, stored, strays>>

PressPowerKey ==
  /\ phase = "press"
  /\ \/ ~LetsIn /\ Calm /\ Refuse /\ UNCHANGED sent
     \/ Hazard("connect") /\ Refuse /\ UNCHANGED sent
     \/ /\ LetsIn /\ Calm /\ sent' = TRUE /\ auths' = Counted
        /\ op' = op /\ Goto("release") /\ UNCHANGED <<runtime, backoff, receipt>>
  /\ UNCHANGED <<connVars, tv, asked, shut, token, taken, stored, strays>>

ReleasePowerKey ==
  /\ phase = "release" /\ Cardinality(asked) < MaxAsked
  /\ \/ /\ Calm /\ Then("device", [op EXCEPT !.stage = "verify"])
        /\ asked' = asked \cup {[id |-> "mine", name |-> "off", target |-> 0]}
     \/ Hazard("connect") /\ Finish("unknown", 0) /\ UNCHANGED asked
  /\ UNCHANGED <<connVars, tv>> /\ Same

\* pollPostcondition and powerOutcome: look again until the request timeout.
PollAgain ==
  /\ phase = "again" /\ Calm
  /\ Continue(IF Power(op.cmd) THEN "device" ELSE "inventory")
  /\ UNCHANGED <<connVars, tv, asked>> /\ Same

\* mutant: polling until the power state is reached, without a deadline
PollEndsOnDelete ==
  /\ phase = "again" /\ ~Power(op.cmd) /\ Calm /\ Finish(op.seen, 0)
  /\ UNCHANGED <<connVars, tv, asked>> /\ Same

PollEnds ==
  /\ phase = "again"
  /\ \/ Calm /\ Finish(op.seen, 0)
     \/ Hazard("cancel") /\ Finish("unknown", 0)
  /\ UNCHANGED <<connVars, tv, asked>> /\ Same

-----------------------------------------------------------------------------
\* The TV.

Answer(q, verdict, content) ==
  [id |-> q.id, event |-> "answer", verdict |-> verdict,
   view |-> [art |-> tv'.art, shown |-> tv'.shown, setting |-> tv'.setting, content |-> content]]

Event(id, event, content) ==
  [id |-> id, event |-> event, verdict |-> "ok",
   view |-> [art |-> tv'.art, shown |-> tv'.shown, setting |-> tv'.setting, content |-> content]]

\* A message goes nowhere without a socket.
Says(m) ==
  IF sock = "up" THEN Len(wire) < MaxWire /\ wire' = Append(wire, m) ELSE UNCHANGED wire

\* Art API 4.x sends no ID with an image_added.
Announces(id, c) ==
  /\ Says(Event(id, "image_added", c))
  /\ strays' = IF id = "none" THEN strays \cup {c} ELSE strays

\* The request in hand has been carried out once more.
Took(q) == taken' = IF q.id = "mine" /\ taken < 2 THEN taken + 1 ELSE taken

Awake == tv.power = "on" \/ (tv.power = "standby" /\ tv.art)

TVAnswers(q) ==
  /\ q.name \in Reads \cup {"upload"} /\ Awake /\ Calm
  /\ UNCHANGED <<tv, taken, stored, strays>> /\ Says(Answer(q, "ok", 0))

TVRejects(q) ==
  /\ q.name \notin {"store", "wake", "off"} /\ Awake /\ Hazard("reject")
  /\ UNCHANGED <<tv, taken, stored, strays>>
  /\ \E verdict \in {"error", "full"} : Says(Answer(q, verdict, 0))

TVSets(q) ==
  /\ q.name = "set" /\ Awake
  /\ tv' = [tv EXCEPT !.setting = "wanted"] /\ Took(q) /\ UNCHANGED <<stored, strays>>
  /\ \/ Calm /\ Says(Answer(q, "ok", 0))
     \/ Hazard("silent") /\ UNCHANGED wire

\* The reply of a delete carries the request ID, or is an event without it.
TVDeletes(q) ==
  /\ q.name = "delete" /\ Awake
  /\ tv' = [tv EXCEPT !.shown = @ \ {q.target}] /\ Took(q) /\ UNCHANGED <<stored, strays>>
  /\ \/ Calm /\ \/ Says(Answer(q, "ok", 0))
                 \/ Says(Event("none", "image_deleted", 0))
     \/ Hazard("silent") /\ UNCHANGED wire

\* An image that has arrived whole is kept under a new content ID.
TVStores(q) ==
  /\ q.name = "store" /\ Awake
  /\ \/ \E c \in Ids \ tv.shown :
          /\ tv' = [tv EXCEPT !.shown = @ \cup {c}] /\ Took(q)
          /\ stored' = IF q.id = "mine" THEN c ELSE stored
          /\ \/ Calm /\ Announces(q.id, c)
             \/ Hazard("uncorrelated") /\ Announces("none", c)
             \/ Hazard("silent") /\ UNCHANGED <<wire, strays>>
     \/ Hazard("reject") /\ UNCHANGED <<tv, taken, stored, strays>>
        /\ Says([Event(q.id, "image_added", 0) EXCEPT !.verdict = "error"])

TVPowers(q) ==
  /\ q.name \in {"wake", "off"} /\ Calm /\ Took(q)
  /\ tv' = IF q.name = "wake" THEN [tv EXCEPT !.power = "on", !.art = TRUE]
           ELSE [tv EXCEPT !.power = "standby", !.art = FALSE]
  /\ UNCHANGED <<wire, stored, strays>>

TVHandles ==
  \E q \in asked :
    /\ asked' = asked \ {q}
    /\ \/ TVAnswers(q) \/ TVRejects(q) \/ TVSets(q) \/ TVDeletes(q) \/ TVStores(q) \/ TVPowers(q)
    /\ UNCHANGED <<sock, closed, reader, listen, op, phase, rpc, auths, runtime, backoff, shut,
                   token, receipt, sent>>

TVIgnores ==
  \E q \in asked :
    /\ asked' = asked \ {q}
    /\ IF sock = "up" /\ Awake THEN Hazard("silent") ELSE Calm
    /\ UNCHANGED <<connVars, tv, adapterVars>>

\* Somebody else uses the TV.
OwnerActs ==
  /\ Hazard("owner")
  /\ \/ \E c \in Ids \ tv.shown :
          /\ tv' = [tv EXCEPT !.shown = @ \cup {c}]
          /\ \/ Announces("other", c)
             \/ "uncorrelated" \in Hazards /\ Announces("none", c)
     \/ \E c \in tv.shown :
          tv' = [tv EXCEPT !.shown = @ \ {c}] /\ Says(Event("none", "image_deleted", 0)) /\ UNCHANGED strays
     \/ tv' = [tv EXCEPT !.setting = "other"] /\ UNCHANGED <<wire, strays>>
     \/ tv' = [tv EXCEPT !.art = ~@] /\ UNCHANGED <<wire, strays>>
  /\ UNCHANGED <<sock, closed, reader, listen, asked, op, phase, rpc, auths, runtime, backoff, shut,
                 token, receipt, sent, taken, stored>>

PowerChanges ==
  /\ Hazard("power")
  /\ \E p \in {"on", "standby", "off", "dark"} \ {tv.power} : tv' = [tv EXCEPT !.power = p]
  /\ UNCHANGED <<connVars, asked, adapterVars>>

Drops == Hazard("drop") /\ SocketDrops /\ UNCHANGED <<tv, asked, adapterVars>>

Reader == ReaderStep /\ Calm /\ UNCHANGED <<tv, asked, adapterVars>>

-----------------------------------------------------------------------------
Begin == BeginObserve \/ BeginApply \/ NotAuthorized \/ BeginClose

Exchange == CheckConnection \/ RegisterReply \/ SendRequest \/ ReceiveAnswer \/ StopWaiting

Step == \/ ReadDevice \/ Connect \/ CloseSocket \/ CloseEnds \/ Exchange
        \/ Transfer \/ WaitForImageAdded \/ SendPacket \/ PressPowerKey \/ ReleasePowerKey
        \/ PollAgain \/ PollEnds \/ NotPrepared

Environment == TVHandles \/ TVIgnores \/ OwnerActs \/ PowerChanges \/ Drops \/ BackoffEnds

Next == Begin \/ Step \/ Reader \/ Environment

Spec == Init /\ [][Next]_vars

\* Timers end what an answer does not: requests, transfers and polls are bounded,
\* and the reader and the TV run on.
Fairness == /\ WF_vars(Reader) /\ WF_vars(TVHandles \/ TVIgnores)
            /\ WF_vars(Step) /\ SF_vars(PollEnds)

FairSpec == Spec /\ Fairness

-----------------------------------------------------------------------------
\* Properties.

\* A caller never waits on a connection whose reader is gone: its listener was
\* answered or closed, in whatever order it registered while the socket died
\* (recvLoop, failPending, registerPending).
WaitersAreServed ==
  reader = "done" =>
    /\ \A k \in Keys : ~listen[k].registered
    /\ rpc \in {"registered", "waiting"} => listen["reply"].shut \/ listen["reply"].buf # <<>>

\* A command goes out only on what was observed last, with no command of any
\* caller sent in between and no later cycle begun (connectionGeneration).
NothingBetween ==
  [][~sent /\ sent' => /\ auths[op.slot].writes = 0 /\ auths[op.slot].fresh
                      /\ auths[op.slot].cycle = runtime.cycle]_vars

\* One Apply makes the TV carry its command out at most once, whatever names and
\* replies it goes through (slideshowRequest retries only an explicit rejection).
TakenOnce == taken <= 1

\* What the receipt says of the command is so: not_attempted, that nothing was
\* sent; a content ID, that the TV stored this very upload under it. A TV that sends
\* no IDs leaves one doubt: an image it announced so may be another client's, or of
\* an earlier upload that came late.
ReceiptsAreTrue ==
  op.kind = "none" =>
    /\ receipt.outcome = "not_attempted" => ~sent
    /\ receipt.content # 0 => receipt.content \in {stored} \cup strays

\* A TV that failed an observation is left alone until the backoff ends, but for
\* waking it and for closing what is open.
LeftAlone ==
  backoff /\ op.kind # "none" => op.want = "power" \/ phase = "closing"

\* Every observation and every command ends, though replies are lost, the
\* socket dies and the TV turns off half way.
OperationEnds == op.kind # "none" ~> op.kind = "none"
=============================================================================
