----------------------------- MODULE ManagerProofs -----------------------------
(* Proofs about Manager: types and limits, the truth of /health, what a clean *)
(* exit leaves behind, and that hidden artwork stays hidden.                  *)
EXTENDS Manager, FiniteSetTheorems, TLAPS

-----------------------------------------------------------------------------
(* The inductive invariant.                                                *)

Stages == {"idle", "send", "wait", "store", "record", "release", "look", "remove", "admit", "render"}

Calls == [pc : Stages, kind : {"none", "upload", "add", "update", "edit", "preview"},
          picture : Pictures \cup {0}, slug : Slugs \cup {None}, added : BOOLEAN, created : BOOLEAN]

\* What a request has with it at every stage.
CallOK(call) ==
  /\ call.pc = "idle" => call = Idling
  /\ call.pc = "send" => call.kind = "upload"
  /\ call.pc \in {"wait", "store"} => call.kind \in {"upload", "add"}
  /\ call.pc \in {"record", "release"} => call.kind = "add"
  /\ call.kind = "upload" => call.pc \in {"send", "wait", "store"}
  /\ call.kind \in {"upload", "add"} => call.picture \in Pictures
  /\ call.kind = "add" => call.slug \in Slugs /\ call.pc \in {"wait", "store", "record", "release"}
  /\ call.pc = "look" => call.kind \in {"update", "edit", "preview"}

ClientsOK ==
  /\ client \in [Clients -> Calls]
  /\ \A c \in Clients : CallOK(client[c])
  /\ \A c, d \in Clients : client[c].kind = "upload" /\ client[d].kind = "upload" => c = d

\* The folder and the collections.
FolderOK ==
  /\ folder \subseteq Pictures /\ pending \subseteq Pictures
  /\ snapshot \subseteq Pictures /\ desired \subseteq snapshot
  /\ loop \notin {"launch", "collect"} => desired = {}
  /\ rules \in Documents /\ (lastRules = None \/ lastRules \in Documents)
  /\ today \in Days /\ covered \subseteq {"art", "rules"} /\ owed \subseteq {"art", "rules"}

\* The gate is held by the one that is at work under it.
GateOK ==
  /\ gate \in Clients \cup {Cycle, None}
  /\ gate = Cycle <=> loop \in {"load", "optimize", "publish"}
  /\ \A c \in Clients : gate = c <=> At(c, "store")

\* So are the places for transforms.
PlacesOK ==
  /\ IsFiniteSet(capacity) /\ active \subseteq capacity /\ capacity \subseteq Clients \cup {Cycle}
  /\ Cardinality(active) <= TransformConcurrency
  /\ Cardinality(capacity) <= TransformConcurrency + TransformQueue
  /\ Cycle \in capacity => loop = "optimize"
  /\ \A c \in Clients : c \in capacity => At(c, "render")

\* How far the cycle is with its TVs, and what it knows of them.
TVsOK ==
  /\ tv \in [TVs -> {"idle", "running", "ok", "failed"}]
  /\ status \in [TVs -> {"unknown", "ok", "failed"}]
  /\ launched \in 0 .. NumTVs /\ fresh \subseteq TVs
  /\ Cardinality(Running) <= MaximumConcurrentTVs
  /\ loop \notin {"launch", "collect"} => launched = 0 /\ \A t \in TVs : tv[t] = "idle"
  /\ loop # "collect" => ~tvErrors
  /\ loop = "launch" => fresh = {} /\ \A t \in TVs : t <= launched <=> tv[t] # "idle"
  /\ loop \in {"gate", "load", "optimize", "publish", "themes"} => fresh = {}
  /\ loop = "collect" =>
       /\ canceled \/ launched = NumTVs
       /\ \A t \in TVs : t <= launched =>
            tv[t] # "idle" \/ (t \in fresh /\ (status[t] = "ok" \/ tvErrors))
  /\ Truthful

\* How far the supervisor is, and what it knows of the others.
AppOK ==
  /\ completed \subseteq {"http", "cycle"}
  /\ app \in {"bind", "prepare"} => loop = "off" /\ completed = {}
  /\ app \in {"bind", "prepare", "ready"} => ~drained /\ ~expired
  /\ http = "serving" => app \in {"prepare", "ready"}
  /\ "cycle" \in completed => loop = "ended"
  /\ drained => InFlight = {} /\ http # "serving"
  /\ expired => failed
  /\ app \in {"close", "exited"} /\ ~failed => drained /\ completed = Children
  /\ app = "exited" /\ ~failed => adapters = {}

Base == ClientsOK /\ FolderOK /\ GateOK /\ PlacesOK /\ TVsOK /\ AppOK

\* The hazards under which hidden artwork is shown (README, section 4).
Sheltered == {"journalled", "same-picture", "unreadable-stale"} \cap Hazards = {}

\* Of a request that adds artwork to a collection that is off, nothing undoes that.
AddingOK(c) ==
  client[c].kind = "add" /\ client[c].picture \in promised =>
    /\ Exists(rules, client[c].slug) => rules[client[c].slug].activation = Off
    /\ client[c].pc \in {"wait", "store"} => Hidden(rules, client[c].picture)
    /\ client[c].pc \in {"wait", "store", "release"} /\ client[c].added =>
         \/ client[c].picture \notin Recovered
         \/ Memberships(rules, client[c].picture) \ {client[c].slug} # {}

\* Artwork that is to stay hidden is in collections that are off, once it is in the folder.
HiddenOK ==
  /\ snapshot \subseteq folder
  /\ desired \cap promised = {}
  /\ ~readable => lastRules \in {None, rules}
  /\ \A c, d \in Clients : client[c].kind = "add" /\ client[d].kind = "add" /\ c # d =>
       client[c].picture # client[d].picture
  /\ \A p \in promised : p \in Recovered => Hidden(rules, p)
  /\ \A c \in Clients : AddingOK(c)

-----------------------------------------------------------------------------
(* Who changes what.                                                       *)

\* A request leaves the cycle alone, and the supervisor.
LEMMA RequestFrame ==
  ASSUME NEW c \in Clients, NewRequest(c) \/ Handle(c) \/ Receive(c)
  PROVE  UNCHANGED cycleVars
<1>1. CASE NewRequest(c)
  <2>1. CASE StartAdd(c)
    BY <2>1 DEF StartAdd
  <2>2. CASE CreateCollection(c) \/ UpdateCollection(c) \/ RemoveCollection(c)
    BY <2>2 DEF CreateCollection, UpdateCollection, RemoveCollection, Edit, ElseUnchanged
  <2>3. CASE StartUpload(c) \/ LookUp(c) \/ SyncNow(c)
    BY <2>3 DEF StartUpload, LookUp, SyncNow
  <2> QED
    BY <1>1, <2>1, <2>2, <2>3 DEF NewRequest
<1>2. CASE Handle(c)
  BY <1>2 DEF Handle, TakeGate, GoneWaiting, Import, ImportRefused, ImportJournalled, RecordKey, Release,
              Look, LookFails, RemoveFromCollection, Admit, Render, Rendered, GoneQueued, ElseUnchanged,
              Edit
<1>3. CASE Receive(c)
  BY <1>3 DEF Receive
<1> QED
  BY <1>1, <1>2, <1>3

\* What a request leaves to the others, piece by piece.
LEMMA RequestKeeps ==
  ASSUME NEW c \in Clients, NewRequest(c) \/ Handle(c) \/ Receive(c)
  PROVE  /\ UNCHANGED <<day, snapshot, desired, degraded, launched, tv, tvErrors, status, fresh>>
         /\ UNCHANGED <<loop, canceled, synced, covered>>
BY RequestFrame DEF cycleVars, choiceVars, tvVars

Office ==
  \/ Bind \/ BindFails \/ PrepareFails \/ Stopped \/ ChildDied
  \/ (\E child \in {"http", "cycle"} : Collect(child))
  \/ Drained \/ FinishShutdown \/ CloseResources
  \/ Expire \/ Signal \/ ServerDies

\* The supervisor leaves everybody else alone, but may cancel them.
LEMMA OfficeKeeps ==
  ASSUME Office
  PROVE  /\ UNCHANGED <<folder, pending, gate, rules, readable, today, lastRules, day, snapshot, desired, degraded>>
         /\ UNCHANGED <<launched, tv, tvErrors, status, fresh, owed, covered, capacity, active>>
         /\ UNCHANGED <<loop, wake, synced, promised, client, requests>>
         /\ canceled => canceled'
<1>1. UNCHANGED Apart
  BY DEF Office, Bind, BindFails, PrepareFails, Stopped, ChildDied, Collect, Drained, FinishShutdown,
         CloseResources, Expire, Signal, ServerDies
<1>2. canceled => canceled'
  BY DEF Office, Bind, BindFails, PrepareFails, Stopped, ChildDied, Collect, Drained, FinishShutdown,
         CloseResources, Expire, Signal, ServerDies
<1> QED
  BY <1>1, <1>2 DEF Apart, folderVars, themeVars, choiceVars, tvVars, debtVars, admission

\* The world leaves everybody alone but the collections file and the calendar.
LEMMA WorldKeeps ==
  ASSUME World
  PROVE  /\ UNCHANGED <<folder, pending, gate, day, snapshot, desired, degraded, rules>>
         /\ UNCHANGED <<launched, tv, tvErrors, status, fresh, owed, covered, capacity, active>>
         /\ UNCHANGED <<loop, wake, canceled, synced, promised, client, requests, appVars>>
BY DEF World, Around, Breaks, Repaired, Midnight, folderVars, cycleVars, choiceVars, tvVars, admission

\* A step is one of these.
LEMMA StepKinds ==
  ASSUME [Next]_allVars
  PROVE  \/ Prepare \/ Crash \/ Office \/ World
         \/ CycleNext /\ Alive /\ UNCHANGED <<client, requests, appVars>>
         \/ \E c \in Clients :
              /\ \/ NewRequest(c) /\ http = "serving"
                 \/ Alive /\ (Handle(c) \/ Receive(c))
              /\ UNCHANGED appVars
         \/ UNCHANGED allVars
BY DEF Next, Supervisor, Office, Loop, Accept, Serve, FromClient

-----------------------------------------------------------------------------
(* Requests.                                                               *)

\* What a step does to a request.
LEMMA CallSteps ==
  ASSUME client \in [Clients -> Calls], NEW c \in Clients
  PROVE  /\ \A pc \in Stages : Becomes(c, pc) =>
              /\ client' \in [Clients -> Calls]
              /\ client'[c].pc = pc /\ client'[c].kind = client[c].kind
              /\ client'[c].picture = client[c].picture /\ client'[c].slug = client[c].slug
              /\ client'[c].added = client[c].added
              /\ \A d \in Clients : d # c => client'[d] = client[d]
         /\ Answered(c) =>
              /\ client' \in [Clients -> Calls] /\ client'[c] = Idling
              /\ \A d \in Clients : d # c => client'[d] = client[d]
         /\ Idling \in Calls /\ Idling.pc = "idle" /\ Idling.kind = "none"
<1>1. Idling \in Calls /\ Idling.pc = "idle" /\ Idling.kind = "none"
  BY DEF Idling, Calls, Stages
<1>2. ASSUME NEW pc \in Stages, Becomes(c, pc)
      PROVE  /\ client' \in [Clients -> Calls]
             /\ client'[c].pc = pc /\ client'[c].kind = client[c].kind
             /\ client'[c].picture = client[c].picture /\ client'[c].slug = client[c].slug
             /\ client'[c].added = client[c].added
             /\ \A d \in Clients : d # c => client'[d] = client[d]
  <2> DEFINE new == [client[c] EXCEPT !.pc = pc]
  <2>1. client' = [client EXCEPT ![c] = new]
    BY <1>2 DEF Becomes
  <2>2. /\ new \in Calls /\ new.pc = pc /\ new.kind = client[c].kind
        /\ new.picture = client[c].picture /\ new.slug = client[c].slug /\ new.added = client[c].added
    BY DEF Calls
  <2> HIDE DEF new
  <2> QED
    BY <2>1, <2>2
<1>3. ASSUME Answered(c)
      PROVE  /\ client' \in [Clients -> Calls] /\ client'[c] = Idling
             /\ \A d \in Clients : d # c => client'[d] = client[d]
  BY <1>1, <1>3 DEF Answered
<1> QED
  BY <1>1, <1>2, <1>3

\* One request moves.
LEMMA OneCall ==
  ASSUME ClientsOK, NEW c \in Clients, client' \in [Clients -> Calls], CallOK(client'[c]),
         \A d \in Clients : d # c => client'[d] = client[d],
         client'[c].kind = "upload" => client[c].kind = "upload" \/ Uploading = {}
  PROVE  ClientsOK'
<1>1. \A d \in Clients : CallOK(client'[d])
  BY DEF ClientsOK
<1>2. \A d, e \in Clients : client'[d].kind = "upload" /\ client'[e].kind = "upload" => d = e
  BY DEF ClientsOK, Uploading
<1> QED
  BY <1>1, <1>2 DEF ClientsOK

LEMMA ClientsMove ==
  ASSUME ClientsOK, NEW c \in Clients, NewRequest(c) \/ Handle(c) \/ Receive(c)
  PROVE  ClientsOK' /\ \A d \in Clients : d # c => client'[d] = client[d]
<1> USE DEF ClientsOK
<1>1. client[c] \in Calls /\ CallOK(client[c])
  OBVIOUS
<1>2. ASSUME Answered(c)
      PROVE  ClientsOK' /\ \A d \in Clients : d # c => client'[d] = client[d]
  <2>1. /\ client' \in [Clients -> Calls] /\ client'[c] = Idling /\ Idling.pc = "idle" /\ Idling.kind = "none"
        /\ \A d \in Clients : d # c => client'[d] = client[d]
    BY <1>2, CallSteps
  <2>2. CallOK(client'[c]) /\ client'[c].kind # "upload"
    BY <2>1 DEF CallOK
  <2> QED
    BY <2>1, <2>2, OneCall
<1>3. ASSUME NEW pc \in Stages, Becomes(c, pc), CallOK(client'[c])
      PROVE  ClientsOK' /\ \A d \in Clients : d # c => client'[d] = client[d]
  <2>1. /\ client' \in [Clients -> Calls] /\ client'[c].kind = client[c].kind
        /\ \A d \in Clients : d # c => client'[d] = client[d]
    BY <1>3, CallSteps
  <2> QED
    BY <1>3, <2>1, OneCall
<1>4. ASSUME UNCHANGED client
      PROVE  ClientsOK' /\ \A d \in Clients : d # c => client'[d] = client[d]
  BY <1>4
<1>5. \A pc \in Stages : Becomes(c, pc) =>
        /\ client'[c].pc = pc /\ client'[c].kind = client[c].kind
        /\ client'[c].picture = client[c].picture /\ client'[c].slug = client[c].slug
  BY CallSteps
<1>6. ASSUME ImportFails(c), client[c].pc \in {"wait", "look", "store"}
      PROVE  ClientsOK' /\ \A d \in Clients : d # c => client'[d] = client[d]
  <2>1. CASE client[c].kind = "add"
    <3>1. Becomes(c, "release")
      BY <1>6, <2>1 DEF ImportFails
    <3>2. CallOK(client'[c])
      BY <1>1, <1>5, <2>1, <3>1 DEF CallOK, Stages
    <3> QED
      BY <1>3, <3>1, <3>2 DEF Stages
  <2>2. CASE client[c].kind # "add"
    BY <1>2, <1>6, <2>2 DEF ImportFails
  <2> QED
    BY <2>1, <2>2
<1>7. CASE StartUpload(c)
  <2>1. CASE UNCHANGED client
    BY <1>4, <2>1
  <2>2. CASE Uploading = {} /\ \E picture \in Added : client' = [client EXCEPT ![c] = Upload(picture)]
    <3>1. PICK picture \in Added : client' = [client EXCEPT ![c] = Upload(picture)]
      BY <2>2
    <3>2. Upload(picture) \in Calls /\ CallOK(Upload(picture))
      BY RequestsAssumption DEF Upload, Idling, Calls, Stages, CallOK
    <3>3. /\ client' \in [Clients -> Calls] /\ client'[c] = Upload(picture)
          /\ \A d \in Clients : d # c => client'[d] = client[d]
      BY <3>1, <3>2
    <3> QED
      BY <2>2, <3>2, <3>3, OneCall
  <2> QED
    BY <1>7, <2>1, <2>2 DEF StartUpload
<1>8. CASE StartAdd(c)
  <2>1. PICK slug \in Slugs, picture \in Added :
          \/ UNCHANGED client
          \/ client' = [client EXCEPT ![c] = [pc |-> "wait", kind |-> "add", picture |-> picture, slug |-> slug,
                          added |-> ~Exists(rules, slug) \/ picture \notin rules[slug].members,
                          created |-> ~Exists(rules, slug)]]
    BY <1>8 DEF StartAdd
  <2>2. CASE UNCHANGED client
    BY <1>4, <2>2
  <2>3. CASE client' = [client EXCEPT ![c] = [pc |-> "wait", kind |-> "add", picture |-> picture, slug |-> slug,
                          added |-> ~Exists(rules, slug) \/ picture \notin rules[slug].members,
                          created |-> ~Exists(rules, slug)]]
    <3> DEFINE new == [pc |-> "wait", kind |-> "add", picture |-> picture, slug |-> slug,
                       added |-> ~Exists(rules, slug) \/ picture \notin rules[slug].members,
                       created |-> ~Exists(rules, slug)]
    <3>1. new.added \in BOOLEAN /\ new.created \in BOOLEAN
      OBVIOUS
    <3>2. new \in Calls /\ CallOK(new) /\ new.kind = "add"
      BY <3>1, RequestsAssumption DEF Calls, Stages, CallOK
    <3> HIDE DEF new
    <3>3. client' = [client EXCEPT ![c] = new]
      BY <2>3 DEF new
    <3>4. /\ client' \in [Clients -> Calls] /\ client'[c] = new
          /\ \A d \in Clients : d # c => client'[d] = client[d]
      BY <3>2, <3>3
    <3> QED
      BY <3>2, <3>4, OneCall
  <2> QED
    BY <2>1, <2>2, <2>3
<1>9. CASE LookUp(c) \/ UpdateCollection(c)
  <2>1. UNCHANGED client \/ \E kind \in {"update", "edit", "preview"} : Looks(c, kind)
    BY <1>9 DEF LookUp, UpdateCollection
  <2>2. CASE UNCHANGED client
    BY <1>4, <2>2
  <2>3. CASE \E kind \in {"update", "edit", "preview"} : Looks(c, kind)
    <3>1. PICK kind \in {"update", "edit", "preview"} : Looks(c, kind)
      BY <2>3
    <3> DEFINE new == [Idling EXCEPT !.pc = "look", !.kind = kind]
    <3>2. new \in Calls /\ CallOK(new) /\ new.kind # "upload"
      BY DEF Idling, Calls, Stages, CallOK
    <3>3. client' = [client EXCEPT ![c] = new]
      BY <3>1 DEF Looks
    <3> HIDE DEF new
    <3>4. /\ client' \in [Clients -> Calls] /\ client'[c] = new
          /\ \A d \in Clients : d # c => client'[d] = client[d]
      BY <3>2, <3>3
    <3> QED
      BY <3>2, <3>4, OneCall
  <2> QED
    BY <2>1, <2>2, <2>3
<1>10. CASE SyncNow(c) \/ CreateCollection(c) \/ RemoveCollection(c) \/ Render(c)
  BY <1>4, <1>10 DEF SyncNow, CreateCollection, RemoveCollection, Render
<1>11. CASE Receive(c)
  <2>1. At(c, "send") /\ (Becomes(c, "wait") \/ Answered(c))
    BY <1>11 DEF Receive
  <2>2. Becomes(c, "wait") => CallOK(client'[c])
    BY <1>1, <1>5, <2>1 DEF CallOK, Stages, At
  <2> QED
    BY <1>2, <1>3, <2>1, <2>2 DEF Stages
<1>12. CASE TakeGate(c)
  <2>1. At(c, "wait") /\ Becomes(c, "store")
    BY <1>12 DEF TakeGate
  <2>2. CallOK(client'[c])
    BY <1>1, <1>5, <2>1 DEF CallOK, Stages, At
  <2> QED
    BY <1>3, <2>1, <2>2 DEF Stages
<1>13. CASE GoneWaiting(c) \/ ImportRefused(c) \/ ImportJournalled(c)
  BY <1>6, <1>13 DEF GoneWaiting, ImportRefused, ImportJournalled, At
<1>14. CASE Import(c)
  <2>1. At(c, "store")
    BY <1>14 DEF Import
  <2>2. CASE client[c].kind = "add"
    <3>1. Becomes(c, "record")
      BY <1>14, <2>2 DEF Import
    <3>2. CallOK(client'[c])
      BY <1>1, <1>5, <2>2, <3>1 DEF CallOK, Stages
    <3> QED
      BY <1>3, <3>1, <3>2 DEF Stages
  <2>3. CASE client[c].kind # "add"
    BY <1>2, <1>14, <2>3 DEF Import
  <2> QED
    BY <2>2, <2>3
<1>15. CASE RecordKey(c) \/ Release(c) \/ LookFails(c) \/ RemoveFromCollection(c) \/ Rendered(c) \/ GoneQueued(c)
  BY <1>2, <1>15 DEF RecordKey, Release, LookFails, RemoveFromCollection, Rendered, GoneQueued
<1>16. CASE Look(c)
  <2>1. At(c, "look") /\ (Answered(c) \/ Becomes(c, "remove") \/ Becomes(c, "admit"))
    BY <1>1, <1>16 DEF Look, At, CallOK
  <2>2. Becomes(c, "remove") \/ Becomes(c, "admit") => CallOK(client'[c])
    BY <1>1, <1>5, <2>1 DEF CallOK, Stages, At
  <2> QED
    BY <1>2, <1>3, <2>1, <2>2 DEF Stages
<1>17. CASE Admit(c)
  <2>1. At(c, "admit") /\ (Answered(c) \/ Becomes(c, "render"))
    BY <1>17 DEF Admit
  <2>2. Becomes(c, "render") => CallOK(client'[c])
    BY <1>1, <1>5, <2>1 DEF CallOK, Stages, At
  <2> QED
    BY <1>2, <1>3, <2>1, <2>2 DEF Stages
<1> QED
  BY <1>7, <1>8, <1>9, <1>10, <1>11, <1>12, <1>13, <1>14, <1>15, <1>16, <1>17 DEF NewRequest, Handle

\* The steps of a request that concern the gate, or the places for transforms, are
\* few; the others take place elsewhere.
LEMMA CallMoves ==
  ASSUME ClientsOK, NEW c \in Clients, NewRequest(c) \/ Handle(c) \/ Receive(c)
  PROVE  /\ NewRequest(c) \/ ~At(c, "idle")
         /\ \/ TakeGate(c) \/ Import(c) \/ ImportRefused(c) \/ ImportJournalled(c)
            \/ Admit(c) \/ Render(c) \/ Rendered(c) \/ GoneQueued(c)
            \/ /\ UNCHANGED <<gate, capacity, active>>
               /\ client[c].pc \notin {"store", "render"} /\ client'[c].pc \notin {"store", "render"}
<1>1. client \in [Clients -> Calls] /\ client[c] \in Calls
  BY DEF ClientsOK
<1>2. /\ \A pc \in Stages : Becomes(c, pc) => client'[c].pc = pc
      /\ Answered(c) => client'[c].pc = "idle"
  BY <1>1, CallSteps
<1>3. CASE NewRequest(c)
  <2>1. At(c, "idle") /\ UNCHANGED <<gate, capacity, active>>
    BY <1>3 DEF NewRequest, StartUpload, StartAdd, LookUp, SyncNow, CreateCollection, UpdateCollection,
                RemoveCollection, Arrives, Edit, ElseUnchanged, folderVars, admission
  <2>2. client'[c].pc \notin {"store", "render"}
    <3>1. CASE UNCHANGED client
      BY <2>1, <3>1 DEF At
    <3>2. CASE StartUpload(c)
      BY <1>1, <2>1, <3>2 DEF StartUpload, Upload, Idling, At, Calls
    <3>3. CASE StartAdd(c)
      BY <1>1, <2>1, <3>3 DEF StartAdd, At
    <3>4. CASE LookUp(c) \/ UpdateCollection(c)
      BY <1>1, <2>1, <3>4 DEF LookUp, UpdateCollection, Looks, Idling, At
    <3> QED
      BY <1>3, <3>1, <3>2, <3>3, <3>4 DEF NewRequest, SyncNow, CreateCollection, RemoveCollection
  <2> QED
    BY <1>3, <2>1, <2>2 DEF At
<1>4. CASE Receive(c)
  BY <1>2, <1>4 DEF Receive, At, Stages, folderVars, admission
<1>5. CASE GoneWaiting(c)
  BY <1>2, <1>5 DEF GoneWaiting, ImportFails, At, Stages, folderVars, admission
<1>6. CASE RecordKey(c) \/ Release(c) \/ LookFails(c) \/ RemoveFromCollection(c)
  BY <1>2, <1>6 DEF RecordKey, Release, LookFails, RemoveFromCollection, Edit, ElseUnchanged, At, Stages, folderVars,
                    admission
<1>7. CASE Look(c)
  <2>1. Becomes(c, "admit") \/ Becomes(c, "remove") \/ Answered(c)
    BY <1>7 DEF Look, ClientsOK, CallOK, At
  <2> QED
    BY <1>2, <1>7, <2>1 DEF Look, At, Stages, folderVars, admission
<1>8. CASE TakeGate(c) \/ Import(c) \/ ImportRefused(c) \/ ImportJournalled(c)
           \/ Admit(c) \/ Render(c) \/ Rendered(c) \/ GoneQueued(c)
  BY <1>8 DEF TakeGate, Import, ImportRefused, ImportJournalled, Admit, Render, Rendered, GoneQueued, At
<1> QED
  BY <1>3, <1>4, <1>5, <1>6, <1>7, <1>8 DEF Handle

\* The loop is only at work between its start and its end, and leaves the rest alone.
LEMMA CycleKeeps ==
  ASSUME TVsOK, CycleNext
  PROVE  /\ UNCHANGED <<rules, readable, today>>
         /\ loop \notin {"off", "ended"} /\ loop' # "off"
         /\ canceled' = canceled
<1>1. CASE \E t \in TVs : TVEnds(t)
  <2>1. UNCHANGED <<rules, readable, today, loop, canceled>> /\ \E t \in TVs : tv[t] = "running"
    BY <1>1 DEF TVEnds, themeVars
  <2> QED
    BY <2>1 DEF TVsOK
<1>2. CASE \E t \in TVs : CollectTV(t)
  BY <1>2 DEF CollectTV, themeVars
<1>3. CASE LaunchTV \/ StopLaunching \/ PolicyFails \/ FinishCycle
  BY <1>3 DEF LaunchTV, StopLaunching, PolicyFails, FinishCycle, CycleErr, EndCycle, themeVars
<1>4. CASE Tick \/ Woken \/ LoopEnds \/ AcquireGate \/ GateCanceled \/ LoadSources \/ LoadFails
  BY <1>4 DEF Tick, Woken, LoopEnds, AcquireGate, GateCanceled, LoadSources, LoadFails, BeginCycle, CycleErr,
              EndCycle, themeVars
<1>5. CASE QueueTransform \/ StartTransform \/ EndTransform \/ TransformFails \/ Publish \/ PublishFails
  BY <1>5 DEF QueueTransform, StartTransform, EndTransform, TransformFails, Publish, PublishFails, CycleErr,
              EndCycle, themeVars
<1>6. CASE ReadThemes \/ ThemesFail
  BY <1>6 DEF ReadThemes, ThemesFail, CycleErr, EndCycle, themeVars
<1> QED
  BY <1>1, <1>2, <1>3, <1>4, <1>5, <1>6 DEF CycleNext

LEMMA ClientsKept ==
  ASSUME ClientsOK, [Next]_allVars
  PROVE  ClientsOK'
<1>1. CASE Prepare \/ Office \/ World \/ UNCHANGED <<client, requests, appVars>> \/ UNCHANGED allVars
  <2>1. UNCHANGED client
    BY <1>1, OfficeKeeps, WorldKeeps DEF Prepare, allVars, vars
  <2> QED
    BY <2>1 DEF ClientsOK
<1>2. CASE Crash
  <2>1. client' = [c \in Clients |-> Idling]
    BY <1>2 DEF Crash
  <2> QED
    BY <2>1 DEF ClientsOK, CallOK, Calls, Stages, Idling
<1>3. CASE \E c \in Clients : NewRequest(c) \/ Handle(c) \/ Receive(c)
  BY <1>3, ClientsMove
<1> QED
  BY <1>1, <1>2, <1>3, StepKinds

-----------------------------------------------------------------------------
(* The gate.                                                               *)

LEMMA GateKept ==
  ASSUME ClientsOK, GateOK, [Next]_allVars
  PROVE  GateOK'
<1>1. CASE Office \/ World \/ UNCHANGED allVars
  <2>1. UNCHANGED <<gate, loop, client>>
    BY <1>1, OfficeKeeps, WorldKeeps DEF allVars, vars, folderVars
  <2> QED
    BY <2>1 DEF GateOK, At
<1>2. CASE Prepare
  BY <1>2, CycleAssumption DEF Prepare, BeginCycle, GateOK, At
<1>3. CASE Crash
  <2>1. gate' = None /\ loop' = "off" /\ \A c \in Clients : client'[c].pc = "idle"
    BY <1>3 DEF Crash, Idling
  <2> QED
    BY <2>1, CycleAssumption DEF GateOK, At
<1>4. CASE CycleNext /\ UNCHANGED <<client, requests, appVars>>
  <2>1. \A c \in Clients : At(c, "store")' <=> At(c, "store")
    BY <1>4 DEF At
  <2>2. CASE UNCHANGED gate /\ (loop \in {"load", "optimize", "publish"} <=> loop' \in {"load", "optimize", "publish"})
    BY <2>1, <2>2 DEF GateOK
  <2>3. CASE AcquireGate
    BY <2>1, <2>3, CycleAssumption DEF AcquireGate, GateOK
  <2>4. CASE LoadFails \/ TransformFails \/ Publish \/ PublishFails
    <3>1. loop \in {"load", "optimize", "publish"} /\ loop' \in {"select", "themes"} /\ LeaveGate
      BY <2>4 DEF LoadFails, TransformFails, Publish, PublishFails, CycleErr, EndCycle
    <3> QED
      BY <2>1, <3>1, CycleAssumption DEF GateOK, LeaveGate
  <2> QED
    BY <1>4, <2>2, <2>3, <2>4
    DEF CycleNext, Tick, Woken, LoopEnds, GateCanceled, LoadSources, QueueTransform,
        StartTransform, EndTransform, ReadThemes, ThemesFail, PolicyFails,
        LaunchTV, StopLaunching, TVEnds, CollectTV, FinishCycle, BeginCycle, CycleErr, EndCycle, folderVars
<1>5. ASSUME NEW c \in Clients, NewRequest(c) \/ Handle(c) \/ Receive(c)
      PROVE  GateOK'
  <2>1. loop' = loop /\ \A d \in Clients : d # c => client'[d] = client[d]
    BY <1>5, RequestKeeps, ClientsMove
  <2>2. /\ client \in [Clients -> Calls]
        /\ \A pc \in Stages : Becomes(c, pc) => client'[c].pc = pc
        /\ Answered(c) => client'[c].pc = "idle"
    BY CallSteps DEF ClientsOK
  <2>3. CASE TakeGate(c)
    <3>1. gate = None /\ gate' = c /\ client'[c].pc = "store"
      BY <2>2, <2>3 DEF TakeGate, Stages
    <3> QED
      BY <2>1, <3>1, CycleAssumption DEF GateOK, At
  <2>4. CASE Import(c) \/ ImportRefused(c) \/ ImportJournalled(c)
    <3>1. gate = c /\ gate' = None /\ client'[c].pc # "store"
      BY <2>2, <2>4 DEF Import, ImportRefused, ImportJournalled, ImportFails, Stages
    <3> QED
      BY <2>1, <3>1, CycleAssumption DEF GateOK, At
  <2>5. CASE UNCHANGED gate /\ client[c].pc # "store" /\ client'[c].pc # "store"
    BY <2>1, <2>5 DEF GateOK, At
  <2>6. CASE Admit(c) \/ Render(c) \/ Rendered(c) \/ GoneQueued(c)
    <3>1. UNCHANGED gate /\ client[c].pc # "store" /\ client'[c].pc # "store"
      BY <2>2, <2>6 DEF Admit, Render, Rendered, GoneQueued, At, Stages, folderVars
    <3> QED
      BY <2>5, <3>1
  <2> QED
    BY <1>5, <2>3, <2>4, <2>5, <2>6, CallMoves
<1> QED
  BY <1>1, <1>2, <1>3, <1>4, <1>5, StepKinds

-----------------------------------------------------------------------------
(* The places for transforms.                                              *)

LEMMA PlacesFacts ==
  ASSUME PlacesOK
  PROVE  /\ IsFiniteSet(active) /\ Cardinality(active) \in Nat /\ Cardinality(capacity) \in Nat
         /\ \A who : /\ IsFiniteSet(capacity \cup {who}) /\ IsFiniteSet(capacity \ {who})
                     /\ Cardinality(active \cup {who}) <= Cardinality(active) + 1
                     /\ Cardinality(capacity \cup {who}) <= Cardinality(capacity) + 1
                     /\ Cardinality(active \ {who}) <= Cardinality(active)
                     /\ Cardinality(capacity \ {who}) <= Cardinality(capacity)
                     /\ Cardinality(active \cup {who}) \in Nat /\ Cardinality(capacity \cup {who}) \in Nat
                     /\ Cardinality(active \ {who}) \in Nat /\ Cardinality(capacity \ {who}) \in Nat
<1>1. IsFiniteSet(active) /\ IsFiniteSet(capacity)
  BY FS_Subset DEF PlacesOK
<1>2. ASSUME NEW S, IsFiniteSet(S), NEW who
      PROVE  /\ IsFiniteSet(S \cup {who}) /\ IsFiniteSet(S \ {who})
             /\ Cardinality(S \cup {who}) <= Cardinality(S) + 1
             /\ Cardinality(S \ {who}) <= Cardinality(S)
             /\ Cardinality(S) \in Nat /\ Cardinality(S \cup {who}) \in Nat /\ Cardinality(S \ {who}) \in Nat
  <2>1. /\ IsFiniteSet(S \cup {who}) /\ IsFiniteSet(S \ {who})
        /\ Cardinality(S \cup {who}) = IF who \in S THEN Cardinality(S) ELSE Cardinality(S) + 1
        /\ Cardinality(S \ {who}) = IF who \in S THEN Cardinality(S) - 1 ELSE Cardinality(S)
    BY <1>2, FS_AddElement, FS_RemoveElement
  <2>2. Cardinality(S) \in Nat /\ Cardinality(S \cup {who}) \in Nat /\ Cardinality(S \ {who}) \in Nat
    BY <1>2, <2>1, FS_CardinalityType
  <2> QED
    BY <2>1, <2>2
<1> QED
  BY <1>1, <1>2

\* A place is taken, used and given back within the limits.
LEMMA PlacesStep ==
  ASSUME PlacesOK, NEW who \in Clients \cup {Cycle},
         \/ Reserve(who) \/ Activate(who) \/ GiveUp(who) \/ Leave(who) \/ UNCHANGED <<capacity, active>>
  PROVE  /\ IsFiniteSet(capacity') /\ active' \subseteq capacity' /\ capacity' \subseteq Clients \cup {Cycle}
         /\ Cardinality(active') <= TransformConcurrency
         /\ Cardinality(capacity') <= TransformConcurrency + TransformQueue
         /\ \A other : other # who => (other \in capacity' <=> other \in capacity)
         /\ GiveUp(who) \/ Leave(who) => who \notin capacity'
<1>1. GiveUp(who) \/ Leave(who) => who \notin capacity'
  BY DEF GiveUp, Leave
<1>2. /\ IsFiniteSet(capacity) /\ IsFiniteSet(capacity \cup {who}) /\ IsFiniteSet(capacity \ {who})
      /\ TransformConcurrency \in Nat /\ TransformQueue \in Nat
      /\ Cardinality(active) \in Nat /\ Cardinality(capacity) \in Nat
      /\ Cardinality(active \cup {who}) \in Nat /\ Cardinality(capacity \cup {who}) \in Nat
      /\ Cardinality(active \ {who}) \in Nat /\ Cardinality(capacity \ {who}) \in Nat
      /\ Cardinality(active \cup {who}) <= Cardinality(active) + 1
      /\ Cardinality(capacity \cup {who}) <= Cardinality(capacity) + 1
      /\ Cardinality(active \ {who}) <= Cardinality(active)
      /\ Cardinality(capacity \ {who}) <= Cardinality(capacity)
      /\ Cardinality(active) <= TransformConcurrency
      /\ Cardinality(capacity) <= TransformConcurrency + TransformQueue
      /\ active \subseteq capacity /\ capacity \subseteq Clients \cup {Cycle}
  BY PlacesFacts, AdmissionAssumption DEF PlacesOK
<1>3. CASE capacity' = capacity \cup {who} /\ active' = active
           /\ Cardinality(capacity) < TransformConcurrency + TransformQueue
  BY <1>1, <1>2, <1>3
<1>4. CASE capacity' = capacity /\ active' = active \cup {who} /\ who \in capacity
           /\ Cardinality(active) < TransformConcurrency
  BY <1>1, <1>2, <1>4
<1>5. CASE capacity' = capacity \ {who} /\ active' \in {active, active \ {who}} /\ who \notin active'
  BY <1>1, <1>2, <1>5
<1>6. CASE UNCHANGED <<capacity, active>>
  BY <1>1, <1>2, <1>6
<1> QED
  BY <1>3, <1>4, <1>5, <1>6 DEF Reserve, HasPlace, Activate, HasSlot, GiveUp, Leave, Waits

LEMMA PlacesKept ==
  ASSUME ClientsOK, PlacesOK, AppOK, [Next]_allVars
  PROVE  PlacesOK'
<1>1. CASE Office \/ World \/ UNCHANGED allVars
  <2>1. UNCHANGED <<capacity, active, loop, client>>
    BY <1>1, OfficeKeeps, WorldKeeps DEF allVars, vars, admission
  <2> QED
    BY <2>1 DEF PlacesOK, At
<1>2. CASE Prepare
  <2>1. UNCHANGED <<capacity, active, client>> /\ loop' = "gate"
    BY <1>2 DEF Prepare, BeginCycle, admission
  <2>2. CASE Cycle \notin capacity
    BY <2>1, <2>2 DEF PlacesOK, At
  <2>3. CASE Cycle \in capacity
    BY <1>2, <2>3 DEF PlacesOK, AppOK, Prepare
  <2> QED
    BY <2>2, <2>3
<1>3. CASE Crash
  <2>1. capacity' = {} /\ active' = {}
    BY <1>3 DEF Crash
  <2> QED
    BY <2>1, FS_EmptySet, AdmissionAssumption DEF PlacesOK
<1>4. CASE CycleNext /\ UNCHANGED <<client, requests, appVars>>
  <2>1. \A c \in Clients : At(c, "render")' <=> At(c, "render")
    BY <1>4 DEF At
  <2>2. CASE UNCHANGED <<capacity, active>> /\ (loop = "optimize" => loop' = "optimize" \/ Cycle \notin capacity)
    BY <2>1, <2>2 DEF PlacesOK
  <2>3. CASE QueueTransform \/ StartTransform
    <3>1. (Reserve(Cycle) \/ Activate(Cycle)) /\ loop' = "optimize"
      BY <2>3 DEF QueueTransform, StartTransform
    <3> QED
      BY <2>1, <3>1, PlacesStep, CycleAssumption DEF PlacesOK
  <2>4. CASE (GiveUp(Cycle) \/ Leave(Cycle))
    BY <2>1, <2>4, PlacesStep, CycleAssumption DEF PlacesOK
  <2> QED
    BY <1>4, <2>2, <2>3, <2>4
    DEF CycleNext, Tick, Woken, LoopEnds, AcquireGate, GateCanceled, LoadSources, LoadFails, EndTransform,
        TransformFails, Publish, PublishFails, ReadThemes, ThemesFail, PolicyFails,
        LaunchTV, StopLaunching, TVEnds, CollectTV, FinishCycle, BeginCycle, CycleErr, EndCycle, admission
<1>5. ASSUME NEW c \in Clients, NewRequest(c) \/ Handle(c) \/ Receive(c)
      PROVE  PlacesOK'
  <2>1. loop' = loop /\ \A d \in Clients : d # c => client'[d] = client[d]
    BY <1>5, RequestKeeps, ClientsMove
  <2>2. /\ client \in [Clients -> Calls]
        /\ \A pc \in Stages : Becomes(c, pc) => client'[c].pc = pc
    BY CallSteps DEF ClientsOK
  <2>3. CASE TakeGate(c) \/ Import(c) \/ ImportRefused(c) \/ ImportJournalled(c)
    <3>1. UNCHANGED <<capacity, active>> /\ client[c].pc # "render"
      BY <2>3 DEF TakeGate, Import, ImportRefused, ImportJournalled, At, admission
    <3> QED
      BY <2>1, <3>1 DEF PlacesOK, At
  <2>4. CASE UNCHANGED <<capacity, active>> /\ client[c].pc # "render"
    BY <2>1, <2>4 DEF PlacesOK, At
  <2>5. CASE Admit(c)
    <3>1. CASE Reserve(c) /\ Becomes(c, "render")
      <4>1. client'[c].pc = "render"
        BY <2>2, <3>1 DEF Stages
      <4> QED
        BY <2>1, <3>1, <4>1, PlacesStep, CycleAssumption DEF PlacesOK, At
    <3> QED
      BY <2>4, <2>5, <3>1 DEF Admit, admission, At
  <2>6. CASE Render(c)
    <3>1. Activate(c) /\ At(c, "render") /\ client' = client
      BY <2>6 DEF Render
    <3> QED
      BY <2>1, <3>1, PlacesStep, CycleAssumption DEF PlacesOK, At
  <2>7. CASE Rendered(c) \/ GoneQueued(c)
    <3>1. GiveUp(c) \/ Leave(c)
      BY <2>7 DEF Rendered, GoneQueued
    <3> QED
      BY <2>1, <3>1, PlacesStep, CycleAssumption DEF PlacesOK, At
  <2> QED
    BY <1>5, <2>3, <2>4, <2>5, <2>6, <2>7, CallMoves
<1> QED
  BY <1>1, <1>2, <1>3, <1>4, <1>5, StepKinds

-----------------------------------------------------------------------------
(* The cycle and its TVs.                                                  *)

LEMMA RunningFacts ==
  ASSUME NEW few, Running' \subseteq Running \cup few, few = {} \/ \E t : few = {t},
         TVsOK, few # {} => Cardinality(Running) < MaximumConcurrentTVs
  PROVE  Cardinality(Running') <= MaximumConcurrentTVs
<1>1. IsFiniteSet(Running) /\ Cardinality(Running) \in Nat /\ Cardinality(Running) <= MaximumConcurrentTVs
  <2>1. IsFiniteSet(TVs) /\ Running \subseteq TVs
    BY CycleAssumption, FS_Interval DEF TVs, Running
  <2> QED
    BY <2>1, FS_Subset, FS_CardinalityType DEF TVsOK
<1>2. CASE few = {}
  <2>1. Running' \subseteq Running
    BY <1>2
  <2>2. Cardinality(Running') <= Cardinality(Running) /\ Cardinality(Running') \in Nat
    BY <1>1, <2>1, FS_Subset, FS_CardinalityType
  <2> QED
    BY <1>1, <2>2, CycleAssumption
<1>3. CASE \E t : few = {t}
  <2>1. PICK t : few = {t}
    BY <1>3
  <2>2. /\ IsFiniteSet(Running \cup {t}) /\ Cardinality(Running \cup {t}) <= Cardinality(Running) + 1
        /\ Cardinality(Running \cup {t}) \in Nat
    <3>1. /\ IsFiniteSet(Running \cup {t})
          /\ Cardinality(Running \cup {t}) = IF t \in Running THEN Cardinality(Running) ELSE Cardinality(Running) + 1
      BY <1>1, FS_AddElement
    <3> HIDE DEF Running
    <3> QED
      BY <1>1, <3>1
  <2>3. Cardinality(Running') <= Cardinality(Running \cup {t}) /\ Cardinality(Running') \in Nat
    BY <2>1, <2>2, FS_Subset, FS_CardinalityType
  <2> QED
    BY <1>1, <2>1, <2>2, <2>3, CycleAssumption
<1> QED
  BY <1>2, <1>3

TVParts == <<launched, tv, tvErrors, status, fresh>>

LEMMA TVsByCycle ==
  ASSUME TVsOK, CycleNext
  PROVE  TVsOK'
<1> USE CycleAssumption
<1>1. ASSUME UNCHANGED TVParts, UNCHANGED canceled,
             loop \in {"gate", "load", "optimize", "publish", "themes"},
             loop' \in {"gate", "load", "optimize", "publish", "themes", "launch"}
      PROVE  TVsOK'
  <2>1. Running' = Running
    BY <1>1 DEF TVParts, Running
  <2>2. loop \notin {"launch", "collect"} /\ \A t \in TVs : tv[t] = "idle" /\ ~(t <= launched)
    BY <1>1 DEF TVsOK, TVs
  <2> QED
    BY <1>1, <2>1, <2>2 DEF TVsOK, Truthful, TVParts
<1>2. ASSUME NEW outcome, EndCycle(outcome), outcome = "failed" \/ (fresh = TVs /\ \A t \in TVs : status[t] = "ok")
      PROVE  TVsOK'
  <2>1. /\ synced' = outcome /\ loop' = "select" /\ launched' = 0 /\ tv' = [t \in TVs |-> "idle"]
        /\ tvErrors' = FALSE /\ status' = status /\ fresh' = fresh
    BY <1>2 DEF EndCycle
  <2>2. Running' = {}
    BY <2>1 DEF Running
  <2>3. Cardinality(Running') <= MaximumConcurrentTVs
    BY <2>2, FS_EmptySet
  <2>4. Truthful'
    BY <1>2, <2>1 DEF Truthful
  <2> QED
    BY <2>1, <2>3, <2>4 DEF TVsOK
<1>3. CASE Tick \/ Woken
  <2>1. /\ loop = "select" /\ loop' = "gate" /\ fresh' = {} /\ UNCHANGED <<launched, tv, tvErrors, status>>
    BY <1>3 DEF Tick, Woken, BeginCycle
  <2>2. Running' = Running
    BY <2>1 DEF Running
  <2> QED
    BY <2>1, <2>2 DEF TVsOK, Truthful
<1>4. CASE LoopEnds
  <2>1. loop = "select" /\ loop' = "ended" /\ UNCHANGED TVParts /\ UNCHANGED synced
    BY <1>4 DEF LoopEnds, tvVars, TVParts
  <2>2. Running' = Running
    BY <2>1 DEF TVParts, Running
  <2> QED
    BY <2>1, <2>2 DEF TVsOK, Truthful, TVParts
<1>5. CASE AcquireGate \/ LoadSources \/ QueueTransform \/ StartTransform \/ EndTransform \/ Publish \/ ReadThemes
  BY <1>1, <1>5 DEF AcquireGate, LoadSources, QueueTransform, StartTransform, EndTransform, Publish, ReadThemes,
                    tvVars, TVParts
<1>6. CASE GateCanceled \/ LoadFails \/ TransformFails \/ PublishFails \/ ThemesFail \/ PolicyFails
  <2>1. EndCycle("failed")
    BY <1>6 DEF GateCanceled, LoadFails, TransformFails, PublishFails, ThemesFail, PolicyFails, CycleErr
  <2> QED
    BY <1>2, <2>1
<1>7. CASE LaunchTV
  <2>1. /\ loop = "launch" /\ loop' = loop /\ launched < NumTVs /\ Cardinality(Running) < MaximumConcurrentTVs
        /\ launched' = launched + 1 /\ tv' = [tv EXCEPT ![launched + 1] = "running"]
        /\ UNCHANGED <<tvErrors, status, fresh, canceled>>
    BY <1>7 DEF LaunchTV
  <2>2. launched \in Nat /\ launched + 1 \in TVs /\ launched' \in 0 .. NumTVs
    BY <2>1 DEF TVsOK, TVs
  <2>3. /\ tv' \in [TVs -> {"idle", "running", "ok", "failed"}]
        /\ \A t \in TVs : tv'[t] = IF t = launched + 1 THEN "running" ELSE tv[t]
    BY <2>1, <2>2 DEF TVsOK
  <2>4. Running' \subseteq Running \cup {launched + 1}
    BY <2>3 DEF Running
  <2>5. Cardinality(Running') <= MaximumConcurrentTVs
    BY <2>1, <2>4, RunningFacts
  <2>6. \A t \in TVs : t <= launched' <=> tv'[t] # "idle"
    BY <2>1, <2>2, <2>3 DEF TVsOK, TVs
  <2> QED
    BY <2>1, <2>2, <2>3, <2>5, <2>6 DEF TVsOK, Truthful
<1>8. CASE StopLaunching
  <2>1. loop = "launch" /\ loop' = "collect" /\ UNCHANGED TVParts /\ UNCHANGED canceled
        /\ (canceled \/ launched = NumTVs)
    BY <1>8 DEF StopLaunching, tvVars, TVParts
  <2>2. Running' = Running
    BY <2>1 DEF TVParts, Running
  <2> QED
    BY <2>1, <2>2 DEF TVsOK, Truthful, TVParts
<1>9. ASSUME NEW t \in TVs, TVEnds(t)
      PROVE  TVsOK'
  <2>1. PICK end \in {"ok", "failed"} : tv' = [tv EXCEPT ![t] = end]
    BY <1>9 DEF TVEnds
  <2>2. tv[t] = "running" /\ UNCHANGED <<loop, canceled, launched, tvErrors, synced, status, fresh>>
    BY <1>9 DEF TVEnds
  <2>3. /\ tv' \in [TVs -> {"idle", "running", "ok", "failed"}]
        /\ \A s \in TVs : /\ tv'[s] = "idle" <=> tv[s] = "idle"
                          /\ tv'[s] = "running" => tv[s] = "running"
    BY <2>1, <2>2 DEF TVsOK
  <2>4. Running' \subseteq Running \cup {}
    BY <2>3 DEF Running
  <2>5. Cardinality(Running') <= MaximumConcurrentTVs
    BY <2>4, RunningFacts
  <2> QED
    BY <2>2, <2>3, <2>5 DEF TVsOK, Truthful
<1>10. ASSUME NEW t \in TVs, CollectTV(t)
       PROVE  TVsOK'
  <2>1. /\ loop = "collect" /\ tv[t] \in {"ok", "failed"} /\ fresh' = fresh \cup {t}
        /\ tvErrors' = (tvErrors \/ tv[t] = "failed") /\ UNCHANGED <<loop, canceled, launched, synced>>
    BY <1>10 DEF CollectTV
  <2>2. status' = [status EXCEPT ![t] = tv[t]] /\ tv' = [tv EXCEPT ![t] = "idle"]
    BY <1>10 DEF CollectTV
  <2>3. /\ tv' \in [TVs -> {"idle", "running", "ok", "failed"}] /\ tv'[t] = "idle"
        /\ status' \in [TVs -> {"unknown", "ok", "failed"}] /\ status'[t] = tv[t]
        /\ \A s \in TVs \ {t} : tv'[s] = tv[s] /\ status'[s] = status[s]
    BY <2>1, <2>2 DEF TVsOK
  <2>4. Running' \subseteq Running \cup {}
    BY <2>3 DEF Running
  <2>5. Cardinality(Running') <= MaximumConcurrentTVs
    BY <2>4, RunningFacts
  <2>6. \A s \in TVs : s <= launched' =>
          tv'[s] # "idle" \/ (s \in fresh' /\ (status'[s] = "ok" \/ tvErrors'))
    BY <2>1, <2>3 DEF TVsOK
  <2> QED
    BY <2>1, <2>3, <2>5, <2>6 DEF TVsOK, Truthful
<1>11. CASE FinishCycle
  <2>1. PICK outcome \in {"ok", "failed"} : EndCycle(outcome) /\ (outcome = "ok" => ~Flawed)
    BY <1>11 DEF FinishCycle
  <2>2. loop = "collect" /\ \A t \in TVs : tv[t] = "idle"
    BY <1>11 DEF FinishCycle
  <2>3. ASSUME ~Flawed
        PROVE  fresh = TVs /\ \A t \in TVs : status[t] = "ok"
    <3>1. ~tvErrors /\ ~canceled
      BY <2>3 DEF Flawed
    <3>2. launched = NumTVs
      BY <2>2, <3>1 DEF TVsOK
    <3>3. \A t \in TVs : t <= launched
      BY <3>2 DEF TVs
    <3>4. \A t \in TVs : t \in fresh /\ status[t] = "ok"
      BY <2>2, <3>1, <3>3 DEF TVsOK
    <3> QED
      BY <3>4 DEF TVsOK
  <2> QED
    BY <1>2, <2>1, <2>3
<1> QED
  BY <1>3, <1>4, <1>5, <1>6, <1>7, <1>8, <1>9, <1>10, <1>11 DEF CycleNext

LEMMA TVsKept ==
  ASSUME TVsOK, AppOK, [Next]_allVars
  PROVE  TVsOK'
<1>1. CASE Office \/ World \/ UNCHANGED allVars \/ \E c \in Clients : NewRequest(c) \/ Handle(c) \/ Receive(c)
  <2>1. UNCHANGED TVParts /\ UNCHANGED <<loop, synced>> /\ (canceled => canceled')
    <3>1. CASE Office
      BY <3>1, OfficeKeeps DEF TVParts
    <3>2. CASE World
      BY <3>2, WorldKeeps DEF TVParts
    <3>3. CASE UNCHANGED allVars
      BY <3>3 DEF allVars, vars, tvVars, TVParts
    <3>4. CASE \E c \in Clients : NewRequest(c) \/ Handle(c) \/ Receive(c)
      BY <3>4, RequestKeeps DEF TVParts
    <3> QED
      BY <1>1, <3>1, <3>2, <3>3, <3>4
  <2>2. Running' = Running
    BY <2>1 DEF TVParts, Running
  <2> QED
    BY <2>1, <2>2 DEF TVsOK, Truthful, TVParts
<1>2. CASE Prepare
  <2>1. loop = "off" /\ loop' = "gate" /\ fresh' = {} /\ UNCHANGED <<launched, tv, tvErrors, status>>
    BY <1>2 DEF Prepare, BeginCycle, AppOK
  <2>2. Running' = Running
    BY <2>1 DEF Running
  <2> QED
    BY <2>1, <2>2 DEF TVsOK, Truthful
<1>3. CASE Crash
  <2>1. /\ loop' = "off" /\ launched' = 0 /\ tv' = [t \in TVs |-> "idle"] /\ tvErrors' = FALSE
        /\ status' = [t \in TVs |-> "unknown"] /\ fresh' = {}
    BY <1>3 DEF Crash
  <2>2. Running' = {}
    BY <2>1 DEF Running
  <2>3. Cardinality(Running') <= MaximumConcurrentTVs
    BY <2>2, FS_EmptySet, CycleAssumption
  <2> QED
    BY <2>1, <2>3, CycleAssumption DEF TVsOK, Truthful
<1> QED
  BY <1>1, <1>2, <1>3, TVsByCycle, StepKinds

-----------------------------------------------------------------------------
(* The supervisor.                                                         *)

\* What is handled was accepted before.
LEMMA InHand ==
  ASSUME NEW c \in Clients, Handle(c) \/ Receive(c)
  PROVE  ~At(c, "idle")
BY DEF Handle, Receive, TakeGate, GoneWaiting, Import, ImportRefused, ImportJournalled, RecordKey, Release, Look,
       LookFails, RemoveFromCollection, Admit, Render, Rendered, GoneQueued, At

LEMMA AppKept ==
  ASSUME ClientsOK, TVsOK, AppOK, [Next]_allVars
  PROVE  AppOK'
<1>1. CASE World \/ UNCHANGED allVars
  <2>1. UNCHANGED <<loop, client>> /\ UNCHANGED appVars
    BY <1>1, WorldKeeps DEF allVars, vars, World
  <2> QED
    BY <2>1 DEF AppOK, appVars, InFlight, At, Children
<1>2. CASE Prepare
  <2>1. /\ app = "prepare" /\ app' = "ready" /\ loop' = "gate" /\ UNCHANGED <<client, failed, http, completed>>
        /\ UNCHANGED <<drained, expired, adapters>>
    BY <1>2 DEF Prepare, BeginCycle
  <2> QED
    BY <2>1 DEF AppOK, InFlight, At, Children
<1>3. CASE Crash
  <2>1. /\ app' = "bind" /\ loop' = "off" /\ completed' = {} /\ drained' = FALSE /\ expired' = FALSE /\ http' = "unbound"
    BY <1>3 DEF Crash
  <2> QED
    BY <2>1 DEF AppOK
<1>4. CASE CycleNext /\ UNCHANGED <<client, requests, appVars>>
  <2>1. loop \notin {"off", "ended"} /\ loop' # "off" /\ UNCHANGED <<client, app, failed, http, completed, drained, expired, adapters>>
    BY <1>4, CycleKeeps DEF appVars
  <2> QED
    BY <2>1 DEF AppOK, InFlight, At, Children
<1>5. ASSUME NEW c \in Clients, (NewRequest(c) /\ http = "serving") \/ Handle(c) \/ Receive(c), UNCHANGED appVars
      PROVE  AppOK'
  <2>1. UNCHANGED <<loop, app, failed, http, completed, drained, expired, adapters>>
    BY <1>5, RequestKeeps DEF appVars
  <2>2. ~drained
    BY <1>5, InHand DEF AppOK, InFlight
  <2> QED
    BY <2>1, <2>2 DEF AppOK, Children
<1>6. CASE Office
  <2>1. UNCHANGED <<loop, client>>
    BY <1>6, OfficeKeeps
  <2>2. InFlight' = InFlight /\ Children' = Children
    BY <2>1 DEF InFlight, At, Children
  <2>3. CASE Bind
    BY <2>1, <2>2, <2>3 DEF Bind, AppOK
  <2>4. CASE BindFails
    BY <2>1, <2>2, <2>4 DEF BindFails, AppOK
  <2>5. CASE PrepareFails
    BY <2>1, <2>2, <2>5 DEF PrepareFails, Draining, AppOK
  <2>6. CASE Stopped
    BY <2>1, <2>2, <2>6 DEF Stopped, Draining, AppOK
  <2>7. CASE ChildDied
    BY <2>1, <2>2, <2>7 DEF ChildDied, AppOK
  <2>8. CASE Signal
    BY <2>1, <2>2, <2>8 DEF Signal, AppOK
  <2>9. CASE ServerDies
    BY <2>1, <2>2, <2>9 DEF ServerDies, AppOK
  <2>10. CASE \E child \in {"http", "cycle"} : Collect(child)
    <3>1. PICK child \in {"http", "cycle"} : Collect(child)
      BY <2>10
    <3>2. /\ app = "shutdown" /\ completed' = completed \cup {child} /\ (child = "cycle" => loop = "ended")
          /\ UNCHANGED <<app, http, drained, expired>>
      BY <3>1 DEF Collect
    <3>3. failed => failed'
      BY <3>1 DEF Collect
    <3> QED
      BY <2>1, <2>2, <3>2, <3>3 DEF AppOK
  <2>11. CASE Drained
    BY <2>1, <2>2, <2>11 DEF Drained, AppOK
  <2>12. CASE FinishShutdown
    BY <2>1, <2>2, <2>12 DEF FinishShutdown, ShutDown, AppOK
  <2>13. CASE Expire
    BY <2>1, <2>2, <2>13 DEF Expire, AppOK
  <2>14. CASE CloseResources
    BY <2>1, <2>2, <2>14 DEF CloseResources, AppOK
  <2> QED
    BY <1>6, <2>3, <2>4, <2>5, <2>6, <2>7, <2>8, <2>9, <2>10, <2>11, <2>12, <2>13, <2>14 DEF Office
<1> QED
  BY <1>1, <1>2, <1>3, <1>4, <1>5, <1>6, StepKinds

-----------------------------------------------------------------------------
(* The collections document.                                               *)

LEMMA Entries ==
  ASSUME NEW file \in Documents, NEW slug \in Slugs
  PROVE  /\ Exists(file, slug) => file[slug] \in Collections
         /\ ~Exists(file, slug) => file[slug] = NoCollection
         /\ NoCollection.exists = FALSE
         /\ \A entry \in Collections : entry.exists /\ entry.members \subseteq Pictures /\ entry.activation \in Activations
<1>1. file[slug] \in Collections \/ file[slug] = NoCollection
  BY DEF Documents
<1>2. NoCollection.exists = FALSE
  BY DEF NoCollection
<1>3. \A entry \in Collections : entry.exists /\ entry.members \subseteq Pictures /\ entry.activation \in Activations
  BY DEF Collections
<1> QED
  BY <1>1, <1>2, <1>3 DEF Exists

LEMMA NewlyMade ==
  ASSUME NEW exclusive \in BOOLEAN, NEW activation \in Activations, NEW entry,
         entry = NewCollection(exclusive, activation)
  PROVE  entry \in Collections /\ entry.exists /\ entry.members = {} /\ entry.activation = activation
BY DEF NewCollection, Collections

\* The changes of a document change one collection.
LEMMA MemberAdded ==
  ASSUME NEW file \in Documents, NEW slug \in Slugs, NEW picture \in Pictures, Exists(file, slug),
         NEW new, new = AddMember(file, slug, picture)
  PROVE  /\ new \in Documents /\ Exists(new, slug)
         /\ new[slug].members = file[slug].members \cup {picture} /\ new[slug].activation = file[slug].activation
         /\ \A other \in Slugs : other # slug => new[other] = file[other]
<1> DEFINE members == file[slug].members \cup {picture}
           entry == [file[slug] EXCEPT !.members = members]
<1>1. file[slug] \in Collections /\ members \in SUBSET Pictures
  BY Entries
<1>2. new = [file EXCEPT ![slug] = entry]
  BY DEF AddMember
<1> HIDE DEF members
<1>3. entry \in Collections /\ entry.exists /\ entry.members = members /\ entry.activation = file[slug].activation
  <2>1. entry = [file[slug] EXCEPT !.members = members]
    OBVIOUS
  <2> HIDE DEF entry
  <2> QED
    BY <1>1, <2>1 DEF Collections
<1> HIDE DEF entry
<1>4. /\ new \in Documents /\ new[slug] = entry
      /\ \A other \in Slugs : other # slug => new[other] = file[other]
  BY <1>2, <1>3 DEF Documents
<1> QED
  BY <1>3, <1>4 DEF members, Exists

LEMMA MemberRemoved ==
  ASSUME NEW file \in Documents, NEW slug \in Slugs, NEW picture, Exists(file, slug),
         NEW new, new = RemoveMember(file, slug, picture)
  PROVE  /\ new \in Documents /\ Exists(new, slug)
         /\ new[slug].members = file[slug].members \ {picture} /\ new[slug].activation = file[slug].activation
         /\ \A other \in Slugs : other # slug => new[other] = file[other]
<1> DEFINE members == file[slug].members \ {picture}
           entry == [file[slug] EXCEPT !.members = members]
<1>1. file[slug] \in Collections /\ members \in SUBSET Pictures
  BY Entries
<1>2. new = [file EXCEPT ![slug] = entry]
  BY DEF RemoveMember
<1> HIDE DEF members
<1>3. entry \in Collections /\ entry.exists /\ entry.members = members /\ entry.activation = file[slug].activation
  <2>1. entry = [file[slug] EXCEPT !.members = members]
    OBVIOUS
  <2> HIDE DEF entry
  <2> QED
    BY <1>1, <2>1 DEF Collections
<1> HIDE DEF entry
<1>4. /\ new \in Documents /\ new[slug] = entry
      /\ \A other \in Slugs : other # slug => new[other] = file[other]
  BY <1>2, <1>3 DEF Documents
<1> QED
  BY <1>3, <1>4 DEF members, Exists

\* A reservation makes the collection when it is missing, off, and adds the member.
LEMMA ReservationAdds ==
  ASSUME NEW file \in Documents, NEW slug \in Slugs, NEW picture \in Pictures,
         NEW new, new = Reserved(file, slug, picture)
  PROVE  /\ new \in Documents /\ Exists(new, slug)
         /\ new[slug].members = (IF Exists(file, slug) THEN file[slug].members ELSE {}) \cup {picture}
         /\ new[slug].activation = IF Exists(file, slug) THEN file[slug].activation ELSE Off
         /\ \A other \in Slugs : other # slug => new[other] = file[other]
<1>1. CASE Exists(file, slug)
  <2>1. new = AddMember(file, slug, picture)
    BY <1>1 DEF Reserved
  <2> QED
    BY <1>1, <2>1, MemberAdded
<1>2. CASE ~Exists(file, slug)
  <2> DEFINE entry == NewCollection(TRUE, Off)
             there == AddCollection(file, slug, entry)
  <2>1. new = AddMember(there, slug, picture)
    BY <1>2 DEF Reserved
  <2>2. entry \in Collections /\ entry.exists /\ entry.members = {} /\ entry.activation = Off
    <3>1. Off \in Activations
      BY DEF Activations
    <3> QED
      BY <3>1, NewlyMade
  <2> HIDE DEF entry
  <2>3. /\ there \in Documents /\ there[slug] = entry
        /\ \A other \in Slugs : other # slug => there[other] = file[other]
    BY <2>2 DEF AddCollection, Documents
  <2> HIDE DEF there
  <2>4. Exists(there, slug)
    BY <2>2, <2>3 DEF Exists
  <2>5. /\ new \in Documents /\ Exists(new, slug)
        /\ new[slug].members = there[slug].members \cup {picture} /\ new[slug].activation = there[slug].activation
        /\ \A other \in Slugs : other # slug => new[other] = there[other]
    BY <2>1, <2>3, <2>4, MemberAdded
  <2> QED
    BY <1>2, <2>2, <2>3, <2>5
<1> QED
  BY <1>1, <1>2

\* A release takes back what the reservation added, and no more.
LEMMA ReleaseTakes ==
  ASSUME NEW file \in Documents, NEW slug \in Slugs, NEW picture, NEW added, NEW created,
         NEW new, new = Released(file, slug, picture, added, created)
  PROVE  /\ new \in Documents
         /\ \A other \in Slugs : other # slug => new[other] = file[other]
         /\ Exists(new, slug) => Exists(file, slug) /\ new[slug].activation = file[slug].activation
         /\ Exists(file, slug) => \A p \in file[slug].members :
              (p # picture \/ ~added) => Exists(new, slug) /\ p \in new[slug].members
         /\ Exists(new, slug) => new[slug].members \subseteq file[slug].members
<1>1. CASE ~Exists(file, slug)
  <2>1. new = file
    BY <1>1 DEF Released
  <2> QED
    BY <1>1, <2>1
<1>2. CASE Exists(file, slug)
  <2> DEFINE without == IF added THEN RemoveMember(file, slug, picture) ELSE file
  <2>1. new = IF created /\ without[slug].members = {} THEN DeleteCollection(without, slug) ELSE without
    BY <1>2 DEF Released
  <2>2. /\ without \in Documents /\ Exists(without, slug) /\ without[slug].activation = file[slug].activation
        /\ without[slug].members = IF added THEN file[slug].members \ {picture} ELSE file[slug].members
        /\ \A other \in Slugs : other # slug => without[other] = file[other]
    <3>1. CASE added
      <4>1. without = RemoveMember(file, slug, picture)
        BY <3>1
      <4> HIDE DEF without
      <4> QED
        BY <1>2, <3>1, <4>1, MemberRemoved
    <3>2. CASE ~added
      BY <1>2, <3>2
    <3> QED
      BY <3>1, <3>2
  <2> HIDE DEF without
  <2>3. CASE new = without
    BY <1>2, <2>2, <2>3
  <2>4. CASE new = DeleteCollection(without, slug) /\ without[slug].members = {}
    <3>1. /\ new \in Documents /\ new[slug] = NoCollection
          /\ \A other \in Slugs : other # slug => new[other] = without[other]
      BY <2>2, <2>4 DEF DeleteCollection, Documents
    <3>2. ~Exists(new, slug)
      BY <3>1 DEF Exists, NoCollection
    <3> QED
      BY <1>2, <2>2, <2>4, <3>1, <3>2
  <2> QED
    BY <2>1, <2>3, <2>4
<1> QED
  BY <1>1, <1>2

-----------------------------------------------------------------------------
(* The folder and the collections.                                         *)

LEMMA UpdateStep ==
  ASSUME NEW file, Updated(file) \/ UpdateFails(file)
  PROVE  UNCHANGED <<readable, today, lastRules>> /\ rules' \in {rules, file} /\ (rules' # rules => readable)
BY DEF Updated, UpdateFails

\* A change by hand ends all promises; a failure that changed nothing ends none.
LEMMA EditStep ==
  ASSUME NEW file, Edited(file) \/ EditFails(file)
  PROVE  /\ UNCHANGED <<readable, today, lastRules>> /\ rules' \in {rules, file} /\ (rules' # rules => readable)
         /\ promised' = {} \/ (rules' = rules /\ promised' = promised)
BY UpdateStep DEF Edited, EditFails

ByHand(c) ==
  /\ UNCHANGED <<folder, pending, owed, readable, today, lastRules>>
  /\ rules' \in Documents /\ (rules' # rules => readable)
  /\ promised' = {} \/ (rules' = rules /\ promised' = promised)
  /\ client'[c].kind # "add"

\* A request changes the collections by hand, adds artwork to one, or leaves them alone.
LEMMA RequestRules ==
  ASSUME ClientsOK, FolderOK, NEW c \in Clients, NewRequest(c) \/ Handle(c) \/ Receive(c)
  PROVE  \/ ByHand(c) \/ StartAdd(c) \/ RecordKey(c) \/ Release(c)
         \/ Import(c) \/ ImportRefused(c) \/ ImportJournalled(c)
         \/ /\ UNCHANGED <<folder, pending, rules, readable, today, lastRules, promised>>
            /\ TakeGate(c) \/ GoneWaiting(c) \/ client'[c].kind # "add"
            /\ owed' \in {owed, {"art", "rules"}}
<1> USE DEF folderVars, themeVars
<1>1. /\ client \in [Clients -> Calls] /\ CallOK(client[c])
      /\ \A pc \in Stages : Becomes(c, pc) => client'[c].kind = client[c].kind
      /\ Answered(c) => client'[c].kind # "add"
      /\ rules \in Documents
  <2>1. client \in [Clients -> Calls] /\ CallOK(client[c]) /\ rules \in Documents
    BY DEF ClientsOK, FolderOK
  <2>2. /\ \A pc \in Stages : Becomes(c, pc) => client'[c].kind = client[c].kind
        /\ Answered(c) => client'[c] = Idling
        /\ Idling.kind = "none"
    BY <2>1, CallSteps
  <2> QED
    BY <2>1, <2>2
<1>2. CASE CreateCollection(c)
  <2>1. PICK slug \in Slugs, exclusive \in BOOLEAN, activation \in Chosen :
          /\ Arrives(c, "edit") /\ UNCHANGED client
          /\ Edit(AddCollection(rules, slug, NewCollection(exclusive, activation)))
    BY <1>2 DEF CreateCollection
  <2> DEFINE entry == NewCollection(exclusive, activation)
             file == AddCollection(rules, slug, entry)
  <2>2. entry \in Collections
    BY NewlyMade, RequestsAssumption
  <2> HIDE DEF entry
  <2>3. file \in Documents
    BY <1>1, <2>2 DEF AddCollection, Documents
  <2>4. (Edited(file) \/ EditFails(file)) /\ ElseUnchanged
    BY <2>1 DEF Edit, entry
  <2> HIDE DEF file
  <2>5. client'[c].kind # "add"
    BY <1>1, <2>1 DEF Arrives, CallOK, At, Idling
  <2> QED
    BY <1>1, <2>3, <2>4, <2>5, EditStep DEF ByHand, ElseUnchanged
<1>3. CASE UpdateCollection(c)
  <2>1. PICK slug \in Slugs, activation \in Chosen :
          /\ Arrives(c, "edit") /\ Exists(rules, slug)
          /\ Edited(Schedule(rules, slug, activation)) \/ EditFails(Schedule(rules, slug, activation))
          /\ Looks(c, "update") \/ UNCHANGED client
          /\ ElseUnchanged
    BY <1>3 DEF UpdateCollection
  <2> DEFINE entry == [rules[slug] EXCEPT !.activation = activation]
             file == Schedule(rules, slug, activation)
  <2>2. entry \in Collections
    <3>1. rules[slug] \in Collections /\ activation \in Activations
      BY <1>1, <2>1, Entries, RequestsAssumption
    <3> QED
      BY <3>1 DEF Collections
  <2>3. file = [rules EXCEPT ![slug] = entry]
    BY DEF Schedule
  <2> HIDE DEF entry
  <2>4. file \in Documents
    BY <1>1, <2>2, <2>3 DEF Documents
  <2> HIDE DEF file
  <2>5. client'[c].kind # "add"
    <3>1. CASE UNCHANGED client
      BY <1>1, <2>1, <3>1 DEF Arrives, CallOK, At, Idling
    <3>2. CASE Looks(c, "update")
      BY <1>1, <3>2 DEF Looks, Idling
    <3> QED
      BY <2>1, <3>1, <3>2
  <2> QED
    BY <1>1, <2>1, <2>4, <2>5, EditStep DEF ByHand, ElseUnchanged, file
<1>4. CASE RemoveCollection(c)
  <2>1. PICK slug \in Slugs :
          /\ Arrives(c, "edit") /\ UNCHANGED client
          /\ Edit(DeleteCollection(rules, slug))
    BY <1>4 DEF RemoveCollection
  <2> DEFINE file == DeleteCollection(rules, slug)
  <2>2. file \in Documents
    BY <1>1 DEF DeleteCollection, Documents
  <2>3. (Edited(file) \/ EditFails(file)) /\ ElseUnchanged
    BY <2>1 DEF Edit
  <2> HIDE DEF file
  <2>4. client'[c].kind # "add"
    BY <1>1, <2>1 DEF Arrives, CallOK, At, Idling
  <2> QED
    BY <1>1, <2>2, <2>3, <2>4, EditStep DEF ByHand, ElseUnchanged
<1>5. CASE RemoveFromCollection(c)
  <2>1. client'[c].kind # "add"
    BY <1>1, <1>5 DEF RemoveFromCollection
  <2>2. CASE \E slug \in Slugs, picture \in Pictures :
               /\ Exists(rules, slug) /\ picture \in rules[slug].members
               /\ Edit(RemoveMember(rules, slug, picture))
    <3>1. PICK slug \in Slugs, picture \in Pictures :
            Exists(rules, slug) /\ Edit(RemoveMember(rules, slug, picture))
      BY <2>2
    <3> DEFINE file == RemoveMember(rules, slug, picture)
    <3>2. (Edited(file) \/ EditFails(file)) /\ ElseUnchanged
      BY <3>1 DEF Edit
    <3> HIDE DEF file
    <3>3. file \in Documents
      BY <1>1, <3>1, MemberRemoved DEF file
    <3> QED
      BY <1>1, <2>1, <3>2, <3>3, EditStep DEF ByHand, ElseUnchanged
  <2>3. CASE UNCHANGED <<folderVars, themeVars, owed, promised>>
    BY <2>1, <2>3
  <2> QED
    BY <1>5, <2>2, <2>3 DEF RemoveFromCollection
<1>6. CASE StartUpload(c) \/ LookUp(c) \/ SyncNow(c)
  <2>1. /\ UNCHANGED <<folderVars, themeVars, promised>> /\ owed' \in {owed, {"art", "rules"}} /\ At(c, "idle")
    BY <1>6 DEF StartUpload, LookUp, SyncNow, Arrives
  <2>2. client'[c].kind # "add"
    <3>1. CASE UNCHANGED client
      BY <1>1, <2>1, <3>1 DEF CallOK, At, Idling
    <3>2. CASE LookUp(c)
      BY <1>1, <3>2 DEF LookUp, Looks, Idling
    <3>3. CASE StartUpload(c) /\ ~UNCHANGED client
      BY <1>1, <3>3 DEF StartUpload, Upload, Idling
    <3> QED
      BY <1>6, <3>1, <3>2, <3>3 DEF SyncNow
  <2> QED
    BY <2>1, <2>2
<1>7. CASE Receive(c)
  <2>1. client'[c].kind # "add"
    BY <1>1, <1>7 DEF Receive, CallOK, At, Stages
  <2> QED
    BY <1>7, <2>1 DEF Receive
<1>8. CASE TakeGate(c)
  BY <1>8 DEF TakeGate
<1>9. CASE GoneWaiting(c)
  BY <1>9 DEF GoneWaiting
<1>10. CASE Look(c) \/ LookFails(c) \/ Admit(c) \/ Render(c) \/ Rendered(c) \/ GoneQueued(c)
  <2>1. /\ UNCHANGED <<folderVars, themeVars, owed, promised>>
        /\ client[c].pc \in {"look", "admit", "render"}
    BY <1>10 DEF Look, LookFails, Admit, Render, Rendered, GoneQueued, At
  <2>2. Answered(c) \/ UNCHANGED client \/ \E pc \in Stages : Becomes(c, pc)
    <3>1. CASE Look(c)
      BY <1>1, <3>1 DEF Look, At, CallOK, Stages
    <3>2. CASE LookFails(c) \/ Admit(c) \/ Render(c) \/ Rendered(c) \/ GoneQueued(c)
      BY <3>2 DEF LookFails, Admit, Render, Rendered, GoneQueued, Stages
    <3> QED
      BY <1>10, <3>1, <3>2
  <2>3. client[c].kind # "add"
    BY <1>1, <2>1 DEF CallOK
  <2>4. client'[c].kind # "add"
    BY <1>1, <2>2, <2>3
  <2> QED
    BY <2>1, <2>4
<1> QED
  BY <1>2, <1>3, <1>4, <1>5, <1>6, <1>7, <1>8, <1>9, <1>10 DEF NewRequest, Handle

\* What the three requests that store pictures do to the folder.
LEMMA ImportStep ==
  ASSUME ClientsOK, FolderOK, NEW c \in Clients, Import(c) \/ ImportRefused(c) \/ ImportJournalled(c)
  PROVE  /\ client[c].picture \in Pictures /\ client[c].pc = "store"
         /\ folder' \in {Recovered, Recovered \cup {client[c].picture}} /\ pending' \subseteq {client[c].picture}
         /\ UNCHANGED <<rules, readable, today, lastRules, owed>> /\ promised' \subseteq promised
<1>1. client[c].pc = "store" /\ CallOK(client[c])
  BY DEF ClientsOK, Import, ImportRefused, ImportJournalled, At
<1>2. client[c].picture \in Pictures
  BY <1>1 DEF CallOK
<1> QED
  BY <1>1, <1>2 DEF Import, ImportRefused, ImportJournalled, Published, themeVars

LEMMA FolderByRequest ==
  ASSUME ClientsOK, FolderOK, NEW c \in Clients, NewRequest(c) \/ Handle(c) \/ Receive(c)
  PROVE  FolderOK' /\ folder \subseteq folder' /\ UNCHANGED <<readable, lastRules>> /\ (rules' # rules => readable)
<1>1. UNCHANGED <<snapshot, desired, covered, loop>>
  BY RequestKeeps
<1>2. \A d \in Clients : client[d].kind = "add" => client[d].picture \in Pictures /\ client[d].slug \in Slugs
  BY DEF ClientsOK, CallOK
<1>3. ASSUME UNCHANGED <<folder, pending, readable, today, lastRules>>, rules' \in Documents,
             owed' \in {owed, {"art", "rules"}}, rules' # rules => readable
      PROVE  FolderOK' /\ folder \subseteq folder' /\ UNCHANGED <<readable, lastRules>> /\ (rules' # rules => readable)
  BY <1>1, <1>3 DEF FolderOK
<1>4. CASE ByHand(c)
  BY <1>3, <1>4 DEF ByHand
<1>5. CASE StartAdd(c)
  <2>1. PICK slug \in Slugs, picture \in Added :
          /\ Updated(Reserved(rules, slug, picture)) \/ UpdateFails(Reserved(rules, slug, picture))
          /\ UNCHANGED <<folderVars, owed>>
    BY <1>5 DEF StartAdd
  <2> DEFINE file == Reserved(rules, slug, picture)
  <2>2. file \in Documents
    BY ReservationAdds, RequestsAssumption DEF FolderOK
  <2> HIDE DEF file
  <2>3. UNCHANGED <<readable, today, lastRules>> /\ rules' \in {rules, file} /\ (rules' # rules => readable)
    BY <2>1, UpdateStep DEF file
  <2> QED
    BY <1>3, <2>1, <2>2, <2>3 DEF FolderOK, folderVars
<1>6. CASE RecordKey(c)
  <2>1. client[c].kind = "add" /\ UNCHANGED <<folderVars, owed>>
    BY <1>6 DEF RecordKey, ClientsOK, CallOK, At
  <2> DEFINE file == AddMember(rules, client[c].slug, client[c].picture)
  <2>2. Exists(rules, client[c].slug) => file \in Documents
    BY <1>2, <2>1, MemberAdded DEF FolderOK
  <2>3. \/ Exists(rules, client[c].slug) /\ (Updated(file) \/ UpdateFails(file))
        \/ UNCHANGED themeVars
    BY <1>6 DEF RecordKey
  <2> HIDE DEF file
  <2> QED
    BY <1>3, <2>1, <2>2, <2>3, UpdateStep DEF FolderOK, folderVars, themeVars
<1>7. CASE Release(c)
  <2>1. client[c].kind = "add" /\ UNCHANGED <<folderVars, owed>>
    BY <1>7 DEF Release, ClientsOK, CallOK, At
  <2> DEFINE file == Released(rules, client[c].slug, client[c].picture, client[c].added, client[c].created)
  <2>2. file \in Documents
    BY <1>2, <2>1, ReleaseTakes DEF FolderOK
  <2>3. Updated(file) \/ UpdateFails(file)
    BY <1>7 DEF Release
  <2> HIDE DEF file
  <2> QED
    BY <1>3, <2>1, <2>2, <2>3, UpdateStep DEF FolderOK, folderVars
<1>8. CASE Import(c) \/ ImportRefused(c) \/ ImportJournalled(c)
  BY <1>1, <1>8, ImportStep DEF FolderOK, Recovered
<1>9. CASE UNCHANGED <<folder, pending, rules, readable, today, lastRules, promised>> /\ owed' \in {owed, {"art", "rules"}}
  BY <1>3, <1>9 DEF FolderOK
<1> QED
  BY <1>4, <1>5, <1>6, <1>7, <1>8, <1>9, RequestRules

LEMMA FolderByCycle ==
  ASSUME FolderOK, TVsOK, CycleNext
  PROVE  FolderOK' /\ folder \subseteq folder'
<1>1. UNCHANGED <<rules, readable, today>>
  BY CycleKeeps
<1>2. CASE UNCHANGED <<folder, pending, snapshot, desired, lastRules>>
           /\ owed' \subseteq owed /\ covered' \in {covered, owed}
           /\ (loop \in {"launch", "collect"} => loop' \in {"launch", "collect"})
  BY <1>1, <1>2 DEF FolderOK
<1>3. CASE UNCHANGED <<folder, pending, lastRules>> /\ snapshot' = {} /\ desired' = {}
           /\ owed' \subseteq owed /\ covered' = covered
  BY <1>1, <1>3 DEF FolderOK
<1>4. CASE Tick \/ Woken \/ LoopEnds \/ AcquireGate \/ QueueTransform \/ StartTransform \/ EndTransform
  BY <1>2, <1>4 DEF Tick, Woken, LoopEnds, BeginCycle, AcquireGate, QueueTransform, StartTransform, EndTransform,
                    folderVars, themeVars, choiceVars, debtVars
<1>5. CASE LaunchTV \/ StopLaunching \/ (\E t \in TVs : TVEnds(t)) \/ (\E t \in TVs : CollectTV(t))
  BY <1>2, <1>5 DEF LaunchTV, StopLaunching, TVEnds, CollectTV, folderVars, themeVars, choiceVars, debtVars
<1>6. CASE GateCanceled \/ LoadFails \/ TransformFails \/ PublishFails \/ ThemesFail \/ PolicyFails \/ FinishCycle
  BY <1>3, <1>6 DEF GateCanceled, LoadFails, TransformFails, PublishFails, ThemesFail, PolicyFails, FinishCycle,
                    CycleErr, EndCycle, Forgo, folderVars, themeVars
<1>7. CASE LoadSources
  <2>1. PICK found \in {{}} \cup {{picture} : picture \in {p \in Sourced : Fits(p)}} : folder' = Recovered \cup found
    BY <1>7 DEF LoadSources
  <2>2. found \subseteq Pictures
    BY CycleAssumption
  <2>3. pending' = {} /\ UNCHANGED <<lastRules, snapshot, desired, owed, covered>> /\ loop = "load"
    BY <1>7 DEF LoadSources, themeVars, choiceVars, debtVars
  <2> QED
    BY <1>1, <2>1, <2>2, <2>3 DEF FolderOK, Recovered
<1>8. CASE Publish
  <2>1. snapshot' = Limited(folder) /\ desired' = desired /\ UNCHANGED <<folder, pending, lastRules, covered>>
        /\ owed' \subseteq owed
    BY <1>8 DEF Publish, themeVars
  <2>2. Limited(folder) \subseteq folder
    BY DEF Limited
  <2>3. desired = {}
    BY <1>8 DEF Publish, FolderOK
  <2> QED
    BY <1>1, <2>1, <2>2, <2>3 DEF FolderOK
<1>9. CASE ReadThemes
  <2>1. /\ desired' = Select(InForce, snapshot, day) /\ UNCHANGED <<folder, pending, snapshot, covered>>
        /\ owed' \subseteq owed /\ lastRules' = InForce /\ (readable \/ lastRules # None)
        /\ loop' = "launch"
    BY <1>9 DEF ReadThemes, folderVars
  <2>2. Select(InForce, snapshot, day) \subseteq snapshot
    BY DEF Select
  <2> QED
    BY <1>1, <2>1, <2>2 DEF FolderOK, InForce
<1> QED
  BY <1>4, <1>5, <1>6, <1>7, <1>8, <1>9 DEF CycleNext

LEMMA FolderKept ==
  ASSUME ClientsOK, FolderOK, TVsOK, AppOK, [Next]_allVars
  PROVE  FolderOK'
<1>1. CASE Office \/ UNCHANGED allVars
  BY <1>1, OfficeKeeps DEF FolderOK, allVars, vars, folderVars, themeVars, choiceVars, debtVars
<1>2. CASE World
  <2>1. UNCHANGED <<folder, pending, snapshot, desired, rules, owed, covered, loop>>
    BY <1>2, WorldKeeps
  <2>2. lastRules' = lastRules
    BY <1>2 DEF World, Around, Breaks, Repaired, Midnight
  <2>3. today' \in Days
    BY <1>2, LastDayAssumption DEF World, Around, Breaks, Repaired, Midnight, FolderOK, Days
  <2> QED
    BY <2>1, <2>2, <2>3 DEF FolderOK
<1>3. CASE Prepare
  BY <1>3 DEF Prepare, BeginCycle, AppOK, FolderOK, Recovered, themeVars
<1>4. CASE Crash
  <2>1. /\ UNCHANGED <<folder, rules, today>> /\ snapshot' = {} /\ desired' = {} /\ lastRules' = None
        /\ owed' = {} /\ covered' = {}
    BY <1>4 DEF Crash
  <2>2. \A c \in Clients : At(c, "store") => client[c].picture \in Pictures
    BY DEF At, ClientsOK, CallOK
  <2>3. pending' \subseteq pending \cup {client[c].picture : c \in {d \in Clients : At(d, "store")}}
    BY <1>4 DEF Crash
  <2> QED
    BY <2>1, <2>2, <2>3 DEF FolderOK
<1> QED
  BY <1>1, <1>2, <1>3, <1>4, FolderByRequest, FolderByCycle, StepKinds

-----------------------------------------------------------------------------
(* Types and limits, a truthful /health, a clean exit.                      *)

LEMMA BaseAtFirst == Init => Base
<1> SUFFICES ASSUME Init
             PROVE  Base
  OBVIOUS
<1> USE DEF Init, CycleInit, RequestsInit, AppInit
<1>1. ClientsOK
  BY DEF ClientsOK, CallOK, Calls, Stages, Idling
<1>2. FolderOK
  <2>1. 1 \in Days /\ folder \subseteq Pictures
    BY LastDayAssumption, CycleAssumption DEF Days
  <2>2. rules \in Documents
    BY DEF Empty, Documents
  <2> QED
    BY <2>1, <2>2 DEF FolderOK
<1>3. GateOK
  BY CycleAssumption DEF GateOK, At, Idling
<1>4. PlacesOK
  BY FS_EmptySet, AdmissionAssumption DEF PlacesOK
<1>5. TVsOK
  <2>1. Running = {}
    BY DEF Running
  <2>2. Cardinality(Running) <= MaximumConcurrentTVs
    BY <2>1, FS_EmptySet, CycleAssumption
  <2> QED
    BY <2>2, CycleAssumption DEF TVsOK, Truthful
<1>6. AppOK
  BY DEF AppOK
<1> QED
  BY <1>1, <1>2, <1>3, <1>4, <1>5, <1>6 DEF Base

LEMMA BaseKept ==
  ASSUME Base, [Next]_allVars
  PROVE  Base'
BY ClientsKept, FolderKept, GateKept, PlacesKept, TVsKept, AppKept DEF Base

LEMMA BaseAlways == Spec => []Base
BY BaseAtFirst, BaseKept, PTL DEF Spec

\* However cycles, requests, faults, crashes and shutdowns interleave: at most
\* MaximumConcurrentTVs runs and TransformConcurrency transforms go on, no more than
\* the queue holds wait, one upload is received at a time, and nothing is ever
\* offered to a TV that is not in the snapshot of its cycle.
THEOREM WithinLimits == Spec => []TypeOK
<1>1. Base => TypeOK
  <2> SUFFICES ASSUME Base
               PROVE  TypeOK
    OBVIOUS
  <2>1. Cardinality(Uploading) <= 1
    <3>1. CASE Uploading = {}
      BY <3>1, FS_EmptySet
    <3>2. CASE Uploading # {}
      <4>1. PICK c : c \in Uploading
        BY <3>2
      <4>2. Uploading = {c}
        BY <4>1 DEF Uploading, Base, ClientsOK
      <4> QED
        BY <4>2, FS_Singleton
    <3> QED
      BY <3>1, <3>2
  <2> QED
    BY <2>1 DEF TypeOK, Base, FolderOK, GateOK, PlacesOK, TVsOK
<1> QED
  BY <1>1, BaseAlways, PTL

\* /health reports a good sync only after a cycle that ran every TV to a good end.
THEOREM HealthIsTruthful == Spec => []Truthful
<1>1. Base => Truthful
  BY DEF Base, TVsOK
<1> QED
  BY <1>1, BaseAlways, PTL

\* A process that stops without an error has nothing left in hand.
THEOREM NothingLeftBehind == Spec => []CleanExit
<1>1. Base => CleanExit
  <2> SUFFICES ASSUME Base, app = "exited", ~failed
               PROVE  /\ loop \in {"off", "ended"} /\ InFlight = {} /\ gate = None /\ Idle
                      /\ Running = {} /\ adapters = {}
    BY DEF CleanExit
  <2>1. InFlight = {} /\ completed = Children /\ adapters = {}
    BY DEF Base, AppOK
  <2>2. loop \in {"off", "ended"}
    BY <2>1 DEF Base, AppOK, Children
  <2>3. \A c \in Clients : ~At(c, "store") /\ ~At(c, "render")
    BY <2>1 DEF InFlight, At
  <2>4. gate = None
    BY <2>2, <2>3 DEF Base, GateOK
  <2>5. Idle
    BY <2>2, <2>3 DEF Base, PlacesOK, Idle
  <2>6. Running = {}
    BY <2>2 DEF Base, TVsOK, Running
  <2> QED
    BY <2>1, <2>2, <2>4, <2>5, <2>6
<1> QED
  BY <1>1, BaseAlways, PTL

-----------------------------------------------------------------------------
(* Hidden artwork stays hidden.                                            *)

\* The collections stay as they are, and no artwork appears that is to be hidden and is not.
LEMMA Unshaken ==
  ASSUME HiddenOK, rules' = rules, promised' \subseteq promised,
         snapshot' \subseteq folder', desired' \cap promised' = {}, ~readable' => lastRules' \in {None, rules},
         \A p \in promised' : p \in Recovered' => p \in Recovered \/ Hidden(rules, p),
         \A c \in Clients : client'[c].kind = "add" =>
           /\ client[c].kind = "add" /\ client'[c].picture = client[c].picture /\ client'[c].slug = client[c].slug
           /\ client'[c].added = client[c].added
           /\ client'[c].pc \in {"wait", "store"} => client[c].pc \in {"wait", "store"}
           /\ client'[c].pc = "release" => client[c].pc \in {"wait", "store", "release"}
           /\ client[c].picture \in promised' /\ client'[c].pc \in {"wait", "store", "release"} =>
                (client[c].picture \in Recovered' => client[c].picture \in Recovered)
  PROVE  HiddenOK'
<1>1. \A p \in promised' : p \in Recovered' => Hidden(rules', p)
  BY DEF HiddenOK
<1>2. \A c \in Clients : AddingOK(c)'
  <2> SUFFICES ASSUME NEW c \in Clients, client'[c].kind = "add", client'[c].picture \in promised'
               PROVE  /\ Exists(rules', client'[c].slug) => rules'[client'[c].slug].activation = Off
                      /\ client'[c].pc \in {"wait", "store"} => Hidden(rules', client'[c].picture)
                      /\ client'[c].pc \in {"wait", "store", "release"} /\ client'[c].added =>
                           \/ client'[c].picture \notin Recovered'
                           \/ Memberships(rules', client'[c].picture) \ {client'[c].slug} # {}
    BY DEF AddingOK
  <2>1. /\ client[c].kind = "add" /\ client[c].picture \in promised /\ AddingOK(c)
        /\ client'[c].picture = client[c].picture /\ client'[c].slug = client[c].slug
        /\ client'[c].added = client[c].added
    BY DEF HiddenOK
  <2> QED
    BY <2>1 DEF AddingOK
<1>3. \A c, d \in Clients : client'[c].kind = "add" /\ client'[d].kind = "add" /\ c # d =>
        client'[c].picture # client'[d].picture
  BY DEF HiddenOK
<1> QED
  BY <1>1, <1>2, <1>3 DEF HiddenOK

\* One request changes the collections, for one picture.
LEMMA Reruled ==
  ASSUME HiddenOK, ClientsOK, NEW c \in Clients, NEW picture, readable,
         UNCHANGED <<folder, pending, snapshot, desired, readable, lastRules>>,
         promised' \subseteq promised \cup {picture}, picture \in promised' => picture \notin desired,
         \A p \in promised' \ {picture} :
            Memberships(rules', p) = Memberships(rules, p) /\ (Hidden(rules, p) => Hidden(rules', p)),
         picture \in promised' /\ picture \in Recovered => Hidden(rules', picture),
         \A slug \in Slugs : Exists(rules', slug) =>
            rules'[slug].activation = Off \/ (Exists(rules, slug) /\ rules'[slug].activation = rules[slug].activation),
         \A d \in Clients \ {c} : client'[d] = client[d] /\ (client[d].kind = "add" => client[d].picture # picture),
         client'[c].kind = "add" => client'[c].picture = picture, AddingOK(c)'
  PROVE  HiddenOK'
<1>1. Recovered' = Recovered
  BY DEF Recovered
<1>2. desired' \cap promised' = {}
  BY DEF HiddenOK
<1>3. \A p \in promised' : p \in Recovered' => Hidden(rules', p)
  BY <1>1 DEF HiddenOK
<1>4. ASSUME NEW d \in Clients \ {c}
      PROVE  AddingOK(d)'
  <2> SUFFICES ASSUME client[d].kind = "add", client[d].picture \in promised'
               PROVE  /\ Exists(rules', client[d].slug) => rules'[client[d].slug].activation = Off
                      /\ client[d].pc \in {"wait", "store"} => Hidden(rules', client[d].picture)
                      /\ client[d].pc \in {"wait", "store", "release"} /\ client[d].added =>
                           \/ client[d].picture \notin Recovered'
                           \/ Memberships(rules', client[d].picture) \ {client[d].slug} # {}
    BY <1>4 DEF AddingOK
  <2>1. client[d].picture \in promised /\ client[d].picture # picture /\ client[d].slug \in Slugs
    BY DEF ClientsOK, CallOK
  <2>2. /\ Memberships(rules', client[d].picture) = Memberships(rules, client[d].picture)
        /\ Hidden(rules, client[d].picture) => Hidden(rules', client[d].picture)
    BY <2>1
  <2>3. AddingOK(d)
    BY DEF HiddenOK
  <2> QED
    BY <1>1, <2>1, <2>2, <2>3 DEF AddingOK
<1>5. \A d, e \in Clients : client'[d].kind = "add" /\ client'[e].kind = "add" /\ d # e =>
        client'[d].picture # client'[e].picture
  BY DEF HiddenOK
<1> QED
  BY <1>2, <1>3, <1>4, <1>5 DEF HiddenOK

\* Where nothing changes for a picture, it is hidden as before.
LEMMA HiddenAsBefore ==
  ASSUME NEW file, NEW new, NEW slug \in Slugs, NEW p,
         \A other \in Slugs : other # slug => new[other] = file[other],
         slug \in Memberships(new, p) <=> slug \in Memberships(file, p),
         slug \in Memberships(new, p) => new[slug].activation = file[slug].activation
  PROVE  Memberships(new, p) = Memberships(file, p) /\ (Hidden(file, p) => Hidden(new, p))
<1>1. Memberships(new, p) = Memberships(file, p)
  <2>1. \A other \in Slugs : other # slug => (other \in Memberships(new, p) <=> other \in Memberships(file, p))
    BY DEF Memberships, Exists
  <2>2. Memberships(new, p) \subseteq Slugs /\ Memberships(file, p) \subseteq Slugs
    BY DEF Memberships
  <2> QED
    BY <2>1, <2>2
<1>2. \A other \in Memberships(new, p) : new[other].activation = file[other].activation
  BY DEF Memberships
<1> QED
  BY <1>1, <1>2 DEF Hidden

\* A reservation hides nothing else and shows nothing that was hidden.
LEMMA HiddenByAdd ==
  ASSUME Sheltered, Base, HiddenOK, NEW c \in Clients, StartAdd(c)
  PROVE  HiddenOK'
<1>1. PICK slug \in Slugs, picture \in Added :
        LET reserved == Reserved(rules, slug, picture)
            added == ~Exists(rules, slug) \/ picture \notin rules[slug].members
        IN
        /\ Arrives(c, "add") /\ Alone(c, picture)
        /\ \/ /\ Updated(reserved)
              /\ client' = [client EXCEPT ![c] = [pc |-> "wait", kind |-> "add", picture |-> picture, slug |-> slug,
                                                  added |-> added, created |-> ~Exists(rules, slug)]]
              /\ promised' = CASE ~Hidden(reserved, picture)   -> promised \ {picture}
                               [] Hidden(reserved, picture)
                                  /\ picture \notin Recovered -> promised \cup {picture}
                               [] OTHER                        -> promised
           \/ /\ UpdateFails(reserved) /\ UNCHANGED client
              /\ promised' = IF rules' = rules \/ Hidden(reserved, picture) THEN promised ELSE promised \ {picture}
  BY DEF StartAdd, Sheltered
<1>2. UNCHANGED <<folder, pending, snapshot, desired>>
  BY RequestKeeps DEF StartAdd, folderVars, NewRequest
<1> DEFINE file == Reserved(rules, slug, picture)
<1>3. rules \in Documents /\ picture \in Pictures /\ client[c].pc = "idle" /\ client[c].kind = "none"
  BY <1>1, RequestsAssumption DEF Base, FolderOK, ClientsOK, CallOK, Arrives, At, Idling
<1>4. UNCHANGED <<readable, lastRules>> /\ rules' \in {rules, file} /\ (rules' # rules => readable)
  <2>1. Updated(file) \/ UpdateFails(file)
    BY <1>1
  <2> HIDE DEF file
  <2> QED
    BY <2>1, UpdateStep
<1>5. /\ file \in Documents /\ Exists(file, slug)
      /\ file[slug].members = (IF Exists(rules, slug) THEN rules[slug].members ELSE {}) \cup {picture}
      /\ file[slug].activation = IF Exists(rules, slug) THEN rules[slug].activation ELSE Off
      /\ \A other \in Slugs : other # slug => file[other] = rules[other]
  BY <1>3, ReservationAdds
<1>6. \A d \in Clients \ {c} : client[d].kind = "add" => client[d].picture # picture
  BY <1>1 DEF Alone
<1>7. Memberships(file, picture) = Memberships(rules, picture) \cup {slug}
  <2> HIDE DEF file
  <2> QED
    BY <1>5 DEF Memberships, Exists
<1>8. \A p : p # picture =>
        Memberships(file, p) = Memberships(rules, p) /\ (Hidden(rules, p) => Hidden(file, p))
  <2> HIDE DEF file
  <2> SUFFICES ASSUME NEW p, p # picture
               PROVE  Memberships(file, p) = Memberships(rules, p) /\ (Hidden(rules, p) => Hidden(file, p))
    OBVIOUS
  <2>1. slug \in Memberships(file, p) <=> slug \in Memberships(rules, p)
    BY <1>5 DEF Memberships
  <2>2. slug \in Memberships(file, p) => file[slug].activation = rules[slug].activation
    BY <1>5, <2>1 DEF Memberships
  <2> QED
    BY <1>5, <2>1, <2>2, HiddenAsBefore
<1>9. \A s \in Slugs : Exists(file, s) =>
        file[s].activation = Off \/ (Exists(rules, s) /\ file[s].activation = rules[s].activation)
  <2> HIDE DEF file
  <2> QED
    BY <1>5 DEF Exists
<1>10. CASE UpdateFails(file) /\ UNCHANGED client
            /\ promised' = IF rules' = rules \/ Hidden(file, picture) THEN promised ELSE promised \ {picture}
  <2> HIDE DEF file
  <2>1. CASE rules' = rules
    BY <1>2, <1>4, <1>10, <2>1, Unshaken DEF HiddenOK, Recovered
  <2>2. CASE rules' = file /\ rules' # rules
    <3>1. promised' \subseteq promised /\ (picture \in promised' => Hidden(file, picture))
      BY <1>10, <2>2
    <3>2. AddingOK(c)' /\ client'[c].kind # "add"
      BY <1>3, <1>10 DEF AddingOK
    <3>3. picture \in promised' => picture \notin desired
      BY <3>1 DEF HiddenOK
    <3> QED
      BY <1>2, <1>4, <1>6, <1>8, <1>9, <1>10, <2>2, <3>1, <3>2, <3>3, Reruled DEF Base
  <2> QED
    BY <1>4, <2>1, <2>2
<1>11. CASE /\ Updated(file)
            /\ client' = [client EXCEPT ![c] = [pc |-> "wait", kind |-> "add", picture |-> picture, slug |-> slug,
                            added |-> ~Exists(rules, slug) \/ picture \notin rules[slug].members,
                            created |-> ~Exists(rules, slug)]]
            /\ promised' = CASE ~Hidden(file, picture)   -> promised \ {picture}
                             [] Hidden(file, picture)
                                /\ picture \notin Recovered -> promised \cup {picture}
                             [] OTHER                        -> promised
  <2> HIDE DEF file
  <2>1. rules' = file /\ readable
    BY <1>11 DEF Updated
  <2>2. /\ promised' \subseteq promised \cup {picture} /\ (picture \in promised' => Hidden(file, picture))
        /\ picture \in Recovered /\ picture \in promised' => picture \in promised
    BY <1>11
  <2>3. /\ client'[c].pc = "wait" /\ client'[c].kind = "add" /\ client'[c].picture = picture /\ client'[c].slug = slug
        /\ client'[c].added = (~Exists(rules, slug) \/ picture \notin rules[slug].members)
        /\ \A d \in Clients \ {c} : client'[d] = client[d]
    BY <1>11 DEF Base, ClientsOK
  <2>4. picture \in promised' => picture \notin desired
    <3>1. snapshot \subseteq folder /\ desired \subseteq snapshot /\ desired \cap promised = {}
      BY DEF HiddenOK, Base, FolderOK
    <3> QED
      BY <2>2, <3>1 DEF Recovered
  <2>5. AddingOK(c)'
    <3> SUFFICES ASSUME picture \in promised'
                 PROVE  /\ file[slug].activation = Off
                        /\ Hidden(file, picture)
                        /\ client'[c].added =>
                             picture \notin Recovered' \/ Memberships(file, picture) \ {slug} # {}
      BY <2>1, <2>3 DEF AddingOK
    <3>1. Hidden(file, picture) /\ slug \in Memberships(file, picture)
      BY <1>7, <2>2
    <3>2. Recovered' = Recovered
      BY <1>2 DEF Recovered
    <3>3. ASSUME client'[c].added, picture \in Recovered
          PROVE  Memberships(file, picture) \ {slug} # {}
      <4>1. Hidden(rules, picture)
        BY <2>2, <3>3 DEF HiddenOK
      <4>2. slug \notin Memberships(rules, picture)
        BY <2>3, <3>3 DEF Memberships
      <4> QED
        BY <1>7, <4>1, <4>2 DEF Hidden
    <3> QED
      BY <3>1, <3>2, <3>3 DEF Hidden
  <2> QED
    BY <1>2, <1>4, <1>6, <1>8, <1>9, <2>1, <2>2, <2>3, <2>4, <2>5, Reruled DEF Base
<1> QED
  BY <1>1, <1>10, <1>11

LEMMA HiddenByRecord ==
  ASSUME Base, HiddenOK, NEW c \in Clients, RecordKey(c) \/ Release(c)
  PROVE  HiddenOK'
<1> DEFINE slug == client[c].slug
           picture == client[c].picture
<1>1. /\ client[c].kind = "add" /\ slug \in Slugs /\ picture \in Pictures /\ rules \in Documents
      /\ client'[c].kind # "add" /\ \A d \in Clients \ {c} : client'[d] = client[d]
  <2>1. client \in [Clients -> Calls] /\ CallOK(client[c]) /\ rules \in Documents
    BY DEF Base, ClientsOK, FolderOK
  <2>2. client[c].pc \in {"record", "release"} /\ Answered(c)
    BY DEF RecordKey, Release, At
  <2>3. client'[c].kind # "add" /\ \A d \in Clients \ {c} : client'[d] = client[d]
    BY <2>1, <2>2 DEF Answered, Idling
  <2> QED
    BY <2>1, <2>2, <2>3 DEF CallOK
<1>2. UNCHANGED <<folder, pending, snapshot, desired, promised>>
  BY RequestKeeps DEF RecordKey, Release, folderVars, Handle
<1>3. AddingOK(c) /\ AddingOK(c)' /\ (picture \in promised => picture \notin desired)
  BY <1>1, <1>2 DEF AddingOK, HiddenOK
<1>4. \A d \in Clients \ {c} : client[d].kind = "add" => client[d].picture # picture
  BY <1>1 DEF HiddenOK
<1>5. ASSUME rules' = rules, UNCHANGED <<readable, lastRules>>
      PROVE  HiddenOK'
  BY <1>1, <1>2, <1>5, Unshaken DEF HiddenOK, Recovered
<1>6. CASE RecordKey(c)
  <2> DEFINE file == AddMember(rules, slug, picture)
  <2>1. \/ UNCHANGED <<rules, readable, lastRules>>
        \/ Exists(rules, slug) /\ (Updated(file) \/ UpdateFails(file))
    BY <1>6 DEF RecordKey, themeVars
  <2>2. CASE Exists(rules, slug) /\ rules' = file /\ rules' # rules /\ readable /\ UNCHANGED <<readable, lastRules>>
    <3>1. /\ Exists(file, slug) /\ file[slug].members = rules[slug].members \cup {picture}
          /\ file[slug].activation = rules[slug].activation
          /\ \A other \in Slugs : other # slug => file[other] = rules[other]
      BY <1>1, <2>2, MemberAdded
    <3> HIDE DEF file
    <3>2. \A p : p # picture =>
            Memberships(file, p) = Memberships(rules, p) /\ (Hidden(rules, p) => Hidden(file, p))
      <4> SUFFICES ASSUME NEW p, p # picture
                   PROVE  Memberships(file, p) = Memberships(rules, p) /\ (Hidden(rules, p) => Hidden(file, p))
        OBVIOUS
      <4>1. slug \in Memberships(file, p) <=> slug \in Memberships(rules, p)
        BY <2>2, <3>1 DEF Memberships
      <4> QED
        BY <1>1, <3>1, <4>1, HiddenAsBefore
    <3>3. Memberships(file, picture) = Memberships(rules, picture) \cup {slug}
      BY <1>1, <3>1 DEF Memberships, Exists
    <3>4. \A other \in Slugs : other # slug => file[other].activation = rules[other].activation
      BY <3>1
    <3>5. ASSUME picture \in promised', picture \in Recovered
          PROVE  Hidden(file, picture)
      <4>1. Hidden(rules, picture) /\ rules[slug].activation = Off
        BY <1>1, <1>2, <2>2, <3>5 DEF HiddenOK, AddingOK
      <4>2. Memberships(rules, picture) \subseteq Slugs
        BY DEF Memberships
      <4> QED
        BY <3>1, <3>3, <3>4, <4>1, <4>2 DEF Hidden
    <3>6. \A s \in Slugs : Exists(file, s) => Exists(rules, s) /\ file[s].activation = rules[s].activation
      BY <2>2, <3>1, <3>4 DEF Exists
    <3> QED
      BY <1>1, <1>2, <1>3, <1>4, <2>2, <3>2, <3>5, <3>6, Reruled DEF Base
  <2> HIDE DEF file
  <2> QED
    BY <1>5, <2>1, <2>2, UpdateStep
<1>7. CASE Release(c)
  <2> DEFINE file == Released(rules, slug, picture, client[c].added, client[c].created)
  <2>1. Updated(file) \/ UpdateFails(file)
    BY <1>7 DEF Release
  <2>2. CASE rules' = file /\ rules' # rules /\ readable /\ UNCHANGED <<readable, lastRules>>
    <3>1. /\ \A other \in Slugs : other # slug => file[other] = rules[other]
          /\ Exists(file, slug) => Exists(rules, slug) /\ file[slug].activation = rules[slug].activation
          /\ Exists(rules, slug) => \A p \in rules[slug].members :
               (p # picture \/ ~client[c].added) => Exists(file, slug) /\ p \in file[slug].members
          /\ Exists(file, slug) => file[slug].members \subseteq rules[slug].members
      BY <1>1, ReleaseTakes
    <3> HIDE DEF file
    <3>2. \A p : p # picture \/ ~client[c].added =>
            Memberships(file, p) = Memberships(rules, p) /\ (Hidden(rules, p) => Hidden(file, p))
      <4> SUFFICES ASSUME NEW p, p # picture \/ ~client[c].added
                   PROVE  Memberships(file, p) = Memberships(rules, p) /\ (Hidden(rules, p) => Hidden(file, p))
        OBVIOUS
      <4>1. slug \in Memberships(file, p) <=> slug \in Memberships(rules, p)
        BY <3>1 DEF Memberships
      <4>2. slug \in Memberships(file, p) => file[slug].activation = rules[slug].activation
        BY <3>1 DEF Memberships
      <4> QED
        BY <1>1, <3>1, <4>1, <4>2, HiddenAsBefore
    <3>3. ASSUME picture \in promised', picture \in Recovered, client[c].added
          PROVE  Hidden(file, picture)
      <4>1. Hidden(rules, picture) /\ Memberships(rules, picture) \ {slug} # {}
        BY <1>1, <1>2, <1>7, <3>3 DEF HiddenOK, AddingOK, Release, At
      <4>2. Memberships(rules, picture) \ {slug} \subseteq Memberships(file, picture)
        BY <3>1 DEF Memberships, Exists
      <4>3. \A s \in Memberships(file, picture) :
              s \in Memberships(rules, picture) /\ file[s].activation = rules[s].activation
        BY <3>1 DEF Memberships, Exists
      <4> QED
        BY <4>1, <4>2, <4>3 DEF Hidden
    <3>4. ASSUME picture \in promised', picture \in Recovered
          PROVE  Hidden(file, picture)
      BY <1>2, <3>2, <3>3, <3>4 DEF HiddenOK
    <3>5. \A s \in Slugs : Exists(file, s) => Exists(rules, s) /\ file[s].activation = rules[s].activation
      BY <3>1 DEF Exists
    <3> QED
      BY <1>1, <1>2, <1>3, <1>4, <2>2, <3>2, <3>4, <3>5, Reruled DEF Base
  <2> HIDE DEF file
  <2> QED
    BY <1>5, <2>1, <2>2, UpdateStep
<1> QED
  BY <1>6, <1>7

\* Artwork only appears in the folder hidden as it is to be, or with its promise ended.
LEMMA HiddenByImport ==
  ASSUME Sheltered, Base, HiddenOK, NEW c \in Clients, Import(c) \/ ImportRefused(c) \/ ImportJournalled(c)
  PROVE  HiddenOK'
<1>1. /\ client \in [Clients -> Calls] /\ client[c].pc = "store" /\ client[c].kind \in {"upload", "add"}
      /\ UNCHANGED <<snapshot, desired, readable, lastRules, rules>>
  <2>1. client \in [Clients -> Calls] /\ client[c].pc = "store" /\ CallOK(client[c])
    BY DEF Import, ImportRefused, ImportJournalled, At, Base, ClientsOK
  <2>2. UNCHANGED <<snapshot, desired>>
    BY RequestKeeps DEF Handle
  <2> QED
    BY <2>1, <2>2 DEF CallOK, Import, ImportRefused, ImportJournalled, themeVars
<1>2. ~ImportJournalled(c)
  BY DEF ImportJournalled, Hit, Sheltered
<1>3. \/ /\ folder' = Recovered \cup {client[c].picture} /\ pending' = {}
         /\ \/ client[c].kind = "add" /\ Becomes(c, "record") /\ promised' = promised
            \/ client[c].kind # "add" /\ Answered(c) /\ promised' = promised \ {client[c].picture}
      \/ /\ folder' = Recovered /\ pending' = {} /\ promised' = promised
         /\ Becomes(c, "release") \/ Answered(c)
  BY <1>2 DEF Import, ImportRefused, ImportFails, Published
<1>4. /\ promised' \subseteq promised
      /\ \A p : p \in Recovered' =>
           p \in Recovered \/ (p = client[c].picture /\ (client[c].kind = "add" \/ p \notin promised'))
  BY <1>3 DEF Recovered
<1>5. snapshot' \subseteq folder' /\ desired' \cap promised' = {} /\ (~readable' => lastRules' \in {None, rules})
  <2>1. folder \subseteq folder'
    BY <1>3 DEF Recovered
  <2> QED
    BY <1>1, <1>4, <2>1 DEF HiddenOK
<1>6. \A p \in promised' : p \in Recovered' => p \in Recovered \/ Hidden(rules, p)
  BY <1>1, <1>4 DEF HiddenOK, AddingOK
<1>7. ASSUME NEW d \in Clients \ {c}
      PROVE  /\ client'[d] = client[d]
             /\ client[d].kind = "add" /\ client[d].picture \in promised' /\ client[d].picture \in Recovered' =>
                  client[d].picture \in Recovered
  <2>1. client'[d] = client[d]
    BY <1>1, <1>3, CallSteps DEF Stages
  <2>2. client[d].kind = "add" /\ client[c].kind = "add" => client[d].picture # client[c].picture
    BY DEF HiddenOK
  <2> QED
    BY <1>4, <2>1, <2>2
<1>8. client'[c].kind = "add" =>
        /\ client[c].kind = "add" /\ client'[c].picture = client[c].picture /\ client'[c].slug = client[c].slug
        /\ client'[c].added = client[c].added /\ client'[c].pc \in {"record", "release"}
        /\ client'[c].pc = "release" => folder' = Recovered /\ pending' = {}
  <2>1. ASSUME NEW pc \in {"record", "release"}, Becomes(c, pc)
        PROVE  /\ client'[c].pc = pc /\ client'[c].kind = client[c].kind
               /\ client'[c].picture = client[c].picture /\ client'[c].slug = client[c].slug
               /\ client'[c].added = client[c].added
    BY <1>1, <2>1, CallSteps DEF Stages
  <2>2. Answered(c) => client'[c].kind = "none"
    BY <1>1, CallSteps
  <2> QED
    BY <1>3, <2>1, <2>2
<1>9. ASSUME NEW d \in Clients, client'[d].kind = "add"
      PROVE  /\ client[d].kind = "add" /\ client'[d].picture = client[d].picture /\ client'[d].slug = client[d].slug
             /\ client'[d].added = client[d].added
             /\ client'[d].pc \in {"wait", "store"} => client[d].pc \in {"wait", "store"}
             /\ client'[d].pc = "release" => client[d].pc \in {"wait", "store", "release"}
             /\ client[d].picture \in promised' /\ client'[d].pc \in {"wait", "store", "release"} =>
                  (client[d].picture \in Recovered' => client[d].picture \in Recovered)
  <2>1. CASE d = c
    <3>1. client'[c].pc = "release" => Recovered' = Recovered
      BY <1>8, <1>9, <2>1 DEF Recovered
    <3> QED
      BY <1>1, <1>8, <1>9, <2>1, <3>1
  <2>2. CASE d # c
    BY <1>7, <1>9, <2>2
  <2> QED
    BY <2>1, <2>2
<1> QED
  BY <1>1, <1>4, <1>5, <1>6, <1>9, Unshaken

LEMMA HiddenByRequest ==
  ASSUME Sheltered, Base, HiddenOK, NEW c \in Clients, NewRequest(c) \/ Handle(c) \/ Receive(c)
  PROVE  HiddenOK'
<1>1. /\ UNCHANGED <<snapshot, desired>> /\ client \in [Clients -> Calls]
      /\ \A d \in Clients \ {c} : client'[d] = client[d]
  BY RequestKeeps, ClientsMove DEF Base, ClientsOK
<1>2. CASE ByHand(c)
  <2>1. CASE promised' = {}
    BY <1>1, <1>2, <2>1 DEF ByHand, HiddenOK, AddingOK
  <2>2. CASE rules' = rules /\ promised' = promised
    BY <1>1, <1>2, <2>2, Unshaken DEF ByHand, HiddenOK, Recovered
  <2> QED
    BY <1>2, <2>1, <2>2 DEF ByHand
<1>3. CASE /\ UNCHANGED <<folder, pending, rules, readable, today, lastRules, promised>>
           /\ TakeGate(c) \/ GoneWaiting(c) \/ client'[c].kind # "add"
  <2>1. client'[c].kind = "add" =>
          /\ client[c].kind = "add" /\ client'[c].picture = client[c].picture /\ client'[c].slug = client[c].slug
          /\ client'[c].added = client[c].added
          /\ client'[c].pc \in {"wait", "store"} => client[c].pc \in {"wait", "store"}
          /\ client'[c].pc = "release" => client[c].pc \in {"wait", "store", "release"}
    <3>1. CASE TakeGate(c)
      <4>1. Becomes(c, "store") /\ client[c].pc = "wait"
        BY <3>1 DEF TakeGate, At
      <4> QED
        BY <1>1, <4>1, CallSteps DEF Stages
    <3>2. CASE GoneWaiting(c)
      <4>1. CASE client[c].kind = "add"
        <5>1. Becomes(c, "release") /\ client[c].pc \in {"wait", "look"} /\ CallOK(client[c])
          BY <3>2, <4>1 DEF GoneWaiting, ImportFails, Base, ClientsOK
        <5> QED
          BY <1>1, <4>1, <5>1, CallSteps DEF Stages, CallOK
      <4>2. CASE client[c].kind # "add"
        <5>1. Answered(c)
          BY <3>2, <4>2 DEF GoneWaiting, ImportFails
        <5> QED
          BY <1>1, <5>1, CallSteps
      <4> QED
        BY <4>1, <4>2
    <3> QED
      BY <1>3, <3>1, <3>2
  <2> QED
    BY <1>1, <1>3, <2>1, Unshaken DEF HiddenOK, Recovered
<1> QED
  BY <1>2, <1>3, HiddenByAdd, HiddenByRecord, HiddenByImport, RequestRules DEF Base

\* A cycle chooses nothing that is to stay hidden.
LEMMA HiddenByCycle ==
  ASSUME Base, HiddenOK, CycleNext, UNCHANGED <<client, requests, appVars>>
  PROVE  HiddenOK'
<1>1. UNCHANGED <<rules, readable, client>>
  BY CycleKeeps DEF Base
<1>2. CASE /\ UNCHANGED <<folder, pending, lastRules, promised>>
           /\ snapshot' \in {snapshot, {}} /\ desired' \in {desired, {}}
  BY <1>1, <1>2, Unshaken DEF HiddenOK, Recovered
<1>3. CASE Tick \/ Woken \/ LoopEnds \/ AcquireGate \/ QueueTransform \/ StartTransform \/ EndTransform
  BY <1>2, <1>3 DEF Tick, Woken, LoopEnds, BeginCycle, AcquireGate, QueueTransform, StartTransform, EndTransform,
                    folderVars, themeVars, choiceVars
<1>4. CASE LaunchTV \/ StopLaunching \/ (\E t \in TVs : TVEnds(t)) \/ (\E t \in TVs : CollectTV(t))
  BY <1>2, <1>4 DEF LaunchTV, StopLaunching, TVEnds, CollectTV, folderVars, themeVars, choiceVars
<1>5. CASE GateCanceled \/ LoadFails \/ TransformFails \/ PublishFails \/ ThemesFail \/ PolicyFails \/ FinishCycle
  BY <1>2, <1>5 DEF GateCanceled, LoadFails, TransformFails, PublishFails, ThemesFail, PolicyFails, FinishCycle,
                    CycleErr, EndCycle, folderVars, themeVars
<1>6. CASE LoadSources
  <2>1. PICK found : folder' = Recovered \cup found /\ promised' = promised \ (found \ Recovered)
    BY <1>6 DEF LoadSources, Published
  <2>2. pending' = {} /\ UNCHANGED <<lastRules, snapshot, desired>>
    BY <1>6 DEF LoadSources, themeVars, choiceVars
  <2>3. /\ promised' \subseteq promised /\ folder \subseteq folder'
        /\ \A p \in promised' : p \in Recovered' => p \in Recovered
    BY <2>1, <2>2 DEF Recovered
  <2> QED
    BY <1>1, <2>2, <2>3, Unshaken DEF HiddenOK
<1>7. CASE Publish
  <2>1. snapshot' = Limited(folder) /\ UNCHANGED <<folder, pending, lastRules, desired, promised>>
    BY <1>7 DEF Publish, themeVars
  <2>2. snapshot' \subseteq folder'
    BY <2>1 DEF Limited
  <2> QED
    BY <1>1, <2>1, <2>2, Unshaken DEF HiddenOK, Recovered
<1>8. CASE ReadThemes
  <2>1. /\ desired' = Select(InForce, snapshot, day) /\ UNCHANGED <<folder, pending, snapshot, promised>>
        /\ lastRules' = InForce /\ (readable \/ lastRules # None)
    BY <1>8 DEF ReadThemes, folderVars
  <2>2. InForce = rules
    BY <2>1 DEF InForce, HiddenOK
  <2>3. ASSUME NEW p \in promised, p \in Select(rules, snapshot, day)
        PROVE  FALSE
    <3>1. p \in snapshot /\ (InActive(rules, p, day) \/ Everyday(rules, p))
      BY <2>3 DEF Select
    <3>2. Hidden(rules, p)
      BY <3>1 DEF HiddenOK, Recovered
    <3>3. PICK slug \in Memberships(rules, p) : slug \in ActiveCollections(rules, day)
      BY <3>1, <3>2 DEF InActive, Everyday, Hidden
    <3>4. ActiveAt(rules[slug].activation, day) /\ rules[slug].activation = Off
      BY <3>2, <3>3 DEF ActiveCollections, Hidden
    <3> QED
      BY <3>4 DEF ActiveAt, Off
  <2>4. desired' \cap promised' = {}
    BY <2>1, <2>2, <2>3
  <2> QED
    BY <1>1, <2>1, <2>2, <2>4, Unshaken DEF HiddenOK, Recovered
<1> QED
  BY <1>3, <1>4, <1>5, <1>6, <1>7, <1>8 DEF CycleNext

LEMMA HiddenKept ==
  ASSUME Sheltered, Base, HiddenOK, [Next]_allVars
  PROVE  HiddenOK'
<1>1. CASE Office \/ UNCHANGED allVars
  <2>1. UNCHANGED <<folder, pending, rules, readable, lastRules, snapshot, desired, promised, client>>
    BY <1>1, OfficeKeeps DEF allVars, vars, folderVars, themeVars, choiceVars
  <2> QED
    BY <2>1, Unshaken DEF HiddenOK, Recovered
<1>2. CASE World
  <2>1. UNCHANGED <<folder, pending, rules, snapshot, desired, promised, client>>
    BY <1>2, WorldKeeps
  <2>2. ~readable' => lastRules' \in {None, rules}
    <3>1. CASE Breaks
      BY <3>1 DEF Breaks, Hit, Sheltered
    <3>2. CASE Repaired
      BY <3>2 DEF Repaired
    <3>3. CASE Midnight
      BY <3>3 DEF Midnight, HiddenOK
    <3> QED
      BY <1>2, <3>1, <3>2, <3>3 DEF World, Around
  <2> QED
    BY <2>1, <2>2, Unshaken DEF HiddenOK, Recovered
<1>3. CASE Prepare
  <2>1. /\ UNCHANGED <<rules, readable, lastRules, snapshot, desired, promised, client>>
        /\ folder' = Recovered /\ pending' = {}
    BY <1>3 DEF Prepare, BeginCycle, themeVars
  <2>2. Recovered' = Recovered /\ folder \subseteq folder'
    BY <2>1 DEF Recovered
  <2> QED
    BY <2>1, <2>2, Unshaken DEF HiddenOK
<1>4. CASE Crash
  <2>1. /\ UNCHANGED <<folder, rules, readable>> /\ snapshot' = {} /\ desired' = {} /\ lastRules' = None
        /\ promised' = promised \ {client[c].picture : c \in {d \in Clients : At(d, "store") /\ client[d].kind = "upload"}}
        /\ pending' \subseteq pending \cup {client[c].picture : c \in {d \in Clients : At(d, "store")}}
    BY <1>4 DEF Crash
  <2>2. \A c \in Clients : client'[c].kind = "none"
    BY <1>4 DEF Crash, Idling
  <2>3. ASSUME NEW p \in promised', p \in Recovered'
        PROVE  p \in Recovered \/ Hidden(rules, p)
    <3>1. CASE p \in folder \cup pending
      BY <3>1 DEF Recovered
    <3>2. CASE \E c \in Clients : At(c, "store") /\ p = client[c].picture
      <4>1. PICK c \in Clients : At(c, "store") /\ p = client[c].picture
        BY <3>2
      <4>2. client[c].kind = "add" /\ p \in promised
        BY <2>1, <2>3, <4>1 DEF Base, ClientsOK, CallOK, At
      <4> QED
        BY <4>1, <4>2 DEF HiddenOK, AddingOK, At
    <3> QED
      BY <2>1, <2>3, <3>1, <3>2 DEF Recovered
  <2> QED
    BY <2>1, <2>2, <2>3, Unshaken
<1> QED
  BY <1>1, <1>2, <1>3, <1>4, HiddenByRequest, HiddenByCycle, StepKinds

\* Artwork that was put into a collection that is off is on no TV, whatever goes on
\* beside the cycle: unless a store operation fails with its journal written, two
\* requests add one picture, or the file becomes unreadable before a cycle read it.
THEOREM KeptHidden == Sheltered => (Spec => []HiddenStaysHidden)
<1> SUFFICES ASSUME Sheltered
             PROVE  Spec => []HiddenStaysHidden
  OBVIOUS
<1>1. Init => HiddenOK
  BY DEF Init, CycleInit, RequestsInit, HiddenOK, AddingOK, Idling
<1>2. Base /\ HiddenOK /\ [Next]_allVars => HiddenOK'
  BY HiddenKept
<1>3. HiddenOK => HiddenStaysHidden
  BY DEF HiddenOK, HiddenStaysHidden
<1> QED
  BY <1>1, <1>2, <1>3, BaseAlways, PTL DEF Spec
=============================================================================
