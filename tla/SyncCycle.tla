------------------------------ MODULE SyncCycle ------------------------------
(* One sync cycle after the other: the artwork folder is brought up to date  *)
(* under the gate all its writers share, the themed collections choose what  *)
(* is wanted today, every TV is converged on that choice by a bounded number *)
(* of workers, and the outcome becomes the health of the service.            *)
(*                                                                           *)
(* The folder is a set of pictures and a store operation one step: that it   *)
(* is atomic, and that the next one finishes what a failed one left behind,  *)
(* is what ArtworkCollection shows.  A TV's run is one step that succeeds or *)
(* fails: what happens in it is modelled by Reconcile.                       *)
EXTENDS Themes, Admission

CONSTANTS NumTVs,
          MaximumConcurrentTVs,
          MaxImages,     \* MAX_ARTWORK_IMAGES; 0: no limit
          Sourced,       \* pictures the artwork sources may download
          Initial,       \* what the owner may have in the folder at the start
          Clients,       \* who sends requests to the HTTP server
          Hazards, Budget,
          None

TVs == 1 .. NumTVs

Cycle == "cycle"

ASSUME CycleAssumption == /\ NumTVs \in Nat \ {0} /\ MaximumConcurrentTVs \in Nat \ {0}
                          /\ MaxImages \in Nat /\ Pictures \subseteq Nat
                          /\ Sourced \subseteq Pictures /\ Initial \subseteq SUBSET Pictures /\ Cycle \notin Clients
                          /\ None \notin Clients \cup {Cycle}

VARIABLES
  folder,      \* artwork the collection has committed
  pending,     \* artwork of a transaction that failed after its journal was written
  rules,       \* the committed collections.json
  readable,    \* whether it can be read
  today,
  gate,        \* who holds the collection's mutation gate
  loop,        \* where RunLoop is
  wake,        \* a cycle was requested (a channel of one place)
  canceled,    \* the context of the cycle was canceled
  day, snapshot, desired, degraded, lastRules,
  launched, tv, tvErrors,
  synced,      \* the last sync: "never", "ok" or "failed"
  status,      \* the published status of each TV
  budget,
  owed,        \* for the properties: what a sync was requested for and no cycle has taken up
  covered,     \* ... what of it the present cycle found at its start
  fresh,       \* ... TVs whose status is of the last cycle
  promised     \* ... artwork that was put into a hidden collection and must stay hidden

folderVars == <<folder, pending, gate>>
themeVars == <<rules, readable, today, lastRules>>
tvVars == <<launched, tv, tvErrors, status, fresh>>
choiceVars == <<day, snapshot, desired, degraded>>
debtVars == <<owed, covered>>

\* What hits a behaviour from outside happens Budget times at most.
Hit(hazard) == hazard \in Hazards /\ budget > 0 /\ budget' = budget - 1

CycleInit ==
  /\ folder \in Initial /\ pending = {} /\ rules = Empty /\ readable = TRUE /\ today = 1
  /\ gate = None /\ loop = "off" /\ wake = FALSE /\ canceled = FALSE
  /\ day = 1 /\ snapshot = {} /\ desired = {} /\ degraded = FALSE /\ lastRules = None
  /\ launched = 0 /\ tv = [t \in TVs |-> "idle"] /\ tvErrors = FALSE
  /\ synced = "never" /\ status = [t \in TVs |-> "unknown"]
  /\ capacity = {} /\ active = {}
  /\ budget = Budget /\ owed = {} /\ covered = {} /\ fresh = {} /\ promised = {}

-----------------------------------------------------------------------------
\* RunLoop runs a cycle at once when it starts, then one for every tick of the
\* interval and for every wake, until it is canceled.

BeginCycle ==
  /\ loop' = "gate" /\ day' = today /\ covered' = owed /\ fresh' = {}
  /\ UNCHANGED <<snapshot, desired, degraded, launched, tv, tvErrors>>

Tick ==
  /\ loop = "select" /\ ~canceled
  /\ BeginCycle
  /\ UNCHANGED <<folderVars, themeVars, admission, wake, canceled, synced, status, budget, owed, promised>>

Woken ==
  /\ loop = "select" /\ wake /\ ~canceled
  /\ wake' = FALSE
  /\ BeginCycle
  /\ UNCHANGED <<folderVars, themeVars, admission, canceled, synced, status, budget, owed, promised>>

LoopEnds ==
  /\ loop = "select" /\ canceled
  /\ loop' = "ended"
  /\ UNCHANGED <<folderVars, themeVars, choiceVars, tvVars, debtVars, admission, wake, canceled, synced, budget, promised>>

\* The requests a cycle began with were for this cycle, although it failed.
Forgo == owed' = owed \ covered /\ UNCHANGED covered

\* What a cycle worked with goes out of scope when it returns.
EndCycle(outcome) ==
  /\ synced' = outcome /\ loop' = "select"
  /\ day' = 1 /\ snapshot' = {} /\ desired' = {} /\ degraded' = FALSE
  /\ launched' = 0 /\ tv' = [t \in TVs |-> "idle"] /\ tvErrors' = FALSE
  /\ Forgo
  /\ UNCHANGED <<themeVars, status, fresh, wake, canceled, promised>>

CycleErr == EndCycle("failed")

LeaveGate == gate' = IF gate = Cycle THEN None ELSE gate

-----------------------------------------------------------------------------
\* prepareCycle: the gate is held from before the inventory until the snapshot.

AcquireGate ==
  /\ loop = "gate" /\ gate = None /\ ~canceled
  /\ gate' = Cycle /\ loop' = "load"
  /\ UNCHANGED <<folder, pending, themeVars, choiceVars, tvVars, debtVars, admission, wake, canceled, synced, budget, promised>>

GateCanceled ==
  /\ loop = "gate" /\ canceled
  /\ CycleErr
  /\ UNCHANGED <<folderVars, admission, budget>>

\* Every store operation first finishes what an earlier one left in its journal.
Recovered == folder \cup pending

\* Published by something else than a request for a hidden collection.
Published(pictures) == promised' = promised \ pictures

\* An import is refused when the folder is full.
Fits(picture) == picture \in Recovered \/ MaxImages = 0 \/ Cardinality(Recovered) < MaxImages

\* The inventory, the sources (whose failure is only a warning) and the
\* inventory again; then whether something has to be optimized.
LoadSources ==
  /\ loop = "load" /\ ~canceled
  /\ \E found \in {{}} \cup {{picture} : picture \in {p \in Sourced : Fits(p)}} :
       /\ folder' = Recovered \cup found
       /\ Published(found \ Recovered)
  /\ pending' = {}
  /\ loop' \in {"optimize", "publish"}
  /\ UNCHANGED <<gate, themeVars, choiceVars, tvVars, debtVars, admission, wake, canceled, synced, budget>>

LoadFails ==
  /\ loop = "load"
  /\ \/ canceled /\ UNCHANGED budget
     \/ Hit("store")
  /\ LeaveGate /\ CycleErr
  /\ UNCHANGED <<folder, pending, admission>>

\* The transform waits for its place and its slot with the gate held.
QueueTransform ==
  /\ loop = "optimize" /\ Cycle \notin capacity
  /\ Reserve(Cycle)
  /\ UNCHANGED <<folderVars, themeVars, choiceVars, tvVars, debtVars, loop, wake, canceled, synced, budget, promised>>

StartTransform ==
  /\ loop = "optimize"
  /\ Activate(Cycle)
  /\ UNCHANGED <<folderVars, themeVars, choiceVars, tvVars, debtVars, loop, wake, canceled, synced, budget, promised>>

EndTransform ==
  /\ loop = "optimize"
  /\ Leave(Cycle)
  /\ loop' = "publish"
  /\ UNCHANGED <<folderVars, themeVars, choiceVars, tvVars, debtVars, wake, canceled, synced, budget, promised>>

TransformFails ==
  /\ loop = "optimize"
  /\ \/ canceled /\ UNCHANGED budget
     \/ Hit("transform") /\ Cycle \in active
  /\ \/ Cycle \notin capacity /\ UNCHANGED admission
     \/ GiveUp(Cycle)
     \/ Leave(Cycle)
  /\ LeaveGate /\ CycleErr
  /\ UNCHANGED <<folder, pending>>

\* limitSnapshot: the first MaxImages pictures by name.
Limited(pictures) ==
  IF MaxImages = 0 THEN pictures
  ELSE {picture \in pictures : Cardinality({other \in pictures : other < picture}) < MaxImages}

Publish ==
  /\ loop = "publish" /\ ~canceled
  /\ snapshot' = Limited(folder) /\ loop' = "themes"
  /\ owed' = owed \ {"art"}
  /\ LeaveGate
  /\ UNCHANGED <<folder, pending, themeVars, day, desired, degraded, tvVars, covered, admission, wake, canceled, synced, budget, promised>>

PublishFails ==
  /\ loop = "publish"
  /\ \/ canceled /\ UNCHANGED budget
     \/ Hit("store")
  /\ LeaveGate /\ CycleErr
  /\ UNCHANGED <<folder, pending, admission>>

-----------------------------------------------------------------------------
\* selectThemedArtwork: a document that cannot be read leaves the last good
\* one of this process in force; without one the cycle fails before TV work.
InForce == IF readable THEN rules ELSE lastRules

ReadThemes ==
  /\ loop = "themes"
  /\ readable \/ (lastRules # None /\ ~canceled)
  /\ lastRules' = InForce
  /\ desired' = Select(InForce, snapshot, day)
  /\ degraded' = ~readable
  /\ owed' = owed \ {"rules"}
  /\ loop' = "launch"
  /\ UNCHANGED <<folderVars, rules, readable, today, day, snapshot, tvVars, covered, admission, wake, canceled, synced, budget, promised>>

ThemesFail ==
  /\ loop = "themes"
  /\ canceled \/ (~readable /\ lastRules = None)
  /\ CycleErr
  /\ UNCHANGED <<folderVars, admission, budget>>

\* The matte file cannot be read, or the policy built from it is invalid.
PolicyFails ==
  /\ loop = "launch" /\ launched = 0
  /\ \/ canceled /\ UNCHANGED budget
     \/ Hit("policy")
  /\ CycleErr
  /\ UNCHANGED <<folderVars, admission>>

-----------------------------------------------------------------------------
\* syncAll: the TVs in order, each as soon as a worker is free; a canceled
\* cycle launches no more of them, and still waits for those it launched.

Running == {t \in TVs : tv[t] = "running"}

LaunchTV ==
  /\ loop = "launch" /\ ~canceled /\ launched < NumTVs
  /\ Cardinality(Running) < MaximumConcurrentTVs
  /\ launched' = launched + 1 /\ tv' = [tv EXCEPT ![launched + 1] = "running"]
  /\ UNCHANGED <<folderVars, themeVars, choiceVars, debtVars, admission, loop, wake, canceled, tvErrors, synced, status, fresh, budget, promised>>

StopLaunching ==
  /\ loop = "launch"
  /\ launched = NumTVs \/ canceled
  /\ loop' = "collect"
  /\ UNCHANGED <<folderVars, themeVars, choiceVars, tvVars, debtVars, admission, wake, canceled, synced, budget, promised>>

\* A run of a TV ends well, also when the TV was rightly skipped, or fails.
TVEnds(t) ==
  /\ tv[t] = "running"
  /\ \/ tv' = [tv EXCEPT ![t] = "ok"] /\ UNCHANGED budget
     \/ tv' = [tv EXCEPT ![t] = "failed"] /\ Hit("tv")
     \/ canceled /\ tv' = [tv EXCEPT ![t] = "failed"] /\ UNCHANGED budget
  /\ UNCHANGED <<folderVars, themeVars, choiceVars, debtVars, admission, loop, wake, canceled, launched, tvErrors, synced, status, fresh, promised>>

\* publishTVHealth, for one result after the other.
CollectTV(t) ==
  /\ loop = "collect" /\ tv[t] \in {"ok", "failed"}
  /\ status' = [status EXCEPT ![t] = tv[t]] /\ fresh' = fresh \cup {t}
  /\ tvErrors' = (tvErrors \/ tv[t] = "failed")
  /\ tv' = [tv EXCEPT ![t] = "idle"]
  /\ UNCHANGED <<folderVars, themeVars, choiceVars, debtVars, admission, loop, wake, canceled, launched, synced, budget, promised>>

\* Mutant: the TVs a canceled cycle did not reach are forgotten.
FlawedAsSeen == tvErrors \/ degraded

\* A cycle that was cut short, met an error or ran on old rules is a failed one.
Flawed == tvErrors \/ canceled \/ degraded

FinishCycle ==
  /\ loop = "collect" /\ \A t \in TVs : tv[t] = "idle"
  /\ EndCycle(IF Flawed THEN "failed" ELSE "ok")
  /\ UNCHANGED <<folderVars, admission, budget>>

CycleNext ==
  \/ Tick \/ Woken \/ LoopEnds
  \/ AcquireGate \/ GateCanceled \/ LoadSources \/ LoadFails
  \/ QueueTransform \/ StartTransform \/ EndTransform \/ TransformFails
  \/ Publish \/ PublishFails \/ ReadThemes \/ ThemesFail \/ PolicyFails
  \/ LaunchTV \/ StopLaunching \/ (\E t \in TVs : TVEnds(t)) \/ (\E t \in TVs : CollectTV(t)) \/ FinishCycle

\* The loop has work in hand, as opposed to a tick of the clock.
CycleSteps ==
  \/ Woken \/ LoopEnds
  \/ AcquireGate \/ GateCanceled \/ LoadSources \/ LoadFails
  \/ QueueTransform \/ StartTransform \/ EndTransform \/ TransformFails
  \/ Publish \/ PublishFails \/ ReadThemes \/ ThemesFail \/ PolicyFails
  \/ LaunchTV \/ StopLaunching \/ (\E t \in TVs : CollectTV(t)) \/ FinishCycle
=============================================================================
