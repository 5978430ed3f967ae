------------------------------- MODULE Manager -------------------------------
(* The process: the supervisor that binds the server, prepares the artwork   *)
(* folder, runs the sync loop, and takes both down on a signal or when the   *)
(* server dies, within a bounded time.                                       *)
EXTENDS Requests

VARIABLES
  app,         \* where Run of the application is
  stop,        \* the context of the process was canceled by a signal
  lifecycle,   \* what /live and /health report
  failed,      \* Run returns an error
  http,        \* the server: "unbound", "serving", "dead", "draining" or "closed"
  completed,   \* the children whose end was collected
  drained,     \* Shutdown of the server returned: no request is in flight
  expired,     \* the time for the shutdown is over
  adapters     \* the TVs whose connection is not closed yet

appVars == <<app, stop, lifecycle, failed, http, completed, drained, expired, adapters>>

allVars == <<vars, appVars>>

AppInit ==
  /\ app = "bind" /\ stop = FALSE /\ lifecycle = "starting" /\ failed = FALSE
  /\ http = "unbound" /\ completed = {} /\ drained = FALSE /\ expired = FALSE /\ adapters = TVs

Init == CycleInit /\ RequestsInit /\ AppInit

\* What an action of the supervisor leaves to the others.
Apart == <<folderVars, themeVars, choiceVars, tvVars, debtVars, admission, loop, wake, synced, promised, client, requests>>

-----------------------------------------------------------------------------
\* Start.

Bind ==
  /\ app = "bind" /\ ~stop
  /\ app' = "prepare" /\ http' = "serving"
  /\ UNCHANGED <<Apart, canceled, budget, stop, lifecycle, failed, completed, drained, expired, adapters>>

\* Without a server there is nothing to drain: the resources are closed at once.
BindFails ==
  /\ app = "bind"
  /\ \/ stop /\ UNCHANGED budget
     \/ Hit("bind")
  /\ app' = "close" /\ lifecycle' = "failed" /\ failed' = TRUE
  /\ UNCHANGED <<Apart, canceled, stop, http, completed, drained, expired, adapters>>

\* The folder is inventoried, under the gate, before the loop starts: what a
\* transaction left behind is completed.  The server answers requests by then.
Prepare ==
  /\ app = "prepare" /\ ~stop
  /\ gate = None /\ folder' = Recovered /\ pending' = {} /\ UNCHANGED gate
  /\ app' = "ready" /\ lifecycle' = "ready"
  /\ BeginCycle
  /\ UNCHANGED <<themeVars, admission, wake, canceled, synced, status, budget, owed, promised, client, requests>>
  /\ UNCHANGED <<stop, failed, http, completed, drained, expired, adapters>>

Draining == http' = IF http = "serving" THEN "draining" ELSE http

PrepareFails ==
  /\ app = "prepare"
  /\ \/ stop /\ UNCHANGED budget
     \/ Hit("store")
  /\ app' = "shutdown" /\ lifecycle' = "failed" /\ failed' = TRUE
  /\ canceled' = TRUE /\ Draining
  /\ UNCHANGED <<Apart, stop, completed, drained, expired, adapters>>

-----------------------------------------------------------------------------
\* waitForStop.

Signal ==
  /\ ~stop /\ app # "exited"
  /\ stop' = TRUE /\ canceled' = TRUE
  /\ UNCHANGED <<Apart, budget, app, lifecycle, failed, http, completed, drained, expired, adapters>>

ServerDies ==
  /\ http = "serving" /\ Hit("http")
  /\ http' = "dead"
  /\ UNCHANGED <<Apart, canceled, app, stop, lifecycle, failed, completed, drained, expired, adapters>>

Stopped ==
  /\ app = "ready" /\ stop
  /\ app' = "shutdown" /\ lifecycle' = "stopping"
  /\ Draining
  /\ UNCHANGED <<Apart, canceled, budget, stop, failed, completed, drained, expired, adapters>>

ChildDied ==
  /\ app = "ready" /\ ~stop /\ http = "dead"
  /\ app' = "shutdown" /\ lifecycle' = "failed" /\ failed' = TRUE
  /\ completed' = completed \cup {"http"}
  /\ canceled' = TRUE
  /\ UNCHANGED <<Apart, budget, stop, http, drained, expired, adapters>>

-----------------------------------------------------------------------------
\* shutdown: the children and the server's Shutdown are awaited until the time
\* is over.

Children == {"http"} \cup (IF loop = "off" THEN {} ELSE {"cycle"})

\* Mutant: the requests in flight are not waited for.
ShutDownAtOnce == completed = Children

ShutDown == completed = Children /\ drained

Collect(child) ==
  /\ app = "shutdown" /\ child \notin completed
  /\ \/ child = "cycle" /\ loop = "ended" /\ UNCHANGED failed
     \/ child = "http" /\ failed' = (failed \/ http = "dead")
  /\ completed' = completed \cup {child}
  /\ UNCHANGED <<Apart, canceled, budget, app, stop, lifecycle, http, drained, expired, adapters>>

\* Shutdown of the server returns when no request is in flight.
Drained ==
  /\ app = "shutdown" /\ ~drained /\ InFlight = {}
  /\ drained' = TRUE
  /\ UNCHANGED <<Apart, canceled, budget, app, stop, lifecycle, failed, http, completed, expired, adapters>>

FinishShutdown ==
  /\ app = "shutdown" /\ ShutDown
  /\ app' = "close" /\ http' = "closed"
  /\ UNCHANGED <<Apart, canceled, budget, stop, lifecycle, failed, completed, drained, expired, adapters>>

\* Mutant: the drain of the server has no deadline.
ExpireDrained ==
  /\ app = "shutdown" /\ ~ShutDown /\ InFlight = {}
  /\ app' = "close" /\ http' = "closed" /\ expired' = TRUE /\ failed' = TRUE
  /\ UNCHANGED <<Apart, canceled, budget, stop, lifecycle, completed, drained, adapters>>

Expire ==
  /\ app = "shutdown" /\ ~ShutDown
  /\ app' = "close" /\ http' = "closed" /\ expired' = TRUE /\ failed' = TRUE
  /\ UNCHANGED <<Apart, canceled, budget, stop, lifecycle, completed, drained, adapters>>

\* closeResources: with the time over no connection is closed any more.
CloseResources ==
  /\ app = "close"
  /\ \/ ~expired /\ adapters' = {} /\ UNCHANGED <<failed, budget>>
     \/ ~expired /\ Hit("adapter") /\ adapters' = {} /\ failed' = TRUE
     \/ expired /\ UNCHANGED <<adapters, failed, budget>>
  /\ app' = "exited"
  /\ lifecycle' = IF failed' THEN "failed" ELSE lifecycle
  /\ UNCHANGED <<Apart, canceled, stop, http, completed, drained, expired>>

\* The process is killed and started again.  What a client was importing may
\* be left in the journal.
Crash ==
  /\ app # "exited" /\ Hit("crash")
  /\ pending' \in {pending, pending \cup {client[c].picture : c \in {d \in Clients : At(d, "store")}}}
  /\ gate' = None /\ loop' = "off" /\ wake' = FALSE /\ canceled' = FALSE
  /\ day' = 1 /\ snapshot' = {} /\ desired' = {} /\ degraded' = FALSE /\ lastRules' = None
  /\ launched' = 0 /\ tv' = [t \in TVs |-> "idle"] /\ tvErrors' = FALSE
  /\ synced' = "never" /\ status' = [t \in TVs |-> "unknown"] /\ fresh' = {}
  /\ capacity' = {} /\ active' = {} /\ owed' = {} /\ covered' = {}
  /\ client' = [c \in Clients |-> Idling]
  /\ promised' = promised \ {client[c].picture : c \in {d \in Clients : At(d, "store") /\ client[d].kind = "upload"}}
  /\ app' = "bind" /\ stop' = FALSE /\ lifecycle' = "starting" /\ failed' = FALSE
  /\ http' = "unbound" /\ completed' = {} /\ drained' = FALSE /\ expired' = FALSE /\ adapters' = TVs
  /\ UNCHANGED <<folder, rules, readable, today, requests>>

-----------------------------------------------------------------------------
Supervisor ==
  \/ Bind \/ BindFails \/ Prepare \/ PrepareFails \/ Stopped \/ ChildDied
  \/ (\E child \in {"http", "cycle"} : Collect(child))
  \/ Drained \/ FinishShutdown \/ CloseResources

Alive == app # "exited"

\* The sync loop runs beside the requests.
Loop(step) == step /\ Alive /\ UNCHANGED <<client, requests, appVars>>

Accept(c) == http = "serving" /\ NewRequest(c) /\ UNCHANGED appVars

Serve(c) == Alive /\ Handle(c) /\ UNCHANGED appVars

FromClient(c) == Alive /\ Receive(c) /\ UNCHANGED appVars

World == Alive /\ Around /\ UNCHANGED appVars

Next ==
  \/ Supervisor \/ Expire \/ Signal \/ ServerDies \/ Crash
  \/ Loop(CycleNext)
  \/ \E c \in Clients : Accept(c) \/ Serve(c) \/ FromClient(c)
  \/ World

Spec == Init /\ [][Next]_allVars

\* The loop, the supervisor, its timer and the server run on; a TV's run is
\* bounded by the deadlines of its adapter; a client may take for ever.
Fairness ==
  /\ WF_allVars(Loop(CycleSteps)) /\ \A t \in TVs : WF_allVars(Loop(TVEnds(t)))
  /\ WF_allVars(Supervisor) /\ WF_allVars(Expire)
  /\ \A c \in Clients : WF_allVars(Serve(c))

FairSpec == Spec /\ Fairness

-----------------------------------------------------------------------------
TypeOK ==
  /\ folder \subseteq Pictures /\ pending \subseteq Pictures /\ rules \in Documents /\ today \in Days
  /\ gate \in Clients \cup {Cycle, None} /\ (lastRules = None \/ lastRules \in Documents)
  /\ tv \in [TVs -> {"idle", "running", "ok", "failed"}] /\ Cardinality(Running) <= MaximumConcurrentTVs
  /\ active \subseteq capacity /\ Cardinality(active) <= TransformConcurrency
  /\ Cardinality(capacity) <= TransformConcurrency + TransformQueue
  /\ Cardinality(Uploading) <= 1
  /\ desired \subseteq snapshot /\ covered \subseteq {"art", "rules"}

\* Artwork that was put into a collection that is off is on no TV: not while
\* its import, its failure, the release of its reservation, a crash or an
\* unreadable collections file goes on beside a cycle (addArtwork,
\* reserveMember, releaseMember, selectThemedArtwork).
HiddenStaysHidden == Running # {} => desired \cap promised = {}

\* /health reports a good sync only after a cycle that ran every TV to a good
\* end, all of them in this very cycle (finalizeCycle, publishTVHealth).
Truthful ==
  loop \in {"select", "ended"} /\ synced = "ok" => fresh = TVs /\ \A t \in TVs : status[t] = "ok"

\* A requested sync takes place, with a look at the folder and at the
\* collections that follows the request, unless the process is stopped: also
\* when it was asked for in the middle of a cycle (requestCycle, RunLoop).
RequestServed == owed # {} ~> owed = {} \/ canceled

\* A process that says it stopped well left nothing behind: the loop ended, no
\* request was cut, nobody holds the gate or a transform slot, and the
\* connections to the TVs are closed (shutdown, closeResources).
CleanExit ==
  app = "exited" /\ ~failed =>
    /\ loop \in {"off", "ended"} /\ InFlight = {} /\ gate = None /\ Idle
    /\ Running = {} /\ adapters = {}

\* A signal ends the process, whatever its clients and TVs do (shutdown).
ProcessEnds == stop ~> ~stop \/ app = "exited"
=============================================================================
