----------------------------- MODULE ScheduledWake -----------------------------
(***************************************************************************)
(* The scheduled power-on of one TV (reconcile/wake_schedule.go): the TV   *)
(* is woken at most once for every wake boundary, and not at all for one   *)
(* at which it was seen on. A boundary is the AUTO_ON_TIME of a day; it is *)
(* numbered here, and what the wake record holds is the last one handled.  *)
(*                                                                         *)
(* A run is serialised by the mutex of Service.Run. It takes its boundary  *)
(* from the clock when the cycle starts, observes the TV, reads the        *)
(* record, sends a packet and writes the record.                           *)
(***************************************************************************)
EXTENDS Integers

CONSTANTS MaxBoundary,   \* wake boundaries in one behaviour
          Hazards,       \* the disturbances it may meet
          Budget         \* how many of them

HazardKinds == {"crash", "save", "owner", "clock-back", "link", "packet"}

ASSUME BoundsAreNat    == MaxBoundary \in Nat \ {0} /\ Budget \in Nat
ASSUME HazardsAreKnown == Hazards \subseteq HazardKinds

Boundaries == 1 .. MaxBoundary

\* on and off are what the TV answers; one that is gone does not answer at all,
\* as in deep standby; an odd one answers a state the manager does not know.
Powers == {"on", "off", "gone", "odd"}

VARIABLES
  pc,        \* what the run does next
  boundary,  \* policy.WakeBoundary of this run
  seen,      \* the power the run observed
  handled,   \* the wake record on disk: the last boundary handled, or 0
  clock,     \* [at, open]: the boundary last passed, and whether its window is open
  power,     \* the TV
  waking,    \* a wake packet is on its way
  answered,  \* boundaries a packet was sent for, or a run saw the TV on at,
             \* unless that run could not put them on record
  budget     \* disturbances left

vars == <<pc, boundary, seen, handled, clock, power, waking, answered, budget>>

TypeOK ==
  /\ pc \in {"idle", "decide", "send", "verify", "record"}
  /\ boundary \in 0 .. MaxBoundary
  /\ seen \in Powers
  /\ handled \in 0 .. MaxBoundary
  /\ clock \in [at : 0 .. MaxBoundary, open : BOOLEAN]
  /\ power \in Powers
  /\ waking \in BOOLEAN
  /\ answered \in SUBSET Boundaries
  /\ budget \in 0 .. Budget

Disturbed(hazard) == hazard \in Hazards /\ budget > 0 /\ budget' = budget - 1

Init ==
  /\ pc = "idle" /\ boundary = 0 /\ seen = "odd" /\ handled = 0
  /\ clock = [at |-> 0, open |-> FALSE]
  /\ power \in Powers
  /\ waking = FALSE /\ answered = {}
  /\ budget = Budget

EndRun == pc' = "idle" /\ boundary' = 0 /\ seen' = "odd"

\* What the run answered but cannot put on record any more.
Unrecorded == IF pc \in {"verify", "record"} THEN {boundary} ELSE {}

-----------------------------------------------------------------------------
(* The run.                                                                *)

\* autoOnBoundaryAt: the policy asks for power only inside a wake window. The
\* first observation of the run comes with it.
Begin ==
  /\ pc = "idle"
  /\ clock.open
  /\ boundary' = clock.at
  /\ seen' = power
  /\ pc' = "decide"
  /\ UNCHANGED <<handled, clock, power, waking, answered, budget>>

\* Outside every wake window a cycle asks for no power.
NoWakeDue ==
  /\ pc = "idle"
  /\ ~clock.open
  /\ UNCHANGED vars

\* loadWake, handled.Before(boundary)
Unhandled == handled < boundary

\* The boundary was handled before, or the power is not known: no wake.
LeaveAlone ==
  /\ pc = "decide"
  /\ (~Unhandled \/ seen = "odd")
  /\ EndRun
  /\ UNCHANGED <<handled, clock, power, waking, answered, budget>>

SeenOn ==
  /\ pc = "decide"
  /\ Unhandled /\ seen = "on"
  /\ answered' = answered \cup {boundary}
  /\ pc' = "record"
  /\ UNCHANGED <<boundary, seen, handled, clock, power, waking, budget>>

DecideToWake ==
  /\ pc = "decide"
  /\ Unhandled /\ seen \in {"off", "gone"}
  /\ pc' = "send"
  /\ UNCHANGED <<boundary, seen, handled, clock, power, waking, answered, budget>>

\* Mutant: a TV that does not answer is not woken.
GuardedKnownOff == power = "off"

\* The guard of Apply: a TV that answers must be off; one that does not must
\* have been presumed in standby.
Guarded == \/ power = "off"
           \/ power = "gone" /\ seen = "gone"

\* Nothing was sent: the run ends with an error and no record.
NotAttempted ==
  /\ pc = "send"
  /\ \/ ~Guarded /\ UNCHANGED budget
     \/ Disturbed("link")
  /\ EndRun
  /\ UNCHANGED <<handled, clock, power, waking, answered>>

\* The packets are handed to the network, which may drop them, or fail after
\* the first one: an outcome nobody knows.
SendPacket ==
  /\ pc = "send"
  /\ Guarded
  /\ answered' = answered \cup {boundary}
  /\ \/ waking' = TRUE /\ pc' = "verify" /\ UNCHANGED budget
     \/ Disturbed("packet") /\ pc' \in {"verify", "record"} /\ UNCHANGED waking
  /\ UNCHANGED <<boundary, seen, handled, clock, power>>

\* Mutant: a wake nobody confirmed is not recorded.
VerifyOnly ==
  /\ pc = "verify"
  /\ \/ power = "on" /\ pc' = "record" /\ UNCHANGED <<boundary, seen>>
     \/ power # "on" /\ EndRun
  /\ UNCHANGED <<handled, clock, power, waking, answered, budget>>

\* powerOutcome polls until the TV is on or the request times out: applied or
\* unknown, and recorded either way.
Verify ==
  /\ pc = "verify"
  /\ pc' = "record"
  /\ UNCHANGED <<boundary, seen, handled, clock, power, waking, answered, budget>>

\* saveWake
Record ==
  /\ pc = "record"
  /\ handled' = boundary
  /\ EndRun
  /\ UNCHANGED <<clock, power, waking, answered, budget>>

\* The record could not be written, or only perhaps.
RecordFails ==
  /\ pc = "record"
  /\ Disturbed("save")
  /\ handled' \in {handled, boundary}
  /\ answered' = answered \ Unrecorded
  /\ EndRun
  /\ UNCHANGED <<clock, power, waking>>

-----------------------------------------------------------------------------
(* Everyone else.                                                          *)

Crash ==
  /\ pc # "idle"
  /\ Disturbed("crash")
  /\ answered' = answered \ Unrecorded
  /\ EndRun
  /\ UNCHANGED <<handled, clock, power, waking>>

\* A packet that arrives turns the TV on.
TvWakes ==
  /\ waking
  /\ waking' = FALSE
  /\ power' = "on"
  /\ UNCHANGED <<pc, boundary, seen, handled, clock, answered, budget>>

OwnerActs ==
  /\ Disturbed("owner")
  /\ power' \in Powers \ {power}
  /\ UNCHANGED <<pc, boundary, seen, handled, clock, waking, answered>>

WindowOpens ==
  /\ clock.at < MaxBoundary
  /\ clock' = [at |-> clock.at + 1, open |-> TRUE]
  /\ UNCHANGED <<pc, boundary, seen, handled, power, waking, answered, budget>>

WindowCloses ==
  /\ clock.open
  /\ clock' = [clock EXCEPT !.open = FALSE]
  /\ UNCHANGED <<pc, boundary, seen, handled, power, waking, answered, budget>>

\* A corrected clock or an earlier AUTO_ON_TIME leads back into the window of
\* an earlier boundary.
ClockGoesBack ==
  /\ clock.at > 1
  /\ Disturbed("clock-back")
  /\ clock' = [at |-> clock.at - 1, open |-> TRUE]
  /\ UNCHANGED <<pc, boundary, seen, handled, power, waking, answered>>

RunStep == \/ Begin \/ NoWakeDue \/ LeaveAlone \/ SeenOn \/ DecideToWake
           \/ NotAttempted \/ SendPacket \/ Verify \/ Record \/ RecordFails

Next == \/ RunStep \/ Crash \/ TvWakes \/ OwnerActs
        \/ WindowOpens \/ WindowCloses \/ ClockGoesBack

Spec == Init /\ [][Next]_vars

\* Cycles repeat and take their steps; nothing else has to happen.
FairSpec == Spec /\ WF_vars(RunStep)

-----------------------------------------------------------------------------
\* A boundary wakes the TV once, unless the run that did so was stopped or failed
\* before the wake was on record. A TV that was seen on at it, or that its owner
\* turned off again after the wake, is left alone until the next one.
WokenOnce ==
  [][pc = "send" /\ pc' \in {"verify", "record"} => boundary \notin answered]_vars

\* Every window leads to a decision: as long as it stays open and the power of
\* the TV is known, its boundary ends up on record.
WindowHandled ==
  \A b \in Boundaries :
    clock = [at |-> b, open |-> TRUE] ~>
      \/ clock # [at |-> b, open |-> TRUE]
      \/ handled >= b
      \/ power = "odd"
=============================================================================
