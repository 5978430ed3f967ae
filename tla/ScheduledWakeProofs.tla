-------------------------- MODULE ScheduledWakeProofs --------------------------
(***************************************************************************)
(* For any number of boundaries, any clock and any owner: a boundary wakes *)
(* the TV once, unless the run that did so could not put it on record.     *)
(*                                                                         *)
(* WokenOnce speaks of one step. It follows from an invariant: a boundary  *)
(* the TV was answered at is on record, or is the one the present run is   *)
(* about to record; and the run only got there because its boundary is     *)
(* later than the record.                                                  *)
(***************************************************************************)
EXTENDS ScheduledWake, TLAPS

\* A run that goes on to wake the TV or to write the record has a boundary
\* later than the record.
Ahead == pc \in {"send", "verify", "record"} => handled < boundary

\* Every answered boundary is on record, or about to be.
Answered == \A b \in answered :
              \/ b <= handled
              \/ pc \in {"verify", "record"} /\ b = boundary

IInv == TypeOK /\ Ahead /\ Answered

LEMMA InitHolds == Init => IInv
<1> SUFFICES ASSUME Init PROVE IInv
  OBVIOUS
<1>1. 0 \in 0 .. MaxBoundary /\ Budget \in 0 .. Budget
  BY BoundsAreNat
<1>2. clock \in [at : 0 .. MaxBoundary, open : BOOLEAN]
  BY <1>1 DEF Init
<1>3. TypeOK
  BY <1>1, <1>2 DEF Init, TypeOK, Powers
<1>4. Ahead /\ Answered
  BY DEF Init, Ahead, Answered
<1> QED
  BY <1>3, <1>4 DEF IInv

LEMMA DisturbedType ==
  ASSUME budget \in 0 .. Budget, NEW hazard, Disturbed(hazard)
  PROVE  budget' \in 0 .. Budget
  BY BoundsAreNat DEF Disturbed

\* Every step of the clock leads to a boundary that exists.
LEMMA ClockType ==
  ASSUME clock \in [at : 0 .. MaxBoundary, open : BOOLEAN],
         WindowOpens \/ WindowCloses \/ ClockGoesBack
  PROVE  clock' \in [at : 0 .. MaxBoundary, open : BOOLEAN]
<1>1. clock.at \in 0 .. MaxBoundary
  OBVIOUS
<1>2. CASE WindowOpens
  <2>1. clock.at + 1 \in 0 .. MaxBoundary
    BY <1>1, <1>2, BoundsAreNat DEF WindowOpens
  <2> QED BY <2>1, <1>2 DEF WindowOpens
<1>3. CASE WindowCloses
  <2>1. clock' = [clock EXCEPT !.open = FALSE]
    BY <1>3 DEF WindowCloses
  <2> QED BY <2>1
<1>4. CASE ClockGoesBack
  <2>1. clock.at - 1 \in 0 .. MaxBoundary
    BY <1>1, <1>4, BoundsAreNat DEF ClockGoesBack
  <2> QED BY <2>1, <1>4 DEF ClockGoesBack
<1> QED
  BY <1>2, <1>3, <1>4

LEMMA StepHolds ==
  IInv /\ [Next]_vars => IInv'
<1> SUFFICES ASSUME IInv, [Next]_vars PROVE IInv'
  OBVIOUS
<1> USE BoundsAreNat DEF IInv, TypeOK, Ahead, Answered, Boundaries, Powers, EndRun
<1>1. CASE Begin
  BY <1>1 DEF Begin
<1>2. CASE LeaveAlone
  BY <1>2 DEF LeaveAlone
<1>3. CASE SeenOn
  BY <1>3 DEF SeenOn, Unhandled
<1>4. CASE DecideToWake
  BY <1>4 DEF DecideToWake, Unhandled
<1>5. CASE NotAttempted
  <2>1. budget' \in 0 .. Budget
    BY <1>5, DisturbedType DEF NotAttempted
  <2> QED BY <2>1, <1>5 DEF NotAttempted
<1>6. CASE SendPacket
  <2>1. budget' \in 0 .. Budget
    BY <1>6, DisturbedType DEF SendPacket
  <2>2. waking' \in BOOLEAN /\ pc' \in {"verify", "record"}
    BY <1>6 DEF SendPacket
  <2> QED BY <2>1, <2>2, <1>6 DEF SendPacket
<1>7. CASE Verify
  BY <1>7 DEF Verify
<1>8. CASE Record
  BY <1>8 DEF Record
<1>9. CASE RecordFails
  <2>1. budget' \in 0 .. Budget
    BY <1>9, DisturbedType DEF RecordFails
  <2> QED BY <2>1, <1>9 DEF RecordFails, Unrecorded
<1>10. CASE Crash
  <2>1. budget' \in 0 .. Budget
    BY <1>10, DisturbedType DEF Crash
  <2> QED BY <2>1, <1>10 DEF Crash, Unrecorded
<1>11. CASE OwnerActs
  <2>1. budget' \in 0 .. Budget
    BY <1>11, DisturbedType DEF OwnerActs
  <2> QED BY <2>1, <1>11 DEF OwnerActs
<1>12. CASE WindowOpens \/ WindowCloses \/ ClockGoesBack
  <2>1. budget' \in 0 .. Budget
    BY <1>12, DisturbedType DEF WindowOpens, WindowCloses, ClockGoesBack
  <2>2. clock' \in [at : 0 .. MaxBoundary, open : BOOLEAN]
    BY <1>12, ClockType DEF WindowOpens, WindowCloses, ClockGoesBack
  <2> QED BY <2>1, <2>2, <1>12 DEF WindowOpens, WindowCloses, ClockGoesBack
<1>13. CASE TvWakes \/ NoWakeDue \/ UNCHANGED vars
  BY <1>13 DEF TvWakes, NoWakeDue, vars
<1> QED
  BY <1>1, <1>2, <1>3, <1>4, <1>5, <1>6, <1>7, <1>8, <1>9, <1>10, <1>11, <1>12, <1>13
  DEF Next, RunStep

\* A run about to send a packet has a boundary nobody was answered at.
LEMMA SendsUnanswered == IInv => (pc = "send" => boundary \notin answered)
  BY BoundsAreNat DEF IInv, TypeOK, Ahead, Answered, Boundaries

\* scheduledWake wakes a TV once for each boundary, unless it is stopped or fails
\* between the packet and the record: for any number of boundaries, any clock, and
\* whatever the owner and the network do.
THEOREM WakesOnce == Spec => WokenOnce
<1>1. IInv /\ [Next]_vars =>
        [pc = "send" /\ pc' \in {"verify", "record"} => boundary \notin answered]_vars
  BY SendsUnanswered
<1> QED
  BY <1>1, InitHolds, StepHolds, PTL DEF Spec, WokenOnce
=============================================================================
