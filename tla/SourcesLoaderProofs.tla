-------------------------- MODULE SourcesLoaderProofs --------------------------
(***************************************************************************)
(* Whatever the lines, the catalogue, the providers, the limits and the    *)
(* hazards: a sync that saved its state leaves no artwork without credit,  *)
(* and no provider and no service is asked before it wants to be.          *)
(*                                                                         *)
(* The credits: the credit of an image takes a way through two copies of   *)
(* the state. What is in the folder is credited in the state in memory, or *)
(* in the saved one while no process has it in memory (CreditKept); memory  *)
(* differs from the saved state in its credits only while it is dirty      *)
(* (CleanIsSaved); and what a sync prunes by, the origins it knows, has     *)
(* every image of the folder (OriginsKnown), although the owner and an      *)
(* import of unknown outcome change the folder under it.                   *)
(*                                                                         *)
(* The providers: of each service, what it was told to wait is no longer   *)
(* than its gate is closed (Webs), which every request of every resolution *)
(* preserves; of each line, the entry in memory, and the saved one for the  *)
(* next process, keeps it from its provider for as long as its last answer *)
(* and its refusals in a row ask (Holds). The refusals counted for the      *)
(* property may be fewer than those of the entry, as a closed gate fails a *)
(* line that asks nobody, so the backoff has to grow with them.            *)
(***************************************************************************)
EXTENDS SourcesLoader, Integers, WellFoundedInduction, TLAPS

IsState(saved) == saved = [resolutions |-> saved.resolutions, credits |-> saved.credits]

\* Nothing that the sync saves or loads is taken for the state it lacks.
NoneIsNoState == \A r, c : [resolutions |-> r, credits |-> c] # None

WholeStates == (state = None \/ IsState(state)) /\ (disk = None \/ IsState(disk))

\* A sync has the state in memory, and one that saved it has nothing to save.
LoadedInTime == (pc # "idle" => state # None) /\ (pc = "saved" => ~dirty)

CleanIsSaved == state # None /\ ~dirty => disk # None /\ disk.credits = state.credits

Owed == collection \cap Creditable

CreditKept ==
  /\ state = None => Owed \subseteq Saved \cup lost
  /\ state # None => Owed \subseteq state.credits \cup lost

OriginsKnown == pc \in {"lines", "images"} => collection \subseteq origins \cup lost

IInv == WholeStates /\ LoadedInTime /\ CleanIsSaved /\ CreditKept /\ OriginsKnown

-----------------------------------------------------------------------------
(* The states that are built: what they hold, and that they are states.    *)

LEMMA StateIsNotNone ==
  ASSUME NoneIsNoState, NEW saved, IsState(saved)
  PROVE  saved # None
  BY DEF NoneIsNoState, IsState

LEMMA EmptyIsState == IsState(EmptyState) /\ EmptyState.credits = {}
  BY DEF IsState, EmptyState

LEMMA PrunedIsState == IsState(Pruned) /\ Pruned.credits = state.credits \cap origins
  BY DEF IsState, Pruned

\* Ageing a state leaves its credits, and None for what there is not.
LEMMA AgedState ==
  ASSUME NoneIsNoState, NEW saved, saved = None \/ IsState(saved)
  PROVE  /\ Aged(saved) = None \/ IsState(Aged(saved))
         /\ Aged(saved) = None <=> saved = None
         /\ saved # None => Aged(saved).credits = saved.credits
<1>1. CASE saved = None
  BY <1>1 DEF Aged
<1>2. CASE saved # None
  <2> DEFINE aged == [line \in Lines |-> [saved.resolutions[line] EXCEPT !.expires = Left(@), !.wait = Left(@)]]
  <2>1. Aged(saved) = [saved EXCEPT !.resolutions = aged]
    BY <1>2 DEF Aged
  <2> HIDE DEF aged
  <2>2. saved = [resolutions |-> saved.resolutions, credits |-> saved.credits]
    BY <1>2 DEF IsState
  <2>3. Aged(saved) = [resolutions |-> aged, credits |-> saved.credits]
    BY <2>1, <2>2
  <2>4. IsState(Aged(saved)) /\ Aged(saved).credits = saved.credits
    BY <2>3 DEF IsState
  <2> QED BY <1>2, <2>4, StateIsNotNone
<1> QED BY <1>1, <1>2

-----------------------------------------------------------------------------
(* One lemma per action, or per group of actions that change the same.     *)

LEMMA InitHolds == ASSUME Init PROVE IInv
<1>1. IsState(disk) /\ state = None /\ ~dirty /\ pc = "idle" /\ collection = {}
  BY EmptyIsState DEF Init
<1> QED BY <1>1 DEF IInv, WholeStates, LoadedInTime, CleanIsSaved, CreditKept, Owed, OriginsKnown

\* A process that starts takes over the saved credits, and knows every image.
LEMMA StartSyncKeeps ==
  ASSUME NoneIsNoState, IInv, StartSync
  PROVE  IInv'
<1>1. IsState(state') /\ state' # None
  BY EmptyIsState, StateIsNotNone DEF IInv, WholeStates, StartSync
<1>2. (WholeStates /\ LoadedInTime)'
  BY <1>1 DEF IInv, WholeStates, LoadedInTime, StartSync, diskVars, IsState
<1>3. CleanIsSaved'
  BY <1>1 DEF IInv, CleanIsSaved, StartSync, diskVars
<1>4. CreditKept'
  <2>1. Owed \subseteq state'.credits \cup lost
    <3>1. CASE state # None
      BY <3>1 DEF IInv, CreditKept, StartSync
    <3>2. CASE state = None
      <4>1. state'.credits = Saved
        BY <3>2, EmptyIsState DEF StartSync, Saved
      <4> QED BY <3>2, <4>1 DEF IInv, CreditKept
    <3> QED BY <3>1, <3>2
  <2> QED BY <1>1, <2>1 DEF CreditKept, Owed, StartSync, folderVars
<1>5. OriginsKnown'
  BY DEF OriginsKnown, StartSync, folderVars
<1> QED BY <1>2, <1>3, <1>4, <1>5 DEF IInv

\* A line that is resolved without its provider changes the sync only.
LEMMA ResolvedAloneKeeps ==
  ASSUME IInv, NEW line \in Lines, ResolveDirect(line) \/ ResolveCached(line)
  PROVE  IInv'
<1>1. /\ UNCHANGED <<folderVars, diskVars, state, dirty, origins, lost>>
      /\ pc = "lines" /\ pc' \in {"lines", "images"}
  BY DEF ResolveDirect, ResolveCached, NextLine, LastKnownGood, Download, Skip, memoryVars
<1> QED BY <1>1 DEF IInv, WholeStates, IsState, LoadedInTime, CleanIsSaved, CreditKept, Owed, Saved, OriginsKnown,
                    folderVars, diskVars

\* What a provider said makes the state dirty and leaves its credits.
LEMMA AskedKeeps ==
  ASSUME NoneIsNoState, IInv, NEW line \in Lines, ProviderAnswers(line) \/ ProviderFails(line)
  PROVE  IInv'
<1>1. /\ UNCHANGED <<folderVars, diskVars, origins, lost>>
      /\ pc = "lines" /\ pc' \in {"lines", "images"}
  BY DEF ProviderAnswers, ProviderFails, Takes, NextLine, LastKnownGood, Download, Skip
<1>2. PICK entry : Remember(line, entry)
  BY DEF ProviderAnswers, ProviderFails
<1>3. state # None /\ IsState(state)
  BY <1>1 DEF IInv, LoadedInTime, WholeStates
<1>4. dirty' /\ IsState(state') /\ state'.credits = state.credits /\ state' # None
  <2>1. state' = [state EXCEPT !.resolutions[line] = entry]
    BY <1>2 DEF Remember
  <2>2. state = [resolutions |-> state.resolutions, credits |-> state.credits]
    BY <1>3 DEF IsState
  <2>3. state' = [resolutions |-> [state.resolutions EXCEPT ![line] = entry], credits |-> state.credits]
    BY <2>1, <2>2
  <2>4. IsState(state') /\ state'.credits = state.credits
    BY <2>3 DEF IsState
  <2>5. state' # None
    BY <2>3 DEF NoneIsNoState
  <2> QED BY <1>2, <2>4, <2>5 DEF Remember
<1> QED BY <1>1, <1>3, <1>4 DEF IInv, WholeStates, IsState, LoadedInTime, CleanIsSaved, CreditKept, Owed, OriginsKnown,
                               folderVars, diskVars

\* The images of a line are taken or not; nothing is imported yet.
LEMMA DownloadsKeep ==
  ASSUME IInv, (\E image \in Images : NextImage(image)) \/ EndLine
  PROVE  IInv'
<1>1. /\ UNCHANGED <<folderVars, diskVars, state, dirty, origins, lost>>
      /\ pc = "images" /\ pc' \in {"lines", "images"}
  BY DEF NextImage, EndLine, memoryVars
<1> QED BY <1>1 DEF IInv, WholeStates, IsState, LoadedInTime, CleanIsSaved, CreditKept, Owed, Saved, OriginsKnown,
                    folderVars, diskVars

\* A batch is credited in the step that adds it to the folder.
LEMMA ImportKeeps ==
  ASSUME NoneIsNoState, IInv, ImportBatch
  PROVE  IInv'
<1>1. /\ state # None /\ IsState(state) /\ pc = "images" /\ pc' = pc
      /\ collection' = collection \cup pending /\ origins' = origins \cup pending
      /\ UNCHANGED <<diskVars, lost>>
  BY DEF IInv, LoadedInTime, WholeStates, ImportBatch
<1>2. /\ IsState(state') /\ state' # None
      /\ state'.credits = state.credits \cup (pending \cap Creditable)
  <2>1. state' = [state EXCEPT !.credits = @ \cup Credited(pending)]
    BY DEF ImportBatch
  <2>2. state = [resolutions |-> state.resolutions, credits |-> state.credits]
    BY <1>1 DEF IsState
  <2>3. state' = [resolutions |-> state.resolutions, credits |-> state.credits \cup Credited(pending)]
    BY <2>1, <2>2
  <2>4. IsState(state') /\ state'.credits = state.credits \cup Credited(pending)
    BY <2>3 DEF IsState
  <2>5. state' # None
    BY <2>3 DEF NoneIsNoState
  <2> QED BY <2>4, <2>5 DEF Credited
<1>3. (WholeStates /\ LoadedInTime)'
  BY <1>1, <1>2 DEF IInv, WholeStates, LoadedInTime, IsState, diskVars
<1>4. CleanIsSaved'
  <2>1. ~dirty' => ~dirty /\ pending \cap Creditable \subseteq state.credits
    BY DEF ImportBatch, Credited
  <2> QED BY <1>1, <1>2, <2>1 DEF IInv, CleanIsSaved, diskVars
<1>5. CreditKept'
  <2>1. (collection \cup pending) \cap Creditable \subseteq state'.credits \cup lost
    BY <1>1, <1>2 DEF IInv, CreditKept, Owed
  <2> QED BY <1>1, <1>2, <2>1 DEF CreditKept, Owed
<1>6. OriginsKnown'
  BY <1>1 DEF IInv, OriginsKnown
<1> QED BY <1>3, <1>4, <1>5, <1>6 DEF IInv

\* An import whose outcome nobody learns may add what is credited to nobody.
LEMMA FailedImportKeeps ==
  ASSUME IInv, ImportFails
  PROVE  IInv'
<1>1. /\ UNCHANGED <<diskVars, state, dirty, origins>>
      /\ pc = "images" /\ pc' = "lines" /\ state # None
      /\ \/ collection' = collection /\ lost' = lost
         \/ collection' = collection \cup pending /\ lost' = lost \cup pending
  BY DEF IInv, LoadedInTime, ImportFails, AbandonLine, memoryVars
<1>2. Owed' \subseteq Owed \cup lost' /\ lost \subseteq lost' /\ collection' \subseteq collection \cup lost'
  BY <1>1 DEF Owed
<1> HIDE DEF Owed
<1> QED BY <1>1, <1>2 DEF IInv, WholeStates, IsState, LoadedInTime, CleanIsSaved, CreditKept, Saved, OriginsKnown, diskVars

\* Pruning drops no credit that is owed, as the sync knows all that is there,
\* and what is saved is what memory holds.
LEMMA PersistKeeps ==
  ASSUME NoneIsNoState, IInv, Persist
  PROVE  IInv'
<1>1. /\ state # None /\ IsState(state) /\ pc = "lines" /\ pc' \in {"saved", "unsaved"}
      /\ state' = Pruned
      /\ UNCHANGED <<collection, lost, origins>>
  BY DEF IInv, LoadedInTime, WholeStates, Persist, folderVars
<1>2. IsState(state') /\ state' # None /\ state'.credits = state.credits \cap origins
  BY <1>1, PrunedIsState, StateIsNotNone
<1>3. /\ disk' = disk \/ disk' = state'
      /\ pc' = "saved" => ~dirty'
      /\ ~dirty' => disk' = state' \/ (disk' = disk /\ state' = state /\ ~dirty)
  <2>1. CASE Unsaved /\ Written /\ dirty' = FALSE
    BY <1>1, <2>1 DEF Written
  <2>2. CASE ~Unsaved /\ UNCHANGED <<diskVars, dirty>>
    BY <1>1, <2>2 DEF Unsaved, diskVars
  <2>3. CASE pc' = "unsaved" /\ dirty' = TRUE /\ (UNCHANGED diskVars \/ Written)
    BY <1>1, <2>3 DEF Written, diskVars
  <2> QED BY <2>1, <2>2, <2>3 DEF Persist
<1>4. WholeStates'
  BY <1>2, <1>3 DEF IInv, WholeStates, IsState
<1>5. LoadedInTime' /\ OriginsKnown'
  BY <1>1, <1>2, <1>3 DEF LoadedInTime, OriginsKnown
<1>6. CleanIsSaved'
  BY <1>2, <1>3 DEF IInv, CleanIsSaved
<1>7. CreditKept'
  <2>1. Owed \subseteq state.credits \cup lost /\ Owed \subseteq origins \cup lost
    BY <1>1 DEF IInv, CreditKept, OriginsKnown, Owed
  <2> QED BY <1>1, <1>2, <2>1 DEF CreditKept, Owed
<1> QED BY <1>4, <1>5, <1>6, <1>7 DEF IInv

LEMMA EndKeeps ==
  ASSUME IInv, EndSync
  PROVE  IInv'
<1>1. UNCHANGED <<folderVars, diskVars, state, dirty, lost>> /\ pc' = "idle"
  BY DEF EndSync, memoryVars
<1> QED BY <1>1 DEF IInv, WholeStates, IsState, LoadedInTime, CleanIsSaved, CreditKept, Owed, Saved, OriginsKnown,
                    folderVars, diskVars

\* What memory held beyond the saved state is lost with the process.
LEMMA StopKeeps ==
  ASSUME IInv, Stop
  PROVE  IInv'
<1>1. /\ UNCHANGED <<folderVars, diskVars>> /\ state' = None /\ dirty' = FALSE /\ pc' = "idle"
      /\ lost' = lost \cup (collection \ Saved)
  BY DEF Stop
<1>2. Owed' \subseteq Saved' \cup lost'
  BY <1>1 DEF Owed, Saved, folderVars, diskVars
<1> QED BY <1>1, <1>2 DEF IInv, WholeStates, IsState, LoadedInTime, CleanIsSaved, CreditKept, OriginsKnown, diskVars

\* The owner takes images away, and may do so in the middle of a sync.
LEMMA OwnerKeeps ==
  ASSUME IInv, OwnerActs
  PROVE  IInv'
<1>1. /\ UNCHANGED <<diskVars, state, dirty, pc, origins>>
      /\ collection' \subseteq collection /\ lost \cap collection' \subseteq lost'
  BY DEF OwnerActs, memoryVars, syncVars
<1>2. Owed' = Owed \cap collection'
  BY <1>1 DEF Owed
<1>3. CreditKept'
  BY <1>1, <1>2 DEF IInv, CreditKept, Saved, diskVars
<1>4. OriginsKnown'
  BY <1>1 DEF IInv, OriginsKnown
<1> QED BY <1>1, <1>3, <1>4 DEF IInv, WholeStates, IsState, LoadedInTime, CleanIsSaved, diskVars

\* A saved state that is given up takes all credits with it.
LEMMA GarbledKeeps ==
  ASSUME IInv, StateGarbled
  PROVE  IInv'
<1>1. /\ UNCHANGED <<collection, state, dirty, pc, origins>> /\ state = None /\ disk' = None
      /\ lost' = lost \cup collection
  BY DEF StateGarbled, folderVars, syncVars
<1> QED BY <1>1 DEF IInv, WholeStates, LoadedInTime, CleanIsSaved, CreditKept, Owed, OriginsKnown

LEMMA TimeKeeps ==
  ASSUME NoneIsNoState, IInv, TimePasses
  PROVE  IInv'
<1>1. /\ UNCHANGED <<folderVars, dirty, pc, origins, lost>> /\ pc = "idle"
      /\ disk' = Aged(disk) /\ state' = Aged(state)
  BY DEF TimePasses, syncVars
<1>2. /\ disk' = None \/ IsState(disk')
      /\ disk' = None <=> disk = None
      /\ disk # None => disk'.credits = disk.credits
  BY <1>1, AgedState DEF IInv, WholeStates
<1>3. /\ state' = None \/ IsState(state')
      /\ state' = None <=> state = None
      /\ state # None => state'.credits = state.credits
  BY <1>1, AgedState DEF IInv, WholeStates
<1>4. WholeStates'
  BY <1>1, <1>2, <1>3 DEF WholeStates, IsState
<1>5. LoadedInTime' /\ CleanIsSaved' /\ OriginsKnown'
  BY <1>1, <1>2, <1>3 DEF IInv, LoadedInTime, CleanIsSaved, OriginsKnown
<1>6. CreditKept'
  <2>1. Owed' = Owed /\ Saved' = Saved /\ lost' = lost
    BY <1>1, <1>2 DEF Owed, Saved, folderVars
  <2> QED BY <1>3, <2>1 DEF IInv, CreditKept
<1> QED BY <1>4, <1>5, <1>6 DEF IInv

\* Editing the sources file, and no step at all.
LEMMA OthersKeep ==
  ASSUME IInv, SourcesEdited \/ UNCHANGED vars
  PROVE  IInv'
<1>1. UNCHANGED <<folderVars, diskVars, state, dirty, pc, origins, lost>>
  BY DEF SourcesEdited, vars, memoryVars, syncVars
<1> QED BY <1>1 DEF IInv, WholeStates, IsState, LoadedInTime, CleanIsSaved, CreditKept, Owed, Saved, OriginsKnown,
                    folderVars, diskVars

-----------------------------------------------------------------------------
LEMMA StepKeeps ==
  ASSUME NoneIsNoState, IInv, [Next]_vars
  PROVE  IInv'
<1>1. CASE \E line \in Lines : Resolve(line)
  BY <1>1, ResolvedAloneKeeps, AskedKeeps DEF Resolve
<1>2. CASE SyncStep
  BY <1>2, StartSyncKeeps, DownloadsKeep, ImportKeeps, FailedImportKeeps, PersistKeeps, EndKeeps DEF SyncStep
<1>3. CASE Stop \/ OwnerActs \/ StateGarbled \/ TimePasses
  BY <1>3, StopKeeps, OwnerKeeps, GarbledKeeps, TimeKeeps
<1>4. CASE SourcesEdited \/ UNCHANGED vars
  BY <1>4, OthersKeep
<1> QED BY <1>1, <1>2, <1>3, <1>4 DEF Next

\* After a sync that saved its state, all source artwork is credited in it,
\* other than what a stop or an unknown outcome took the credit of, whatever
\* the owner does to the folder meanwhile and whichever saves fail.
THEOREM CreditsSaved == NoneIsNoState => (Spec => []AllCredited)
<1> SUFFICES ASSUME NoneIsNoState PROVE Spec => []AllCredited
  OBVIOUS
<1>1. Init => IInv
  BY InitHolds
<1>2. IInv /\ [Next]_vars => IInv'
  BY StepKeeps
<1>3. IInv => AllCredited
  BY DEF IInv, LoadedInTime, CleanIsSaved, CreditKept, Owed, Saved, AllCredited
<1> QED BY <1>1, <1>2, <1>3, PTL DEF Spec

-----------------------------------------------------------------------------
(* Folds. A resolution folds a provider's policy over the hits of a line.  *)
(* FoldLeft is a choice among the functions that are defined by their      *)
(* values on smaller sets, so that two things are to show of each fold:    *)
(* that there is such a function (Folded), and that what holds of its      *)
(* first values holds of the last one (Chain).                             *)

\* A set of numbers that is not empty has a least one.
LEMMA Least ==
  ASSUME NEW T \in SUBSET Nat, T # {}
  PROVE  \E n \in T : \A m \in T : n <= m
<1>1. IsWellFoundedOn(OpToRel(<, Nat), Nat)
  BY NatLessThanWellFounded
<1>2. PICK n \in T : \A m \in T : ~ (<<m, n>> \in OpToRel(<, Nat))
  BY <1>1, WFMin
<1>3. \A m \in T : ~ (m < n)
  BY <1>2 DEF OpToRel
<1> QED
  BY <1>3

\* What holds of the first prefixes holds of them all.
LEMMA Chain ==
  ASSUME NEW A, NEW h, NEW n \in Nat, h[{}] \in A,
         \A k \in 1..n : h[1..(k-1)] \in A => h[1..k] \in A
  PROVE  h[1..n] \in A
<1> DEFINE T == {k \in 0..n : h[1..k] \notin A}
<1>1. SUFFICES ASSUME n \in T
               PROVE  FALSE
  OBVIOUS
<1>2. T \in SUBSET Nat /\ T # {}
  BY <1>1
<1> HIDE DEF T
<1>3. PICK k \in T : \A m \in T : k <= m
  BY <1>2, Least
<1> USE DEF T
<1>4. CASE k = 0
  <2>1. 1..0 = {}
    OBVIOUS
  <2> QED
    BY <1>3, <1>4, <2>1
<1>5. CASE k # 0
  <2>1. k \in 1..n /\ k-1 \in 0..n /\ k-1 \notin T
    BY <1>3, <1>5
  <2> QED
    BY <2>1
<1> QED
  BY <1>4, <1>5

\* The numbers up to k are one more than those before it.
LEMMA Prefix ==
  ASSUME NEW n \in Nat, NEW k \in 1..n
  PROVE  /\ 1..k \in SUBSET (1..n) /\ 1..(k-1) \in SUBSET (1..n)
         /\ 1..k # {} /\ Max(1..k) = k /\ (1..k) \ {k} = 1..(k-1)
<1>1. k \in 1..k /\ \A y \in 1..k : k >= y
  OBVIOUS
<1>2. Max(1..k) \in 1..k /\ \A y \in 1..k : Max(1..k) >= y
  <2> DEFINE P(x) == \A y \in 1..k : x >= y
  <2>1. \E x \in 1..k : P(x)
    BY <1>1
  <2>2. Max(1..k) = CHOOSE x \in 1..k : P(x)
    BY Zenon DEF Max
  <2> HIDE DEF P
  <2>3. Max(1..k) \in 1..k /\ P(Max(1..k))
    BY <2>1, <2>2
  <2> QED
    BY <2>3 DEF P
<1>3. Max(1..k) = k
  BY <1>1, <1>2
<1>4. \A i : i \in (1..k) \ {k} <=> i \in 1..(k-1)
  OBVIOUS
<1> QED
  BY <1>1, <1>3, <1>4

\* The largest number of a set of numbers up to k that holds k.
LEMMA LargestIsLast ==
  ASSUME NEW k \in Nat, NEW s \in SUBSET (1..k), k \in s
  PROVE  Max(s) = k
<1> DEFINE P(x) == \A y \in s : x >= y
<1>1. k \in s /\ P(k)
  OBVIOUS
<1>2. Max(s) = CHOOSE x \in s : P(x)
  BY Zenon DEF Max
<1> HIDE DEF P
<1>3. Max(s) \in s /\ P(Max(s))
  BY <1>1, <1>2
<1>4. Max(s) >= k /\ Max(s) \in 1..k
  BY <1>3 DEF P
<1> QED
  BY <1>4

\* A function over sets of numbers that takes one step for the largest.
Follows(g, base, step, k) ==
  \A s \in SUBSET (1..k) :
    /\ s = {} => g[s] = base
    /\ s # {} => Max(s) \in s /\ g[s] = step[<<g[s \ {Max(s)}], Max(s)>>]

\* There is one, whatever the step: this is where a fold over a sequence begins.
LEMMA Folded ==
  ASSUME NEW A, NEW base \in A, NEW n \in Nat, NEW step \in [A \X (1..n) -> A]
  PROVE  \E g \in [SUBSET (1..n) -> A] : Follows(g, base, step, n)
<1> DEFINE T == {k \in 0..n : ~ \E g \in [SUBSET (1..k) -> A] : Follows(g, base, step, k)}
<1>1. SUFFICES ASSUME T # {}
               PROVE  FALSE
  <2>1. n \in 0..n
    OBVIOUS
  <2> QED
    BY <2>1
<1>2. T \in SUBSET Nat
  OBVIOUS
<1> HIDE DEF T
<1>3. PICK k \in T : \A m \in T : k <= m
  BY <1>1, <1>2, Least
<1>4. k \in 0..n /\ ~ \E g \in [SUBSET (1..k) -> A] : Follows(g, base, step, k)
  BY <1>3 DEF T
<1>5. CASE k = 0
  <2> DEFINE g == [s \in SUBSET (1..0) |-> base]
  <2>1. \A s \in SUBSET (1..0) : s = {}
    OBVIOUS
  <2>2. g \in [SUBSET (1..0) -> A]
    OBVIOUS
  <2>3. Follows(g, base, step, 0)
    BY <2>1 DEF Follows
  <2> QED
    BY <1>4, <1>5, <2>2, <2>3
<1>6. CASE k # 0
  <2>1. k \in 1..n /\ k-1 \in 0..n /\ k \in Nat
    BY <1>4, <1>6
  <2>2. k-1 \notin T
    BY <1>2, <1>3, <2>1
  <2>3. PICK g \in [SUBSET (1..(k-1)) -> A] : Follows(g, base, step, k-1)
    BY <2>1, <2>2 DEF T
  <2> DEFINE h == [s \in SUBSET (1..k) |-> IF k \in s THEN step[<<g[s \ {k}], k>>] ELSE g[s]]
  <2>4. \A s \in SUBSET (1..k) : k \notin s => s \in SUBSET (1..(k-1))
    BY <2>1
  <2>5. h \in [SUBSET (1..k) -> A]
    <3> SUFFICES ASSUME NEW s \in SUBSET (1..k)
                 PROVE  h[s] \in A
      OBVIOUS
    <3>1. s \ {k} \in SUBSET (1..(k-1)) /\ (k \notin s => s \in SUBSET (1..(k-1)))
      BY <2>4
    <3>2. g[s \ {k}] \in A /\ (k \notin s => g[s] \in A)
      BY <3>1
    <3>3. step[<<g[s \ {k}], k>>] \in A
      BY <2>1, <3>2
    <3> QED
      BY <3>2, <3>3
  <2>6. ASSUME NEW s \in SUBSET (1..k)
        PROVE  /\ s = {} => h[s] = base
               /\ s # {} => Max(s) \in s /\ h[s] = step[<<h[s \ {Max(s)}], Max(s)>>]
    <3>1. CASE k \in s
      <4>1. Max(s) = k
        BY <2>1, <3>1, LargestIsLast
      <4>2. s \ {k} \in SUBSET (1..k) /\ k \notin s \ {k}
        OBVIOUS
      <4>3. h[s] = step[<<g[s \ {k}], k>>] /\ h[s \ {k}] = g[s \ {k}]
        BY <3>1, <4>2
      <4> QED
        BY <3>1, <4>1, <4>3
    <3>2. CASE k \notin s
      <4>1. s \in SUBSET (1..(k-1)) /\ h[s] = g[s]
        BY <2>4, <3>2
      <4>2. s \ {Max(s)} \in SUBSET (1..k) /\ k \notin s \ {Max(s)}
        BY <3>2
      <4>3. h[s \ {Max(s)}] = g[s \ {Max(s)}]
        BY <4>2
      <4> HIDE DEF h
      <4> QED
        BY <2>3, <4>1, <4>3 DEF Follows
    <3> QED
      BY <3>1, <3>2
  <2> HIDE DEF h
  <2>7. Follows(h, base, step, k)
    BY <2>6 DEF Follows
  <2> QED
    BY <1>4, <2>5, <2>7
<1> QED
  BY <1>5, <1>6

-----------------------------------------------------------------------------
(* The services: each request leaves them as the process may know them.    *)

Times == [Services -> Nat]

\* The services as this process may know them: what one was told to wait, its gate waits.
Webs ==
  {known \in [until : Times, left : [Services -> Int], window : Times, cache : [Found -> Nat], told : Times, rude : {{}}] :
    \A service \in Services : known.told[service] <= known.until[service]}

Sessions ==
  [web : Webs, broken : SUBSET Nat, sent : Nat, found : Seq(Usable), failed : Nat, retry : Nat, ok : BOOLEAN]

LEMMA ExhaustedStays ==
  ASSUME NEW known \in Webs, NEW service \in Services
  PROVE  Exhausted(known, service) \in Webs
<1> DEFINE until == [known.until EXCEPT ![service] = known.window[service]]
           told == [known.told EXCEPT ![service] = known.window[service]]
<1>1. known = [until |-> known.until, left |-> known.left, window |-> known.window, cache |-> known.cache,
               told |-> known.told, rude |-> known.rude]
  BY DEF Webs
<1>2. Exhausted(known, service)
      = [until |-> until, left |-> known.left, window |-> known.window, cache |-> known.cache,
         told |-> told, rude |-> known.rude]
  <2>1. Observe(known, service)
        = [until |-> until, left |-> known.left, window |-> known.window, cache |-> known.cache,
           told |-> known.told, rude |-> known.rude]
    BY <1>1 DEF Observe
  <2>2. Exhausted(known, service) = [Observe(known, service) EXCEPT !.told = told]
    BY <2>1 DEF Exhausted
  <2> QED
    BY <2>1, <2>2
<1>3. known.until \in Times /\ known.told \in Times /\ known.window \in Times
  BY DEF Webs
<1>4. until \in Times /\ told \in Times /\ \A other \in Services : told[other] <= until[other]
  BY <1>3 DEF Webs, Times
<1> HIDE DEF until, told
<1> QED
  BY <1>2, <1>4 DEF Webs

LEMMA SpentStays ==
  ASSUME NEW known \in Webs, NEW service \in Services
  PROVE  Spent(known, service) \in Webs
<1> DEFINE left == [known.left EXCEPT ![service] = @ - 1]
           window == [known.window EXCEPT ![service] = IF @ = 0 THEN ResetAfter ELSE @]
<1>1. known = [until |-> known.until, left |-> known.left, window |-> known.window, cache |-> known.cache,
               told |-> known.told, rude |-> known.rude]
  BY DEF Webs
<1>2. Spent(known, service)
      = [until |-> known.until, left |-> left, window |-> window, cache |-> known.cache,
         told |-> known.told, rude |-> known.rude]
  <2>1. Spent(known, service) = [[known EXCEPT !.left = left] EXCEPT !.window = window]
    BY <1>1 DEF Spent
  <2> QED
    BY <1>1, <2>1
<1>3. left \in [Services -> Int] /\ window \in Times
  BY SourcesAssumption DEF Webs, Times
<1> HIDE DEF left, window
<1> QED
  BY <1>2, <1>3 DEF Webs

LEMMA ServedStays ==
  ASSUME NEW known \in Webs, NEW service \in Services
  PROVE  Served(known, service) \in Webs
  BY ExhaustedStays, SpentStays DEF Served

LEMMA FailureStays ==
  ASSUME NEW session \in Sessions, NEW retry \in Nat
  PROVE  Failure(session, retry) \in Sessions
  BY DEF Failure, Sessions

LEMMA KeepStays ==
  ASSUME NEW session \in Sessions, NEW hit
  PROVE  Keep(session, hit) \in Sessions
<1>1. session.found \in Seq(Usable)
  BY DEF Sessions
<1>2. hit \in Usable => Append(session.found, hit) \in Seq(Usable)
  BY <1>1
<1> QED
  BY <1>2 DEF Keep, Sessions

\* A service that was told to wait is behind a closed gate: no request presses it.
LEMMA FetchedStays ==
  ASSUME NEW session \in Sessions, NEW service \in Services
  PROVE  Fetched(session, service) \in Sessions
<1> DEFINE asked == [session EXCEPT !.sent = @ + 1, !.web = Pressed(@, service)]
           refused == [asked EXCEPT !.web = Exhausted(@, service)]
           served == [asked EXCEPT !.ok = TRUE, !.web = Served(@, service)]
<1>1. session.web \in Webs /\ session.web.until[service] \in Nat
  BY DEF Sessions, Webs, Times
<1>2. CASE Closed(session, service)
  <2>1. Fetched(session, service) = Failure(session, session.web.until[service])
    BY <1>2 DEF Fetched
  <2> QED
    BY <1>1, <2>1, FailureStays
<1>3. CASE ~Closed(session, service)
  <2>1. ~(session.web.told[service] > 0)
    BY <1>1, <1>3 DEF Closed, Webs, Times
  <2>2. asked = [session EXCEPT !.sent = @ + 1]
    BY <2>1 DEF Pressed, Sessions
  <2> HIDE DEF asked
  <2>3. asked \in Sessions /\ asked.web = session.web
    BY <2>2 DEF Sessions
  <2>4. Exhausted(asked.web, service) \in Webs /\ Served(asked.web, service) \in Webs
    BY <1>1, <2>3, ExhaustedStays, ServedStays
  <2>5. refused \in Sessions /\ served \in Sessions
    BY <2>3, <2>4 DEF Sessions
  <2>6. refused.web.until[service] \in Nat
    BY <2>5 DEF Sessions, Webs, Times
  <2>7. Fetched(session, service) \in {Failure(asked, 0), Failure(refused, refused.web.until[service]), served}
    BY <1>3 DEF Fetched, asked
  <2> QED
    BY <2>3, <2>5, <2>6, <2>7, FailureStays
<1> QED
  BY <1>2, <1>3

\* The pages of a line, one after the other.
LEMMA PagesStay ==
  ASSUME NEW session \in Sessions, NEW service \in Services, NEW query, NEW n \in Nat, DOMAIN query.hits = 1..n
  PROVE  Pages(session, service, query) \in Sessions
<1> DEFINE NextPage(pages, hit) ==
             LET answer == Fetched(pages, service)
             IN IF ~pages.ok THEN pages ELSE IF answer.ok THEN Keep(answer, hit) ELSE answer
           Is(g) == g = [s \in SUBSET (1..n) |-> IF s = {} THEN session ELSE NextPage(g[s \ {Max(s)}], query.hits[Max(s)])]
           h == CHOOSE g : Is(g)
           step == [p \in Sessions \X (1..n) |-> NextPage(p[1], query.hits[p[2]])]
<1>1. Pages(session, service, query) = h[1..n]
  BY Zenon DEF Pages, FoldLeft, MapThenFoldSet
<1>2. \A pages \in Sessions : \A i \in 1..n : NextPage(pages, query.hits[i]) \in Sessions
  BY FetchedStays, KeepStays
<1> HIDE DEF NextPage
<1>3. /\ step \in [Sessions \X (1..n) -> Sessions]
      /\ \A pages \in Sessions : \A i \in 1..n : step[<<pages, i>>] = NextPage(pages, query.hits[i])
  BY <1>2
<1> HIDE DEF step
<1>4. \E g : Is(g)
  <2>1. PICK g \in [SUBSET (1..n) -> Sessions] : Follows(g, session, step, n)
    BY <1>3, Folded
  <2>2. ASSUME NEW s \in SUBSET (1..n)
        PROVE  g[s] = IF s = {} THEN session ELSE NextPage(g[s \ {Max(s)}], query.hits[Max(s)])
    BY <1>3, <2>1 DEF Follows
  <2> QED
    BY <2>2
<1>5. Is(h)
  BY <1>4
<1> HIDE DEF h
<1>6. h[{}] \in Sessions
  BY <1>5
<1>7. ASSUME NEW k \in 1..n, h[1..(k-1)] \in Sessions
      PROVE  h[1..k] \in Sessions
  <2>1. h[1..k] = NextPage(h[1..(k-1)], query.hits[k])
    <3>1. /\ 1..k \in SUBSET (1..n) /\ 1..k # {}
          /\ Max(1..k) = k /\ (1..k) \ {k} = 1..(k-1)
      BY Prefix
    <3> QED
      BY <1>5, <3>1
  <2> QED
    BY <1>2, <1>7, <2>1
<1>8. h[1..n] \in Sessions
  BY <1>6, <1>7, Chain
<1> QED
  BY <1>1, <1>8

LEMMA ListStays ==
  ASSUME NEW session \in Sessions, NEW service \in Services, NEW query, NEW n \in Nat, DOMAIN query.hits = 1..n
  PROVE  List(session, service, query) \in Sessions
<1> DEFINE answer == Fetched(session, service)
           Take(taken, hit) ==
             IF Len(taken.found) = query.limit THEN taken ELSE Keep(taken, hit)
           Is(g) == g = [s \in SUBSET (1..n) |-> IF s = {} THEN answer ELSE Take(g[s \ {Max(s)}], query.hits[Max(s)])]
           h == CHOOSE g : Is(g)
           step == [p \in Sessions \X (1..n) |-> Take(p[1], query.hits[p[2]])]
<1>0. answer \in Sessions /\ (~answer.ok => List(session, service, query) = answer)
  BY FetchedStays DEF List
<1>1. answer.ok => List(session, service, query) = h[1..n]
  BY Zenon DEF List, FoldLeft, MapThenFoldSet
<1>2. \A taken \in Sessions : \A i \in 1..n : Take(taken, query.hits[i]) \in Sessions
  BY KeepStays
<1> HIDE DEF Take
<1>3. /\ step \in [Sessions \X (1..n) -> Sessions]
      /\ \A taken \in Sessions : \A i \in 1..n : step[<<taken, i>>] = Take(taken, query.hits[i])
  BY <1>2
<1> HIDE DEF step
<1>4. \E g : Is(g)
  <2>1. PICK g \in [SUBSET (1..n) -> Sessions] : Follows(g, answer, step, n)
    BY <1>3, Folded, <1>0
  <2>2. ASSUME NEW s \in SUBSET (1..n)
        PROVE  g[s] = IF s = {} THEN answer ELSE Take(g[s \ {Max(s)}], query.hits[Max(s)])
    BY <1>3, <2>1 DEF Follows
  <2> QED
    BY <2>2
<1>5. Is(h)
  BY <1>4
<1> HIDE DEF h
<1>6. h[{}] \in Sessions
  BY <1>5, <1>0
<1>7. ASSUME NEW k \in 1..n, h[1..(k-1)] \in Sessions
      PROVE  h[1..k] \in Sessions
  <2>1. h[1..k] = Take(h[1..(k-1)], query.hits[k])
    <3>1. /\ 1..k \in SUBSET (1..n) /\ 1..k # {}
          /\ Max(1..k) = k /\ (1..k) \ {k} = 1..(k-1)
      BY Prefix
    <3> QED
      BY <1>5, <3>1
  <2> QED
    BY <1>2, <1>7, <2>1
<1>8. h[1..n] \in Sessions
  BY <1>6, <1>7, Chain
<1> QED
  BY <1>0, <1>1, <1>8

LEMMA SingleStays ==
  ASSUME NEW answer \in Sessions, NEW query
  PROVE  Single(answer, query) \in Sessions
  BY KeepStays, FailureStays DEF Single

LEMMA PhotoStays ==
  ASSUME NEW session \in Sessions, NEW service \in Services, NEW query
  PROVE  Photo(session, service, query) \in Sessions
  BY FetchedStays, SingleStays DEF Photo

LEMMA SkippedStays ==
  ASSUME NEW session \in Sessions
  PROVE  Skipped(session) \in Sessions
<1>1. session.failed + 1 \in Nat
  BY DEF Sessions
<1> QED
  BY <1>1 DEF Skipped, Sessions

LEMMA UnlessAllFailedStays ==
  ASSUME NEW session \in Sessions, NEW hits
  PROVE  UnlessAllFailed(session, hits) \in Sessions
<1>1. (session.ok /\ (session.failed = 0 \/ session.failed < Len(hits))) \in BOOLEAN
  OBVIOUS
<1> QED
  BY <1>1 DEF UnlessAllFailed, Sessions

LEMMA ObjectStays ==
  ASSUME "met" \in Services, NEW session \in Sessions, NEW hit
  PROVE  Object(session, hit) \in Sessions
<1> DEFINE answer == Fetched(session, "met")
           cached == [answer EXCEPT !.web.cache[hit] = TTL]
<1>1. answer \in Sessions
  BY FetchedStays
<1>2. [session EXCEPT !.ok = TRUE] \in Sessions
  BY DEF Sessions
<1>3. Object(session, hit) \in {[session EXCEPT !.ok = TRUE], cached, answer}
  BY DEF Object
<1> HIDE DEF answer
<1>4. cached \in Sessions
  <2> DEFINE cache == [answer.web.cache EXCEPT ![hit] = TTL]
             known == [answer.web EXCEPT !.cache = cache]
  <2>1. answer.web \in Webs /\ answer.web.cache \in [Found -> Nat]
    BY <1>1 DEF Sessions, Webs
  <2>2. cache \in [Found -> Nat]
    BY <2>1, SourcesAssumption
  <2>3. cached = [answer EXCEPT !.web = known]
    OBVIOUS
  <2> HIDE DEF cache
  <2>4. known \in Webs
    BY <2>1, <2>2 DEF Webs
  <2> HIDE DEF known
  <2> QED
    BY <1>1, <2>3, <2>4 DEF Sessions
<1> HIDE DEF cached
<1> QED
  BY <1>1, <1>2, <1>3, <1>4

LEMMA ObjectsStay ==
  ASSUME "met" \in Services, NEW session \in Sessions, NEW query, NEW n \in Nat, DOMAIN query.hits = 1..n
  PROVE  Objects(session, query) \in Sessions
<1> DEFINE answer == Fetched(session, "met")
           NextObject(search, hit) ==
             LET object == Object(search, hit)
             IN IF ~search.ok \/ Len(search.found) = query.limit THEN search
                ELSE IF object.ok THEN Keep(object, hit)
                ELSE IF object.retry > 0 THEN object
                ELSE Skipped(object)
           Is(g) == g = [s \in SUBSET (1..n) |-> IF s = {} THEN answer ELSE NextObject(g[s \ {Max(s)}], query.hits[Max(s)])]
           h == CHOOSE g : Is(g)
           step == [p \in Sessions \X (1..n) |-> NextObject(p[1], query.hits[p[2]])]
<1>0. answer \in Sessions /\ (~answer.ok => Objects(session, query) = answer)
  BY FetchedStays DEF Objects
<1>1. answer.ok => Objects(session, query) = UnlessAllFailed(h[1..n], query.hits)
  BY Zenon DEF Objects, FoldLeft, MapThenFoldSet
<1>2. \A search \in Sessions : \A i \in 1..n : NextObject(search, query.hits[i]) \in Sessions
  BY ObjectStays, KeepStays, SkippedStays
<1> HIDE DEF NextObject
<1>3. /\ step \in [Sessions \X (1..n) -> Sessions]
      /\ \A search \in Sessions : \A i \in 1..n : step[<<search, i>>] = NextObject(search, query.hits[i])
  BY <1>2
<1> HIDE DEF step
<1>4. \E g : Is(g)
  <2>1. PICK g \in [SUBSET (1..n) -> Sessions] : Follows(g, answer, step, n)
    BY <1>3, Folded, <1>0
  <2>2. ASSUME NEW s \in SUBSET (1..n)
        PROVE  g[s] = IF s = {} THEN answer ELSE NextObject(g[s \ {Max(s)}], query.hits[Max(s)])
    BY <1>3, <2>1 DEF Follows
  <2> QED
    BY <2>2
<1>5. Is(h)
  BY <1>4
<1> HIDE DEF h
<1>6. h[{}] \in Sessions
  BY <1>5, <1>0
<1>7. ASSUME NEW k \in 1..n, h[1..(k-1)] \in Sessions
      PROVE  h[1..k] \in Sessions
  <2>1. h[1..k] = NextObject(h[1..(k-1)], query.hits[k])
    <3>1. /\ 1..k \in SUBSET (1..n) /\ 1..k # {}
          /\ Max(1..k) = k /\ (1..k) \ {k} = 1..(k-1)
      BY Prefix
    <3> QED
      BY <1>5, <3>1
  <2> QED
    BY <1>2, <1>7, <2>1
<1>8. h[1..n] \in Sessions
  BY <1>6, <1>7, Chain
<1> QED
  BY <1>0, <1>1, <1>8, UnlessAllFailedStays

LEMMA AssetsStay ==
  ASSUME "nasa" \in Services, NEW session \in Sessions, NEW query, NEW n \in Nat, DOMAIN query.hits = 1..n
  PROVE  Assets(session, query) \in Sessions
<1> DEFINE answer == Fetched(session, "nasa")
           NextItem(items, hit) ==
             LET manifest == Fetched(items, "nasa")
             IN IF manifest.ok THEN Keep(manifest, hit) ELSE Skipped(manifest)
           Is(g) == g = [s \in SUBSET (1..n) |-> IF s = {} THEN answer ELSE NextItem(g[s \ {Max(s)}], query.hits[Max(s)])]
           h == CHOOSE g : Is(g)
           step == [p \in Sessions \X (1..n) |-> NextItem(p[1], query.hits[p[2]])]
<1>0. answer \in Sessions /\ (~answer.ok => Assets(session, query) = answer)
  BY FetchedStays DEF Assets
<1>1. answer.ok => Assets(session, query) = UnlessAllFailed(h[1..n], query.hits)
  BY Zenon DEF Assets, FoldLeft, MapThenFoldSet
<1>2. \A items \in Sessions : \A i \in 1..n : NextItem(items, query.hits[i]) \in Sessions
  BY FetchedStays, KeepStays, SkippedStays
<1> HIDE DEF NextItem
<1>3. /\ step \in [Sessions \X (1..n) -> Sessions]
      /\ \A items \in Sessions : \A i \in 1..n : step[<<items, i>>] = NextItem(items, query.hits[i])
  BY <1>2
<1> HIDE DEF step
<1>4. \E g : Is(g)
  <2>1. PICK g \in [SUBSET (1..n) -> Sessions] : Follows(g, answer, step, n)
    BY <1>3, Folded, <1>0
  <2>2. ASSUME NEW s \in SUBSET (1..n)
        PROVE  g[s] = IF s = {} THEN answer ELSE NextItem(g[s \ {Max(s)}], query.hits[Max(s)])
    BY <1>3, <2>1 DEF Follows
  <2> QED
    BY <2>2
<1>5. Is(h)
  BY <1>4
<1> HIDE DEF h
<1>6. h[{}] \in Sessions
  BY <1>5, <1>0
<1>7. ASSUME NEW k \in 1..n, h[1..(k-1)] \in Sessions
      PROVE  h[1..k] \in Sessions
  <2>1. h[1..k] = NextItem(h[1..(k-1)], query.hits[k])
    <3>1. /\ 1..k \in SUBSET (1..n) /\ 1..k # {}
          /\ Max(1..k) = k /\ (1..k) \ {k} = 1..(k-1)
      BY Prefix
    <3> QED
      BY <1>5, <3>1
  <2> QED
    BY <1>2, <1>7, <2>1
<1>8. h[1..n] \in Sessions
  BY <1>6, <1>7, Chain
<1> QED
  BY <1>0, <1>1, <1>8, UnlessAllFailedStays

LEMMA HitsDomain ==
  ASSUME NEW providers, NEW query \in ProviderLines(providers)
  PROVE  \E n \in Nat : DOMAIN query.hits = 1..n
<1>1. query.hits \in Seq(Images)
  BY DEF ProviderLines
<1> QED
  BY <1>1

\* A line of one provider: its gate is the only one it has to do with.
LEMMA ProviderStays ==
  ASSUME NEW session \in Sessions, NEW providers, NEW query \in ProviderLines(providers)
  PROVE  /\ query.provider = "artic" => Artic(session, query) \in Sessions
         /\ query.provider = "cleveland" => Cleveland(session, query) \in Sessions
         /\ query.provider = "smk" => SMK(session, query) \in Sessions
         /\ query.provider = "met" => Met(session, query) \in Sessions
         /\ query.provider = "commons" => Commons(session, query) \in Sessions
         /\ query.provider = "nasa" => NASA(session, query) \in Sessions
         /\ query.provider = "pexels" => Pexels(session, query) \in Sessions
         /\ query.provider = "pixabay" => Pixabay(session, query) \in Sessions
         /\ query.provider = "unsplash" => Unsplash(session, query) \in Sessions
<1>1. query.provider \in Services
  BY DEF ProviderLines
<1>2. PICK n \in Nat : DOMAIN query.hits = 1..n
  BY HitsDomain
<1>3. Wrong(session) \in Sessions
  BY FailureStays DEF Wrong
<1>4. \A service \in Services : /\ List(session, service, query) \in Sessions
                                /\ Photo(session, service, query) \in Sessions
                                /\ Pages(session, service, query) \in Sessions
  BY <1>2, ListStays, PhotoStays, PagesStay
<1>5. query.provider = "artic" => Artic(session, query) \in Sessions
  BY <1>1, <1>3, <1>4 DEF Artic
<1>6. query.provider = "cleveland" => Cleveland(session, query) \in Sessions
  BY <1>1, <1>3, <1>4 DEF Cleveland
<1>7. query.provider = "smk" => SMK(session, query) \in Sessions
  BY <1>1, <1>3, <1>4 DEF SMK
<1>8. query.provider = "met" => Met(session, query) \in Sessions
  <2>1. "met" \in Services => Objects(session, query) \in Sessions /\ Object(session, query.hits[1]) \in Sessions
    BY <1>2, ObjectsStay, ObjectStays
  <2> QED
    BY <1>1, <1>3, <2>1, SingleStays DEF Met
<1>9. query.provider = "commons" => Commons(session, query) \in Sessions
  BY <1>1, <1>3, <1>4 DEF Commons
<1>10. query.provider = "nasa" => NASA(session, query) \in Sessions
  <2>1. "nasa" \in Services => Assets(session, query) \in Sessions
    BY <1>2, AssetsStay
  <2> QED
    BY <1>1, <1>3, <1>4, <2>1 DEF NASA
<1>11. query.provider = "pexels" => Pexels(session, query) \in Sessions
  BY <1>1, <1>3, <1>4 DEF Pexels
<1>12. query.provider = "pixabay" => Pixabay(session, query) \in Sessions
  BY <1>1, <1>3, <1>4 DEF Pixabay
<1>13. query.provider = "unsplash" => Unsplash(session, query) \in Sessions
  BY <1>1, <1>3, <1>4 DEF Unsplash
<1> QED
  BY <1>5, <1>6, <1>7, <1>8, <1>9, <1>10, <1>11, <1>12, <1>13

LEMMA SearcherStays ==
  ASSUME NEW session \in Sessions, NEW providers, NEW query \in ProviderLines(providers), query.provider \in Museums
  PROVE  Searcher(session, query) \in Sessions
  BY ProviderStays DEF Searcher, Museums

Searches == [session : Sessions, lists : Seq(Seq(Usable)), failed : Nat, retry : Nat]

\* One more museum is searched behind its own gate.
LEMMA SearchedStays ==
  ASSUME NEW search \in Searches, NEW part \in ProviderLines(Museums)
  PROVE  Searched(search, part) \in Searches
<1> DEFINE fresh == [search.session EXCEPT !.found = <<>>, !.failed = 0, !.retry = 0, !.ok = TRUE]
           answer == Searcher(fresh, part)
           lists == Append(search.lists, IF answer.ok THEN answer.found ELSE <<>>)
           failed == search.failed + (IF answer.ok THEN 0 ELSE 1)
           retry == IF answer.ok \/ search.retry > 0 THEN search.retry ELSE answer.retry
<1>1. fresh \in Sessions
  <2>1. <<>> \in Seq(Usable)
    OBVIOUS
  <2> QED
    BY <2>1 DEF Searches, Sessions
<1>2. part.provider \in Museums
  BY DEF ProviderLines
<1> HIDE DEF fresh
<1>3. answer \in Sessions
  BY <1>1, <1>2, SearcherStays
<1>4. Searched(search, part) = [session |-> answer, lists |-> lists, failed |-> failed, retry |-> retry]
  BY DEF Searched, fresh
<1> HIDE DEF answer
<1>5. /\ search.lists \in Seq(Seq(Usable)) /\ search.failed \in Nat /\ search.retry \in Nat
      /\ answer.found \in Seq(Usable) /\ answer.retry \in Nat
  BY <1>3 DEF Searches, Sessions
<1>6. lists \in Seq(Seq(Usable)) /\ failed \in Nat /\ retry \in Nat
  BY <1>5
<1> HIDE DEF lists, failed, retry
<1> QED
  BY <1>3, <1>4, <1>6 DEF Searches

LEMMA MuseumStays ==
  ASSUME NEW session \in Sessions, NEW query, NEW n \in Nat, DOMAIN query.parts = 1..n,
         \A i \in 1..n : query.parts[i] \in ProviderLines(Museums)
  PROVE  Museum(session, query).web \in Webs /\ Museum(session, query).retry \in Nat
<1> DEFINE none == [session |-> session, lists |-> <<>>, failed |-> 0, retry |-> 0]
           Is(g) == g = [s \in SUBSET (1..n) |-> IF s = {} THEN none ELSE Searched(g[s \ {Max(s)}], query.parts[Max(s)])]
           h == CHOOSE g : Is(g)
           step == [p \in Searches \X (1..n) |-> Searched(p[1], query.parts[p[2]])]
<1>0. none \in Searches
  <2>1. <<>> \in Seq(Seq(Usable))
    OBVIOUS
  <2> QED
    BY <2>1 DEF Searches
<1>1. Museum(session, query)
      = [h[1..n].session EXCEPT !.found = MergeCandidates(h[1..n].lists, query.limit),
                                !.ok = h[1..n].failed < Len(query.parts), !.retry = h[1..n].retry]
  BY Zenon DEF Museum, FoldLeft, MapThenFoldSet
<1>2. \A search \in Searches : \A i \in 1..n : Searched(search, query.parts[i]) \in Searches
  BY SearchedStays
<1>3. /\ step \in [Searches \X (1..n) -> Searches]
      /\ \A search \in Searches : \A i \in 1..n : step[<<search, i>>] = Searched(search, query.parts[i])
  BY <1>2
<1> HIDE DEF step
<1>4. \E g : Is(g)
  <2>1. PICK g \in [SUBSET (1..n) -> Searches] : Follows(g, none, step, n)
    <3> HIDE DEF none
    <3> QED
      BY <1>0, <1>3, Folded
  <2>2. ASSUME NEW s \in SUBSET (1..n)
        PROVE  g[s] = IF s = {} THEN none ELSE Searched(g[s \ {Max(s)}], query.parts[Max(s)])
    <3> HIDE DEF none
    <3> QED
      BY <1>3, <2>1 DEF Follows
  <2> QED
    BY <2>2
<1>5. Is(h)
  BY <1>4
<1> HIDE DEF h
<1>6. h[{}] \in Searches
  BY <1>0, <1>5
<1>7. ASSUME NEW k \in 1..n, h[1..(k-1)] \in Searches
      PROVE  h[1..k] \in Searches
  <2>1. h[1..k] = Searched(h[1..(k-1)], query.parts[k])
    <3>1. /\ 1..k \in SUBSET (1..n) /\ 1..k # {}
          /\ Max(1..k) = k /\ (1..k) \ {k} = 1..(k-1)
      BY Prefix
    <3> QED
      BY <1>5, <3>1
  <2> QED
    BY <1>2, <1>7, <2>1
<1>8. h[1..n] \in Searches
  BY <1>6, <1>7, Chain
<1>9. h[1..n].session \in Sessions /\ h[1..n].retry \in Nat
  BY <1>8 DEF Searches
<1> QED
  BY <1>1, <1>9 DEF Sessions

\* No line, asked whenever, presses a service that said its quota is used up.
LEMMA ResolutionStays ==
  ASSUME NEW session \in Sessions, NEW line \in Lines \ Direct
  PROVE  Resolution(session, Query[line]).web \in Webs /\ Resolution(session, Query[line]).retry \in Nat
<1> DEFINE query == Query[line]
           All == Museums \cup {"commons", "nasa", "pexels", "pixabay", "unsplash"}
<1>1. query \in MuseumLines \/ query \in ProviderLines(All)
  BY QueryAssumption
<1> HIDE DEF query
<1>2. CASE query \in MuseumLines
  <2>1. query.provider = "museum" /\ query.parts \in Seq(ProviderLines(Museums))
    BY <1>2 DEF MuseumLines
  <2>2. PICK n \in Nat : DOMAIN query.parts = 1..n /\ \A i \in 1..n : query.parts[i] \in ProviderLines(Museums)
    BY <2>1
  <2>3. Resolution(session, query) = Museum(session, query)
    BY <2>1 DEF Resolution
  <2> QED
    BY <2>2, <2>3, MuseumStays DEF query
<1>3. CASE query \in ProviderLines(All)
  <2>1. query.provider \in All
    BY <1>3 DEF ProviderLines
  <2>2. Resolution(session, query) \in Sessions
    <3>1. CASE query.provider \in Museums
      <4>1. Resolution(session, query) = Searcher(session, query)
        BY <3>1 DEF Resolution, Museums
      <4>2. Searcher(session, query) \in Sessions
        <5> HIDE DEF All
        <5> QED
          BY <1>3, <3>1, SearcherStays
      <4> QED
        BY <4>1, <4>2
    <3>2. CASE query.provider = "commons"
      BY <1>3, <3>2, ProviderStays DEF Resolution
    <3>3. CASE query.provider = "nasa"
      BY <1>3, <3>3, ProviderStays DEF Resolution
    <3>4. CASE query.provider = "pexels"
      BY <1>3, <3>4, ProviderStays DEF Resolution
    <3>5. CASE query.provider = "pixabay"
      BY <1>3, <3>5, ProviderStays DEF Resolution
    <3>6. CASE query.provider = "unsplash"
      BY <1>3, <3>6, ProviderStays DEF Resolution
    <3> QED
      BY <2>1, <3>1, <3>2, <3>3, <3>4, <3>5, <3>6
  <2> QED
    BY <2>2 DEF Sessions, query
<1> QED
  BY <1>1, <1>2, <1>3

-----------------------------------------------------------------------------
(* The backoff grows with the failures in a row.                           *)

LEMMA MinOfTwo ==
  ASSUME NEW a \in Nat, NEW b \in Nat
  PROVE  Min({a, b}) = IF a <= b THEN a ELSE b
<1> DEFINE P(x) == \A y \in {a, b} : x <= y
           least == IF a <= b THEN a ELSE b
<1>1. least \in {a, b} /\ P(least)
  OBVIOUS
<1>2. Min({a, b}) = CHOOSE x \in {a, b} : P(x)
  BY Zenon DEF Min
<1> HIDE DEF P
<1>3. Min({a, b}) \in {a, b} /\ P(Min({a, b}))
  BY <1>1, <1>2
<1> QED
  BY <1>3 DEF P

LEMMA MaxOfTwo ==
  ASSUME NEW a \in Nat, NEW b \in Nat
  PROVE  Max({a, b}) = IF a >= b THEN a ELSE b
<1> DEFINE P(x) == \A y \in {a, b} : x >= y
           most == IF a >= b THEN a ELSE b
<1>1. most \in {a, b} /\ P(most)
  OBVIOUS
<1>2. Max({a, b}) = CHOOSE x \in {a, b} : P(x)
  BY Zenon DEF Max
<1> HIDE DEF P
<1>3. Max({a, b}) \in {a, b} /\ P(Max({a, b}))
  BY <1>1, <1>2
<1> QED
  BY <1>3 DEF P

LEMMA DoubledIs ==
  Doubled = [count \in 0..MaxDoublings |-> IF count = 0 THEN 1 ELSE 2 * Doubled[count - 1]]
<1> DEFINE Is(d) == d = [count \in 0..MaxDoublings |-> IF count = 0 THEN 1 ELSE 2 * d[count - 1]]
           step == [p \in Nat \X (1..MaxDoublings) |-> 2 * p[1]]
<1>1. MaxDoublings \in Nat /\ step \in [Nat \X (1..MaxDoublings) -> Nat]
      /\ \A a \in Nat, i \in 1..MaxDoublings : step[<<a, i>>] = 2 * a
  BY SourcesAssumption
<1> HIDE DEF step
<1>2. PICK g \in [SUBSET (1..MaxDoublings) -> Nat] : Follows(g, 1, step, MaxDoublings)
  BY <1>1, Folded
<1> DEFINE d == [count \in 0..MaxDoublings |-> g[1..count]]
<1>3. Is(d)
  <2>1. ASSUME NEW count \in 0..MaxDoublings
        PROVE  d[count] = IF count = 0 THEN 1 ELSE 2 * d[count - 1]
    <3>1. CASE count = 0
      <4>1. 1..0 = {} /\ {} \in SUBSET (1..MaxDoublings)
        OBVIOUS
      <4> QED
        BY <1>2, <3>1, <4>1 DEF Follows
    <3>2. CASE count # 0
      <4>1. count \in 1..MaxDoublings /\ count - 1 \in 0..MaxDoublings
        BY <1>1, <3>2
      <4>2. /\ 1..count \in SUBSET (1..MaxDoublings) /\ 1..(count - 1) \in SUBSET (1..MaxDoublings)
            /\ 1..count # {} /\ Max(1..count) = count /\ (1..count) \ {count} = 1..(count - 1)
        BY <1>1, <4>1, Prefix
      <4>3. g[1..count] = step[<<g[1..(count - 1)], count>>]
        BY <1>2, <4>2 DEF Follows
      <4>4. g[1..count] = 2 * g[1..(count - 1)]
        BY <1>1, <4>1, <4>2, <4>3
      <4> QED
        BY <3>2, <4>1, <4>4
    <3> QED
      BY <3>1, <3>2
  <2> QED
    BY <2>1
<1>4. Doubled = CHOOSE f : Is(f)
  BY Zenon DEF Doubled
<1> HIDE DEF Is
<1>5. Is(Doubled)
  BY <1>3, <1>4
<1> QED
  BY <1>5 DEF Is

LEMMA DoubledGrows ==
  ASSUME NEW n \in 0..MaxDoublings
  PROVE  Doubled[n] \in Nat /\ \A m \in 0..n : Doubled[m] <= Doubled[n]
<1> DEFINE T == {k \in 0..MaxDoublings : ~(Doubled[k] \in Nat /\ \A m \in 0..k : Doubled[m] <= Doubled[k])}
<1>1. MaxDoublings \in Nat
  BY SourcesAssumption
<1>2. SUFFICES ASSUME T # {}
               PROVE  FALSE
  OBVIOUS
<1>3. T \in SUBSET Nat
  BY <1>1
<1> HIDE DEF T
<1>4. PICK k \in T : \A m \in T : k <= m
  BY <1>2, <1>3, Least
<1>5. k \in 0..MaxDoublings /\ ~(Doubled[k] \in Nat /\ \A m \in 0..k : Doubled[m] <= Doubled[k])
  BY <1>4 DEF T
<1>6. k # 0
  BY <1>5, DoubledIs
<1>7. k - 1 \in 0..MaxDoublings /\ k - 1 \notin T
  BY <1>1, <1>3, <1>4, <1>5, <1>6
<1>8. Doubled[k - 1] \in Nat /\ \A m \in 0..(k - 1) : Doubled[m] <= Doubled[k - 1]
  BY <1>7 DEF T
<1>9. Doubled[k] = 2 * Doubled[k - 1]
  BY <1>5, <1>6, DoubledIs
<1>10. ASSUME NEW m \in 0..k
       PROVE  Doubled[m] <= Doubled[k]
  <2>1. CASE m = k
    BY <1>8, <1>9, <2>1
  <2>2. CASE m # k
    <3>1. m \in 0..(k - 1)
      BY <1>1, <1>5, <2>2
    <3>2. Doubled[m] <= Doubled[k - 1]
      BY <1>8, <3>1
    <3>3. Doubled[m] \in Nat
      <4>1. m \in 0..MaxDoublings /\ m \notin T
        BY <1>1, <1>3, <1>4, <1>5, <3>1
      <4> QED
        BY <4>1 DEF T
    <3> QED
      BY <1>8, <1>9, <3>2, <3>3
  <2> QED
    BY <2>1, <2>2
<1> QED
  BY <1>5, <1>8, <1>9, <1>10

LEMMA BackoffGrows ==
  ASSUME NEW m \in Nat \ {0}, NEW n \in Nat \ {0}, m <= n
  PROVE  Backoff(m) \in Nat /\ Backoff(n) \in Nat /\ Backoff(m) <= Backoff(n)
<1> DEFINE low == Min({m - 1, MaxDoublings})
           high == Min({n - 1, MaxDoublings})
<1>1. MaxDoublings \in Nat /\ TTL \in Nat
  BY SourcesAssumption
<1>2. low \in 0..high /\ high \in 0..MaxDoublings /\ low \in 0..MaxDoublings
  <2>1. low = IF m - 1 <= MaxDoublings THEN m - 1 ELSE MaxDoublings
    BY <1>1, MinOfTwo
  <2>2. high = IF n - 1 <= MaxDoublings THEN n - 1 ELSE MaxDoublings
    BY <1>1, MinOfTwo
  <2> HIDE DEF low, high
  <2> QED
    BY <1>1, <2>1, <2>2
<1> HIDE DEF low, high
<1>3. Doubled[low] \in Nat /\ Doubled[high] \in Nat /\ Doubled[low] <= Doubled[high]
  BY <1>2, DoubledGrows
<1>4. Backoff(m) = Min({Doubled[low], TTL}) /\ Backoff(n) = Min({Doubled[high], TTL})
  BY DEF Backoff, low, high
<1>5. /\ Backoff(m) = IF Doubled[low] <= TTL THEN Doubled[low] ELSE TTL
      /\ Backoff(n) = IF Doubled[high] <= TTL THEN Doubled[high] ELSE TTL
  BY <1>1, <1>3, <1>4, MinOfTwo
<1> QED
  BY <1>1, <1>3, <1>5

\* One more failure, on what is counted.
LEMMA AnotherGrows ==
  ASSUME NEW m \in Nat, NEW n \in 0..(MaxDoublings + 1), m <= n
  PROVE  /\ Another(m) \in Nat \ {0} /\ Another(n) \in 1..(MaxDoublings + 1)
         /\ Another(m) <= Another(n) /\ n <= Another(n)
<1>1. MaxDoublings \in Nat
  BY SourcesAssumption
<1>2. /\ Another(m) = IF m + 1 <= MaxDoublings + 1 THEN m + 1 ELSE MaxDoublings + 1
      /\ Another(n) = IF n + 1 <= MaxDoublings + 1 THEN n + 1 ELSE MaxDoublings + 1
  BY <1>1, MinOfTwo DEF Another
<1> QED
  BY <1>1, <1>2

LEMMA LeftStays ==
  ASSUME NEW time \in Nat
  PROVE  /\ Left(time) \in Nat
         /\ \A other \in Nat : time <= other => Left(time) <= Left(other)
  BY DEF Left

-----------------------------------------------------------------------------
(* The loader: what it remembers keeps each line from its provider.        *)

IsEntry(entry) ==
  /\ entry = [resolved |-> entry.resolved, found |-> entry.found, expires |-> entry.expires,
              wait |-> entry.wait, failures |-> entry.failures]
  /\ entry.expires \in Nat /\ entry.wait \in Nat /\ entry.failures \in 0..(MaxDoublings + 1)

\* An entry keeps its line from the provider for a time, and counts at least these failures.
Holds(entry, time, count) ==
  /\ IsEntry(entry)
  /\ time > 0 => (entry.resolved /\ entry.expires >= time) \/ entry.wait >= time
  /\ count <= entry.failures

Remembers(saved, times, counts) ==
  /\ saved.resolutions = [line \in Lines |-> saved.resolutions[line]]
  /\ \A line \in Lines : Holds(saved.resolutions[line], times[line], counts[line])

Counted ==
  /\ quiet \in [Lines -> Nat] /\ savedQuiet \in [Lines -> Nat]
  /\ failures \in [Lines -> Nat] /\ savedFailures \in [Lines -> Nat]

MemoryHolds == state # None => Remembers(state, quiet, failures)

DiskHolds ==
  IF disk # None THEN Remembers(disk, savedQuiet, savedFailures)
  ELSE \A line \in Lines : savedQuiet[line] = 0 /\ savedFailures[line] = 0

\* Without a process, what counts is what was saved.
SavedCounts == state = None => quiet = savedQuiet /\ failures = savedFailures

PInv == Counted /\ MemoryHolds /\ DiskHolds /\ SavedCounts /\ web \in Webs /\ pressed = {}

LEMMA AgedWebStays ==
  ASSUME NEW known \in Webs
  PROVE  AgedWeb(known) \in Webs
<1> DEFINE until == Ticked(known.until)
           window == Ticked(known.window)
           told == Ticked(known.told)
           cache == Ticked(known.cache)
           left == [service \in Services |-> IF known.window[service] <= 1 THEN Quota[service] ELSE known.left[service]]
<1>1. known = [until |-> known.until, left |-> known.left, window |-> known.window, cache |-> known.cache,
               told |-> known.told, rude |-> known.rude]
  BY DEF Webs
<1>2. AgedWeb(known)
      = [until |-> until, left |-> left, window |-> window, cache |-> cache, told |-> told, rude |-> known.rude]
  <2>1. AgedWeb(known)
        = [[[[[known EXCEPT !.until = until] EXCEPT !.window = window] EXCEPT !.told = told] EXCEPT !.cache = cache]
           EXCEPT !.left = left]
    BY <1>1 DEF AgedWeb
  <2> HIDE DEF until, window, told, cache, left
  <2> QED
    BY <1>1, <2>1
<1>3. /\ known.until \in Times /\ known.window \in Times /\ known.told \in Times
      /\ known.cache \in [Found -> Nat] /\ known.left \in [Services -> Int] /\ known.rude \in {{}}
      /\ \A service \in Services : known.told[service] <= known.until[service]
  BY DEF Webs
<1>4. until \in Times /\ window \in Times /\ told \in Times /\ cache \in [Found -> Nat]
  BY <1>3, LeftStays DEF Ticked, Times
<1>5. left \in [Services -> Int]
  BY <1>3, QueryAssumption
<1>6. \A service \in Services : told[service] <= until[service]
  BY <1>3, LeftStays DEF Ticked, Times
<1> HIDE DEF until, window, told, cache, left
<1> QED
  BY <1>2, <1>3, <1>4, <1>5, <1>6 DEF Webs

LEMMA ForgottenWebStays ==
  ASSUME NEW known \in Webs
  PROVE  ForgottenWeb(known) \in Webs
<1> DEFINE cache == [object \in DOMAIN known.cache |-> 0]
<1>1. known = [until |-> known.until, left |-> known.left, window |-> known.window, cache |-> known.cache,
               told |-> known.told, rude |-> known.rude]
  BY DEF Webs
<1>2. ForgottenWeb(known)
      = [until |-> Everywhere(0), left |-> known.left, window |-> known.window, cache |-> cache,
         told |-> Everywhere(0), rude |-> known.rude]
  <2>1. ForgottenWeb(known)
        = [[[known EXCEPT !.until = Everywhere(0)] EXCEPT !.told = Everywhere(0)] EXCEPT !.cache = cache]
    BY <1>1 DEF ForgottenWeb
  <2> HIDE DEF cache
  <2> QED
    BY <1>1, <2>1
<1>3. /\ known.window \in Times /\ known.cache \in [Found -> Nat]
      /\ known.left \in [Services -> Int] /\ known.rude \in {{}}
  BY DEF Webs
<1>4. Everywhere(0) \in Times /\ cache \in [Found -> Nat]
      /\ \A service \in Services : Everywhere(0)[service] <= Everywhere(0)[service]
  BY <1>3 DEF Everywhere, Times
<1> HIDE DEF cache
<1> QED
  BY <1>2, <1>3, <1>4 DEF Webs

LEMMA NewWeb == Web(Found) \in Webs
<1>1. Quota \in [Services -> Int] /\ [object \in Found |-> 0] \in [Found -> Nat]
  BY QueryAssumption
<1>2. Everywhere(0) \in Times /\ \A service \in Services : Everywhere(0)[service] <= Everywhere(0)[service]
  BY DEF Everywhere, Times
<1> QED
  BY <1>1, <1>2 DEF Web, Webs

LEMMA NewEntry == IsEntry(NoEntry) /\ Holds(NoEntry, 0, 0)
  BY SourcesAssumption DEF IsEntry, Holds, NoEntry

LEMMA EmptyRemembers ==
  ASSUME NEW times, NEW counts, \A line \in Lines : times[line] = 0 /\ counts[line] = 0
  PROVE  Remembers(EmptyState, times, counts)
  BY NewEntry DEF Remembers, EmptyState, Holds

LEMMA PolitelyInit == ASSUME Init PROVE PInv
  BY NewWeb, EmptyRemembers DEF Init, PInv, Counted, MemoryHolds, DiskHolds, SavedCounts

\* What a line and its state have to do with, when only the rest changes.
LEMMA PolitelyElsewhere ==
  ASSUME PInv, UNCHANGED <<diskVars, state, web, quiet, failures, pressed>>
  PROVE  PInv'
  BY DEF PInv, Counted, MemoryHolds, DiskHolds, SavedCounts, Remembers, Holds, IsEntry, diskVars

LEMMA PolitelyStartSync ==
  ASSUME NoneIsNoState, PInv, StartSync
  PROVE  PInv'
<1>1. UNCHANGED <<diskVars, web, quiet, failures, pressed>>
  BY DEF StartSync
<1>2. Remembers(state', quiet, failures)
  <2>1. CASE state # None
    BY <2>1 DEF StartSync, PInv, MemoryHolds
  <2>2. CASE state = None /\ disk # None
    BY <2>2 DEF StartSync, PInv, DiskHolds, SavedCounts
  <2>3. CASE state = None /\ disk = None
    <3>1. \A line \in Lines : quiet[line] = 0 /\ failures[line] = 0
      BY <2>3 DEF PInv, DiskHolds, SavedCounts
    <3> QED
      BY <2>3, <3>1, EmptyRemembers DEF StartSync
  <2> QED
    BY <2>1, <2>2, <2>3
<1>3. state' # None
  BY EmptyIsState, StateIsNotNone DEF StartSync
<1> QED
  BY <1>1, <1>2, <1>3 DEF PInv, Counted, MemoryHolds, DiskHolds, SavedCounts, diskVars, Remembers, Holds, IsEntry

\* Whichever requests are lost, the answer leaves the services as the process may know them.
LEMMA AnswersStay ==
  ASSUME web \in Webs, NEW line \in Lines \ Direct, NEW answer \in Answers(line)
  PROVE  answer.web \in Webs /\ answer.retry \in Nat
<1>1. PICK broken \in SUBSET (1..(IF budget > 0 THEN Losses ELSE 0)) : answer = Asked(line, broken)
  BY DEF Answers
<1>2. broken \in SUBSET Nat
  BY SourcesAssumption
<1>3. Session(web, broken) \in Sessions
  <2>1. <<>> \in Seq(Usable)
    OBVIOUS
  <2> QED
    BY <1>2, <2>1 DEF Session, Sessions
<1> QED
  BY <1>1, <1>3, ResolutionStays DEF Asked

\* A line that is asked has nothing to wait for.
LEMMA AskedIsFree ==
  ASSUME PInv, state # None, NEW line \in Lines, Asks(line)
  PROVE  quiet[line] = 0
<1>1. Holds(Entry(line), quiet[line], failures[line]) /\ quiet[line] \in Nat
  BY DEF PInv, Counted, MemoryHolds, Remembers, Entry
<1>2. ~(Entry(line).resolved /\ Entry(line).expires > 0) /\ ~(Entry(line).wait > 0)
  BY DEF Asks, Fresh, Waiting
<1> QED
  BY <1>1, <1>2 DEF Holds, IsEntry

\* What is remembered of a line that was asked holds it for as long as it should be.
LEMMA PolitelyRemembered ==
  ASSUME PInv, state # None, IsState(state), NEW line \in Lines, NEW entry, Remember(line, entry),
         NEW time \in Nat, NEW count \in Nat, Holds(entry, time, count),
         quiet' = [quiet EXCEPT ![line] = time], failures' = [failures EXCEPT ![line] = count],
         state' # None, UNCHANGED diskVars, web' \in Webs, pressed' = {}
  PROVE  PInv'
<1>1. state'.resolutions = [state.resolutions EXCEPT ![line] = entry]
  <2>1. state = [resolutions |-> state.resolutions, credits |-> state.credits]
    BY DEF IsState
  <2>2. state' = [state EXCEPT !.resolutions = [state.resolutions EXCEPT ![line] = entry]]
    BY DEF Remember
  <2> QED
    BY <2>1, <2>2
<1>2. /\ state.resolutions = [other \in Lines |-> state.resolutions[other]]
      /\ \A other \in Lines : Holds(state.resolutions[other], quiet[other], failures[other])
      /\ quiet \in [Lines -> Nat] /\ failures \in [Lines -> Nat]
  BY DEF PInv, Counted, MemoryHolds, Remembers
<1>3. /\ state'.resolutions = [other \in Lines |-> state'.resolutions[other]]
      /\ \A other \in Lines : state'.resolutions[other] = IF other = line THEN entry ELSE state.resolutions[other]
  BY <1>1, <1>2
<1>4. \A other \in Lines : Holds(state'.resolutions[other], quiet'[other], failures'[other])
  <2> SUFFICES ASSUME NEW other \in Lines
               PROVE  Holds(state'.resolutions[other], quiet'[other], failures'[other])
    OBVIOUS
  <2>1. CASE other = line
    BY <1>2, <1>3, <2>1
  <2>2. CASE other # line
    <3>1. quiet'[other] = quiet[other] /\ failures'[other] = failures[other]
      BY <1>2, <2>2
    <3> QED
      BY <1>2, <1>3, <2>2, <3>1
  <2> QED
    BY <2>1, <2>2
<1>5. MemoryHolds'
  BY <1>3, <1>4 DEF MemoryHolds, Remembers
<1>6. Counted' /\ DiskHolds' /\ SavedCounts'
  BY <1>2 DEF PInv, Counted, DiskHolds, SavedCounts, diskVars, Remembers, Holds, IsEntry
<1> QED
  BY <1>5, <1>6 DEF PInv

LEMMA PolitelyAsked ==
  ASSUME NoneIsNoState, IInv, PInv, NEW line \in Lines, ProviderAnswers(line) \/ ProviderFails(line)
  PROVE  PInv'
<1>1. IInv' /\ state # None /\ IsState(state) /\ pc' # "idle" /\ line \in Lines \ Direct /\ Asks(line)
  <2>1. pc = "lines" /\ pc' \in {"lines", "images"} /\ Asks(line)
    BY DEF ProviderAnswers, ProviderFails, NextLine, LastKnownGood, Download, Skip
  <2> QED
    BY <2>1, AskedKeeps DEF IInv, LoadedInTime, WholeStates, Asks
<1>2. state' # None
  BY <1>1 DEF IInv, LoadedInTime
<1>3. quiet[line] = 0
  BY <1>1, AskedIsFree
<1>4. /\ Holds(Entry(line), quiet[line], failures[line])
      /\ quiet \in [Lines -> Nat] /\ failures \in [Lines -> Nat] /\ web \in Webs /\ pressed = {}
  BY <1>1 DEF PInv, Counted, MemoryHolds, Remembers, Entry
<1>5. CASE ProviderAnswers(line)
  <2>1. PICK answer \in Answers(line) :
          /\ Takes(answer, line)
          /\ Remember(line, [NoEntry EXCEPT !.resolved = TRUE, !.found = ToSet(answer.found), !.expires = TTL])
          /\ quiet' = [quiet EXCEPT ![line] = TTL] /\ failures' = [failures EXCEPT ![line] = 0]
    BY <1>5 DEF ProviderAnswers
  <2>2. UNCHANGED diskVars /\ web' \in Webs /\ pressed' = {}
    BY <1>1, <1>3, <1>4, <2>1, AnswersStay DEF Takes
  <2> DEFINE found == ToSet(answer.found)
             entry == [NoEntry EXCEPT !.resolved = TRUE, !.found = found, !.expires = TTL]
  <2> HIDE DEF found
  <2>3. entry = [resolved |-> TRUE, found |-> found, expires |-> TTL, wait |-> 0, failures |-> 0]
    <3>1. entry = [[[NoEntry EXCEPT !.resolved = TRUE] EXCEPT !.found = found] EXCEPT !.expires = TTL]
      OBVIOUS
    <3> HIDE DEF entry
    <3> QED
      BY <3>1 DEF NoEntry
  <2> HIDE DEF entry
  <2>4. TTL \in Nat /\ Holds(entry, TTL, 0)
    BY <2>3, SourcesAssumption DEF Holds, IsEntry
  <2>5. Remember(line, entry)
    BY <2>1 DEF entry, found
  <2> QED
    BY <1>1, <1>2, <2>1, <2>2, <2>4, <2>5, PolitelyRemembered
<1>6. CASE ProviderFails(line)
  <2>1. PICK answer \in Answers(line) :
          /\ Takes(answer, line)
          /\ Remember(line, Failed(Entry(line), answer.retry))
          /\ IF answer.sent = 0 THEN UNCHANGED <<quiet, failures>>
             ELSE /\ failures' = [failures EXCEPT ![line] = Another(@)]
                  /\ quiet' = [quiet EXCEPT ![line] = Backoff(failures'[line])]
    BY <1>6 DEF ProviderFails
  <2>2. UNCHANGED diskVars /\ web' \in Webs /\ pressed' = {} /\ answer.retry \in Nat
    BY <1>1, <1>3, <1>4, <2>1, AnswersStay DEF Takes
  <2> DEFINE old == Entry(line)
             entry == Failed(old, answer.retry)
             low == Backoff(Another(failures[line]))
             high == Backoff(Another(old.failures))
  <2>3. /\ failures[line] \in Nat /\ old.failures \in 0..(MaxDoublings + 1) /\ failures[line] <= old.failures
        /\ old = [resolved |-> old.resolved, found |-> old.found, expires |-> old.expires,
                  wait |-> old.wait, failures |-> old.failures]
        /\ old.expires \in Nat
    BY <1>4 DEF Holds, IsEntry
  <2> HIDE DEF old
  <2>4. /\ Another(failures[line]) \in Nat \ {0} /\ Another(old.failures) \in 1..(MaxDoublings + 1)
        /\ Another(failures[line]) <= Another(old.failures) /\ old.failures <= Another(old.failures)
    BY <2>3, AnotherGrows
  <2>5. low \in Nat /\ high \in Nat /\ low <= high
    <3>1. Another(old.failures) \in Nat \ {0}
      BY <2>4, SourcesAssumption
    <3> QED
      BY <2>4, <3>1, BackoffGrows
  <2>6. entry = [resolved |-> old.resolved, found |-> old.found, expires |-> old.expires,
                 wait |-> Max({high, answer.retry}), failures |-> Another(old.failures)]
    <3>1. entry = [[old EXCEPT !.failures = Another(old.failures)] EXCEPT !.wait = Max({high, answer.retry})]
      BY <2>3 DEF Failed
    <3> HIDE DEF entry, high
    <3> QED
      BY <2>3, <3>1
  <2> HIDE DEF entry, low, high
  <2>7. Max({high, answer.retry}) \in Nat /\ Max({high, answer.retry}) >= high
    BY <2>2, <2>5, MaxOfTwo
  <2>8. IsEntry(entry)
    BY <2>3, <2>4, <2>6, <2>7, SourcesAssumption DEF IsEntry
  <2>9. Remember(line, entry)
    BY <2>1 DEF entry, old
  <2>10. CASE answer.sent = 0
    <3>1. Holds(entry, 0, failures[line])
      BY <2>3, <2>4, <2>6, <2>8, SourcesAssumption DEF Holds
    <3>2. quiet' = [quiet EXCEPT ![line] = 0] /\ failures' = [failures EXCEPT ![line] = failures[line]]
      BY <1>3, <1>4, <2>1, <2>10
    <3> QED
      BY <1>1, <1>2, <2>2, <2>3, <2>9, <3>1, <3>2, PolitelyRemembered
  <2>11. CASE answer.sent # 0
    <3>1. Holds(entry, low, Another(failures[line]))
      BY <2>4, <2>5, <2>6, <2>7, <2>8 DEF Holds
    <3>2. failures' = [failures EXCEPT ![line] = Another(failures[line])] /\ quiet' = [quiet EXCEPT ![line] = low]
      BY <1>4, <2>1, <2>11 DEF low
    <3>3. Another(failures[line]) \in Nat
      BY <2>4
    <3> QED
      BY <1>1, <1>2, <2>2, <2>5, <2>9, <3>1, <3>2, <3>3, PolitelyRemembered
  <2> QED
    BY <2>10, <2>11
<1> QED
  BY <1>5, <1>6

LEMMA PolitelyImport ==
  ASSUME NoneIsNoState, IInv, PInv, ImportBatch
  PROVE  PInv'
<1>1. /\ UNCHANGED <<diskVars, web, quiet, failures, pressed>>
      /\ state # None /\ IsState(state) /\ state' = [state EXCEPT !.credits = @ \cup Credited(pending)]
  BY DEF ImportBatch, IInv, LoadedInTime, WholeStates
<1>2. state'.resolutions = state.resolutions /\ state' # None
  <2>1. state = [resolutions |-> state.resolutions, credits |-> state.credits]
    BY <1>1 DEF IsState
  <2>2. state' = [resolutions |-> state.resolutions, credits |-> state.credits \cup Credited(pending)]
    BY <1>1, <2>1
  <2> QED
    BY <2>2 DEF NoneIsNoState
<1>3. MemoryHolds'
  BY <1>1, <1>2 DEF PInv, MemoryHolds, Remembers, Holds, IsEntry
<1>4. Counted' /\ DiskHolds' /\ SavedCounts'
  BY <1>1, <1>2 DEF PInv, Counted, DiskHolds, SavedCounts, diskVars, Remembers, Holds, IsEntry
<1> QED
  BY <1>1, <1>3, <1>4 DEF PInv

\* What is pruned is remembered of the lines that are left.
LEMMA PolitelyPersist ==
  ASSUME NoneIsNoState, IInv, PInv, Persist
  PROVE  PInv'
<1>1. /\ state # None /\ state' = Pruned
      /\ quiet' = Forget(quiet) /\ failures' = Forget(failures)
      /\ UNCHANGED <<web, pressed>>
      /\ UNCHANGED diskVars \/ Written
  BY DEF Persist, IInv, LoadedInTime
<1>2. Pruned # None /\ Pruned.resolutions = [line \in Lines |-> IF line \in lines THEN Entry(line) ELSE NoEntry]
  BY PrunedIsState, StateIsNotNone DEF Pruned
<1>3. /\ quiet \in [Lines -> Nat] /\ failures \in [Lines -> Nat]
      /\ \A line \in Lines : Holds(Entry(line), quiet[line], failures[line])
  BY <1>1 DEF PInv, Counted, MemoryHolds, Remembers, Entry
<1>4. Forget(quiet) \in [Lines -> Nat] /\ Forget(failures) \in [Lines -> Nat]
  BY <1>3 DEF Forget
<1>5. Remembers(Pruned, Forget(quiet), Forget(failures))
  <2>1. ASSUME NEW line \in Lines
        PROVE  Holds(Pruned.resolutions[line], Forget(quiet)[line], Forget(failures)[line])
    BY <1>2, <1>3, NewEntry DEF Forget
  <2> QED
    BY <1>2, <2>1 DEF Remembers
<1>6. Counted'
  BY <1>1, <1>4 DEF PInv, Counted, diskVars, Written
<1>7. MemoryHolds' /\ SavedCounts'
  <2>1. state' # None /\ Remembers(state', quiet', failures')
    BY <1>1, <1>2, <1>5
  <2> QED
    BY <2>1 DEF MemoryHolds, SavedCounts, Remembers, Holds, IsEntry
<1>8. DiskHolds'
  <2>1. CASE UNCHANGED diskVars
    BY <2>1 DEF PInv, DiskHolds, diskVars, Remembers, Holds, IsEntry
  <2>2. CASE Written
    <3>1. disk' # None /\ Remembers(disk', savedQuiet', savedFailures')
      BY <1>1, <1>2, <1>5, <2>2 DEF Written
    <3> QED
      BY <3>1 DEF DiskHolds, Remembers, Holds, IsEntry
  <2> QED
    BY <1>1, <2>1, <2>2
<1> QED
  BY <1>1, <1>6, <1>7, <1>8 DEF PInv

LEMMA PolitelyStop ==
  ASSUME PInv, Stop
  PROVE  PInv'
<1>1. /\ state' = None /\ web' = ForgottenWeb(web) /\ quiet' = savedQuiet /\ failures' = savedFailures
      /\ UNCHANGED <<diskVars, pressed>>
  BY DEF Stop
<1>2. web' \in Webs
  BY <1>1, ForgottenWebStays DEF PInv
<1> QED
  BY <1>1, <1>2 DEF PInv, Counted, MemoryHolds, DiskHolds, SavedCounts, diskVars, Remembers, Holds, IsEntry

LEMMA PolitelyGarbled ==
  ASSUME PInv, StateGarbled
  PROVE  PInv'
<1>1. /\ state = None /\ disk' = None /\ UNCHANGED <<state, web, pressed>>
      /\ quiet' = [line \in Lines |-> 0] /\ failures' = quiet' /\ savedQuiet' = quiet' /\ savedFailures' = quiet'
  BY DEF StateGarbled
<1> QED
  BY <1>1 DEF PInv, Counted, MemoryHolds, DiskHolds, SavedCounts

LEMMA AgedRemembers ==
  ASSUME NoneIsNoState, NEW saved, saved # None, IsState(saved),
         NEW times \in [Lines -> Nat], NEW counts, Remembers(saved, times, counts)
  PROVE  Remembers(Aged(saved), Ticked(times), counts)
<1> DEFINE aged == [line \in Lines |-> [saved.resolutions[line] EXCEPT !.expires = Left(@), !.wait = Left(@)]]
<1>1. Aged(saved).resolutions = aged
  <2>1. saved = [resolutions |-> saved.resolutions, credits |-> saved.credits]
    BY DEF IsState
  <2>2. Aged(saved) = [saved EXCEPT !.resolutions = aged]
    BY DEF Aged
  <2> HIDE DEF aged
  <2> QED
    BY <2>1, <2>2
<1>2. ASSUME NEW line \in Lines
      PROVE  Holds(aged[line], Ticked(times)[line], counts[line])
  <2> DEFINE entry == saved.resolutions[line]
             time == times[line]
             older == [resolved |-> entry.resolved, found |-> entry.found, expires |-> Left(entry.expires),
                       wait |-> Left(entry.wait), failures |-> entry.failures]
  <2>1. Holds(entry, time, counts[line]) /\ time \in Nat /\ Ticked(times)[line] = Left(time)
    BY DEF Remembers, Ticked
  <2>2. aged[line] = [entry EXCEPT !.expires = Left(entry.expires), !.wait = Left(entry.wait)]
    OBVIOUS
  <2> HIDE DEF entry, time, aged
  <2>3. entry = [resolved |-> entry.resolved, found |-> entry.found, expires |-> entry.expires,
                 wait |-> entry.wait, failures |-> entry.failures]
        /\ entry.expires \in Nat /\ entry.wait \in Nat /\ entry.failures \in 0..(MaxDoublings + 1)
    BY <2>1 DEF Holds, IsEntry
  <2>4. aged[line] = older
    BY <2>2, <2>3
  <2>5. /\ Left(entry.expires) \in Nat /\ Left(entry.wait) \in Nat /\ Left(time) \in Nat
        /\ time <= entry.expires => Left(time) <= Left(entry.expires)
        /\ time <= entry.wait => Left(time) <= Left(entry.wait)
    BY <2>1, <2>3, LeftStays
  <2>6. Left(time) > 0 => time > 0
    BY <2>1 DEF Left
  <2>7. /\ time > 0 => (entry.resolved /\ entry.expires >= time) \/ entry.wait >= time
        /\ counts[line] <= entry.failures
    BY <2>1 DEF Holds
  <2>8. Holds(older, Left(time), counts[line])
    BY <2>1, <2>3, <2>5, <2>6, <2>7 DEF Holds, IsEntry
  <2> QED
    BY <2>1, <2>4, <2>8
<1>3. aged = [line \in Lines |-> aged[line]]
  OBVIOUS
<1> HIDE DEF aged
<1> QED
  BY <1>1, <1>2, <1>3 DEF Remembers

LEMMA PolitelyTime ==
  ASSUME NoneIsNoState, IInv, PInv, TimePasses
  PROVE  PInv'
<1>1. /\ disk' = Aged(disk) /\ state' = Aged(state) /\ web' = AgedWeb(web)
      /\ quiet' = Ticked(quiet) /\ savedQuiet' = Ticked(savedQuiet)
      /\ UNCHANGED <<failures, savedFailures, pressed>>
  BY DEF TimePasses
<1>2. web' \in Webs
  BY <1>1, AgedWebStays DEF PInv
<1>3. (state' = None <=> state = None) /\ (disk' = None <=> disk = None)
  BY <1>1, AgedState DEF IInv, WholeStates
<1>4. quiet \in [Lines -> Nat] /\ savedQuiet \in [Lines -> Nat]
  BY DEF PInv, Counted
<1>5. Ticked(quiet) \in [Lines -> Nat] /\ Ticked(savedQuiet) \in [Lines -> Nat]
  BY <1>4, LeftStays DEF Ticked
<1>6. Counted'
  BY <1>1, <1>5 DEF PInv, Counted
<1>7. MemoryHolds'
  <2>1. state # None => Remembers(state', quiet', failures')
    BY <1>1, <1>4, AgedRemembers DEF PInv, MemoryHolds, IInv, WholeStates
  <2> QED
    BY <1>3, <2>1 DEF MemoryHolds, Remembers, Holds, IsEntry
<1>8. DiskHolds'
  <2>1. disk # None => Remembers(disk', savedQuiet', savedFailures')
    BY <1>1, <1>4, AgedRemembers DEF PInv, DiskHolds, IInv, WholeStates
  <2>2. disk = None => \A line \in Lines : savedQuiet'[line] = 0 /\ savedFailures'[line] = 0
    BY <1>1, <1>4 DEF PInv, DiskHolds, Ticked, Left
  <2> QED
    BY <1>3, <2>1, <2>2 DEF DiskHolds, Remembers, Holds, IsEntry
<1>9. SavedCounts'
  BY <1>1, <1>3 DEF PInv, SavedCounts
<1> QED
  BY <1>1, <1>2, <1>6, <1>7, <1>8, <1>9 DEF PInv

LEMMA PolitelyStep ==
  ASSUME NoneIsNoState, IInv, PInv, [Next]_vars
  PROVE  PInv'
<1>1. CASE \E line \in Lines : ResolveDirect(line) \/ ResolveCached(line)
  BY <1>1, PolitelyElsewhere DEF ResolveDirect, ResolveCached, memoryVars
<1>2. CASE \E line \in Lines : ProviderAnswers(line) \/ ProviderFails(line)
  BY <1>2, PolitelyAsked
<1>3. CASE (\E image \in Images : NextImage(image)) \/ EndLine \/ ImportFails \/ EndSync
  BY <1>3, PolitelyElsewhere DEF NextImage, EndLine, ImportFails, EndSync, memoryVars
<1>4. CASE OwnerActs \/ SourcesEdited \/ UNCHANGED vars
  BY <1>4, PolitelyElsewhere DEF OwnerActs, SourcesEdited, vars, memoryVars
<1>5. CASE StartSync \/ ImportBatch \/ Persist
  BY <1>5, PolitelyStartSync, PolitelyImport, PolitelyPersist
<1>6. CASE Stop \/ StateGarbled \/ TimePasses
  BY <1>6, PolitelyStop, PolitelyGarbled, PolitelyTime
<1> QED
  BY <1>1, <1>2, <1>3, <1>4, <1>5, <1>6 DEF Next, Resolve, SyncStep

\* A provider is left alone for as long as its last answer and its refusals in
\* a row ask for, in this process and the next one, and a service that said its
\* quota is used up is not asked until its window ends, by no line and not in
\* the middle of one, whatever the lines ask and whichever requests are lost.
THEOREM ProvidersLeftAlone == NoneIsNoState => (Spec => []Polite)
<1> SUFFICES ASSUME NoneIsNoState PROVE Spec => []Polite
  OBVIOUS
<1>1. Init => IInv /\ PInv
  BY InitHolds, PolitelyInit
<1>2. (IInv /\ PInv) /\ [Next]_vars => (IInv /\ PInv)'
  BY StepKeeps, PolitelyStep
<1>3. PInv => Polite
  BY DEF PInv, Webs, Polite
<1> QED
  BY <1>1, <1>2, <1>3, PTL DEF Spec
=============================================================================
