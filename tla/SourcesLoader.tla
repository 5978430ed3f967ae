---------------------------- MODULE SourcesLoader ----------------------------
(* The artwork sources: every sync resolves each configured line to images,  *)
(* through a provider or from the last good answer, downloads those that are *)
(* missing, imports them in batches, and saves what it learned: resolutions, *)
(* retry times and the credit each provider wants for its artwork.           *)
(*                                                                           *)
(* A sync runs with the collection's gate held, so only the owner of the     *)
(* folder changes it meanwhile.  Times are what is left of them; one unit of *)
(* time is the shortest backoff.                                             *)
EXTENDS Providers, FiniteSets

CONSTANTS
  Lines,          \* what the sources file may hold
  Direct,         \* lines that name a URL: resolved without asking anybody
  Images,         \* images, by the identity a provider gives them
  Catalogue,      \* what a line stands for
  Content,        \* the bytes behind an image: two identities may share them
  MaxImages,      \* MAX_ARTWORK_IMAGES
  BatchSize,      \* sourceImportBatchSize
  MaxDoublings,   \* maxBackoffDoublings
  Query,          \* what a line asks its provider
  Found,          \* the objects of the Met among its images
  MaxIdle,        \* how long no cycle comes: the sync interval
  MaxLines,       \* bound: how many lines are configured
  Losses,         \* bound: the first requests of a resolution, which may be lost
  Hazards, Budget

ASSUME SourcesAssumption ==
  /\ Direct \subseteq Lines
  /\ Catalogue \in [Lines -> SUBSET Images]
  /\ DOMAIN Content = Images
  /\ {MaxImages, BatchSize, TTL, MaxDoublings, ResetAfter, MaxLines, Losses} \subseteq Nat /\ BatchSize > 0

\* What a line can ask: one provider, or all museums at once.
Museums == {"artic", "met", "cleveland", "smk"}

ProviderLines(providers) == [provider : providers \cap Services, kind : STRING, hits : Seq(Images), limit : Nat]

MuseumLines == [provider : {"museum"}, parts : Seq(ProviderLines(Museums)), limit : Nat]

ASSUME QueryAssumption ==
  /\ Quota \in [Services -> Nat]
  /\ \A line \in Lines \ Direct :
       Query[line] \in MuseumLines
                      \cup ProviderLines(Museums \cup {"commons", "nasa", "pexels", "pixabay", "unsplash"})

VARIABLES
  collection,     \* source artwork in the folder, by origin
  others,         \* how many other pictures the folder holds
  configured,     \* the lines of the sources file
  disk,           \* the saved state, or None when the file cannot be decoded
  state, dirty,   \* the state in memory, None before it is loaded
  pc, lines, todo, images, pending,
  origins,        \* sourceOrigins: the artwork known to be there
  size,           \* collectionSize
  web,            \* the services, their gates and caches
  idle,           \* how long no cycle came
  budget,
  quiet,          \* for the properties: how long a line must leave its provider alone
  failures,       \* ... the refusals it met in a row
  savedQuiet, savedFailures,
  pressed,        \* ... the lines that did not
  lost            \* ... artwork whose credit a stop, or an unknown outcome, took

diskVars == <<disk, savedQuiet, savedFailures>>
memoryVars == <<state, dirty, web, quiet, failures, pressed>>
syncVars == <<pc, lines, todo, images, pending, origins, size>>
folderVars == <<collection, others>>
vars == <<folderVars, configured, diskVars, memoryVars, syncVars, idle, budget, lost>>

Hit(hazard) == hazard \in Hazards /\ budget > 0 /\ budget' = budget - 1

\* No entry, as the zero value of cachedResolution.
NoEntry == [resolved |-> FALSE, found |-> {}, expires |-> 0, wait |-> 0, failures |-> 0]

EmptyState == [resolutions |-> [line \in Lines |-> NoEntry], credits |-> {}]

Size == Cardinality({Content[image] : image \in collection}) + others

\* The shortest backoff, doubled so often.
Doubled[count \in 0..MaxDoublings] == IF count = 0 THEN 1 ELSE 2 * Doubled[count - 1]

\* failureRetryAt: doubled with every failure in a row.
Backoff(count) == Min({Doubled[Min({count - 1, MaxDoublings})], TTL})

Init ==
  /\ collection = {} /\ others \in {0, 1} /\ configured \in kSubset(MaxLines, Lines)
  /\ disk = EmptyState /\ state = None /\ dirty = FALSE
  /\ pc = "idle" /\ lines = {} /\ todo = {} /\ images = {} /\ pending = {} /\ origins = {} /\ size = 0 /\ idle = 0
  /\ web = Web(Found) /\ pressed = {} /\ budget = Budget
  /\ quiet = [line \in Lines |-> 0] /\ failures = [line \in Lines |-> 0]
  /\ savedQuiet = quiet /\ savedFailures = failures /\ lost = {}

-----------------------------------------------------------------------------
\* Sync begins with what the snapshot says is there, reads the sources file
\* and, once in a process, the saved state.  One that cannot be decoded is
\* given up.  (A sources file or a state that cannot be read, and a file without
\* lines, end the sync before anything changed.)
StartSync ==
  /\ pc = "idle" /\ configured # {}
  /\ origins' = collection /\ size' = Size
  /\ state' = IF state # None THEN state ELSE IF disk # None THEN disk ELSE EmptyState
  /\ dirty' = (dirty \/ (state = None /\ disk = None))
  /\ lines' = configured /\ todo' = configured /\ pc' = "lines" /\ idle' = 0
  /\ UNCHANGED <<folderVars, configured, diskVars, web, quiet, failures, pressed, images, pending, budget, lost>>

-----------------------------------------------------------------------------
\* resolve, for the next line.

Entry(line) == state.resolutions[line]

Fresh(line) == Entry(line).resolved /\ Entry(line).expires > 0

Waiting(line) == Entry(line).wait > 0

Asks(line) == line \notin Direct /\ ~Fresh(line) /\ ~Waiting(line)

Download(found) == images' = found /\ pc' = "images"

\* The line goes on to the next one with nothing to download.
Skip == UNCHANGED images /\ pc' = "lines"

\* What a line yields without its provider: the last good answer, or an error.
LastKnownGood(entry) == IF entry.resolved THEN Download(entry.found) ELSE Skip

\* The lines come in the order of the file, whichever that is.
NextLine(line) == pc = "lines" /\ line \in todo /\ todo' = todo \ {line}

ResolveDirect(line) ==
  /\ NextLine(line) /\ line \in Direct
  /\ Download(Catalogue[line])
  /\ UNCHANGED <<folderVars, configured, diskVars, memoryVars, lines, pending, origins, size, idle, budget, lost>>

ResolveCached(line) ==
  /\ NextLine(line) /\ line \notin Direct /\ ~Asks(line)
  /\ LastKnownGood(Entry(line))
  /\ UNCHANGED <<folderVars, configured, diskVars, memoryVars, lines, pending, origins, size, idle, budget, lost>>

Remember(line, entry) ==
  /\ state' = [state EXCEPT !.resolutions[line] = entry]
  /\ dirty' = TRUE

\* The provider is asked, and some of its requests may be lost.
Asked(line, broken) == Resolution(Session(web, broken), Query[line])

Answers(line) ==
  {answer \in {Asked(line, broken) : broken \in SUBSET (1..(IF budget > 0 THEN Losses ELSE 0))} :
    answer.broken \subseteq 1..answer.sent}

Takes(answer, line) ==
  /\ (answer.broken = {} /\ UNCHANGED budget) \/ (answer.broken # {} /\ Hit("provider"))
  /\ web' = answer.web
  /\ pressed' = IF answer.sent > 0 /\ quiet[line] > 0 THEN pressed \cup {line} ELSE pressed
  /\ UNCHANGED <<folderVars, configured, diskVars, lines, pending, origins, size, idle, lost>>

ProviderAnswers(line) ==
  NextLine(line) /\ Asks(line) /\ \E answer \in Answers(line) :
    /\ answer.ok /\ Takes(answer, line)
    /\ Remember(line, [NoEntry EXCEPT !.resolved = TRUE, !.found = ToSet(answer.found), !.expires = TTL])
    /\ Download(ToSet(answer.found))
    /\ quiet' = [quiet EXCEPT ![line] = TTL] /\ failures' = [failures EXCEPT ![line] = 0]

\* Failures in a row, counted as far as they lengthen the backoff.
Another(count) == Min({count + 1, MaxDoublings + 1})

Failed(entry, retryAt) ==
  [entry EXCEPT !.failures = Another(@), !.wait = Max({Backoff(Another(entry.failures)), retryAt})]

\* It fails, says that the quota is used up, or is not asked because it said so.
ProviderFails(line) ==
  NextLine(line) /\ Asks(line) /\ \E answer \in Answers(line) :
    /\ ~answer.ok /\ Takes(answer, line)
    /\ Remember(line, Failed(Entry(line), answer.retry))
    /\ LastKnownGood(Entry(line))
    /\ IF answer.sent = 0 THEN UNCHANGED <<quiet, failures>>
       ELSE /\ failures' = [failures EXCEPT ![line] = Another(@)]
            /\ quiet' = [quiet EXCEPT ![line] = Backoff(failures'[line])]

-----------------------------------------------------------------------------
\* syncLine: the images one after the other; a full batch is imported at once.

Imports == pending # {} /\ (images = {} \/ Cardinality(pending) = BatchSize)

Full == MaxImages > 0 /\ size + Cardinality(pending) >= MaxImages

NextImage(image) ==
  /\ pc = "images" /\ image \in images /\ ~Imports
  /\ \/ image \in origins /\ images' = images \ {image} /\ UNCHANGED <<pending, budget>>
     \/ image \notin origins /\ Full /\ images' = {} /\ UNCHANGED <<pending, budget>>
     \/ image \notin origins /\ ~Full /\ images' = images \ {image} /\ pending' = pending \cup {image} /\ UNCHANGED budget
     \/ image \notin origins /\ ~Full /\ images' = images \ {image} /\ UNCHANGED pending /\ Hit("download")
  /\ UNCHANGED <<folderVars, configured, diskVars, memoryVars, pc, lines, todo, origins, size, lost, idle>>

EndLine ==
  /\ pc = "images" /\ images = {} /\ pending = {}
  /\ pc' = "lines"
  /\ UNCHANGED <<folderVars, configured, diskVars, memoryVars, lines, todo, images, pending, origins, size, idle, budget, lost>>

\* What the store would hold, and whether it takes the batch: all of it or nothing.
With(batch) == Cardinality({Content[image] : image \in collection \cup batch}) + others

Fits(batch) == MaxImages = 0 \/ With(batch) <= MaxImages \/ With(batch) = Size

\* recordAttribution: what comes from a provider is credited, also an image
\* whose bytes were there; what a direct URL names has nobody to credit.
Creditable == Images \ UNION {Catalogue[line] : line \in Direct}

\* Mutant: credits come after the check that the image was added.
CreditedIfAdded(batch) == {image \in batch \cap Creditable : \A other \in collection : Content[other] # Content[image]}

Credited(batch) == batch \cap Creditable

ImportBatch ==
  /\ pc = "images" /\ Imports /\ Fits(pending)
  /\ collection' = collection \cup pending
  /\ origins' = origins \cup pending
  /\ size' = size + With(pending) - Size
  /\ state' = [state EXCEPT !.credits = @ \cup Credited(pending)]
  /\ dirty' = (dirty \/ ~(Credited(pending) \subseteq state.credits))
  /\ pending' = {}
  /\ UNCHANGED <<others, configured, diskVars, web, quiet, failures, pressed, pc, lines, todo, images, budget, lost, idle>>

\* The rest of the line is given up.
AbandonLine == pending' = {} /\ images' = {} /\ pc' = "lines"

ImportFails ==
  /\ pc = "images" /\ Imports
  /\ \/ ~Fits(pending) /\ UNCHANGED <<collection, budget, lost>>
     \/ Fits(pending) /\ Hit("import") /\ UNCHANGED <<collection, lost>>
     \/ Fits(pending) /\ Hit("unknown-import") /\ collection' = collection \cup pending /\ lost' = lost \cup pending
  /\ AbandonLine
  /\ UNCHANGED <<others, configured, diskVars, memoryVars, lines, todo, origins, size, idle>>

-----------------------------------------------------------------------------
\* persistState: what is not configured, and credits of artwork that is gone,
\* are dropped; a failed write leaves the state dirty for the next sync.
Pruned ==
  [resolutions |-> [line \in Lines |-> IF line \in lines THEN Entry(line) ELSE NoEntry],
   credits |-> state.credits \cap origins]

Unsaved == dirty \/ Pruned # state

Forget(f) == [line \in Lines |-> IF line \in lines THEN f[line] ELSE 0]

Written == disk' = Pruned /\ savedQuiet' = quiet' /\ savedFailures' = failures'

Persist ==
  /\ pc = "lines" /\ todo = {}
  /\ state' = Pruned
  /\ quiet' = Forget(quiet) /\ failures' = Forget(failures)
  /\ \/ Unsaved /\ Written /\ dirty' = FALSE /\ pc' = "saved" /\ UNCHANGED budget
     \/ ~Unsaved /\ pc' = "saved" /\ UNCHANGED <<diskVars, dirty, budget>>
     \/ Unsaved /\ Hit("save") /\ dirty' = TRUE /\ pc' = "unsaved" /\ (UNCHANGED diskVars \/ Written)
  /\ UNCHANGED <<folderVars, configured, web, pressed, lines, todo, images, pending, origins, size, idle, lost>>

EndSync ==
  /\ pc \in {"saved", "unsaved"} /\ pc' = "idle"
  /\ lines' = {} /\ origins' = {} /\ size' = 0
  /\ UNCHANGED <<folderVars, configured, diskVars, memoryVars, todo, images, pending, budget, lost, idle>>

-----------------------------------------------------------------------------
\* A stop, also an orderly one, ends a sync where it is and saves nothing.
Saved == IF disk = None THEN {} ELSE disk.credits

Stop ==
  /\ state # None /\ Hit("stop")
  /\ state' = None /\ dirty' = FALSE /\ web' = ForgottenWeb(web)
  /\ pc' = "idle" /\ lines' = {} /\ todo' = {} /\ images' = {} /\ pending' = {} /\ origins' = {} /\ size' = 0 /\ idle' = 0
  /\ quiet' = savedQuiet /\ failures' = savedFailures
  /\ lost' = lost \cup (collection \ Saved)
  /\ UNCHANGED <<folderVars, configured, diskVars, pressed>>

\* The owner removes a picture, with every origin it has, or adds one.
OwnerActs ==
  /\ Hit("owner")
  /\ \/ /\ \E image \in collection : collection' = {other \in collection : Content[other] # Content[image]}
        /\ lost' = lost \cap collection'
        /\ UNCHANGED others
     \/ others' = others + 1 /\ UNCHANGED <<collection, lost>>
  /\ UNCHANGED <<configured, diskVars, memoryVars, syncVars, idle>>

SourcesEdited ==
  /\ Hit("edit") /\ \E count \in 0..MaxLines : configured' \in kSubset(count, Lines) \ {configured}
  /\ UNCHANGED <<folderVars, diskVars, memoryVars, syncVars, idle, lost>>

\* The saved state is looked at when a process starts, and only then.
StateGarbled ==
  /\ state = None /\ disk # None /\ Hit("garble")
  /\ disk' = None
  /\ quiet' = [line \in Lines |-> 0] /\ failures' = quiet' /\ savedQuiet' = quiet' /\ savedFailures' = quiet'
  /\ lost' = lost \cup collection
  /\ UNCHANGED <<folderVars, configured, state, dirty, web, pressed, syncVars, idle>>

Aged(saved) ==
  IF saved = None THEN None
  ELSE [saved EXCEPT !.resolutions =
         [line \in Lines |-> [saved.resolutions[line] EXCEPT !.expires = Left(@), !.wait = Left(@)]]]

TimePasses ==
  /\ pc = "idle" /\ (idle < MaxIdle \/ configured = {})
  /\ idle' = IF configured = {} THEN 0 ELSE idle + 1
  /\ disk' = Aged(disk) /\ state' = Aged(state)
  /\ web' = AgedWeb(web)
  /\ quiet' = Ticked(quiet) /\ savedQuiet' = Ticked(savedQuiet)
  /\ UNCHANGED <<folderVars, configured, dirty, failures, savedFailures, pressed, syncVars, budget, lost>>

-----------------------------------------------------------------------------
Resolve(line) ==
  ResolveDirect(line) \/ ResolveCached(line) \/ ProviderAnswers(line) \/ ProviderFails(line)

SyncStep ==
  \/ StartSync \/ (\E image \in Images : NextImage(image)) \/ EndLine \/ ImportBatch \/ ImportFails
  \/ Persist \/ EndSync

Next == (\E line \in Lines : Resolve(line)) \/ SyncStep \/ Stop \/ OwnerActs \/ SourcesEdited \/ StateGarbled \/ TimePasses

\* A cycle comes with every tick of the interval and comes to its end, and time
\* goes on between two.  A step that takes the next line resolves it.
Spec ==
  Init /\ [][Next]_vars
  /\ WF_vars(SyncStep) /\ WF_todo(\E line \in Lines : NextLine(line)) /\ SF_vars(TimePasses)

-----------------------------------------------------------------------------
\* A provider is left alone for as long as its last answer and its refusals in
\* a row ask for, in this process and, from what was saved, in the next one; and
\* a service that said its quota is used up is not asked by any line, nor in the
\* middle of a resolution, until its window ends (resolve, failureRetryAt,
\* rateGate, fetchProviderJSON).
Polite == pressed = {} /\ web.rude = {}

\* After a sync that saved its state, all source artwork is credited in it,
\* other than what a stop or an unknown outcome took the credit of
\* (importSourceBatch, recordAttribution, persistState).
AllCredited == pc = "saved" => collection \cap Creditable \subseteq Saved \cup lost

\* All of a line's artwork is there; of a museum line, whose answer counts when
\* one museum gave it, some is.
Complete(line) ==
  IF line \notin Direct /\ Query[line].provider = "museum" THEN Catalogue[line] \cap collection # {}
  ELSE Catalogue[line] \subseteq collection

\* Whatever failed before, the artwork of the configured lines is there in the
\* end, as far as the limit lets it: a batch is never refused for ever, a line
\* never stuck with what it missed, and a search never starved by a quota smaller
\* than itself (syncLine, importSourceBatch, resolve, metProvider.object).
Filled == <>[]((MaxImages > 0 /\ Size >= MaxImages) \/ \A line \in configured : Complete(line))
=============================================================================
