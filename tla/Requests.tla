------------------------------ MODULE Requests ------------------------------
(* What the HTTP server does for its clients while cycles run: uploads, the  *)
(* tools of the assistant that add artwork to a themed collection and edit   *)
(* the collections, previews, and requests for a sync.                       *)
(*                                                                           *)
(* A call that only commits one update of the collections document is one    *)
(* step: the store's own lock serialises the updates.                        *)
EXTENDS SyncCycle

CONSTANTS MaxRequests,   \* how many requests a behaviour has
          Added,         \* pictures clients may send
          Kinds,         \* what clients ask for
          Chosen         \* schedules clients give a collection

ASSUME RequestsAssumption == Added \subseteq Pictures /\ Chosen \subseteq Activations

VARIABLES client, requests

vars == <<folderVars, themeVars, choiceVars, tvVars, debtVars, admission, loop, wake, canceled, synced, budget, promised,
          client, requests>>

\* Everything a request of a client leaves to the cycle.
cycleVars == <<choiceVars, tvVars, loop, canceled, synced, covered>>

Idling == [pc |-> "idle", kind |-> "none", picture |-> 0, slug |-> None, added |-> FALSE, created |-> FALSE]

RequestsInit == client = [c \in Clients |-> Idling] /\ requests = 0

At(c, pc) == client[c].pc = pc

Upload(picture) == [Idling EXCEPT !.pc = "send", !.kind = "upload", !.picture = picture]

Becomes(c, pc) == client' = [client EXCEPT ![c].pc = pc]

Answered(c) == client' = [client EXCEPT ![c] = Idling]

InFlight == {c \in Clients : ~At(c, "idle")}

Arrives(c, kind) ==
  /\ kind \in Kinds /\ At(c, "idle")
  /\ requests < MaxRequests /\ requests' = requests + 1

-----------------------------------------------------------------------------
\* processUpload: one import at a time, another one is answered 429.
Uploading == {c \in Clients : client[c].kind = "upload"}

StartUpload(c) ==
  /\ Arrives(c, "upload")
  /\ \/ Uploading = {} /\ \E picture \in Added : client' = [client EXCEPT ![c] = Upload(picture)]
     \/ Uploading # {} /\ UNCHANGED client
  /\ UNCHANGED <<folderVars, themeVars, cycleVars, admission, wake, budget, owed, promised>>

\* The image is received in a spool file, without the gate; the client may be
\* slow, and may go away.
Receive(c) ==
  /\ At(c, "send")
  /\ Becomes(c, "wait") \/ Answered(c)
  /\ UNCHANGED <<folderVars, themeVars, cycleVars, admission, wake, budget, owed, promised, requests>>

TakeGate(c) ==
  /\ At(c, "wait") /\ gate = None
  /\ gate' = c /\ Becomes(c, "store")
  /\ UNCHANGED <<folder, pending, themeVars, cycleVars, admission, wake, budget, owed, promised, requests>>

\* An import that failed: an upload is answered, an addition takes its
\* reservation back first.
ImportFails(c) == IF client[c].kind = "add" THEN Becomes(c, "release") ELSE Answered(c)

\* The client went away while its request waited for the gate.
GoneWaiting(c) ==
  /\ client[c].pc \in {"wait", "look"} /\ Hit("gone")
  /\ ImportFails(c)
  /\ UNCHANGED <<folderVars, themeVars, cycleVars, admission, wake, owed, promised, requests>>

\* The picture is in the folder: what else than an addition put it there ends
\* the promise to hide it.
Import(c) ==
  /\ At(c, "store") /\ gate = c /\ Fits(client[c].picture)
  /\ folder' = Recovered \cup {client[c].picture} /\ pending' = {}
  /\ gate' = None
  /\ IF client[c].kind = "add" THEN Becomes(c, "record") /\ UNCHANGED promised
                               ELSE Answered(c) /\ Published({client[c].picture})
  /\ UNCHANGED <<themeVars, cycleVars, admission, wake, budget, owed, requests>>

\* Refused as invalid or because the folder is full, or failed with nothing written.
ImportRefused(c) ==
  /\ At(c, "store") /\ gate = c
  /\ \/ ~Fits(client[c].picture) /\ UNCHANGED budget
     \/ Hit("store")
  /\ folder' = Recovered /\ pending' = {}
  /\ gate' = None
  /\ ImportFails(c)
  /\ UNCHANGED <<themeVars, cycleVars, admission, wake, owed, promised, requests>>

\* Failed with its journal written: the next store operation completes it.
ImportJournalled(c) ==
  /\ At(c, "store") /\ gate = c /\ Fits(client[c].picture)
  /\ Hit("journalled")
  /\ folder' = Recovered /\ pending' = {client[c].picture} \ Recovered
  /\ gate' = None
  /\ IF client[c].kind = "add" THEN UNCHANGED promised ELSE Published({client[c].picture})
  /\ ImportFails(c)
  /\ UNCHANGED <<themeVars, cycleVars, admission, wake, owed, requests>>

-----------------------------------------------------------------------------
\* An update of the document: it needs the file to be readable, and may fail
\* before or after it was written.
Updated(file) ==
  /\ readable
  /\ rules' = file /\ UNCHANGED <<readable, today, lastRules>>

UpdateFails(file) ==
  /\ \/ ~readable /\ UNCHANGED <<rules, budget>>
     \/ readable /\ Hit("update") /\ rules' \in {rules, file}
  /\ UNCHANGED <<readable, today, lastRules>>

\* Nobody else is adding the picture.
Alone(c, picture) == \A other \in Clients \ {c} : client[other].kind # "add" \/ client[other].picture # picture

\* All collections a picture is in are off.
Hidden(file, picture) ==
  /\ Memberships(file, picture) # {}
  /\ \A slug \in Memberships(file, picture) : file[slug].activation = Off

\* addArtwork first records the membership: reserveMember.  Artwork that comes to
\* the folder with all its collections off is to stay hidden, until it is put
\* into one that is not.
StartAdd(c) ==
  \E slug \in Slugs, picture \in Added :
    LET reserved == Reserved(rules, slug, picture)
        added == ~Exists(rules, slug) \/ picture \notin rules[slug].members
    IN
    /\ Arrives(c, "add")
    /\ "same-picture" \in Hazards \/ Alone(c, picture)
    /\ \/ /\ Updated(reserved) /\ UNCHANGED budget
          /\ client' = [client EXCEPT ![c] = [pc |-> "wait", kind |-> "add", picture |-> picture, slug |-> slug,
                                              added |-> added, created |-> ~Exists(rules, slug)]]
          /\ promised' = CASE ~Hidden(reserved, picture)   -> promised \ {picture}
                           [] Hidden(reserved, picture)
                              /\ picture \notin Recovered -> promised \cup {picture}
                           [] OTHER                        -> promised
       \/ /\ UpdateFails(reserved) /\ UNCHANGED client
          /\ promised' = IF rules' = rules \/ Hidden(reserved, picture) THEN promised ELSE promised \ {picture}
    /\ UNCHANGED <<folderVars, cycleVars, admission, wake, owed>>

\* The key is recorded with the member; a failure is only a warning.
RecordKey(c) ==
  LET slug == client[c].slug IN
  /\ At(c, "record")
  /\ \/ Exists(rules, slug) /\ Updated(AddMember(rules, slug, client[c].picture)) /\ UNCHANGED budget
     \/ ~Exists(rules, slug) /\ UNCHANGED <<themeVars, budget>>
     \/ Exists(rules, slug) /\ UpdateFails(AddMember(rules, slug, client[c].picture))
  /\ Answered(c)
  /\ UNCHANGED <<folderVars, cycleVars, admission, wake, owed, promised, requests>>

\* releaseMember, although the client may be gone.
Release(c) ==
  LET released == Released(rules, client[c].slug, client[c].picture, client[c].added, client[c].created) IN
  /\ At(c, "release")
  /\ \/ Updated(released) /\ UNCHANGED budget
     \/ UpdateFails(released)
  /\ Answered(c)
  /\ UNCHANGED <<folderVars, cycleVars, admission, wake, owed, promised, requests>>

-----------------------------------------------------------------------------
\* The tools that edit the collections, and those that look at the folder: for
\* that they wait for the gate, and are refused while a transaction is pending,
\* which a view that only reads may not complete.
ReadOnlyView == gate = None /\ pending = {}

\* Whatever a client changes in the collections by hand is its own decision.
Edited(file) == Updated(file) /\ promised' = {} /\ UNCHANGED budget

EditFails(file) == UpdateFails(file) /\ promised' = IF rules' = rules THEN promised ELSE {}

ElseUnchanged == UNCHANGED <<folderVars, cycleVars, admission, wake, owed>>

Edit(file) == (Edited(file) \/ EditFails(file)) /\ ElseUnchanged

Looks(c, kind) == client' = [client EXCEPT ![c] = [Idling EXCEPT !.pc = "look", !.kind = kind]]

CreateCollection(c) ==
  \E slug \in Slugs, exclusive \in BOOLEAN, activation \in Chosen :
    /\ Arrives(c, "edit") /\ ~Exists(rules, slug)
    /\ Edit(AddCollection(rules, slug, NewCollection(exclusive, activation)))
    /\ UNCHANGED client

\* The update comes first; the folder is looked at for the answer.
UpdateCollection(c) ==
  \E slug \in Slugs, activation \in Chosen :
    /\ Arrives(c, "edit") /\ Exists(rules, slug)
    /\ \/ Edited(Schedule(rules, slug, activation)) /\ Looks(c, "update")
       \/ EditFails(Schedule(rules, slug, activation)) /\ UNCHANGED client
    /\ ElseUnchanged

RemoveCollection(c) ==
  \E slug \in Slugs :
    /\ Arrives(c, "edit") /\ Exists(rules, slug)
    /\ Edit(DeleteCollection(rules, slug))
    /\ UNCHANGED client

\* The artwork to remove, or to preview, is looked up first.
LookUp(c) ==
  \E kind \in {"edit", "preview"} :
    /\ Arrives(c, kind) /\ Looks(c, kind)
    /\ UNCHANGED <<folderVars, themeVars, cycleVars, admission, wake, budget, owed, promised>>

Look(c) ==
  /\ At(c, "look") /\ ReadOnlyView
  /\ CASE client[c].kind = "update"  -> Answered(c)
       [] client[c].kind = "edit"    -> Becomes(c, "remove")
       [] client[c].kind = "preview" -> Becomes(c, "admit") \/ Answered(c)
  /\ UNCHANGED <<folderVars, themeVars, cycleVars, admission, wake, budget, owed, promised, requests>>

LookFails(c) ==
  /\ At(c, "look")
  /\ \/ gate = None /\ pending # {} /\ UNCHANGED budget
     \/ Hit("store")
  /\ Answered(c)
  /\ UNCHANGED <<folderVars, themeVars, cycleVars, admission, wake, owed, promised, requests>>

RemoveFromCollection(c) ==
  /\ At(c, "remove")
  /\ \/ \E slug \in Slugs, picture \in Pictures :
          /\ Exists(rules, slug) /\ picture \in rules[slug].members
          /\ Edit(RemoveMember(rules, slug, picture))
     \/ UNCHANGED <<folderVars, themeVars, cycleVars, admission, wake, budget, owed, promised>>
  /\ Answered(c) /\ UNCHANGED requests

\* Mutant: a wake channel without a place of its own, read by an idle loop only.
SyncNowUnbuffered(c) ==
  /\ Arrives(c, "sync")
  /\ wake' = (loop = "select") /\ owed' = {"art", "rules"}
  /\ UNCHANGED <<folderVars, themeVars, cycleVars, admission, budget, promised, client>>

\* sync_now: the wake channel has one place; a request that finds it taken is
\* answered that the cycle to come will include its changes.
SyncNow(c) ==
  /\ Arrives(c, "sync")
  /\ wake' = TRUE /\ owed' = {"art", "rules"}
  /\ UNCHANGED <<folderVars, themeVars, cycleVars, admission, budget, promised, client>>

-----------------------------------------------------------------------------
\* A preview is rendered in the same bounded pool as the transforms of a cycle,
\* and refused when the queue is full.
Admit(c) ==
  /\ At(c, "admit")
  /\ \/ Reserve(c) /\ Becomes(c, "render")
     \/ Overloaded /\ Answered(c) /\ UNCHANGED admission
  /\ UNCHANGED <<folderVars, themeVars, cycleVars, wake, budget, owed, promised, requests>>

Render(c) ==
  /\ At(c, "render") /\ Activate(c)
  /\ UNCHANGED <<folderVars, themeVars, cycleVars, wake, budget, owed, promised, client, requests>>

Rendered(c) ==
  /\ At(c, "render") /\ Leave(c) /\ Answered(c)
  /\ UNCHANGED <<folderVars, themeVars, cycleVars, wake, budget, owed, promised, requests>>

GoneQueued(c) ==
  /\ At(c, "render") /\ Hit("gone")
  /\ GiveUp(c) /\ Answered(c)
  /\ UNCHANGED <<folderVars, themeVars, cycleVars, wake, owed, promised, requests>>

-----------------------------------------------------------------------------
\* The world around: the control file becomes unreadable and is repaired, and
\* a day goes by.
Breaks ==
  /\ readable /\ readable' = FALSE
  /\ \/ Hit("unreadable-stale")
     \/ Hit("unreadable") /\ lastRules \in {None, rules}
  /\ UNCHANGED <<rules, today, lastRules>>

Repaired == ~readable /\ readable' = TRUE /\ UNCHANGED <<rules, today, lastRules, budget>>

Midnight == Hit("midnight") /\ today' = (today % LastDay) + 1 /\ UNCHANGED <<rules, readable, lastRules>>

Around ==
  /\ Breaks \/ Repaired \/ Midnight
  /\ UNCHANGED <<folderVars, cycleVars, admission, wake, owed, promised, client, requests>>

NewRequest(c) ==
  \/ StartUpload(c) \/ StartAdd(c) \/ LookUp(c) \/ SyncNow(c)
  \/ CreateCollection(c) \/ UpdateCollection(c) \/ RemoveCollection(c)

\* A request the server has in hand; only Receive waits for the client itself.
Handle(c) ==
  \/ TakeGate(c) \/ GoneWaiting(c) \/ Import(c) \/ ImportRefused(c) \/ ImportJournalled(c)
  \/ RecordKey(c) \/ Release(c) \/ Look(c) \/ LookFails(c) \/ RemoveFromCollection(c) \/ Admit(c) \/ Render(c) \/ Rendered(c) \/ GoneQueued(c)
=============================================================================
