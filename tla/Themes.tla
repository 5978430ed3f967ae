------------------------------- MODULE Themes -------------------------------
(* Themed collections: named groups of artwork shown only while a schedule   *)
(* holds, and the choice of what a TV may show today.  The document is a     *)
(* function of the slugs; a slug without a collection holds NoCollection.    *)
EXTENDS Naturals, FiniteSets

CONSTANTS Slugs,         \* the names collections may have
          Pictures,      \* artwork, by the identity a member records (origin or digest)
          LastDay        \* the days of a year are 1 .. LastDay

ASSUME LastDayAssumption == LastDay \in Nat \ {0}

Days == 1 .. LastDay

NoCollection == [exists |-> FALSE]

Always == [mode |-> "always"]
Off == [mode |-> "off"]
Window(start, end) == [mode |-> "window", start |-> start, end |-> end]

Activations == {Always, Off} \cup {Window(start, end) : start \in Days, end \in Days}

Collections == [exists : {TRUE}, exclusive : BOOLEAN, activation : Activations, members : SUBSET Pictures]

Documents == [Slugs -> Collections \cup {NoCollection}]

\* A missing file is a document without collections.
Empty == [slug \in Slugs |-> NoCollection]

NewCollection(exclusive, activation) ==
  [exists |-> TRUE, exclusive |-> exclusive, activation |-> activation, members |-> {}]

\* Both bounds belong to the window; one that starts after its end runs over
\* the end of the year.
InWindow(start, end, day) ==
  IF start <= end THEN start <= day /\ day <= end
                  ELSE start <= day \/ day <= end

ActiveAt(activation, day) ==
  \/ activation.mode = "always"
  \/ activation.mode = "window" /\ InWindow(activation.start, activation.end, day)

Exists(file, slug) == file[slug].exists

Memberships(file, picture) == {slug \in Slugs : Exists(file, slug) /\ picture \in file[slug].members}

ActiveCollections(file, day) == {slug \in Slugs : Exists(file, slug) /\ ActiveAt(file[slug].activation, day)}

\* An active exclusive collection replaces everyday art only while it holds a
\* picture that is really there.
Exclusive(file, pictures, day) ==
  \E slug \in ActiveCollections(file, day), picture \in pictures :
     file[slug].exclusive /\ picture \in file[slug].members

\* Mutant: a collection that is off counts for nothing.
EverydayUnlessOn(file, picture) == \A slug \in Memberships(file, picture) : file[slug].activation = Off

Everyday(file, picture) == Memberships(file, picture) = {}

InActive(file, picture, day) == Memberships(file, picture) \cap ActiveCollections(file, day) # {}

Select(file, pictures, day) ==
  {picture \in pictures :
     \/ InActive(file, picture, day)
     \/ Everyday(file, picture) /\ ~Exclusive(file, pictures, day)}

\* Changes of the document; Find refuses a slug that is not there.
AddCollection(file, slug, collection) == [file EXCEPT ![slug] = collection]

AddMember(file, slug, picture) == [file EXCEPT ![slug].members = @ \cup {picture}]

RemoveMember(file, slug, picture) == [file EXCEPT ![slug].members = @ \ {picture}]

Schedule(file, slug, activation) == [file EXCEPT ![slug].activation = activation]

DeleteCollection(file, slug) == [file EXCEPT ![slug] = NoCollection]

\* reserveMember: the collection is created, off and exclusive, when missing.
Reserved(file, slug, picture) ==
  LET there == IF Exists(file, slug) THEN file
               ELSE AddCollection(file, slug, NewCollection(TRUE, Off))
  IN  AddMember(there, slug, picture)

\* releaseMember undoes a reservation: the member it added, and the collection
\* it created once that is empty.
Released(file, slug, picture, added, created) ==
  IF ~Exists(file, slug) THEN file
  ELSE LET without == IF added THEN RemoveMember(file, slug, picture) ELSE file
       IN  IF created /\ without[slug].members = {} THEN DeleteCollection(without, slug) ELSE without
=============================================================================
