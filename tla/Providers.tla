------------------------------ MODULE Providers ------------------------------
(* What the providers make of a source line: requests to web services that   *)
(* grant a quota, each behind the gate that remembers the quota's end, and    *)
(* one policy per provider for the requests that fail.                        *)
(*                                                                           *)
(* A resolution is a function of what the services and their gates know and   *)
(* of which of its requests are lost: the loader resolves one line at a time. *)
(* The searches of a museum line run concurrently, each behind a gate of its  *)
(* own, so their order does not matter; one that runs out of time counts as   *)
(* one whose first request is lost.                                           *)
EXTENDS Naturals, SequencesExt, FiniteSetsExt

CONSTANTS
  Services,      \* the web services behind the providers, by provider
  Quota,         \* how many requests one grants in a window, 0 for no bound
  ResetAfter,    \* how long a window is
  TTL,           \* sourceResolutionTTL, which metObjectCacheTTL equals
  Usable,        \* hits with a license and an image fit for the panel
  Work,          \* normalized title and artist of a hit, None when either is missing
  None

Everywhere(value) == [service \in Services |-> value]

\* What the services and their gates know: a gate is closed for as long as
\* until says; the requests left in the window and the time left of it; how
\* long the Met's objects stay cached.  For the properties: how long a service
\* told this process to wait, and which ones were asked nevertheless.
Web(objects) ==
  [until |-> Everywhere(0), left |-> Quota, window |-> Everywhere(0), cache |-> [object \in objects |-> 0],
   told |-> Everywhere(0), rude |-> {}]

\* A resolution in progress: its requests are numbered, and some are lost.
Session(web, broken) ==
  [web |-> web, broken |-> broken, sent |-> 0, found |-> <<>>, failed |-> 0, retry |-> 0, ok |-> TRUE]

-----------------------------------------------------------------------------
\* Mutant: an answer that uses up the quota leaves the gate open, until a refusal.
ObserveRefusal(web, service) ==
  [web EXCEPT !.until[service] = IF web.told[service] > 0 THEN web.window[service] ELSE @]

\* observe: the gate closes until the window ends.
Observe(web, service) == [web EXCEPT !.until[service] = web.window[service]]

\* A response that says nothing is left.
Exhausted(web, service) == [Observe(web, service) EXCEPT !.told[service] = web.window[service]]

Spent(web, service) ==
  [web EXCEPT !.left[service] = @ - 1, !.window[service] = IF @ = 0 THEN ResetAfter ELSE @]

Served(web, service) ==
  IF Quota[service] = 0 THEN web
  ELSE IF web.left[service] = 1 THEN Exhausted(Spent(web, service), service)
  ELSE Spent(web, service)

Pressed(web, service) == IF web.told[service] > 0 THEN [web EXCEPT !.rude = @ \cup {service}] ELSE web

\* The error a caller sees; the retry time of the first rate limit stays in it
\* when failures are joined.
Failure(session, retry) == [session EXCEPT !.ok = FALSE, !.retry = IF @ = 0 THEN retry ELSE @]

Closed(session, service) == session.web.until[service] > 0

\* fetchProviderJSON: a closed gate refuses without asking; a request is lost,
\* refused with 429, or answered.
Fetched(session, service) ==
  LET asked == [session EXCEPT !.sent = @ + 1, !.web = Pressed(@, service)]
      refused == [asked EXCEPT !.web = Exhausted(@, service)]
  IN
  IF Closed(session, service) THEN Failure(session, session.web.until[service])
  ELSE IF asked.sent \in session.broken THEN Failure(asked, 0)
  ELSE IF Quota[service] > 0 /\ asked.web.left[service] = 0
       THEN Failure(refused, refused.web.until[service])
  ELSE [asked EXCEPT !.ok = TRUE, !.web = Served(@, service)]

-----------------------------------------------------------------------------
Keep(session, hit) == IF hit \in Usable THEN [session EXCEPT !.found = Append(@, hit)] ELSE session

\* One request; its hits are taken as far as they are usable and wanted.
List(session, service, query) ==
  LET answer == Fetched(session, service)
      Take(taken, hit) == IF Len(taken.found) = query.limit THEN taken ELSE Keep(taken, hit)
  IN IF answer.ok THEN FoldLeft(Take, answer, query.hits) ELSE answer

\* One work by its identifier: one that is not usable is an error.
Single(answer, query) ==
  LET kept == Keep(answer, query.hits[1])
  IN IF answer.ok /\ kept.found = <<>> THEN Failure(answer, 0) ELSE IF answer.ok THEN kept ELSE answer

Photo(session, service, query) == Single(Fetched(session, service), query)

\* collectPages, a hit to a page: any page that fails fails the line.
Pages(session, service, query) ==
  LET NextPage(pages, hit) ==
        LET answer == Fetched(pages, service)
        IN IF ~pages.ok THEN pages ELSE IF answer.ok THEN Keep(answer, hit) ELSE answer
  IN FoldLeft(NextPage, session, query.hits)

Skipped(session) == [session EXCEPT !.ok = TRUE, !.failed = @ + 1]

\* A search whose hits each take a request fails when all of them failed.
UnlessAllFailed(session, hits) == [session EXCEPT !.ok = @ /\ (session.failed = 0 \/ session.failed < Len(hits))]

\* Mutant: objects are not cached.
ObjectUncached(session, hit) == Fetched(session, "met")

\* The Met's object, from the cache when it is fresh.
Object(session, hit) ==
  LET answer == Fetched(session, "met")
  IN IF session.web.cache[hit] > 0 THEN [session EXCEPT !.ok = TRUE]
     ELSE IF answer.ok THEN [answer EXCEPT !.web.cache[hit] = TTL]
     ELSE answer

\* The Met's search: a hit whose object cannot be read is skipped, but a rate
\* limit ends the search, with nothing found.
Objects(session, query) ==
  LET answer == Fetched(session, "met")
      NextObject(search, hit) ==
        LET object == Object(search, hit)
        IN IF ~search.ok \/ Len(search.found) = query.limit THEN search
           ELSE IF object.ok THEN Keep(object, hit)
           ELSE IF object.retry > 0 THEN object
           ELSE Skipped(object)
  IN IF answer.ok THEN UnlessAllFailed(FoldLeft(NextObject, answer, query.hits), query.hits) ELSE answer

\* NASA's searchLibrary: an item whose manifest fails is skipped, also when
\* the gate refused it.
Assets(session, query) ==
  LET answer == Fetched(session, "nasa")
      NextItem(items, hit) ==
        LET manifest == Fetched(items, "nasa")
        IN IF manifest.ok THEN Keep(manifest, hit) ELSE Skipped(manifest)
  IN IF answer.ok THEN UnlessAllFailed(FoldLeft(NextItem, answer, query.hits), query.hits) ELSE answer

-----------------------------------------------------------------------------
\* Resolve of each provider, by the kind of the line.
Wrong(session) == Failure(session, 0)

Artic(session, query) ==
  CASE query.kind = "search" -> List(session, "artic", query)
    [] query.kind = "photo" -> Photo(session, "artic", query)
    [] OTHER -> Wrong(session)

Cleveland(session, query) ==
  CASE query.kind = "search" -> List(session, "cleveland", query)
    [] query.kind = "object" -> Photo(session, "cleveland", query)
    [] OTHER -> Wrong(session)

SMK(session, query) ==
  CASE query.kind = "search" -> List(session, "smk", query)
    [] query.kind = "object" -> Photo(session, "smk", query)
    [] OTHER -> Wrong(session)

Met(session, query) ==
  CASE query.kind = "search" -> Objects(session, query)
    [] query.kind = "object" -> Single(Object(session, query.hits[1]), query)
    [] OTHER -> Wrong(session)

Commons(session, query) ==
  IF query.kind \in {"potd", "featured", "search"} THEN List(session, "commons", query) ELSE Wrong(session)

NASA(session, query) ==
  CASE query.kind = "apod" -> List(session, "nasa", query)
    [] query.kind = "search" -> Assets(session, query)
    [] OTHER -> Wrong(session)

Pexels(session, query) ==
  CASE query.kind \in {"search", "curated"} -> List(session, "pexels", query)
    [] query.kind = "collection" -> Pages(session, "pexels", query)
    [] query.kind = "photo" -> Photo(session, "pexels", query)
    [] OTHER -> Wrong(session)

Pixabay(session, query) ==
  CASE query.kind \in {"search", "editors_choice"} -> Pages(session, "pixabay", query)
    [] query.kind = "photo" -> Photo(session, "pixabay", query)
    [] OTHER -> Wrong(session)

Unsplash(session, query) ==
  CASE query.kind = "collection" -> Pages(session, "unsplash", query)
    [] query.kind = "photo" -> Photo(session, "unsplash", query)
    [] OTHER -> Wrong(session)

-----------------------------------------------------------------------------
\* mergeCandidates: the lists' first works, then their second ones, and so on,
\* without works that are there already, up to the limit.
SameWork(hit, other) == hit = other \/ (Work[hit] = Work[other] /\ Work[hit] # None)

Ranks(lists) == Max({0} \cup {Len(lists[i]) : i \in DOMAIN lists})

Rank(lists, depth) ==
  LET long == SelectSeq(lists, LAMBDA list : Len(list) >= depth)
  IN [i \in DOMAIN long |-> long[i][depth]]

MergeCandidates(lists, limit) ==
  LET Take(merged, hit) ==
        IF Len(merged) = limit \/ \E i \in DOMAIN merged : SameWork(merged[i], hit) THEN merged ELSE Append(merged, hit)
  IN FoldLeft(Take, <<>>, FlattenSeq([depth \in 1..Ranks(lists) |-> Rank(lists, depth)]))

Searcher(session, part) ==
  CASE part.provider = "artic" -> Artic(session, part)
    [] part.provider = "met" -> Met(session, part)
    [] part.provider = "cleveland" -> Cleveland(session, part)
    [] part.provider = "smk" -> SMK(session, part)

\* One more museum is searched: its works, if it has any to give, and its error.
Searched(search, part) ==
  LET answer == Searcher([search.session EXCEPT !.found = <<>>, !.failed = 0, !.retry = 0, !.ok = TRUE], part)
  IN [session |-> answer,
      lists |-> Append(search.lists, IF answer.ok THEN answer.found ELSE <<>>),
      failed |-> search.failed + (IF answer.ok THEN 0 ELSE 1),
      retry |-> IF answer.ok \/ search.retry > 0 THEN search.retry ELSE answer.retry]

\* A museum line keeps what some museums found, and fails when all failed.
Museum(session, query) ==
  LET search == FoldLeft(Searched, [session |-> session, lists |-> <<>>, failed |-> 0, retry |-> 0], query.parts)
  IN [search.session EXCEPT !.found = MergeCandidates(search.lists, query.limit),
        !.ok = search.failed < Len(query.parts), !.retry = search.retry]

\* resolveProvider, and the resolution of the provider it finds.  The museum
\* line shares the museums' gates and objects with their own lines.
Resolution(session, query) ==
  CASE query.provider = "museum" -> Museum(session, query)
    [] query.provider \in {"artic", "met", "cleveland", "smk"} -> Searcher(session, query)
    [] query.provider = "commons" -> Commons(session, query)
    [] query.provider = "nasa" -> NASA(session, query)
    [] query.provider = "pexels" -> Pexels(session, query)
    [] query.provider = "pixabay" -> Pixabay(session, query)
    [] query.provider = "unsplash" -> Unsplash(session, query)

-----------------------------------------------------------------------------
\* Time: an exhausted quota is granted again at the end of its window.
Left(time) == IF time = 0 THEN 0 ELSE time - 1

Ticked(times) == [key \in DOMAIN times |-> Left(times[key])]

AgedWeb(web) ==
  [web EXCEPT !.until = Ticked(@), !.window = Ticked(@), !.told = Ticked(@), !.cache = Ticked(@),
     !.left = [service \in Services |-> IF web.window[service] <= 1 THEN Quota[service] ELSE @[service]]]

\* A new process knows nothing; the services go on as they were.
ForgottenWeb(web) ==
  [web EXCEPT !.until = Everywhere(0), !.told = Everywhere(0), !.cache = [object \in DOMAIN @ |-> 0]]
=============================================================================
