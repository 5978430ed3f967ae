--------------------------- MODULE MCSourcesLoader ---------------------------
(* An instance of SourcesLoader for TLC. *)
EXTENDS SourcesLoader, TLC

CONSTANTS searchLine, museumLine, nasaLine, urlLine, m1, m2, a1, n1, u1

\* The Art Institute's work is the Met's second one, and the URL names the
\* bytes of a picture of NASA's.
MCWork == m1 :> 1 @@ m2 :> 2 @@ a1 :> 2 @@ n1 :> None @@ u1 :> None

MCContent == m1 :> 1 @@ m2 :> 2 @@ a1 :> 3 @@ n1 :> 4 @@ u1 :> 4

MetSearch == [provider |-> "met", kind |-> "search", hits |-> <<m1, m2>>, limit |-> 2]

ArticSearch == [provider |-> "artic", kind |-> "search", hits |-> <<a1>>, limit |-> 2]

MCQuery ==
  searchLine :> MetSearch
  @@ museumLine :> [provider |-> "museum", parts |-> <<ArticSearch, MetSearch>>, limit |-> 2]
  @@ nasaLine :> [provider |-> "nasa", kind |-> "search", hits |-> <<n1>>, limit |-> 2]

MCCatalogue == searchLine :> {m1, m2} @@ museumLine :> {a1, m1} @@ nasaLine :> {n1} @@ urlLine :> {u1}

MCQuota == [service \in Services |-> IF service = "met" THEN 2 ELSE 0]


Plenty == [Web(Found) EXCEPT !.left = Everywhere(9)]

After(query, broken) == Resolution(Session(Plenty, broken), query)

\* The catalogue is what the lines resolve to when nothing fails.
ASSUME CatalogueIsResolved ==
  \A line \in Lines \ Direct : ToSet(After(Query[line], {}).found) = Catalogue[line]

\* A line for each kind a provider knows.
Ask1(provider, kind) == [provider |-> provider, kind |-> kind, hits |-> <<m1, m2>>, limit |-> 2]

Kinds ==
  {Ask1(provider, "search") : provider \in Services \ {"unsplash"}}
  \cup {Ask1(provider, "photo") : provider \in {"artic", "pexels", "pixabay", "unsplash"}}
  \cup {Ask1(provider, "object") : provider \in {"cleveland", "smk"}}
  \cup {Ask1("commons", "potd"), Ask1("nasa", "apod"), Ask1("pexels", "collection"), Ask1("unsplash", "collection")}

\* A closed gate fails a line with the time it opens, and nothing is asked; a
\* line of another provider is not affected.
ASSUME GatesRefuse ==
  \A query \in Kinds, closed \in Services :
    LET answer == Resolution(Session([Plenty EXCEPT !.until[closed] = 1], {}), query)
    IN IF query.provider = closed THEN ~answer.ok /\ answer.sent = 0 /\ answer.retry = 1 ELSE answer.ok

\* Pages are all or nothing, of any page that is lost; a NASA search keeps the
\* items whose manifest came, if any did.
ASSUME PoliciesDiffer ==
  \A broken \in SUBSET (1..3) :
    /\ After(Ask1("pexels", "collection"), broken).ok <=> broken \cap {1, 2} = {}
    /\ LET answer == After(Ask1("nasa", "search"), broken)
           came == {hit \in 1..2 : hit + 1 \notin broken}
       IN IF 1 \in broken \/ came = {} THEN ~answer.ok
          ELSE answer.ok /\ ToSet(answer.found) = {<<m1, m2>>[hit] : hit \in came}

\* Merged candidates are distinct works of the lists, and every work of the
\* lists unless the limit cut it off.
ASSUME MergeIsExact ==
  \A lists \in [1..2 -> {<<>>, <<m1>>, <<a1>>, <<m2, m1>>, <<a1, n1, u1>>}], limit \in 1..4 :
    LET merged == MergeCandidates(lists, limit)
        listed == UNION {ToSet(lists[i]) : i \in 1..2}
    IN /\ Len(merged) <= limit /\ ToSet(merged) \subseteq listed
       /\ \A i, j \in DOMAIN merged : SameWork(merged[i], merged[j]) => i = j
       /\ Len(merged) = limit \/ \A hit \in listed : \E i \in DOMAIN merged : SameWork(hit, merged[i])
=============================================================================
