----------------------------- MODULE UrlHistory -----------------------------
(***************************************************************************)
(* What the service remembers of the pages it reads: url_cache and         *)
(* url_snapshots (repositories/data.py), and the operations that fill them *)
(* (services/operations.py, services/tool_operations.py).                  *)
(*                                                                         *)
(* A page is a version that changes by itself; fetching it is one step     *)
(* that reads the version of that moment, or a failure (guard, robots.txt  *)
(* and fetch are the module Fetcher).  A cache row is stored by a merge:   *)
(* a SELECT, and an INSERT or UPDATE that is committed later.  A snapshot  *)
(* is compared and added in two further transactions.  Nothing in the      *)
(* service keeps two calls on one URL apart.                               *)
(***************************************************************************)
EXTENDS Integers, Sequences, FiniteSets

CONSTANTS
    Urls,         \* normalized, all of one domain
    Calls,
    OpOf,         \* what each call asks for
    UrlsOf,       \* its URLs: one, or up to five for a batch
    Fresh,        \* the calls with "fresh": true
    SameText,     \* do both normalizations of the page give one text
    Ttl,          \* of a cache entry
    Delay,        \* bound on the time from a fetch to the end of its call
    PerDomain,    \* setting per_domain_concurrency
    MaxVersion,   \* bound on changes of a page
    MaxClock      \* bound on time

\* What an operation does about the document it is asked for: under which kind
\* it is looked up and stored, and whether it is compared with a snapshot.
Pulse == [kind |-> "pulse", stores |-> TRUE, compares |-> FALSE]
Passport == [kind |-> "passport", stores |-> TRUE, compares |-> FALSE]
Extract == [kind |-> "extract", stores |-> TRUE, compares |-> FALSE]
Changed == [kind |-> "changed", stores |-> FALSE, compares |-> TRUE]
\* All projections share one document artifact, url_diff included.
Projection == [kind |-> "artifact", stores |-> TRUE, compares |-> FALSE]
Diff == [kind |-> "artifact", stores |-> TRUE, compares |-> TRUE]

Plan == [pulse |-> Pulse, passport |-> Passport, extract |-> Extract, changed |-> Changed,
         url_diff |-> Diff, projection |-> Projection, batch |-> Projection]
Operations == DOMAIN Plan

ASSUME HistoryAssumption ==
    /\ OpOf \in [Calls -> Operations]
    /\ \A c \in Calls : UrlsOf[c] \in Seq(Urls) /\ Len(UrlsOf[c]) \in 1..5
    /\ \A c \in Calls : OpOf[c] # "batch" => Len(UrlsOf[c]) = 1
    /\ Fresh \subseteq Calls
    /\ SameText \in BOOLEAN
    /\ {Ttl, PerDomain} \subseteq Nat \ {0}
    /\ {Delay, MaxVersion, MaxClock} \subseteq Nat

VARIABLES
    page,       \* the version each URL serves now
    clock,
    cache,      \* url_cache by kind and URL; until = 0 is no row
    snapshots,  \* url_snapshots of each URL in the order of checked_at
    pc,
    started,    \* when a call began
    got,        \* the document in a call's hands
    rowSeen,    \* did its merge find a row
    previous,   \* number of the snapshot it compares with, 0 for none
    items,      \* outcomes of the URLs it is through with
    told,       \* "baseline", "changed" or "same"
    broken      \* its session needs a rollback

remembered == <<cache, snapshots>>
answers == <<items, told>>
vars == <<page, clock, remembered, pc, started, got, rowSeen, previous, answers, broken>>

-----------------------------------------------------------------------------

\* cache_key
Kinds == {Plan[op].kind : op \in Operations}
Key(c, u) == <<Plan[OpOf[c]].kind, u>>

NoRow == [version |-> 0, at |-> 0, until |-> 0]
NoDocument == [version |-> 0, at |-> 0, age |-> 0]

\* The two normalizations: _extracted joins text by lines, _artifact by spaces.
Hash(op, version) == <<IF SameText THEN "text" ELSE op, version>>

UrlOf(c) == UrlsOf[c][Len(items[c]) + 1]
Ended == {"done", "failed"}
Idle == {"idle", "refused"}

Init ==
    /\ page = [u \in Urls |-> 1]
    /\ clock = 0
    /\ cache = [key \in Kinds \X Urls |-> NoRow]
    /\ snapshots = [u \in Urls |-> <<>>]
    /\ pc = [c \in Calls |-> "idle"]
    /\ started = [c \in Calls |-> 0]
    /\ got = [c \in Calls |-> NoDocument]
    /\ rowSeen = [c \in Calls |-> FALSE]
    /\ previous = [c \in Calls |-> 0]
    /\ items = [c \in Calls |-> <<>>]
    /\ told = [c \in Calls |-> "nothing"]
    /\ broken = [c \in Calls |-> FALSE]

Goto(c, place) == pc' = [pc EXCEPT ![c] = place]

Begin(c) ==
    /\ pc[c] = "idle"
    /\ Goto(c, "lookup")
    /\ started' = [started EXCEPT ![c] = clock]
    /\ UNCHANGED <<page, clock, remembered, got, rowSeen, previous, answers, broken>>

\* 503: the owner has paused the service or switched the tool off, which may be
\* so whenever a call comes.  (A batch turned away has no items at all.)
TurnAway(c) ==
    /\ pc[c] = "idle"
    /\ Goto(c, "refused")
    /\ UNCHANGED <<page, clock, remembered, started, got, rowSeen, previous, answers, broken>>

-----------------------------------------------------------------------------
(* The end of one URL: the call's own, or one item of a batch *)

\* A batch goes on to its next URL whatever happened, and reads its price at
\* the end.  That read fails in a session that needs a rollback, and may fail in
\* a sound one, over a promotion that it cannot end (PricePromo).
NextPlaces(c, outcome, needsRollback) ==
    IF Len(items[c]) + 1 < Len(UrlsOf[c]) THEN {"lookup"}
    ELSE IF needsRollback \/ (outcome = "error" /\ OpOf[c] # "batch") THEN {"failed"}
    ELSE IF OpOf[c] = "batch" THEN {"done", "failed"}
    ELSE {"done"}

EndItem(c, outcome, needsRollback) ==
    /\ items' = [items EXCEPT ![c] = Append(@, outcome)]
    /\ \E place \in NextPlaces(c, outcome, needsRollback) : Goto(c, place)

FailItem(c) == EndItem(c, "error", broken[c])

-----------------------------------------------------------------------------
(* get_cache, the fetch, put_cache *)

UsesCache(c) == c \notin Fresh /\ Plan[OpOf[c]].stores

Row(c) == cache[Key(c, UrlOf(c))]

\* Mutant: an entry lives one instant too long.
AliveAtTheEnd(row) == row.until >= clock /\ row.until > 0

Alive(row) == row.until > clock

\* What comes after the document: a comparison, or the request's record.
AfterDocument(op) == IF Plan[op].compares THEN "compare" ELSE "record"

Cached(row) == [version |-> row.version, at |-> row.at, age |-> clock - row.at]

Hit(c) ==
    /\ pc[c] = "lookup" /\ ~broken[c]
    /\ UsesCache(c) /\ Alive(Row(c))
    /\ got' = [got EXCEPT ![c] = Cached(Row(c))]
    /\ Goto(c, AfterDocument(OpOf[c]))
    /\ UNCHANGED <<page, clock, remembered, started, rowSeen, previous, answers, broken>>

Miss(c) ==
    /\ pc[c] = "lookup" /\ ~broken[c]
    /\ ~(UsesCache(c) /\ Alive(Row(c)))
    /\ Goto(c, "fetching")
    /\ UNCHANGED <<page, clock, remembered, started, got, rowSeen, previous, answers, broken>>

\* The guard, robots.txt or the fetch refuses; or the session is unusable.
Refuse(c) ==
    /\ pc[c] \in {"lookup", "fetching"}
    /\ FailItem(c)
    /\ UNCHANGED <<page, clock, remembered, started, got, rowSeen, previous, told, broken>>

\* _pulse_from_fetch, _extracted and _artifact make of a page what is stored
\* and answered: all of it belongs to one version.
Document(c) == [version |-> page[UrlOf(c)], at |-> clock, age |-> 0]

ReadPage(c) ==
    /\ pc[c] = "fetching"
    /\ got' = [got EXCEPT ![c] = Document(c)]
    /\ Goto(c, IF Plan[OpOf[c]].stores THEN "merge" ELSE AfterDocument(OpOf[c]))
    /\ UNCHANGED <<page, clock, remembered, started, rowSeen, previous, answers, broken>>

\* session.merge looks for the row ...
Merge(c) ==
    /\ pc[c] = "merge"
    /\ rowSeen' = [rowSeen EXCEPT ![c] = Row(c) # NoRow]
    /\ Goto(c, "store")
    /\ UNCHANGED <<page, clock, remembered, started, got, previous, answers, broken>>

\* ... and inserts it if there was none: a row somebody else has inserted in
\* the meantime violates the primary key.
Collides(c) == ~rowSeen[c] /\ Row(c) # NoRow

Store(c) ==
    /\ pc[c] = "store"
    /\ ~Collides(c)
    /\ cache' = [cache EXCEPT ![Key(c, UrlOf(c))] =
                   [version |-> got[c].version, at |-> got[c].at, until |-> clock + Ttl]]
    /\ Goto(c, AfterDocument(OpOf[c]))
    /\ UNCHANGED <<page, clock, snapshots, started, got, rowSeen, previous, answers, broken>>

LoseInsert(c) ==
    /\ pc[c] = "store"
    /\ Collides(c)
    /\ broken' = [broken EXCEPT ![c] = TRUE]
    /\ EndItem(c, "error", TRUE)
    /\ UNCHANGED <<page, clock, remembered, started, got, rowSeen, previous, told>>

-----------------------------------------------------------------------------
(* latest_snapshot, add_snapshot, record_request *)

LatestSnapshot(c) ==
    /\ pc[c] = "compare"
    /\ previous' = [previous EXCEPT ![c] = Len(snapshots[UrlOf(c)])]
    /\ Goto(c, "snapshot")
    /\ UNCHANGED <<page, clock, remembered, started, got, rowSeen, answers, broken>>

Verdict(c) ==
    IF previous[c] = 0 THEN "baseline"
    ELSE IF snapshots[UrlOf(c)][previous[c]].hash # Hash(OpOf[c], got[c].version) THEN "changed"
    ELSE "same"

\* Mutant: the snapshot is added first, and then compared with the latest one.
AddThenCompare(c) ==
    /\ pc[c] = "snapshot"
    /\ snapshots' = [snapshots EXCEPT ![UrlOf(c)] =
                       Append(@, [hash |-> Hash(OpOf[c], got[c].version),
                                  version |-> got[c].version, call |-> c])]
    /\ told' = [told EXCEPT ![c] = "same"]
    /\ Goto(c, "record")
    /\ UNCHANGED <<page, clock, cache, started, got, rowSeen, previous, items, broken>>

\* A snapshot keeps the hash; version and call are there for the properties.
AddSnapshot(c) ==
    /\ pc[c] = "snapshot"
    /\ snapshots' = [snapshots EXCEPT ![UrlOf(c)] =
                       Append(@, [hash |-> Hash(OpOf[c], got[c].version),
                                  version |-> got[c].version, call |-> c])]
    /\ told' = [told EXCEPT ![c] = Verdict(c)]
    /\ Goto(c, "record")
    /\ UNCHANGED <<page, clock, cache, started, got, rowSeen, previous, items, broken>>

RecordRequest(c) ==
    /\ pc[c] = "record"
    /\ EndItem(c, "ok", broken[c])
    /\ UNCHANGED <<page, clock, remembered, started, got, rowSeen, previous, told, broken>>

-----------------------------------------------------------------------------
(* The world outside *)

PageChanges(u) ==
    /\ page[u] < MaxVersion
    /\ page' = [page EXCEPT ![u] = @ + 1]
    /\ UNCHANGED <<clock, remembered, pc, started, got, rowSeen, previous, answers, broken>>

Tick ==
    /\ clock < MaxClock
    /\ \A c \in Calls : pc[c] \in {"merge", "store"} => clock - got[c].at < Delay
    /\ clock' = clock + 1
    /\ UNCHANGED <<page, remembered, pc, started, got, rowSeen, previous, answers, broken>>

Step(c) ==
    \/ Hit(c) \/ Miss(c) \/ ReadPage(c) \/ Merge(c) \/ Store(c) \/ LoseInsert(c)
    \/ LatestSnapshot(c) \/ AddSnapshot(c) \/ RecordRequest(c) \/ Refuse(c)

Next ==
    \/ \E c \in Calls : Begin(c) \/ TurnAway(c) \/ Step(c)
    \/ \E u \in Urls : PageChanges(u)
    \/ Tick

Spec == Init /\ [][Next]_vars

-----------------------------------------------------------------------------
(* Properties *)

TypeOK ==
    /\ page \in [Urls -> 1..MaxVersion]
    /\ clock \in 0..MaxClock
    /\ \A k \in Kinds, u \in Urls :
         /\ cache[k, u] # NoRow => cache[k, u].version \in 1..page[u]
         /\ cache[k, u].at <= clock /\ cache[k, u].until <= clock + Ttl
    /\ \A u \in Urls : \A i \in DOMAIN snapshots[u] : snapshots[u][i].version \in 1..page[u]
    /\ pc \in [Calls -> Ended \cup Idle \cup {"lookup", "fetching", "merge", "store",
                                   "compare", "snapshot", "record"}]
    /\ \A c \in Calls : previous[c] <= Len(snapshots[UrlsOf[c][1]])
    /\ \A c \in Calls : Len(items[c]) = Len(UrlsOf[c]) <=> pc[c] \in Ended
    /\ told \in [Calls -> {"nothing", "baseline", "changed", "same"}]
    /\ broken \in [Calls -> BOOLEAN]

\* Late fetches that overwrite newer entries, and entries stored long after
\* their fetch, notwithstanding: an answer from the cache was the page less
\* than a lifetime and a fetch ago, and a fresh answer, or a comparison of
\* url_changed, is of this very call.
AnswerAge ==
    \A c \in Calls :
        pc[c] \in {"merge", "store", "compare", "snapshot", "record"} =>
            IF c \notin Fresh /\ OpOf[c] # "changed" THEN got[c].age < Ttl + Delay ELSE got[c].at >= started[c]

\* The caller who brings a version that nobody has brought before is told so:
\* it is the first, or the page has changed.  Comparisons that overlap, take old
\* documents from the cache or hash another text may tell more than that, but
\* no version slips in unannounced behind another call's snapshot.
ChangesAreTold ==
    \A u \in Urls : \A i \in DOMAIN snapshots[u] :
        (\A j \in 1..(i - 1) : snapshots[u][j].version # snapshots[u][i].version) =>
            told[snapshots[u][i].call] \in {"baseline", "changed"}

\* The versions that were known when c added its snapshot.
Known(c) ==
    LET all == snapshots[UrlsOf[c][1]] IN
    {all[i].version : i \in {i \in DOMAIN all : \E j \in DOMAIN all : i < j /\ all[j].call = c}}

\* services/tool_catalog.py, "Know whether normalized content changed since the
\* prior snapshot": a page only moves on, so it has changed if it is newer than
\* all that was known of it, is the same if it is the newest known, and is the
\* baseline if nothing was.
ToldTheTruth ==
    \A c \in Calls :
        LET version == got[c].version IN
        /\ told[c] = "baseline" => Known(c) = {}
        /\ told[c] = "changed" => \A v \in Known(c) : version > v
        /\ told[c] = "same" => version \in Known(c) /\ \A v \in Known(c) : version >= v

\* services/tool_operations.py, "a paid, bounded, sequential batch with
\* deterministic partial failures": failed items are reported as items, the
\* batch itself does not fail.
BatchSurvives == \A c \in Calls : OpOf[c] = "batch" => pc[c] # "failed"

\* API.md says of the batch, and README.md of every tool, that the number of
\* fetches from one domain at a time is bounded by a setting.
DomainLimitHeld == Cardinality({c \in Calls : pc[c] = "fetching"}) <= PerDomain
=============================================================================
