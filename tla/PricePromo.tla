----------------------------- MODULE PricePromo -----------------------------
(***************************************************************************)
(* What a tool costs: the tool_catalog prices, the owner's price changes,  *)
(* the time-limited uniform promotion (repositories/catalog.py) and the    *)
(* one-second price cache of the payment gateway (services/payments.py).   *)
(*                                                                         *)
(* Every reader of a price first ends a promotion that has expired.  That  *)
(* check reads the promotion before it waits for advisory lock 825413, so  *)
(* a reader may wake up with a promotion in hand that is long over.  A     *)
(* session is one database session: a paid request, a public page, or the  *)
(* operator who starts a promotion.  Its identity map keeps the setting    *)
(* rows it has read, so a second look at price_promo_active is no new read.*)
(*                                                                         *)
(* A restore is one action, because the lock, the reads behind it and the  *)
(* commit follow each other without a decision.  An activation is two: it  *)
(* saves the prices it read, and an owner may change one before it commits.*)
(***************************************************************************)
EXTENDS Naturals

CONSTANTS
    Tools,         \* keys of TOOL_BY_KEY
    LegacyTools,   \* the tools of LEGACY_PRICE_TOOLS
    Requests,      \* paid requests
    Pages,         \* catalog, manifest, status and info pages
    Operator,      \* who runs activate_uniform_price_promo
    None,
    ToolOf,        \* the tool a request or a page asks about
    UnitsOf,       \* URLs of a batch request, 1 for the others
    Batches,       \* the requests for batch_url_status
    Base,          \* price_atomic in the built-in catalogue
    FloorOf,       \* floor_atomic in the built-in catalogue
    FloorApproved, \* setting owner_price_floor_approved
    OwnerPrices,   \* what the owner may set
    PromoPrice,
    Term,          \* duration of a promotion
    Ttl,           \* lifetime of a cached price
    MaxClock,      \* bound on time
    MaxPromos,     \* bound on activations
    MaxChanges     \* bound on the owner's price changes

Sessions == Requests \cup Pages \cup {Operator}

ASSUME PriceAssumption ==
    /\ LegacyTools \subseteq Tools
    /\ Operator \notin Requests \cup Pages
    /\ Requests \cap Pages = {}
    /\ None \notin Sessions \cup Nat
    /\ ToolOf \in [Requests \cup Pages -> Tools]
    /\ UnitsOf \in [Requests -> 1..5]
    /\ Batches \subseteq Requests
    /\ Base \in [Tools -> Nat \ {0}]
    /\ FloorOf \in [Tools -> Nat \ {0}]
    /\ FloorApproved \in BOOLEAN
    /\ \A t \in Tools : Base[t] >= FloorOf[t]
    /\ OwnerPrices \subseteq Nat \ {0}
    /\ PromoPrice \in Nat \ {0}
    /\ {Term, Ttl} \subseteq Nat \ {0}
    /\ {MaxClock, MaxPromos, MaxChanges} \subseteq Nat

VARIABLES
    price,    \* tool_catalog.price_atomic
    legacy,   \* settings price_<operation>_usd
    promo,    \* the four price_promo_* settings
    audit,    \* status of the last change record of a promotion
    lock,     \* holder of advisory lock 825413 across two actions
    cache,    \* _EffectivePriceCache._items
    loader,   \* holder of the cache's asyncio lock
    pc,       \* where each session is
    seen,     \* the promotion rows in each session's identity map
    loaded,   \* the price row a request has read and not yet stored
    quote,    \* the amount a request was asked to pay
    report,   \* quoted_amount_atomic in the result of a batch
    shown,    \* the price a page shows, and when it was asked for
    clock,
    promos,   \* activations so far
    changes,  \* price changes of the owner so far
    writes    \* history: how many commits have written a price

catalog == <<price, legacy, promo, audit, lock, promos, writes>>
served == <<cache, loader>>
answers == <<loaded, quote, report, shown>>
bounds == <<clock, changes>>
vars == <<catalog, served, answers, bounds, pc, seen>>

-----------------------------------------------------------------------------
(* Values *)

NoPromo == [active |-> FALSE, expires |-> 0, tools |-> Base,
            legacy |-> [t \in LegacyTools |-> None]]
Unseen == [NoPromo EXCEPT !.expires = None]
EmptyEntry == [until |-> 0, atomic |-> 0, written |-> 0]

Price == Nat \ {0}
Promotion ==
    [active : BOOLEAN, expires : Nat \cup {None}, tools : [Tools -> Price],
     legacy : [LegacyTools -> Price \cup {None}]]
Place ==
    {"idle", "queued", "check", "restore", "read", "loaded", "save", "quoted",
     "recheck", "rerestore", "reread", "done"}

\* The rows of a promotion exist from the first activation on.
PromoRowsExist == promos > 0

\* price_promo_active in a session that has looked before: the row of the
\* identity map answers, and only an absent row is asked for again.
SeesActive(s) == IF seen[s].expires = None THEN promo.active ELSE seen[s].active

\* A cached price younger than its lifetime.
Fresh(t) == cache[t].until > clock

\* _effective_price_atomic: the floor binds unless a promotion is active or the
\* setting switches it off.
Floored(t, atomic, active) ==
    IF ~FloorApproved /\ ~active /\ atomic < FloorOf[t] THEN FloorOf[t] ELSE atomic

Init ==
    /\ price = Base
    /\ legacy = [t \in LegacyTools |-> None]
    /\ promo = NoPromo
    /\ audit = "none"
    /\ lock = None
    /\ cache = [t \in Tools |-> EmptyEntry]
    /\ loader = None
    /\ pc = [s \in Sessions |-> "idle"]
    /\ seen = [s \in Sessions |-> Unseen]
    /\ loaded = [r \in Requests |-> [atomic |-> 0, written |-> 0]]
    /\ quote = [r \in Requests |-> 0]
    /\ report = [r \in Requests |-> 0]
    /\ shown = [g \in Pages |-> [price |-> 0, asked |-> 0]]
    /\ clock = 0
    /\ promos = 0
    /\ changes = 0
    /\ writes = 0

Goto(s, place) == pc' = [pc EXCEPT ![s] = place]

-----------------------------------------------------------------------------
(* Every reader: end a promotion that has expired *)

\* What follows once the promotion is known not to have expired, or restored.
After(s) ==
    CASE pc[s] \in {"recheck", "rerestore"} -> "reread"
      [] s = Operator -> "save"
      [] OTHER -> "read"

\* Mutant: a promotion that expires this moment is not over yet.
OverTooLate == clock > promo.expires
Over == clock >= promo.expires

\* The head of restore_price_promo_if_expired: active, expiry and snapshot.
CheckPromo(s) ==
    /\ pc[s] \in {"check", "recheck"}
    /\ seen' = [seen EXCEPT ![s] = IF PromoRowsExist THEN promo ELSE Unseen]
    /\ Goto(s, IF promo.active /\ Over
                 THEN IF pc[s] = "check" THEN "restore" ELSE "rerestore"
                 ELSE After(s))
    /\ UNCHANGED <<catalog, served, answers, bounds>>

\* Behind the lock: every price back to the snapshot this session holds.
RestorePrices(s) ==
    /\ pc[s] \in {"restore", "rerestore"}
    /\ lock = None
    /\ price' = seen[s].tools
    /\ legacy' = seen[s].legacy
    /\ promo' = [promo EXCEPT !.active = FALSE]
    /\ audit' = IF audit = "applied" THEN "rolled_back" ELSE audit
    /\ seen' = [seen EXCEPT ![s].active = FALSE]
    /\ writes' = writes + 1
    /\ Goto(s, After(s))
    /\ UNCHANGED <<served, answers, bounds, lock, promos>>

-----------------------------------------------------------------------------
(* The paid route *)

Serve(r, atomic) ==
    /\ quote' = [quote EXCEPT ![r] = atomic * UnitsOf[r]]
    /\ Goto(r, "quoted")

\* price_cache.get before the lock.
Arrive(r) ==
    /\ pc[r] = "idle"
    /\ \/ /\ Fresh(ToolOf[r])
          /\ Serve(r, cache[ToolOf[r]].atomic)
       \/ /\ ~Fresh(ToolOf[r])
          /\ Goto(r, "queued")
          /\ UNCHANGED quote
    /\ UNCHANGED <<catalog, served, bounds, seen, loaded, report, shown>>

\* Mutant: concurrent callers are not collapsed into one load.
LoadsOverlap == TRUE
LoaderFree == loader = None

\* price_cache.get behind the lock: the entry is looked at once more.
TakeCacheLock(r) ==
    /\ pc[r] = "queued"
    /\ LoaderFree
    /\ \/ /\ Fresh(ToolOf[r])
          /\ Serve(r, cache[ToolOf[r]].atomic)
          /\ UNCHANGED loader
       \/ /\ ~Fresh(ToolOf[r])
          /\ loader' = r
          /\ Goto(r, "check")
          /\ UNCHANGED quote
    /\ UNCHANGED <<catalog, bounds, cache, seen, loaded, report, shown>>

\* The loaded price enters the cache, is served, and the lock is released.
Store(r, atomic, written) ==
    /\ cache' = [cache EXCEPT ![ToolOf[r]] =
                   [until |-> clock + Ttl, atomic |-> atomic, written |-> written]]
    /\ loader' = None
    /\ Serve(r, atomic)

\* tool_price_atomic: the row is read ...
ReadPrice(r) ==
    /\ r \in Requests
    /\ pc[r] = "read"
    /\ loaded' = [loaded EXCEPT ![r] = [atomic |-> price[ToolOf[r]], written |-> writes]]
    /\ Goto(r, "loaded")
    /\ UNCHANGED <<catalog, served, bounds, seen, quote, report, shown>>

\* ... and served once price_promo_active has answered.
StorePrice(r) ==
    /\ pc[r] = "loaded"
    /\ Store(r, Floored(ToolOf[r], loaded[r].atomic, SeesActive(r)), loaded[r].written)
    /\ UNCHANGED <<catalog, bounds, seen, loaded, report, shown>>

\* Any database error on the way: no promotion, and the built-in price unless
\* the row has been read.  Such an entry owes its age to no row.
PriceUnreadable(r) ==
    LET t == ToolOf[r]
        atomic == IF pc[r] = "loaded" THEN loaded[r].atomic ELSE Base[t]
    IN
    /\ r \in Requests
    /\ pc[r] \in {"check", "restore", "read", "loaded"}
    /\ Store(r, Floored(t, atomic, FALSE), cache[t].written)
    /\ UNCHANGED <<catalog, bounds, seen, loaded, report, shown>>

\* After the fetches of a batch, its result asks for the price once more.
StartReport(r) ==
    /\ r \in Batches
    /\ pc[r] = "quoted"
    /\ Goto(r, "recheck")
    /\ UNCHANGED <<catalog, served, answers, bounds, seen>>

Report(r) ==
    /\ pc[r] = "reread"
    /\ report' = [report EXCEPT ![r] = price[ToolOf[r]] * UnitsOf[r]]
    /\ Goto(r, "done")
    /\ UNCHANGED <<catalog, served, bounds, seen, loaded, quote, shown>>

-----------------------------------------------------------------------------
(* Pages, the owner and the operator *)

OpenPage(g) ==
    /\ pc[g] = "idle"
    /\ shown' = [shown EXCEPT ![g].asked = clock]
    /\ Goto(g, "check")
    /\ UNCHANGED <<catalog, served, bounds, seen, loaded, quote, report>>

\* The rows of public_catalog_rows, after this session's check.
ShowPrices(g) ==
    /\ g \in Pages
    /\ pc[g] = "read"
    /\ shown' = [shown EXCEPT ![g].price = price[ToolOf[g]]]
    /\ Goto(g, "done")
    /\ UNCHANGED <<catalog, served, bounds, seen, loaded, quote, report>>

\* A page answers from the built-in catalogue when the database fails.
ShowBuiltIn(g) ==
    /\ g \in Pages
    /\ pc[g] \in {"check", "restore", "read"}
    /\ shown' = [shown EXCEPT ![g].price = Base[ToolOf[g]]]
    /\ Goto(g, "done")
    /\ UNCHANGED <<catalog, served, bounds, seen, loaded, quote, report>>

\* /prices in the bot: no lock, and no look at the promotion.
OwnerSetsPrice(t, atomic) ==
    /\ changes < MaxChanges
    /\ atomic >= FloorOf[t]
    /\ price' = [price EXCEPT ![t] = atomic]
    /\ changes' = changes + 1
    /\ writes' = writes + 1
    /\ UNCHANGED <<served, answers, legacy, promo, audit, lock, pc, seen,
                   clock, promos>>

StartActivation ==
    /\ pc[Operator] = "idle"
    /\ Goto(Operator, "check")
    /\ UNCHANGED <<catalog, served, answers, bounds, seen>>

\* The code looks before it waits for the lock.  Only an activation makes a
\* promotion active, and there is one operator: it is the same behind the lock,
\* where NothingActive stands in SavePrices.
RefuseActivation ==
    /\ pc[Operator] = "save"
    /\ lock = None
    /\ SeesActive(Operator)
    /\ Goto(Operator, "idle")
    /\ UNCHANGED <<catalog, served, answers, bounds, seen>>

\* Behind the lock: the prices of every tool, and the legacy settings, which
\* fall back to the tool's price while they are unset.
Snapshot(t, setting) == IF setting = None THEN price[t] ELSE setting

NothingActive == ~SeesActive(Operator)

SavePrices ==
    /\ pc[Operator] = "save"
    /\ lock = None
    /\ NothingActive
    /\ promos < MaxPromos
    /\ lock' = Operator
    /\ seen' = [seen EXCEPT ![Operator] =
                  [active  |-> TRUE,
                   expires |-> clock + Term,
                   tools   |-> price,
                   legacy  |-> [t \in LegacyTools |-> Snapshot(t, legacy[t])]]]
    /\ UNCHANGED <<served, answers, bounds, price, legacy, promo, audit, pc,
                   promos, writes>>

LegacyPromo == [t \in LegacyTools |-> PromoPrice]

\* Mutant: the snapshot is taken after the prices have been set.
SnapshotAfterwards ==
    /\ lock = Operator
    /\ price' = [t \in Tools |-> PromoPrice]
    /\ legacy' = LegacyPromo
    /\ promo' = [seen[Operator] EXCEPT !.tools = price', !.legacy = legacy']
    /\ audit' = "applied"
    /\ lock' = None
    /\ promos' = promos + 1
    /\ writes' = writes + 1
    /\ Goto(Operator, "idle")
    /\ UNCHANGED <<served, answers, bounds, seen>>

CommitActivation ==
    /\ lock = Operator
    /\ price' = [t \in Tools |-> PromoPrice]
    /\ legacy' = LegacyPromo
    /\ promo' = seen[Operator]
    /\ audit' = "applied"
    /\ lock' = None
    /\ promos' = promos + 1
    /\ writes' = writes + 1
    /\ Goto(Operator, "idle")
    /\ UNCHANGED <<served, answers, bounds, seen>>

Tick ==
    /\ clock < MaxClock
    /\ clock' = clock + 1
    /\ UNCHANGED <<catalog, served, answers, pc, seen, changes>>

Next ==
    \/ \E s \in Sessions : CheckPromo(s) \/ RestorePrices(s)
    \/ \E r \in Requests :
         \/ Arrive(r) \/ TakeCacheLock(r) \/ ReadPrice(r) \/ StorePrice(r)
         \/ PriceUnreadable(r) \/ StartReport(r) \/ Report(r)
    \/ \E g \in Pages : OpenPage(g) \/ ShowPrices(g) \/ ShowBuiltIn(g)
    \/ \E t \in Tools, atomic \in OwnerPrices : OwnerSetsPrice(t, atomic)
    \/ StartActivation \/ RefuseActivation \/ SavePrices \/ CommitActivation
    \/ Tick

Spec == Init /\ [][Next]_vars

-----------------------------------------------------------------------------
(* Properties *)

TypeOK ==
    /\ price \in [Tools -> Price]
    /\ legacy \in [LegacyTools -> Price \cup {None}]
    /\ promo \in Promotion
    /\ audit \in {"none", "applied", "rolled_back"}
    /\ lock \in {None, Operator}
    /\ cache \in [Tools -> [until : Nat, atomic : Nat, written : Nat]]
    /\ loader \in Requests \cup {None}
    /\ pc \in [Sessions -> Place]
    /\ seen \in [Sessions -> Promotion]
    /\ loaded \in [Requests -> [atomic : Nat, written : Nat]]
    /\ {quote[r] : r \in Requests} \cup {report[r] : r \in Requests} \subseteq Nat
    /\ shown \in [Pages -> [price : Nat, asked : Nat]]
    /\ {clock, promos, changes, writes} \subseteq Nat

\* Whoever ends a promotion, and however late a session with an old snapshot
\* gets the lock, no promotional price is left behind: outside a promotion a
\* tool costs its built-in price or one the owner has set, and so do the
\* legacy settings.
PromoPriceEndsWithPromo ==
    ~promo.active =>
        /\ \A t \in Tools : price[t] \in OwnerPrices \cup {Base[t]}
        /\ \A t \in LegacyTools : legacy[t] \in OwnerPrices \cup {Base[t], None}

\* PRICE_PROMO_7_DAY_REPORT.md: on or after the expiry a catalog or discovery
\* lookup restores the prices before it responds.  A page asked for at or after
\* the expiry does not show the promotional price, whoever does the restoring
\* (of the first promotion: a page may come under a second one meanwhile).
NoPromoPageAfterExpiry ==
    \A g \in Pages :
        promos = 1 /\ pc[g] = "done" /\ seen[g].expires # None /\ shown[g].asked >= seen[g].expires
          => shown[g].price # PromoPrice

\* The cache never goes back: an entry is only replaced by one loaded after
\* the same or a later commit, so callers racing for an expired entry cannot
\* bring back a price the owner has already replaced.  (After a database error
\* the built-in price is served; it is not counted as older.)
CacheMovesForward ==
    [][\A t \in Tools : cache'[t].written >= cache[t].written]_vars

\* tests/unit/test_price_promo.py, "test_promo_does_not_restore_before_expiry":
\* a promotion ends at its expiry, never before.
PromoLastsItsTerm ==
    [][promo.active /\ ~promo'.active => clock >= promo.expires]_vars

\* PRICE_PROMO_7_DAY_REPORT.md: on or after expiry the first paid-route price
\* lookup restores the original prices before it responds; so a request that
\* arrives and is answered after the expiry is not asked the promotional price.
NoPromoQuoteAfterExpiry ==
    [][\A r \in Requests :
         pc[r] = "idle" /\ pc'[r] = "quoted" /\ promo.active /\ clock >= promo.expires
           => quote'[r] # PromoPrice * UnitsOf[r]]_vars

\* src/onecent/api/app.py, "Price is quoted before work": the amount a batch
\* result calls its quote is the amount the request was asked to pay.
ReportsTheQuote ==
    \A r \in Batches : pc[r] = "done" => report[r] = quote[r]
=============================================================================
