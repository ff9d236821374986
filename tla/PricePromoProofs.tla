-------------------------- MODULE PricePromoProofs --------------------------
(***************************************************************************)
(* What the prices promise, for any tools, prices, requests and pages, any *)
(* number of promotions, and sessions that wait for the lock as long as    *)
(* they like.                                                              *)
(*                                                                         *)
(* PromoInv: whatever snapshot a session or the promotion row holds, no    *)
(* promotional price is in it, for it was taken while none was active.     *)
(* CacheInv: one request at a time loads a price, and the row it has read  *)
(* is no older than any entry of the cache.  PageInv follows a page from   *)
(* the moment it was asked for, through the check, to the prices it shows. *)
(***************************************************************************)
EXTENDS PricePromo, TLAPS

-----------------------------------------------------------------------------
(* Types and places *)

Entry == [until : Nat, atomic : Nat, written : Nat]
Loading == {"check", "restore", "read", "loaded"}

\* Where a session of each kind can be.
PlaceOf(s) ==
    IF s = Operator THEN {"idle", "check", "restore", "save"}
    ELSE IF s \in Pages THEN {"idle", "check", "restore", "read", "done"}
    ELSE Place \ {"save"}

TypeInv ==
    /\ price \in [Tools -> Price]
    /\ legacy \in [LegacyTools -> Price \cup {None}]
    /\ promo \in Promotion /\ promo.expires \in Nat
    /\ audit \in {"none", "applied", "rolled_back"}
    /\ lock \in {None, Operator}
    /\ cache \in [Tools -> Entry]
    /\ loader \in Requests \cup {None}
    /\ pc \in [Sessions -> Place]
    /\ \A s \in Sessions : pc[s] \in PlaceOf(s)
    /\ seen \in [Sessions -> Promotion]
    /\ loaded \in [Requests -> [atomic : Nat, written : Nat]]
    /\ quote \in [Requests -> Nat] /\ report \in [Requests -> Nat]
    /\ shown \in [Pages -> [price : Nat, asked : Nat]]
    /\ clock \in Nat /\ promos \in Nat /\ changes \in Nat /\ writes \in Nat
    /\ lock = Operator =>
         pc[Operator] = "save" /\ seen[Operator].active /\ seen[Operator].expires \in Nat

-----------------------------------------------------------------------------
(* Prices *)

Own(t) == OwnerPrices \cup {Base[t]}
OwnTools(tools) == \A t \in Tools : tools[t] \in Own(t)
OwnLegacy(settings) == \A t \in LegacyTools : settings[t] \in Own(t) \cup {None}

PromoInv ==
    /\ ~promo.active => OwnTools(price) /\ OwnLegacy(legacy)
    /\ OwnTools(promo.tools) /\ OwnLegacy(promo.legacy)
    /\ \A s \in Sessions : OwnTools(seen[s].tools) /\ OwnLegacy(seen[s].legacy)
    /\ promos = 0 => ~promo.active
    /\ pc[Operator] = "save" /\ lock = None /\ ~seen[Operator].active => ~promo.active

CacheInv ==
    /\ \A r \in Requests : pc[r] \in Loading <=> loader = r
    /\ \A t \in Tools : cache[t].written <= writes
    /\ \A r \in Requests : pc[r] = "loaded" =>
         /\ loaded[r].written <= writes
         /\ \A t \in Tools : cache[t].written <= loaded[r].written

\* The expiry of the first promotion is behind this page.
AskedAfter(g) ==
    promos = 1 /\ seen[g].expires # None /\ shown[g].asked >= seen[g].expires

PageInv ==
    \A g \in Pages :
      /\ shown[g].asked <= clock
      /\ seen[g].expires # None =>
           promos > 0 /\ (promos = 1 => seen[g].expires = promo.expires)
      /\ pc[g] = "read" /\ AskedAfter(g) => ~promo.active
      /\ pc[g] = "done" /\ AskedAfter(g) => shown[g].price # PromoPrice

-----------------------------------------------------------------------------
(* Steps that have an effect in common *)

\* The steps of a request that ends with the price of its quote.
Stores(r) == StorePrice(r) \/ PriceUnreadable(r)

LEMMA Kinds ==
    /\ Operator \in Sessions /\ Requests \subseteq Sessions /\ Pages \subseteq Sessions
    /\ Operator \notin Requests /\ Operator \notin Pages /\ Requests \cap Pages = {}
    /\ None \notin Sessions /\ None \notin Nat /\ Batches \subseteq Requests
BY PriceAssumption DEF Sessions

\* Where a session goes on after its check.
LEMMA AfterPlace ==
    ASSUME TypeInv, NEW s \in Sessions, pc[s] \in {"check", "restore", "recheck", "rerestore"}
    PROVE  /\ After(s) = (IF pc[s] \in {"recheck", "rerestore"} THEN "reread"
                          ELSE IF s = Operator THEN "save" ELSE "read")
           /\ After(s) \in PlaceOf(s)
           /\ s \notin Requests => pc[s] \in {"check", "restore"}
<1>1. s \notin Requests => pc[s] \in {"check", "restore"}
  <2>1. pc[s] \in PlaceOf(s)
    BY DEF TypeInv
  <2> QED BY <2>1 DEF PlaceOf, Sessions
<1>2. After(s) = (IF pc[s] \in {"recheck", "rerestore"} THEN "reread"
                  ELSE IF s = Operator THEN "save" ELSE "read")
  <2>1. CASE s = Operator
    <3>1. pc[s] \notin {"recheck", "rerestore"}
      BY <1>1, <2>1, Kinds
    <3> QED BY <2>1, <3>1 DEF After
  <2>2. CASE s # Operator
    BY <2>2 DEF After
  <2> QED BY <2>1, <2>2
<1>3. After(s) \in PlaceOf(s)
  BY <1>1, <1>2, Kinds DEF PlaceOf, Place
<1> QED BY <1>1, <1>2, <1>3

LEMMA CheckEffect ==
    ASSUME TypeInv, NEW s \in Sessions, CheckPromo(s)
    PROVE  /\ seen'[s] = (IF promos > 0 THEN promo ELSE Unseen)
           /\ seen' \in [Sessions -> Promotion]
           /\ \A q \in Sessions \ {s} : seen'[q] = seen[q] /\ pc'[q] = pc[q]
           /\ pc[s] \in {"check", "recheck"}
           /\ pc'[s] = (IF promo.active /\ clock >= promo.expires
                        THEN IF pc[s] = "check" THEN "restore" ELSE "rerestore"
                        ELSE After(s))
           /\ pc' \in [Sessions -> Place] /\ \A q \in Sessions : pc'[q] \in PlaceOf(q)
           /\ UNCHANGED <<catalog, served, answers, bounds>>
<1>1. Unseen \in Promotion
  BY PriceAssumption DEF Unseen, NoPromo, Promotion, Price
<1>2. seen' = [seen EXCEPT ![s] = IF promos > 0 THEN promo ELSE Unseen]
  BY DEF CheckPromo, PromoRowsExist
<1>3. /\ pc[s] \in {"check", "recheck"}
      /\ pc' = [pc EXCEPT ![s] = IF promo.active /\ clock >= promo.expires
                                 THEN IF pc[s] = "check" THEN "restore" ELSE "rerestore"
                                 ELSE After(s)]
      /\ UNCHANGED <<catalog, served, answers, bounds>>
  BY DEF CheckPromo, Goto, Over
<1>4. After(s) \in PlaceOf(s) /\ (s \notin Requests => pc[s] = "check")
  BY <1>3, AfterPlace
<1>5. /\ "restore" \in PlaceOf(s)
      /\ s \in Requests => "rerestore" \in PlaceOf(s)
      /\ PlaceOf(s) \subseteq Place
  BY Kinds DEF PlaceOf, Place
<1>6. pc'[s] \in PlaceOf(s)
  BY <1>3, <1>4, <1>5 DEF TypeInv
<1> QED BY <1>1, <1>2, <1>3, <1>5, <1>6 DEF TypeInv

LEMMA RestoreEffect ==
    ASSUME TypeInv, NEW s \in Sessions, RestorePrices(s)
    PROVE  /\ pc[s] \in {"restore", "rerestore"} /\ lock = None
           /\ price' = seen[s].tools /\ legacy' = seen[s].legacy
           /\ price' \in [Tools -> Price] /\ legacy' \in [LegacyTools -> Price \cup {None}]
           /\ promo' = [promo EXCEPT !.active = FALSE] /\ promo' \in Promotion
           /\ promo'.active = FALSE /\ promo'.expires = promo.expires
           /\ promo'.tools = promo.tools /\ promo'.legacy = promo.legacy
           /\ seen' \in [Sessions -> Promotion]
           /\ seen'[s].tools = seen[s].tools /\ seen'[s].legacy = seen[s].legacy
           /\ seen'[s].expires = seen[s].expires
           /\ \A q \in Sessions \ {s} : seen'[q] = seen[q] /\ pc'[q] = pc[q]
           /\ pc'[s] = After(s)
           /\ pc' \in [Sessions -> Place] /\ \A q \in Sessions : pc'[q] \in PlaceOf(q)
           /\ writes' = writes + 1
           /\ UNCHANGED <<served, answers, bounds, lock, promos>>
<1>1. seen[s] \in Promotion /\ promo \in Promotion
  BY DEF TypeInv
<1>2. [seen[s] EXCEPT !.active = FALSE] \in Promotion /\ [promo EXCEPT !.active = FALSE] \in Promotion
  BY <1>1 DEF Promotion
<1>3. /\ pc[s] \in {"restore", "rerestore"} /\ lock = None
      /\ price' = seen[s].tools /\ legacy' = seen[s].legacy
      /\ promo' = [promo EXCEPT !.active = FALSE]
      /\ seen' = [seen EXCEPT ![s] = [seen[s] EXCEPT !.active = FALSE]]
      /\ pc' = [pc EXCEPT ![s] = After(s)]
      /\ writes' = writes + 1
      /\ UNCHANGED <<served, answers, bounds, lock, promos>>
  BY <1>1 DEF RestorePrices, Goto
<1>4. After(s) \in PlaceOf(s)
  BY <1>3, AfterPlace
<1>5. PlaceOf(s) \subseteq Place
  BY DEF PlaceOf, Place
<1>6. price' \in [Tools -> Price] /\ legacy' \in [LegacyTools -> Price \cup {None}]
  BY <1>1, <1>3 DEF Promotion
<1> QED BY <1>1, <1>2, <1>3, <1>4, <1>5, <1>6 DEF TypeInv, Promotion

LEMMA Product == \A m, n \in Nat : m * n \in Nat
OBVIOUS

\* A quote is a price times the units asked for.
LEMMA ServeEffect ==
    ASSUME TypeInv, NEW r \in Requests, NEW atomic \in Nat, Serve(r, atomic)
    PROVE  /\ quote' \in [Requests -> Nat]
           /\ pc' = [pc EXCEPT ![r] = "quoted"] /\ pc'[r] = "quoted"
           /\ pc' \in [Sessions -> Place] /\ \A q \in Sessions : pc'[q] \in PlaceOf(q)
           /\ \A q \in Sessions \ {r} : pc'[q] = pc[q]
<1>1. UnitsOf[r] \in Nat
  BY PriceAssumption
<1>2. atomic * UnitsOf[r] \in Nat
  BY <1>1, Product
<1>3. "quoted" \in PlaceOf(r) /\ "quoted" \in Place /\ r \in Sessions
  BY Kinds DEF PlaceOf, Place
<1> QED BY <1>2, <1>3 DEF Serve, Goto, TypeInv

LEMMA FlooredTyped ==
    ASSUME NEW t \in Tools, NEW atomic \in Nat, NEW active
    PROVE  Floored(t, atomic, active) \in Nat
BY PriceAssumption DEF Floored

\* A load ends: its price enters the cache and the lock is free.
LEMMA StoreEffect ==
    ASSUME TypeInv, NEW r \in Requests, Stores(r)
    PROVE  /\ pc[r] \in Loading /\ ToolOf[r] \in Tools
           /\ cache' \in [Tools -> Entry]
           /\ \A t \in Tools \ {ToolOf[r]} : cache'[t] = cache[t]
           /\ \/ cache'[ToolOf[r]].written = cache[ToolOf[r]].written
              \/ pc[r] = "loaded" /\ cache'[ToolOf[r]].written = loaded[r].written
           /\ loader' = None
           /\ quote' \in [Requests -> Nat]
           /\ pc'[r] = "quoted"
           /\ pc' \in [Sessions -> Place] /\ \A q \in Sessions : pc'[q] \in PlaceOf(q)
           /\ \A q \in Sessions \ {r} : pc'[q] = pc[q]
           /\ UNCHANGED <<catalog, bounds, seen, loaded, report, shown>>
<1>1. ToolOf[r] \in Tools /\ Base[ToolOf[r]] \in Nat
  BY PriceAssumption
<1>2. loaded[r].atomic \in Nat /\ loaded[r].written \in Nat /\ cache[ToolOf[r]].written \in Nat
  BY <1>1 DEF TypeInv, Entry
<1>3. PICK atomic \in Nat, written \in {cache[ToolOf[r]].written, loaded[r].written} :
        /\ Store(r, atomic, written) /\ pc[r] \in Loading
        /\ written = cache[ToolOf[r]].written \/ pc[r] = "loaded"
        /\ UNCHANGED <<catalog, bounds, seen, loaded, report, shown>>
  <2>1. CASE StorePrice(r)
    <3>1. Floored(ToolOf[r], loaded[r].atomic, SeesActive(r)) \in Nat
      BY <1>1, <1>2, FlooredTyped
    <3> QED BY <2>1, <3>1 DEF StorePrice, Loading
  <2>2. CASE PriceUnreadable(r)
    <3>1. PICK atomic \in Nat :
            /\ Store(r, Floored(ToolOf[r], atomic, FALSE), cache[ToolOf[r]].written)
            /\ pc[r] \in Loading
            /\ UNCHANGED <<catalog, bounds, seen, loaded, report, shown>>
      BY <1>1, <1>2, <2>2 DEF PriceUnreadable, Loading
    <3>2. Floored(ToolOf[r], atomic, FALSE) \in Nat
      BY <1>1, FlooredTyped
    <3> QED BY <3>1, <3>2
  <2> QED BY <2>1, <2>2 DEF Stores
<1>4. /\ cache' = [cache EXCEPT ![ToolOf[r]] =
                     [until |-> clock + Ttl, atomic |-> atomic, written |-> written]]
      /\ loader' = None /\ Serve(r, atomic)
  BY <1>3 DEF Store
<1>5. clock + Ttl \in Nat /\ written \in Nat
  BY <1>2, <1>3, PriceAssumption DEF TypeInv
<1>6. /\ cache' \in [Tools -> Entry] /\ cache'[ToolOf[r]].written = written
      /\ \A t \in Tools \ {ToolOf[r]} : cache'[t] = cache[t]
  BY <1>1, <1>3, <1>4, <1>5 DEF TypeInv, Entry
<1>7. /\ quote' \in [Requests -> Nat] /\ pc'[r] = "quoted"
      /\ pc' \in [Sessions -> Place] /\ \A q \in Sessions : pc'[q] \in PlaceOf(q)
      /\ \A q \in Sessions \ {r} : pc'[q] = pc[q]
  BY <1>4, ServeEffect
<1> QED BY <1>1, <1>3, <1>4, <1>6, <1>7

\* The snapshot of an activation, and its commit.
LEMMA SaveEffect ==
    ASSUME TypeInv, SavePrices
    PROVE  /\ pc[Operator] = "save" /\ lock = None /\ ~SeesActive(Operator)
           /\ lock' = Operator
           /\ seen' \in [Sessions -> Promotion]
           /\ \A s \in Sessions \ {Operator} : seen'[s] = seen[s]
           /\ seen'[Operator].active = TRUE /\ seen'[Operator].expires \in Nat
           /\ seen'[Operator].tools = price
           /\ \A t \in LegacyTools : seen'[Operator].legacy[t] =
                                       IF legacy[t] = None THEN price[t] ELSE legacy[t]
           /\ UNCHANGED <<served, answers, bounds, price, legacy, promo, audit, pc, promos, writes>>
<1> DEFINE l == [t \in LegacyTools |-> Snapshot(t, legacy[t])]
           p == [active |-> TRUE, expires |-> clock + Term, tools |-> price, legacy |-> l]
<1>1. clock + Term \in Nat /\ LegacyTools \subseteq Tools
  BY PriceAssumption DEF TypeInv
<1>2. l \in [LegacyTools -> Price \cup {None}]
  BY <1>1 DEF TypeInv, Snapshot
<1>3. p \in Promotion
  BY <1>1, <1>2 DEF Promotion, TypeInv
<1>4. seen' = [seen EXCEPT ![Operator] = p]
  BY DEF SavePrices
<1>5. \A t \in LegacyTools : l[t] = IF legacy[t] = None THEN price[t] ELSE legacy[t]
  BY DEF Snapshot
<1> HIDE DEF l
<1>6. /\ seen' \in [Sessions -> Promotion] /\ seen'[Operator] = p
      /\ \A s \in Sessions \ {Operator} : seen'[s] = seen[s]
  BY <1>3, <1>4, Kinds DEF TypeInv
<1> QED BY <1>1, <1>5, <1>6 DEF SavePrices, NothingActive

LEMMA CommitEffect ==
    ASSUME TypeInv, CommitActivation
    PROVE  /\ lock = Operator /\ lock' = None
           /\ price' \in [Tools -> Price] /\ legacy' \in [LegacyTools -> Price \cup {None}]
           /\ promo' = seen[Operator] /\ promo' \in Promotion /\ promo'.expires \in Nat
           /\ promos' = promos + 1 /\ writes' = writes + 1
           /\ pc' \in [Sessions -> Place] /\ \A q \in Sessions : pc'[q] \in PlaceOf(q)
           /\ pc'[Operator] = "idle" /\ \A q \in Sessions \ {Operator} : pc'[q] = pc[q]
           /\ UNCHANGED <<served, answers, bounds, seen>>
<1>1. PromoPrice \in Price /\ None \notin Sessions
  BY PriceAssumption DEF Price
<1>2. seen[Operator] \in Promotion /\ lock = Operator /\ seen[Operator].expires \in Nat
  BY Kinds DEF CommitActivation, TypeInv
<1>3. "idle" \in PlaceOf(Operator) /\ "idle" \in Place
  BY DEF PlaceOf, Place
<1>4. /\ price' = [t \in Tools |-> PromoPrice] /\ legacy' = [t \in LegacyTools |-> PromoPrice]
      /\ promo' = seen[Operator] /\ lock' = None
      /\ promos' = promos + 1 /\ writes' = writes + 1
      /\ pc' = [pc EXCEPT ![Operator] = "idle"]
      /\ UNCHANGED <<served, answers, bounds, seen>>
  BY DEF CommitActivation, Goto, LegacyPromo
<1> QED BY <1>1, <1>2, <1>3, <1>4, Kinds DEF TypeInv

-----------------------------------------------------------------------------
(* Types are kept *)

\* A step that leaves the tables alone and moves one session on.
LEMMA MovesOn ==
    ASSUME TypeInv, NEW s \in Sessions, NEW place \in PlaceOf(s), Goto(s, place)
    PROVE  /\ pc' \in [Sessions -> Place] /\ \A q \in Sessions : pc'[q] \in PlaceOf(q)
           /\ pc'[s] = place /\ \A q \in Sessions \ {s} : pc'[q] = pc[q]
<1>1. PlaceOf(s) \subseteq Place
  BY DEF PlaceOf, Place
<1> QED BY <1>1 DEF Goto, TypeInv

\* The steps of a request before it loads and after its quote.
LEMMA ArriveEffect ==
    ASSUME TypeInv, NEW r \in Requests, Arrive(r) \/ TakeCacheLock(r)
    PROVE  /\ \/ pc[r] = "idle" /\ pc'[r] = "queued" /\ loader' = loader
              \/ pc[r] = "queued" /\ pc'[r] = "check" /\ loader = None /\ loader' = r
              \/ pc[r] \in {"idle", "queued"} /\ pc'[r] = "quoted" /\ loader' = loader
           /\ pc' \in [Sessions -> Place] /\ \A q \in Sessions : pc'[q] \in PlaceOf(q)
           /\ \A q \in Sessions \ {r} : pc'[q] = pc[q]
           /\ quote' \in [Requests -> Nat] /\ loader' \in Requests \cup {None}
           /\ UNCHANGED <<catalog, bounds, cache, seen, loaded, report, shown>>
<1>1. /\ pc[r] \in {"idle", "queued"}
      /\ \/ Serve(r, cache[ToolOf[r]].atomic) /\ loader' = loader
         \/ pc[r] = "idle" /\ Goto(r, "queued") /\ UNCHANGED <<quote, loader>>
         \/ pc[r] = "queued" /\ Goto(r, "check") /\ loader = None /\ loader' = r /\ UNCHANGED quote
      /\ UNCHANGED <<catalog, bounds, cache, seen, loaded, report, shown>>
  BY DEF Arrive, TakeCacheLock, LoaderFree, served
<1>2. cache[ToolOf[r]].atomic \in Nat
  BY PriceAssumption DEF TypeInv, Entry
<1>3. {"queued", "check"} \subseteq PlaceOf(r) /\ r \in Sessions
  BY Kinds DEF PlaceOf, Place
<1>4. CASE Serve(r, cache[ToolOf[r]].atomic) /\ loader' = loader
  BY <1>1, <1>2, <1>4, ServeEffect DEF TypeInv
<1>5. CASE pc[r] = "idle" /\ Goto(r, "queued") /\ UNCHANGED <<quote, loader>>
  BY <1>1, <1>3, <1>5, MovesOn DEF TypeInv
<1>6. CASE pc[r] = "queued" /\ Goto(r, "check") /\ loader = None /\ loader' = r /\ UNCHANGED quote
  BY <1>1, <1>3, <1>6, MovesOn DEF TypeInv
<1> QED BY <1>1, <1>4, <1>5, <1>6

LEMMA ReadEffect ==
    ASSUME TypeInv, NEW r \in Requests, ReadPrice(r)
    PROVE  /\ pc[r] = "read" /\ pc'[r] = "loaded"
           /\ loaded' \in [Requests -> [atomic : Nat, written : Nat]]
           /\ loaded'[r].written = writes /\ \A q \in Requests \ {r} : loaded'[q] = loaded[q]
           /\ pc' \in [Sessions -> Place] /\ \A q \in Sessions : pc'[q] \in PlaceOf(q)
           /\ \A q \in Sessions \ {r} : pc'[q] = pc[q]
           /\ UNCHANGED <<catalog, served, bounds, seen, quote, report, shown>>
<1>1. price[ToolOf[r]] \in Nat
  BY PriceAssumption DEF TypeInv, Price
<1>2. "loaded" \in PlaceOf(r) /\ r \in Sessions
  BY Kinds DEF PlaceOf, Place
<1>3. loaded' = [loaded EXCEPT ![r] = [atomic |-> price[ToolOf[r]], written |-> writes]]
      /\ Goto(r, "loaded") /\ pc[r] = "read"
      /\ UNCHANGED <<catalog, served, bounds, seen, quote, report, shown>>
  BY DEF ReadPrice
<1> QED BY <1>1, <1>2, <1>3, MovesOn DEF TypeInv

LEMMA ReportEffect ==
    ASSUME TypeInv, NEW r \in Requests, StartReport(r) \/ Report(r)
    PROVE  /\ \/ pc[r] = "quoted" /\ pc'[r] = "recheck"
              \/ pc[r] = "reread" /\ pc'[r] = "done"
           /\ pc' \in [Sessions -> Place] /\ \A q \in Sessions : pc'[q] \in PlaceOf(q)
           /\ \A q \in Sessions \ {r} : pc'[q] = pc[q]
           /\ report' \in [Requests -> Nat]
           /\ UNCHANGED <<catalog, served, bounds, seen, loaded, quote, shown>>
<1>1. price[ToolOf[r]] \in Nat /\ UnitsOf[r] \in Nat
  BY PriceAssumption DEF TypeInv, Price
<1>2. price[ToolOf[r]] * UnitsOf[r] \in Nat
  BY <1>1, Product
<1>3. {"recheck", "done"} \subseteq PlaceOf(r) /\ r \in Sessions
  BY Kinds DEF PlaceOf, Place
<1>4. CASE StartReport(r)
  BY <1>3, <1>4, MovesOn DEF StartReport, answers, TypeInv
<1>5. CASE Report(r)
  BY <1>2, <1>3, <1>5, MovesOn DEF Report, TypeInv
<1> QED BY <1>4, <1>5

\* A page is asked for, checks, and shows what it has read or the built-in price.
LEMMA PageEffect ==
    ASSUME TypeInv, NEW g \in Pages, OpenPage(g) \/ ShowPrices(g) \/ ShowBuiltIn(g)
    PROVE  /\ \/ pc[g] = "idle" /\ pc'[g] = "check" /\ shown'[g].asked = clock
              \/ /\ pc[g] = "read" /\ pc'[g] = "done" /\ shown'[g].asked = shown[g].asked
                 /\ shown'[g].price = price[ToolOf[g]]
              \/ /\ pc[g] \in {"check", "restore", "read"} /\ pc'[g] = "done"
                 /\ shown'[g].asked = shown[g].asked /\ shown'[g].price = Base[ToolOf[g]]
           /\ shown' \in [Pages -> [price : Nat, asked : Nat]]
           /\ \A q \in Pages \ {g} : shown'[q] = shown[q]
           /\ pc' \in [Sessions -> Place] /\ \A q \in Sessions : pc'[q] \in PlaceOf(q)
           /\ \A q \in Sessions \ {g} : pc'[q] = pc[q]
           /\ UNCHANGED <<catalog, served, bounds, seen, loaded, quote, report>>
<1>1. price[ToolOf[g]] \in Nat /\ Base[ToolOf[g]] \in Nat
  BY PriceAssumption DEF TypeInv, Price
<1>2. {"check", "done"} \subseteq PlaceOf(g) /\ g \in Sessions
  BY Kinds DEF PlaceOf
<1>3. CASE OpenPage(g)
  BY <1>2, <1>3, MovesOn DEF OpenPage, TypeInv
<1>4. CASE ShowPrices(g)
  BY <1>1, <1>2, <1>4, MovesOn DEF ShowPrices, TypeInv
<1>5. CASE ShowBuiltIn(g)
  BY <1>1, <1>2, <1>5, MovesOn DEF ShowBuiltIn, TypeInv
<1> QED BY <1>3, <1>4, <1>5

LEMMA OperatorEffect ==
    ASSUME TypeInv, StartActivation \/ RefuseActivation
    PROVE  /\ pc'[Operator] # "save" /\ lock # Operator
           /\ pc' \in [Sessions -> Place] /\ \A q \in Sessions : pc'[q] \in PlaceOf(q)
           /\ \A q \in Sessions \ {Operator} : pc'[q] = pc[q]
           /\ UNCHANGED <<catalog, served, answers, bounds, seen>>
<1>1. {"check", "idle"} \subseteq PlaceOf(Operator) /\ Operator \in Sessions
  BY Kinds DEF PlaceOf
<1>2. CASE StartActivation
  BY <1>1, <1>2, MovesOn DEF StartActivation, TypeInv
<1>3. CASE RefuseActivation
  BY <1>1, <1>3, MovesOn, Kinds DEF RefuseActivation
<1> QED BY <1>2, <1>3

LEMMA OwnerEffect ==
    ASSUME TypeInv, NEW t \in Tools, NEW atomic \in OwnerPrices, OwnerSetsPrice(t, atomic)
    PROVE  /\ price' \in [Tools -> Price] /\ price'[t] = atomic
           /\ \A u \in Tools \ {t} : price'[u] = price[u]
           /\ writes' = writes + 1 /\ changes' \in Nat
           /\ UNCHANGED <<served, answers, legacy, promo, audit, lock, pc, seen, clock, promos>>
BY PriceAssumption DEF OwnerSetsPrice, TypeInv, Price

LEMMA NextSplit ==
    ASSUME [Next]_vars
    PROVE  \/ \E s \in Sessions : CheckPromo(s) \/ RestorePrices(s)
           \/ \E r \in Requests :
                \/ Arrive(r) \/ TakeCacheLock(r) \/ ReadPrice(r) \/ Stores(r)
                \/ StartReport(r) \/ Report(r)
           \/ \E g \in Pages : OpenPage(g) \/ ShowPrices(g) \/ ShowBuiltIn(g)
           \/ \E t \in Tools, atomic \in OwnerPrices : OwnerSetsPrice(t, atomic)
           \/ StartActivation \/ RefuseActivation \/ SavePrices \/ CommitActivation
           \/ Tick \/ UNCHANGED vars
BY Zenon DEF Next, Stores

LEMMA TypeInit == Init => TypeInv
<1> SUFFICES ASSUME Init PROVE TypeInv
  OBVIOUS
<1>1. NoPromo \in Promotion /\ NoPromo.expires \in Nat /\ Unseen \in Promotion
  BY PriceAssumption DEF Unseen, NoPromo, Promotion, Price
<1>2. "idle" \in Place /\ \A s \in Sessions : "idle" \in PlaceOf(s)
  BY DEF PlaceOf, Place
<1>3. /\ price \in [Tools -> Price] /\ legacy \in [LegacyTools -> Price \cup {None}]
      /\ lock # Operator
  BY PriceAssumption, Kinds DEF Init, Price
<1> QED BY <1>1, <1>2, <1>3 DEF Init, TypeInv, Entry, EmptyEntry

LEMMA TypeStep ==
    ASSUME TypeInv, [Next]_vars
    PROVE  TypeInv'
<1>1. ASSUME NEW s \in Sessions, CheckPromo(s) PROVE TypeInv'
  <2>1. lock = Operator => s # Operator
    BY <1>1, CheckEffect DEF TypeInv
  <2>2. lock = Operator => seen'[Operator] = seen[Operator] /\ pc'[Operator] = pc[Operator]
    BY <1>1, <2>1, CheckEffect, Kinds
  <2>3. /\ seen' \in [Sessions -> Promotion]
        /\ pc' \in [Sessions -> Place] /\ \A q \in Sessions : pc'[q] \in PlaceOf(q)
        /\ UNCHANGED <<catalog, served, answers, bounds>>
    BY <1>1, CheckEffect
  <2>4. lock' = Operator =>
          pc'[Operator] = "save" /\ seen'[Operator].active /\ seen'[Operator].expires \in Nat
    <3>1. lock' = lock
      BY <2>3 DEF catalog
    <3>2. lock = Operator =>
            pc[Operator] = "save" /\ seen[Operator].active /\ seen[Operator].expires \in Nat
      BY DEF TypeInv
    <3> QED BY <2>2, <3>1, <3>2
  <2>5. UNCHANGED <<price, legacy, promo, audit, lock, promos, writes, cache, loader>>
        /\ UNCHANGED <<loaded, quote, report, shown, clock, changes>>
    BY <2>3 DEF catalog, served, answers, bounds
  <2>6. /\ price' \in [Tools -> Price] /\ legacy' \in [LegacyTools -> Price \cup {None}]
        /\ promo' \in Promotion /\ promo'.expires \in Nat
        /\ audit' \in {"none", "applied", "rolled_back"} /\ lock' \in {None, Operator}
    BY <2>5 DEF TypeInv
  <2>7. /\ cache' \in [Tools -> Entry] /\ loader' \in Requests \cup {None}
        /\ loaded' \in [Requests -> [atomic : Nat, written : Nat]]
        /\ quote' \in [Requests -> Nat] /\ report' \in [Requests -> Nat]
        /\ shown' \in [Pages -> [price : Nat, asked : Nat]]
        /\ clock' \in Nat /\ promos' \in Nat /\ changes' \in Nat /\ writes' \in Nat
    BY <2>5 DEF TypeInv
  <2> QED BY <2>3, <2>4, <2>6, <2>7 DEF TypeInv
<1>2. ASSUME NEW s \in Sessions, RestorePrices(s) PROVE TypeInv'
  <2>1. lock' # Operator /\ audit' \in {"none", "applied", "rolled_back"}
    BY <1>2, RestoreEffect, Kinds DEF RestorePrices, TypeInv
  <2>2. /\ price' \in [Tools -> Price] /\ legacy' \in [LegacyTools -> Price \cup {None}]
        /\ promo' \in Promotion /\ promo'.expires = promo.expires
        /\ seen' \in [Sessions -> Promotion]
        /\ pc' \in [Sessions -> Place] /\ \A q \in Sessions : pc'[q] \in PlaceOf(q)
        /\ UNCHANGED lock /\ UNCHANGED promos /\ writes' = writes + 1
    BY <1>2, RestoreEffect
  <2>3. UNCHANGED <<cache, loader, loaded, quote, report, shown, clock, changes>>
    BY <1>2, RestoreEffect DEF served, answers, bounds
  <2>4. /\ promo'.expires \in Nat /\ lock' \in {None, Operator} /\ writes' \in Nat
        /\ promos' \in Nat
    BY <2>2 DEF TypeInv
  <2>5. /\ cache' \in [Tools -> Entry] /\ loader' \in Requests \cup {None}
        /\ loaded' \in [Requests -> [atomic : Nat, written : Nat]]
        /\ quote' \in [Requests -> Nat] /\ report' \in [Requests -> Nat]
        /\ shown' \in [Pages -> [price : Nat, asked : Nat]]
        /\ clock' \in Nat /\ changes' \in Nat
    BY <2>3 DEF TypeInv
  <2> QED BY <2>1, <2>2, <2>4, <2>5 DEF TypeInv
<1>3. ASSUME NEW r \in Requests, Arrive(r) \/ TakeCacheLock(r) PROVE TypeInv'
  BY <1>3, ArriveEffect, Kinds DEF TypeInv, catalog, bounds
<1>4. ASSUME NEW r \in Requests, ReadPrice(r) PROVE TypeInv'
  BY <1>4, ReadEffect, Kinds DEF TypeInv, catalog, served, bounds
<1>5. ASSUME NEW r \in Requests, Stores(r) PROVE TypeInv'
  BY <1>5, StoreEffect, Kinds DEF TypeInv, catalog, bounds
<1>6. ASSUME NEW r \in Requests, StartReport(r) \/ Report(r) PROVE TypeInv'
  BY <1>6, ReportEffect, Kinds DEF TypeInv, catalog, served, bounds
<1>7. ASSUME NEW g \in Pages, OpenPage(g) \/ ShowPrices(g) \/ ShowBuiltIn(g) PROVE TypeInv'
  BY <1>7, PageEffect, Kinds DEF TypeInv, catalog, served, bounds
<1>8. ASSUME NEW t \in Tools, NEW atomic \in OwnerPrices, OwnerSetsPrice(t, atomic) PROVE TypeInv'
  BY <1>8, OwnerEffect DEF TypeInv, served, answers
<1>9. CASE StartActivation \/ RefuseActivation
  BY <1>9, OperatorEffect DEF TypeInv, catalog, served, answers, bounds
<1>10. CASE SavePrices
  BY <1>10, SaveEffect, Kinds DEF TypeInv, served, answers, bounds
<1>11. CASE CommitActivation
  <2>1. audit' \in {"none", "applied", "rolled_back"} /\ lock' # Operator
    BY <1>11, CommitEffect, Kinds DEF CommitActivation
  <2> QED BY <1>11, <2>1, CommitEffect DEF TypeInv, served, answers, bounds
<1>12. CASE Tick
  BY <1>12 DEF Tick, TypeInv, catalog, served, answers
<1>13. CASE UNCHANGED vars
  BY <1>13 DEF vars, TypeInv, catalog, served, answers, bounds
<1> QED BY <1>1, <1>2, <1>3, <1>4, <1>5, <1>6, <1>7, <1>8, <1>9, <1>10, <1>11, <1>12, <1>13, NextSplit

-----------------------------------------------------------------------------
(* No promotional price outlives its promotion *)

LEMMA PromoInit == Init => PromoInv
<1> SUFFICES ASSUME Init PROVE PromoInv
  OBVIOUS
<1>1. OwnTools(Base) /\ OwnLegacy([t \in LegacyTools |-> None])
  BY DEF OwnTools, OwnLegacy, Own
<1>2. NoPromo.tools = Base /\ NoPromo.legacy = [t \in LegacyTools |-> None] /\ ~NoPromo.active
  BY DEF NoPromo
<1>3. Unseen.tools = Base /\ Unseen.legacy = [t \in LegacyTools |-> None]
  BY <1>2 DEF Unseen, NoPromo
<1> QED BY <1>1, <1>2, <1>3 DEF Init, PromoInv

LEMMA PromoStep ==
    ASSUME TypeInv, PromoInv, [Next]_vars
    PROVE  PromoInv'
<1> DEFINE Sound(p) == OwnTools(p.tools) /\ OwnLegacy(p.legacy)
\* Most steps leave the prices and the snapshots alone.
<1>1. ASSUME UNCHANGED <<price, legacy, promo, promos, seen>>,
             pc'[Operator] = "save" /\ lock' = None => pc[Operator] = "save" /\ lock = None
      PROVE  PromoInv'
  BY <1>1 DEF PromoInv, OwnTools, OwnLegacy, Own
<1>2. ASSUME NEW s \in Sessions, CheckPromo(s) PROVE PromoInv'
  <2>1. Sound(seen'[s]) /\ (~seen'[s].active => ~promo.active)
    <3>1. CASE promos > 0
      BY <1>2, <3>1, CheckEffect DEF PromoInv
    <3>2. CASE ~(promos > 0)
      <4>1. seen'[s] = Unseen /\ ~promo.active
        BY <1>2, <3>2, CheckEffect DEF PromoInv, TypeInv
      <4>2. Unseen.tools = Base /\ Unseen.legacy = [t \in LegacyTools |-> None]
        BY DEF Unseen, NoPromo
      <4> QED BY <4>1, <4>2 DEF OwnTools, OwnLegacy, Own
    <3> QED BY <3>1, <3>2
  <2>2. UNCHANGED <<price, legacy, promo, promos, lock>>
    BY <1>2, CheckEffect DEF catalog
  <2>3. \A q \in Sessions : Sound(seen'[q])
    BY <1>2, <2>1, CheckEffect DEF PromoInv
  <2>4. pc'[Operator] = "save" /\ lock' = None /\ ~seen'[Operator].active => ~promo'.active
    BY <1>2, <2>1, <2>2, CheckEffect, Kinds DEF PromoInv
  <2> QED BY <2>2, <2>3, <2>4 DEF PromoInv
<1>3. ASSUME NEW s \in Sessions, RestorePrices(s) PROVE PromoInv'
  <2>1. Sound(seen[s]) /\ Sound(promo)
    BY DEF PromoInv
  <2>2. OwnTools(price') /\ OwnLegacy(legacy') /\ ~promo'.active /\ Sound(promo')
    BY <1>3, <2>1, RestoreEffect
  <2>3. \A q \in Sessions : Sound(seen'[q])
    BY <1>3, <2>1, RestoreEffect DEF PromoInv
  <2> QED BY <2>2, <2>3 DEF PromoInv
<1>4. ASSUME NEW r \in Requests,
             Arrive(r) \/ TakeCacheLock(r) \/ ReadPrice(r) \/ Stores(r) \/ StartReport(r) \/ Report(r)
      PROVE  PromoInv'
  <2>1. UNCHANGED <<catalog, seen>> /\ \A q \in Sessions \ {r} : pc'[q] = pc[q]
    BY <1>4, ArriveEffect, ReadEffect, StoreEffect, ReportEffect
  <2> QED BY <1>1, <2>1, Kinds DEF catalog
<1>5. ASSUME NEW g \in Pages, OpenPage(g) \/ ShowPrices(g) \/ ShowBuiltIn(g) PROVE PromoInv'
  <2>1. UNCHANGED <<catalog, seen>> /\ \A q \in Sessions \ {g} : pc'[q] = pc[q]
    BY <1>5, PageEffect
  <2> QED BY <1>1, <2>1, Kinds DEF catalog
<1>6. ASSUME NEW t \in Tools, NEW atomic \in OwnerPrices, OwnerSetsPrice(t, atomic) PROVE PromoInv'
  <2>1. ~promo.active => OwnTools(price')
    BY <1>6, OwnerEffect DEF PromoInv, OwnTools, Own
  <2> QED BY <1>6, <2>1, OwnerEffect DEF PromoInv
<1>7. CASE StartActivation \/ RefuseActivation
  BY <1>1, <1>7, OperatorEffect DEF catalog
<1>8. CASE SavePrices
  <2>1. ~promo.active
    BY <1>8, SaveEffect DEF SeesActive, PromoInv
  <2>2. OwnTools(price) /\ OwnLegacy(legacy) /\ LegacyTools \subseteq Tools
    BY <2>1, PriceAssumption DEF PromoInv
  <2>3. Sound(seen'[Operator])
    BY <1>8, <2>2, SaveEffect DEF OwnTools, OwnLegacy
  <2>4. \A q \in Sessions : Sound(seen'[q])
    BY <1>8, <2>3, SaveEffect DEF PromoInv
  <2> QED BY <1>8, <2>1, <2>4, SaveEffect DEF PromoInv
<1>9. CASE CommitActivation
  <2>1. Sound(promo') /\ promo'.active = seen[Operator].active
    BY <1>9, CommitEffect, Kinds DEF PromoInv
  <2>2. promo'.active /\ promos' # 0 /\ pc'[Operator] # "save" /\ UNCHANGED seen
    BY <1>9, <2>1, CommitEffect DEF TypeInv
  <2> QED BY <2>1, <2>2 DEF PromoInv
<1>10. CASE Tick \/ UNCHANGED vars
  BY <1>1, <1>10 DEF Tick, vars, catalog
<1> QED BY <1>2, <1>3, <1>4, <1>5, <1>6, <1>7, <1>8, <1>9, <1>10, NextSplit

LEMMA PromoAlways == Spec => [](TypeInv /\ PromoInv)
<1>1. Init => TypeInv /\ PromoInv
  BY TypeInit, PromoInit
<1>2. (TypeInv /\ PromoInv) /\ [Next]_vars => (TypeInv /\ PromoInv)'
  BY TypeStep, PromoStep
<1> QED BY <1>1, <1>2, PTL DEF Spec

\* Prices, snapshots, cache and sessions keep their shape.
THEOREM TypeCorrect == Spec => []TypeOK
<1>1. TypeInv => TypeOK
  BY DEF TypeInv, TypeOK, Entry
<1> QED BY <1>1, PromoAlways, PTL

\* Whoever ends a promotion, and however late a session with an old snapshot
\* gets the lock, no promotional price is left behind.
THEOREM PricesComeBack == Spec => []PromoPriceEndsWithPromo
<1>1. PromoInv => PromoPriceEndsWithPromo
  BY DEF PromoInv, PromoPriceEndsWithPromo, OwnTools, OwnLegacy, Own
<1> QED BY <1>1, PromoAlways, PTL

-----------------------------------------------------------------------------
(* The cache of the paid route *)

LEMMA CacheStep ==
    ASSUME TypeInv, CacheInv, [Next]_vars
    PROVE  CacheInv' /\ \A t \in Tools : cache'[t].written >= cache[t].written
<1> DEFINE Forward == \A t \in Tools : cache'[t].written >= cache[t].written
<1>0. /\ \A t \in Tools : cache[t].written \in Nat
      /\ \A r \in Requests : loaded[r].written \in Nat
      /\ writes \in Nat
  BY DEF TypeInv, Entry
\* No step but Store changes the cache, and none but ReadPrice reads a price.
<1>1. ASSUME UNCHANGED <<cache, loaded, loader>>, writes' \in {writes, writes + 1},
             \A r \in Requests : /\ pc'[r] \in Loading <=> pc[r] \in Loading
                                 /\ pc'[r] = "loaded" => pc[r] = "loaded"
      PROVE  CacheInv' /\ Forward
  BY <1>0, <1>1 DEF CacheInv
<1>2. ASSUME NEW s \in Sessions, CheckPromo(s) \/ RestorePrices(s) PROVE CacheInv' /\ Forward
  <2>1. /\ pc[s] \in {"check", "restore", "recheck", "rerestore"}
        /\ s \in Requests => \/ /\ pc[s] \in {"check", "restore"}
                                /\ pc'[s] \in {"restore", "read"}
                             \/ /\ pc[s] \in {"recheck", "rerestore"}
                                /\ pc'[s] \in {"rerestore", "reread"}
    <3>1. pc[s] \in {"check", "restore", "recheck", "rerestore"}
      BY <1>2, CheckEffect, RestoreEffect
    <3> QED BY <1>2, <3>1, CheckEffect, RestoreEffect, AfterPlace, Kinds
  <2>2. /\ \A q \in Sessions \ {s} : pc'[q] = pc[q]
        /\ UNCHANGED <<cache, loaded, loader>> /\ writes' \in {writes, writes + 1}
    BY <1>2, CheckEffect, RestoreEffect DEF catalog, served, answers
  <2>3. \A r \in Requests : /\ pc'[r] \in Loading <=> pc[r] \in Loading
                            /\ pc'[r] = "loaded" => pc[r] = "loaded"
    BY <2>1, <2>2, Kinds DEF Loading
  <2> QED BY <1>1, <2>2, <2>3
<1>3. ASSUME NEW r \in Requests, Arrive(r) \/ TakeCacheLock(r) PROVE CacheInv' /\ Forward
  <2>1. /\ UNCHANGED <<cache, loaded, writes>> /\ pc'[r] # "loaded"
        /\ \/ pc[r] \notin Loading /\ pc'[r] \notin Loading /\ loader' = loader
           \/ pc'[r] \in Loading /\ loader = None /\ loader' = r
        /\ \A q \in Sessions \ {r} : pc'[q] = pc[q]
    BY <1>3, ArriveEffect DEF Loading, catalog
  <2> QED BY <1>0, <2>1, Kinds DEF CacheInv
<1>4. ASSUME NEW r \in Requests, ReadPrice(r) PROVE CacheInv' /\ Forward
  <2>1. /\ pc[r] \in Loading /\ pc'[r] \in Loading /\ loaded'[r].written = writes
        /\ \A q \in Requests \ {r} : loaded'[q] = loaded[q] /\ pc'[q] = pc[q]
        /\ UNCHANGED <<cache, loader, writes>>
    BY <1>4, ReadEffect, Kinds DEF Loading, catalog, served
  <2> QED BY <1>0, <2>1 DEF CacheInv
<1>5. ASSUME NEW r \in Requests, Stores(r) PROVE CacheInv' /\ Forward
  <2>1. /\ pc[r] \in Loading /\ ToolOf[r] \in Tools /\ pc'[r] = "quoted" /\ loader' = None
        /\ \A t \in Tools \ {ToolOf[r]} : cache'[t] = cache[t]
        /\ \/ cache'[ToolOf[r]].written = cache[ToolOf[r]].written
           \/ pc[r] = "loaded" /\ cache'[ToolOf[r]].written = loaded[r].written
        /\ \A q \in Requests \ {r} : pc'[q] = pc[q]
        /\ UNCHANGED <<writes, loaded>>
    BY <1>5, StoreEffect, Kinds DEF catalog
  <2>2. \A q \in Requests \ {r} : pc[q] \notin Loading
    BY <2>1 DEF CacheInv
  <2>3. \A q \in Requests : pc'[q] \notin Loading /\ pc'[q] # "loaded"
    BY <2>1, <2>2 DEF Loading
  <2>4. Forward /\ \A t \in Tools : cache'[t].written <= writes
    BY <1>0, <2>1 DEF CacheInv
  <2> QED BY <2>1, <2>3, <2>4, Kinds DEF CacheInv
<1>6. ASSUME NEW r \in Requests, StartReport(r) \/ Report(r) PROVE CacheInv' /\ Forward
  <2>1. /\ UNCHANGED <<cache, loaded, loader, writes>>
        /\ pc[r] \notin Loading /\ pc'[r] \notin Loading
        /\ \A q \in Requests \ {r} : pc'[q] = pc[q]
    BY <1>6, ReportEffect, Kinds DEF Loading, catalog, served
  <2>2. \A q \in Requests : /\ pc'[q] \in Loading <=> pc[q] \in Loading
                            /\ pc'[q] = "loaded" => pc[q] = "loaded"
    BY <2>1 DEF Loading
  <2> QED BY <1>1, <2>1, <2>2
<1>7. ASSUME NEW g \in Pages, OpenPage(g) \/ ShowPrices(g) \/ ShowBuiltIn(g)
      PROVE  CacheInv' /\ Forward
  <2>1. UNCHANGED <<cache, loaded, loader, writes>> /\ \A q \in Requests : pc'[q] = pc[q]
    BY <1>7, PageEffect, Kinds DEF catalog, served
  <2> QED BY <1>1, <2>1
<1>8. ASSUME NEW t \in Tools, NEW atomic \in OwnerPrices, OwnerSetsPrice(t, atomic)
      PROVE  CacheInv' /\ Forward
  <2>1. UNCHANGED <<cache, loaded, loader, pc>> /\ writes' = writes + 1
    BY <1>8, OwnerEffect DEF served, answers
  <2> QED BY <1>1, <2>1
<1>9. CASE StartActivation \/ RefuseActivation \/ SavePrices \/ CommitActivation
  <2>1. /\ UNCHANGED <<cache, loaded, loader>> /\ writes' \in {writes, writes + 1}
        /\ \A q \in Requests : pc'[q] = pc[q]
    BY <1>9, OperatorEffect, SaveEffect, CommitEffect, Kinds DEF catalog, served, answers
  <2> QED BY <1>1, <2>1
<1>10. CASE Tick \/ UNCHANGED vars
  <2>1. UNCHANGED <<cache, loaded, loader, writes, pc>>
    BY <1>10 DEF Tick, vars, catalog, served, answers
  <2> QED BY <1>1, <2>1
<1> QED BY <1>2, <1>3, <1>4, <1>5, <1>6, <1>7, <1>8, <1>9, <1>10, NextSplit

\* The cache never goes back: callers that race for an expired entry cannot
\* bring back a price the owner has already replaced.
THEOREM CacheNeverGoesBack == Spec => CacheMovesForward
<1>1. Init => CacheInv
  BY Kinds DEF Init, CacheInv, Loading, EmptyEntry
<1>2. TypeInv /\ CacheInv /\ [Next]_vars => CacheInv'
  BY CacheStep
<1>3. TypeInv /\ CacheInv /\ [Next]_vars
        => [\A t \in Tools : cache'[t].written >= cache[t].written]_vars
  BY CacheStep
<1> QED BY <1>1, <1>2, <1>3, PromoAlways, PTL DEF Spec, CacheMovesForward

-----------------------------------------------------------------------------
(* A page asked for after the expiry *)

LEMMA PageStep ==
    ASSUME TypeInv, PromoInv, PageInv, [Next]_vars,
           PromoPrice \notin OwnerPrices, \A t \in Tools : Base[t] # PromoPrice
    PROVE  PageInv'
<1>0. /\ \A g \in Pages : /\ shown[g].asked \in Nat
                          /\ seen[g].expires \in Nat \cup {None}
      /\ clock \in Nat /\ promos \in Nat /\ promo.expires \in Nat /\ None \notin Nat
  BY Kinds DEF TypeInv, Promotion
\* Only a first activation could spoil it, and before one no page has seen a
\* promotion.
<1>1. ASSUME UNCHANGED shown, \A g \in Pages : seen'[g] = seen[g] /\ pc'[g] = pc[g],
             clock' \in {clock, clock + 1},
             \/ promos' = promos + 1
             \/ promos' = promos /\ promo'.expires = promo.expires /\ (promo'.active => promo.active)
      PROVE  PageInv'
  BY <1>0, <1>1 DEF PageInv, AskedAfter
<1>2. ASSUME NEW s \in Sessions, CheckPromo(s) PROVE PageInv'
  <2>1. UNCHANGED <<shown, promo, clock, promos>>
        /\ \A q \in Sessions \ {s} : seen'[q] = seen[q] /\ pc'[q] = pc[q]
    BY <1>2, CheckEffect DEF catalog, answers, bounds
  <2>2. CASE s \notin Pages
    BY <1>1, <2>1, <2>2, Kinds
  <2>3. CASE s \in Pages
    <3>1. /\ seen'[s] = (IF promos > 0 THEN promo ELSE Unseen)
          /\ pc'[s] \in {"restore", "read"}
          /\ pc'[s] = "read" => ~(promo.active /\ clock >= promo.expires)
      <4>1. pc[s] = "check" /\ After(s) = "read"
        BY <1>2, <2>3, CheckEffect, AfterPlace, Kinds
      <4> QED BY <1>2, <4>1, CheckEffect
    <3>2. Unseen.expires = None
      BY DEF Unseen, NoPromo
    <3> QED BY <1>0, <2>1, <2>3, <3>1, <3>2, Kinds DEF PageInv, AskedAfter
  <2> QED BY <2>2, <2>3
<1>3. ASSUME NEW s \in Sessions, RestorePrices(s) PROVE PageInv'
  <2>1. /\ UNCHANGED <<shown, clock, promos>> /\ ~promo'.active /\ promo'.expires = promo.expires
        /\ \A q \in Sessions \ {s} : seen'[q] = seen[q] /\ pc'[q] = pc[q]
        /\ seen'[s].expires = seen[s].expires
    BY <1>3, RestoreEffect DEF answers, bounds
  <2>2. s \in Pages => pc'[s] = "read"
    <3>1. pc[s] \in {"restore", "rerestore"} /\ pc'[s] = After(s)
      BY <1>3, RestoreEffect
    <3>2. s \notin Requests => pc[s] \in {"check", "restore"}
      BY <3>1, AfterPlace
    <3>3. After(s) = (IF pc[s] \in {"recheck", "rerestore"} THEN "reread"
                      ELSE IF s = Operator THEN "save" ELSE "read")
      BY <3>1, AfterPlace
    <3>4. s \in Pages => s \notin Requests /\ s # Operator
      BY Kinds
    <3>5. s \in Pages => pc[s] = "restore"
      BY <3>1, <3>2, <3>4
    <3> QED BY <3>1, <3>3, <3>4, <3>5
  <2> QED BY <2>1, <2>2, Kinds DEF PageInv, AskedAfter
<1>4. ASSUME NEW r \in Requests,
             Arrive(r) \/ TakeCacheLock(r) \/ ReadPrice(r) \/ Stores(r) \/ StartReport(r) \/ Report(r)
      PROVE  PageInv'
  <2>1. UNCHANGED <<catalog, bounds, seen, shown>> /\ \A q \in Sessions \ {r} : pc'[q] = pc[q]
    BY <1>4, ArriveEffect, ReadEffect, StoreEffect, ReportEffect
  <2> QED BY <1>1, <2>1, Kinds DEF catalog, bounds
<1>5. ASSUME NEW g \in Pages, OpenPage(g) \/ ShowPrices(g) \/ ShowBuiltIn(g) PROVE PageInv'
  <2>1. /\ UNCHANGED <<seen, promo, promos, clock>>
        /\ \A q \in Pages \ {g} : shown'[q] = shown[q] /\ pc'[q] = pc[q]
    BY <1>5, PageEffect, Kinds DEF catalog, bounds
  <2>2. ToolOf[g] \in Tools
    BY PriceAssumption
  <2>3. pc[g] = "read" /\ AskedAfter(g) => price[ToolOf[g]] # PromoPrice
    BY <2>2 DEF PageInv, PromoInv, OwnTools, Own
  <2>4. \/ pc'[g] = "check" /\ shown'[g].asked = clock
        \/ pc'[g] = "done" /\ shown'[g].asked = shown[g].asked
             /\ (AskedAfter(g) => shown'[g].price # PromoPrice)
    BY <1>5, <2>2, <2>3, PageEffect
  <2> QED BY <1>0, <2>1, <2>4 DEF PageInv, AskedAfter
<1>6. ASSUME NEW t \in Tools, NEW atomic \in OwnerPrices, OwnerSetsPrice(t, atomic) PROVE PageInv'
  BY <1>1, <1>6, OwnerEffect DEF answers
<1>7. CASE StartActivation \/ RefuseActivation
  BY <1>1, <1>7, OperatorEffect, Kinds DEF catalog, answers, bounds
<1>8. CASE SavePrices
  BY <1>1, <1>8, SaveEffect, Kinds DEF answers, bounds
<1>9. CASE CommitActivation
  BY <1>1, <1>9, CommitEffect, Kinds DEF answers, bounds
<1>10. CASE Tick \/ UNCHANGED vars
  BY <1>1, <1>10 DEF Tick, vars, catalog, answers, bounds
<1> QED BY <1>2, <1>3, <1>4, <1>5, <1>6, <1>7, <1>8, <1>9, <1>10, NextSplit

\* A page asked for at or after the expiry does not show the promotional price,
\* whoever does the restoring; unless that price is also a regular one.
THEOREM NoPromoOnLatePages ==
    ASSUME PromoPrice \notin OwnerPrices, \A t \in Tools : Base[t] # PromoPrice
    PROVE  Spec => []NoPromoPageAfterExpiry
<1>1. Init => PageInv
  <2>1. Unseen.expires = None
    BY DEF Unseen, NoPromo
  <2> QED BY <2>1, Kinds DEF Init, PageInv, AskedAfter
<1>2. TypeInv /\ PromoInv /\ PageInv /\ [Next]_vars => PageInv'
  BY PageStep
<1>3. PageInv => NoPromoPageAfterExpiry
  BY DEF PageInv, AskedAfter, NoPromoPageAfterExpiry
<1> QED BY <1>1, <1>2, <1>3, PromoAlways, PTL DEF Spec
=============================================================================
