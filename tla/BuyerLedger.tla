----------------------------- MODULE BuyerLedger -----------------------------
(***************************************************************************)
(* The buyer's local payment ledger (buyer_state.py, class BuyerLedger): a *)
(* SQLite table shared by every bridge process, watch loop and CLI command *)
(* of one user.  Each method reads the clock, then runs one BEGIN          *)
(* IMMEDIATE transaction; waiting for the write lock comes in between, so  *)
(* a transaction may commit under a clock reading that is already old.     *)
(* A method that raises rolls its transaction back and leaves no trace.    *)
(***************************************************************************)
EXTENDS Naturals, FiniteSets, Functions

CONSTANTS
    Requests,     \* a tool with its payload
    Prices,       \* amounts the seller may ask, in atomic USDC
    Entries,      \* ledger entry ids (uuid4)
    None,         \* no value
    DailyLimit,   \* policy.daily_limit_atomic, or None
    TTL,          \* lifetime of a quote (600 seconds)
    DayLength,    \* ticks of the clock in one UTC day
    MaxLockWait,  \* ticks a transaction may wait for the lock (timeout=5.0)
    MaxClock      \* bound: how far the clock runs

ASSUME LedgerAssumption ==
    /\ Prices \subseteq Nat \ {0}
    /\ IsFiniteSet(Entries)
    /\ None \notin Requests \cup Entries \cup Nat
    /\ DailyLimit \in Nat \cup {None}
    /\ DayLength \in Nat \ {0}
    /\ {TTL, MaxLockWait, MaxClock} \subseteq Nat

VARIABLES
    ledger,  \* bridge_payments by entry id
    clock    \* UTC time in ticks

-----------------------------------------------------------------------------
\* The fingerprint digests tool, payload and the quoted amount, network, asset,
\* seller and resource; of the quote only the amount ever varies.
Fingerprints == Requests \X Prices
Fingerprint(request, price) == <<request, price>>

Status == {"quote", "approved", "pending", "success", "unknown", "expired"}
Live == {"quote", "approved"}
Unresolved == {"pending", "unknown"}
Spent == {"pending", "success", "unknown"}

Entry ==
    [fp : Fingerprints, amount : Prices, status : Status,
     created : Nat, expires : Nat, date : Nat]
NoEntry ==
    [fp |-> None, amount |-> 0, status |-> "absent",
     created |-> 0, expires |-> 0, date |-> 0]

DayOf(time) == time \div DayLength

NewEntry(f, amount, status, now) ==
    [fp |-> f, amount |-> amount, status |-> status,
     created |-> now, expires |-> now + TTL, date |-> DayOf(now)]

\* _expire: live entries whose time is over, by the caller's clock reading.
Expired(now) ==
    [e \in Entries |->
        IF ledger[e].status \in Live /\ ledger[e].expires <= now
        THEN [ledger[e] EXCEPT !.status = "expired"]
        ELSE ledger[e]]

OfStatus(book, f, statuses) ==
    {e \in Entries : book[e].fp = f /\ book[e].status \in statuses}

\* ORDER BY created_at DESC LIMIT 1; ties may go either way.
Newest(book, S) == {e \in S : \A x \in S : book[x].created <= book[e].created}

Amounts == [e \in Entries |-> ledger[e].amount]

DailyTotal(date) ==
    SumFunctionOnSet(Amounts,
        {e \in Entries : ledger[e].date = date /\ ledger[e].status \in Spent})

\* Mutant: only a payment that is still running blocks its fingerprint.
PendingOnly(f) == OfStatus(ledger, f, {"pending"}) # {}

\* _assert_no_unresolved would raise.
HasUnresolved(f) == OfStatus(ledger, f, Unresolved) # {}

\* Mutant: the cap is checked before the amount is added.
CapIgnoresAmount(amount, now) ==
    DailyLimit # None => DailyTotal(DayOf(now)) < DailyLimit

WithinCap(amount, now) ==
    DailyLimit # None => DailyTotal(DayOf(now)) + amount <= DailyLimit

-----------------------------------------------------------------------------
(* Transactions *)

LedgerInit ==
    /\ ledger = [e \in Entries |-> NoEntry]
    /\ clock = 0

\* ensure_quote finds a live entry of the fingerprint.
FindQuote(f, now, e) ==
    /\ e \in Newest(Expired(now), OfStatus(Expired(now), f, Live))
    /\ ledger' = Expired(now)

\* Mutant: an approved entry does not stop a new quote from being inserted.
InsertQuoteBesideApproved(f, amount, now, e) ==
    /\ OfStatus(Expired(now), f, {"quote"}) = {}
    /\ ledger[e] = NoEntry
    /\ ledger' = [Expired(now) EXCEPT ![e] = NewEntry(f, amount, "quote", now)]

\* ensure_quote finds none and inserts a quote.
InsertQuote(f, amount, now, e) ==
    /\ OfStatus(Expired(now), f, Live) = {}
    /\ ledger[e] = NoEntry
    /\ ledger' = [Expired(now) EXCEPT ![e] = NewEntry(f, amount, "quote", now)]

\* Mutant: an entry of any status can be approved (again).
ApproveAnyStatus(e, now) ==
    /\ ledger[e] # NoEntry
    /\ ledger' = [Expired(now) EXCEPT ![e].status = "approved"]

\* approve: the entry must still be a quote after expiry.
Approve(e, now) ==
    /\ Expired(now)[e].status = "quote"
    /\ ledger' = [Expired(now) EXCEPT ![e].status = "approved"]

\* The entry reserve_approved would take, if any.
Approved(f, now) == Newest(Expired(now), OfStatus(Expired(now), f, {"approved"}))

\* reserve_approved: the approval is consumed; utc_date stays the quote's day.
ReserveApproved(f, now, e) ==
    /\ ~HasUnresolved(f)
    /\ e \in Approved(f, now)
    /\ WithinCap(ledger[e].amount, now)
    /\ ledger' = [Expired(now) EXCEPT ![e].status = "pending"]

RefusesApproved(f, now) ==
    \/ HasUnresolved(f)
    \/ Approved(f, now) = {}
    \/ \E e \in Approved(f, now) : ~WithinCap(ledger[e].amount, now)

\* reserve_auto: a new entry that is pending from the start.
ReserveAuto(f, amount, now, e) ==
    /\ ~HasUnresolved(f)
    /\ WithinCap(amount, now)
    /\ ledger[e] = NoEntry
    /\ ledger' = [ledger EXCEPT ![e] = NewEntry(f, amount, "pending", now)]

RefusesAuto(f, amount, now) == HasUnresolved(f) \/ ~WithinCap(amount, now)

\* finish: only a pending entry takes an outcome.
Finish(e, status) ==
    /\ ledger[e].status = "pending"
    /\ ledger' = [ledger EXCEPT ![e].status = status]

\* snapshot: reading the state expires entries on the way.
Snapshot(now) == ledger' = Expired(now)

Tick == clock < MaxClock /\ clock' = clock + 1
=============================================================================
