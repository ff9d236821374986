--------------------------- MODULE PaymentGateway ---------------------------
(***************************************************************************)
(* The x402 payment gateway of the API server: the middleware that stands  *)
(* in front of every paid route (services/payments.py, gateway_impl) and   *)
(* the payment_events / payment_attempts tables it keeps                   *)
(* (repositories/payments.py).                                             *)
(*                                                                         *)
(* A call is one HTTP request in flight: a coroutine that interleaves with *)
(* the others at every await, so each query, commit and facilitator        *)
(* round trip is a step of its own.  The database runs at READ COMMITTED:  *)
(* a query sees whatever is committed at that moment, and only the unique  *)
(* index on payment_id, the row locks and one advisory lock order writers. *)
(*                                                                         *)
(* The x402 SDK, the facilitator and the chain are external.  Of them the  *)
(* model keeps what gateway_impl relies on: verify, then the operation,    *)
(* then settle; a response of 400 or more from the operation is never      *)
(* settled; a signed authorization moves money on chain at most once; and  *)
(* an answer may be lost, after which nobody on the server knows whether   *)
(* the money moved.                                                        *)
(***************************************************************************)
EXTENDS Naturals, FiniteSets, Functions

CONSTANTS
    Calls,           \* HTTP requests in flight over the run
    PaymentIds,      \* values of the payment-identifier extension
    Fingerprints,    \* digests of method, path, query and body
    Auths,           \* signed transfer authorizations (one nonce each)
    None,            \* SQL NULL, or "nobody"
    AuthsOf,         \* which authorizations a client sends under an id
    AmountOf,        \* the amount an authorization is signed for
    Overlap,         \* may two calls with the same id be in flight at once
    Mainnet,         \* settings.x402_network = "eip155:8453"
    SettlementQuota, \* settings.mainnet_daily_settlement_limit_enabled
    RevenueQuota,    \* settings.mainnet_daily_revenue_limit_enabled
    SettlementLimit, \* effective "daily_settlement_limit"
    RevenueLimit,    \* effective "daily_revenue_limit_atomic"
    MaxDay,          \* bound: midnights that pass during the run
    MaxPauses        \* bound: how often the owner pauses the service

ASSUME GatewayAssumption ==
    /\ IsFiniteSet(PaymentIds)
    /\ None \notin Calls \cup PaymentIds \cup Fingerprints \cup Auths
    /\ AuthsOf \in [PaymentIds -> SUBSET Auths]
    /\ AmountOf \in [Auths -> Nat \ {0}]
    /\ {Overlap, Mainnet, SettlementQuota, RevenueQuota} \subseteq BOOLEAN
    /\ {SettlementLimit, RevenueLimit, MaxDay, MaxPauses} \subseteq Nat

VARIABLES
    rows,      \* payment_events by payment_id
    attempts,  \* payment_attempts
    chain,     \* which call's submission moved an authorization's money
    quotaLock, \* holder of pg_advisory_xact_lock(825402)
    paused,    \* the owner has switched service_enabled off
    pauses,    \* how often the owner has paused so far (bound only)
    day,       \* the current UTC day
    req,       \* what each call presents
    pc,        \* where each call is in gateway_impl, or its answer
    local      \* the variables of gateway_impl that live across an await

vars == <<rows, attempts, chain, quotaLock, paused, pauses, day, req, pc, local>>

-----------------------------------------------------------------------------
(* Values *)

Request == [pid : PaymentIds, fp : Fingerprints, auth : Auths]
NoRequest == [pid |-> None, fp |-> None, auth |-> None]

VerifyStatus == {"pending", "success", "failure"}
SettleStatus == {"pending", "success", "failure", "not_settled"}
Row ==
    [fp : Fingerprints, amount : Nat, day : Nat, verify : VerifyStatus,
     settle : SettleStatus, tx : Auths \cup {None}, body : Fingerprints \cup {None}]
NoRow ==
    [fp |-> None, amount |-> 0, day |-> 0, verify |-> "absent",
     settle |-> "absent", tx |-> None, body |-> None]

\* What the SDK middleware returns to gateway_impl.
Outcome ==
    {"settled",     \* 200 with a PAYMENT-RESPONSE that reports success
     "unreadable",  \* 200 with a PAYMENT-RESPONSE that does not
     "refused",     \* 402: verification or settlement was not confirmed (the book
                    \* takes a 200 without PAYMENT-RESPONSE for the same)
     "failed"}      \* the operation answered 400 or more; no settlement

\* NULL is none of the strings that the columns and the response hold.
ASSUME NullAssumption == None \notin VerifyStatus \cup SettleStatus \cup Outcome

AtGate == {"pauseCheck", "lookup", "lockQuota", "countUsage", "sumUsage", "reserve"}
AtSdk == {"verify", "operation", "settle"}
AtBook == {"reload", "record", "recordSettlement"}
InFlight == AtGate \cup AtSdk \cup AtBook
Answer ==
    {"challenged", "invalid", "paused", "mismatch", "busy", "overQuota",
     "replayed", "paid", "unreadable", "refused", "failed", "aborted"}

Attempt == [call : Calls, kind : {"challenge", "verify", "settlement"}, ok : BOOLEAN]

Local ==
    [count : Nat, day : Nat, outcome : Outcome \cup {None},
     verify : VerifyStatus \cup {None}, settle : SettleStatus \cup {None}]
Fresh == [count |-> 0, day |-> 0, outcome |-> None, verify |-> None, settle |-> None]

-----------------------------------------------------------------------------
(* Questions the code asks of its state *)

RowOf(c) == rows[req[c].pid]

\* get_payment found a row.
Exists(c) == RowOf(c) # NoRow

\* The advisory lock is taken only when one of the quotas is switched on.
QuotasEnabled == Mainnet /\ (SettlementQuota \/ RevenueQuota)

\* mainnet_daily_reserved_usage: the rows of a day that hold quota.
ReservedOn(d) ==
    {p \in PaymentIds : rows[p].day = d /\ rows[p].settle \in {"pending", "success"}}

Amounts == [p \in PaymentIds |-> rows[p].amount]

RevenueOn(d) == SumFunctionOnSet(Amounts, ReservedOn(d))

DailyLimitAllows(count, revenue, amount) ==
    /\ SettlementQuota => count < SettlementLimit
    /\ RevenueQuota => revenue + amount <= RevenueLimit

\* The ORM writes a column only when the value it assigns differs from the
\* value it loaded; otherwise the column keeps whatever is committed by then.
Assign(loaded, value, committed) == IF loaded = value THEN committed ELSE value

\* The row as it stands after the columns verify and settle are assigned.
AssignStatus(c, verify, settle) ==
    [RowOf(c) EXCEPT
        !.verify = Assign(local[c].verify, verify, RowOf(c).verify),
        !.settle = Assign(local[c].settle, settle, RowOf(c).settle)]

Note(c, kind, ok) == attempts' = attempts \cup {[call |-> c, kind |-> kind, ok |-> ok]}

Goto(c, from, to) == pc[c] = from /\ pc' = [pc EXCEPT ![c] = to]

\* The call answers its client; its local variables are gone.
Finish(c, answer) ==
    /\ pc' = [pc EXCEPT ![c] = answer]
    /\ local' = [local EXCEPT ![c] = Fresh]

\* The end of the transaction releases the advisory lock, held or not.
ReleaseQuotaLock(c) == quotaLock' = IF quotaLock = c THEN None ELSE quotaLock

-----------------------------------------------------------------------------
(* The call arrives *)

Init ==
    /\ rows = [p \in PaymentIds |-> NoRow]
    /\ attempts = {}
    /\ chain = [a \in Auths |-> None]
    /\ quotaLock = None
    /\ paused = FALSE
    /\ pauses = 0
    /\ day = 1
    /\ req = [c \in Calls |-> NoRequest]
    /\ pc = [c \in Calls |-> "idle"]
    /\ local = [c \in Calls |-> Fresh]

\* A request with a well-formed payment signature.  Its payment id is the one
\* the client chose, or one derived from the signature; both only fix which
\* authorizations appear under an id.
ArriveSigned(c) ==
    /\ Goto(c, "idle", "pauseCheck")
    /\ \E p \in PaymentIds, f \in Fingerprints :
        \E a \in AuthsOf[p] :
            /\ ~Overlap => \A d \in Calls : pc[d] \in InFlight => req[d].pid # p
            /\ req' = [req EXCEPT ![c] = [pid |-> p, fp |-> f, auth |-> a]]
    /\ UNCHANGED <<rows, attempts, chain, quotaLock, paused, pauses, day, local>>

\* No signature: the SDK answers 402 and the challenge is noted.
ArriveUnsigned(c) ==
    /\ Goto(c, "idle", "challenged")
    /\ Note(c, "challenge", TRUE)
    /\ UNCHANGED <<rows, chain, quotaLock, paused, pauses, day, req, local>>

\* A signature header that does not decode to an x402 v2 payload.
ArriveUndecodable(c) ==
    /\ Goto(c, "idle", "invalid")
    /\ Note(c, "verify", FALSE)
    /\ UNCHANGED <<rows, chain, quotaLock, paused, pauses, day, req, local>>

-----------------------------------------------------------------------------
(* Before the facilitator is asked *)

RefusePaused(c) ==
    /\ pc[c] = "pauseCheck"
    /\ Mainnet /\ paused
    /\ Finish(c, "paused")
    /\ UNCHANGED <<rows, attempts, chain, quotaLock, paused, pauses, day, req>>

PassPauseCheck(c) ==
    /\ Goto(c, "pauseCheck", "lookup")
    /\ ~(Mainnet /\ paused)
    /\ UNCHANGED <<rows, attempts, chain, quotaLock, paused, pauses, day, req, local>>

RefuseMismatch(c) ==
    /\ pc[c] = "lookup"
    /\ Exists(c)
    /\ RowOf(c).fp # req[c].fp
    /\ Note(c, "verify", FALSE)
    /\ Finish(c, "mismatch")
    /\ UNCHANGED <<rows, chain, quotaLock, paused, pauses, day, req>>

Replayable(c) == RowOf(c).settle = "success" /\ RowOf(c).body # None

\* Mutant: the stored response is looked up before fingerprints are compared.
ReplayForAnyRequest(c) ==
    /\ pc[c] = "lookup"
    /\ Exists(c)
    /\ Replayable(c)
    /\ Finish(c, "replayed")
    /\ UNCHANGED <<rows, attempts, chain, quotaLock, paused, pauses, day, req>>

\* A settled payment is answered from its row; the facilitator is not asked.
ReplayStored(c) ==
    /\ pc[c] = "lookup"
    /\ Exists(c)
    /\ RowOf(c).fp = req[c].fp
    /\ Replayable(c)
    /\ Finish(c, "replayed")
    /\ UNCHANGED <<rows, attempts, chain, quotaLock, paused, pauses, day, req>>

\* Mutant: an unsettled row is resumed by a call for another request.
ResumeForAnyRequest(c) ==
    /\ Goto(c, "lookup", "verify")
    /\ Exists(c)
    /\ ~Replayable(c)
    /\ UNCHANGED <<rows, attempts, chain, quotaLock, paused, pauses, day, req, local>>

\* Any other row of the same request (pending, failed, not settled) is left
\* as it is and the payload goes to the facilitator again, past the quota.
ResumeExisting(c) ==
    /\ Goto(c, "lookup", "verify")
    /\ Exists(c)
    /\ RowOf(c).fp = req[c].fp
    /\ ~Replayable(c)
    /\ UNCHANGED <<rows, attempts, chain, quotaLock, paused, pauses, day, req, local>>

BeginReservation(c) ==
    /\ Goto(c, "lookup", IF QuotasEnabled THEN "lockQuota" ELSE "reserve")
    /\ ~Exists(c)
    /\ UNCHANGED <<rows, attempts, chain, quotaLock, paused, pauses, day, req, local>>

\* Mutant: a shared lock instead of an exclusive one.
LockQuotaShared(c) ==
    /\ Goto(c, "lockQuota", "countUsage")
    /\ quotaLock' = c
    /\ UNCHANGED <<rows, attempts, chain, paused, pauses, day, req, local>>

LockQuota(c) ==
    /\ Goto(c, "lockQuota", "countUsage")
    /\ quotaLock = None
    /\ quotaLock' = c
    /\ UNCHANGED <<rows, attempts, chain, paused, pauses, day, req, local>>

\* The day is read once, before the first of the two usage queries.
CountUsage(c) ==
    /\ Goto(c, "countUsage", "sumUsage")
    /\ local' = [local EXCEPT ![c].count = Cardinality(ReservedOn(day)), ![c].day = day]
    /\ UNCHANGED <<rows, attempts, chain, quotaLock, paused, pauses, day, req>>

AdmittedByQuota(c) ==
    DailyLimitAllows(local[c].count, RevenueOn(local[c].day), AmountOf[req[c].auth])

AdmitQuota(c) ==
    /\ Goto(c, "sumUsage", "reserve")
    /\ AdmittedByQuota(c)
    /\ UNCHANGED <<rows, attempts, chain, quotaLock, paused, pauses, day, req, local>>

\* Mutant: 429 is returned without ending the transaction.
RefuseOverQuotaKeepsLock(c) ==
    /\ pc[c] = "sumUsage"
    /\ ~AdmittedByQuota(c)
    /\ Finish(c, "overQuota")
    /\ UNCHANGED <<rows, attempts, chain, quotaLock, paused, pauses, day, req>>

RefuseOverQuota(c) ==
    /\ pc[c] = "sumUsage"
    /\ ~AdmittedByQuota(c)
    /\ ReleaseQuotaLock(c)
    /\ Finish(c, "overQuota")
    /\ UNCHANGED <<rows, attempts, chain, paused, pauses, day, req>>

\* Mutant: an upsert instead of an insert.
ReserveUpsert(c) ==
    /\ Goto(c, "reserve", "verify")
    /\ rows' = [rows EXCEPT ![req[c].pid] =
            [fp |-> req[c].fp, amount |-> AmountOf[req[c].auth], day |-> day,
             verify |-> "pending", settle |-> "pending", tx |-> None, body |-> None]]
    /\ ReleaseQuotaLock(c)
    /\ UNCHANGED <<attempts, chain, paused, pauses, day, req, local>>

\* reserve_payment commits the row, which also ends the quota transaction.
Reserve(c) ==
    /\ Goto(c, "reserve", "verify")
    /\ ~Exists(c)
    /\ rows' = [rows EXCEPT ![req[c].pid] =
            [fp |-> req[c].fp, amount |-> AmountOf[req[c].auth], day |-> day,
             verify |-> "pending", settle |-> "pending", tx |-> None, body |-> None]]
    /\ ReleaseQuotaLock(c)
    /\ UNCHANGED <<attempts, chain, paused, pauses, day, req, local>>

\* The unique index refuses the second of two concurrent reservations.
RefuseBusy(c) ==
    /\ pc[c] = "reserve"
    /\ Exists(c)
    /\ ReleaseQuotaLock(c)
    /\ Finish(c, "busy")
    /\ UNCHANGED <<rows, attempts, chain, paused, pauses, day, req>>

-----------------------------------------------------------------------------
(* Inside the x402 SDK middleware *)

\* The SDK is done; gateway_impl has its response.
Returned(c, outcome) ==
    /\ pc' = [pc EXCEPT ![c] = "reload"]
    /\ local' = [local EXCEPT ![c] = [Fresh EXCEPT !.outcome = outcome]]

\* The facilitator accepts only an authorization that is still unspent.
VerifyAccepted(c) ==
    /\ Goto(c, "verify", "operation")
    /\ chain[req[c].auth] = None
    /\ UNCHANGED <<rows, attempts, chain, quotaLock, paused, pauses, day, req, local>>

VerifyRefused(c) ==
    /\ pc[c] = "verify"
    /\ Returned(c, "refused")
    /\ UNCHANGED <<rows, attempts, chain, quotaLock, paused, pauses, day, req>>

\* The route handler asks service_enabled again before it does any work.
OperationSucceeds(c) ==
    /\ Goto(c, "operation", "settle")
    /\ ~paused
    /\ UNCHANGED <<rows, attempts, chain, quotaLock, paused, pauses, day, req, local>>

OperationFails(c) ==
    /\ pc[c] = "operation"
    /\ Returned(c, "failed")
    /\ UNCHANGED <<rows, attempts, chain, quotaLock, paused, pauses, day, req>>

\* The money moves; the answer says so, cannot be read, or is lost.
SettleMoves(c) ==
    /\ pc[c] = "settle"
    /\ chain[req[c].auth] = None
    /\ chain' = [chain EXCEPT ![req[c].auth] = c]
    /\ \E outcome \in {"settled", "unreadable", "refused"} : Returned(c, outcome)
    /\ UNCHANGED <<rows, attempts, quotaLock, paused, pauses, day, req>>

SettleRefused(c) ==
    /\ pc[c] = "settle"
    /\ Returned(c, "refused")
    /\ UNCHANGED <<rows, attempts, chain, quotaLock, paused, pauses, day, req>>

-----------------------------------------------------------------------------
(* After the facilitator has answered: a new session *)

Reload(c) ==
    /\ Goto(c, "reload", "record")
    /\ local' = [local EXCEPT ![c].verify = RowOf(c).verify, ![c].settle = RowOf(c).settle]
    /\ UNCHANGED <<rows, attempts, chain, quotaLock, paused, pauses, day, req>>

\* Mutant: the response is not stored with the settlement.
RecordSettledWithoutBody(c) ==
    /\ Goto(c, "record", "recordSettlement")
    /\ local[c].outcome = "settled"
    /\ rows' = [rows EXCEPT ![req[c].pid] =
            [AssignStatus(c, "success", "success") EXCEPT !.tx = req[c].auth]]
    /\ Note(c, "verify", TRUE)
    /\ UNCHANGED <<chain, quotaLock, paused, pauses, day, req, local>>

\* Mutant: the transaction hash is not stored with the settlement.
RecordSettledWithoutTx(c) ==
    /\ Goto(c, "record", "recordSettlement")
    /\ local[c].outcome = "settled"
    /\ rows' = [rows EXCEPT ![req[c].pid] =
            [AssignStatus(c, "success", "success") EXCEPT !.body = req[c].fp]]
    /\ Note(c, "verify", TRUE)
    /\ UNCHANGED <<chain, quotaLock, paused, pauses, day, req, local>>

\* One commit carries the row and the verify attempt ...
RecordSettled(c) ==
    /\ Goto(c, "record", "recordSettlement")
    /\ local[c].outcome = "settled"
    /\ rows' = [rows EXCEPT ![req[c].pid] =
            [AssignStatus(c, "success", "success") EXCEPT
                !.tx = req[c].auth, !.body = req[c].fp]]
    /\ Note(c, "verify", TRUE)
    /\ UNCHANGED <<chain, quotaLock, paused, pauses, day, req, local>>

\* ... and a second one the settlement attempt.
RecordSettlementAttempt(c) ==
    /\ pc[c] = "recordSettlement"
    /\ Note(c, "settlement", TRUE)
    /\ Finish(c, "paid")
    /\ UNCHANGED <<rows, chain, quotaLock, paused, pauses, day, req>>

RecordUnreadable(c) ==
    /\ pc[c] = "record"
    /\ local[c].outcome = "unreadable"
    /\ rows' = [rows EXCEPT ![req[c].pid] = AssignStatus(c, local[c].verify, "failure")]
    /\ Note(c, "settlement", FALSE)
    /\ Finish(c, "unreadable")
    /\ UNCHANGED <<chain, quotaLock, paused, pauses, day, req>>

\* Whatever the row says by now, it becomes failure / not_settled.
RecordNotSettled(c) ==
    /\ pc[c] = "record"
    /\ local[c].outcome \in {"refused", "failed"}
    /\ rows' = [rows EXCEPT ![req[c].pid] = AssignStatus(c, "failure", "not_settled")]
    /\ Note(c, "verify", FALSE)
    /\ Finish(c, local[c].outcome)
    /\ UNCHANGED <<chain, quotaLock, paused, pauses, day, req>>

\* An exception, a cancelled coroutine or a crash of the server ends the call
\* where it stands: committed rows stay, the open transaction is rolled back.
\* The server keeps no other state, so a crash is several of these steps.
Abort(c) ==
    /\ pc[c] \in InFlight
    /\ ReleaseQuotaLock(c)
    /\ Finish(c, "aborted")
    /\ UNCHANGED <<rows, attempts, chain, paused, pauses, day, req>>

\* The exception of the SDK middleware after the facilitator has settled.
AbortAfterSettlement(c) ==
    /\ pc[c] = "settle"
    /\ chain[req[c].auth] = None
    /\ chain' = [chain EXCEPT ![req[c].auth] = c]
    /\ Finish(c, "aborted")
    /\ UNCHANGED <<rows, attempts, quotaLock, paused, pauses, day, req>>

-----------------------------------------------------------------------------
(* Around the calls *)

OwnerPauses ==
    /\ ~paused
    /\ pauses < MaxPauses
    /\ paused' = TRUE
    /\ pauses' = pauses + 1
    /\ UNCHANGED <<rows, attempts, chain, quotaLock, day, req, pc, local>>

OwnerResumes ==
    /\ paused
    /\ paused' = FALSE
    /\ UNCHANGED <<rows, attempts, chain, quotaLock, pauses, day, req, pc, local>>

Midnight ==
    /\ day <= MaxDay
    /\ day' = day + 1
    /\ UNCHANGED <<rows, attempts, chain, quotaLock, paused, pauses, req, pc, local>>

Arrive(c) == ArriveSigned(c) \/ ArriveUnsigned(c) \/ ArriveUndecodable(c)

Gate(c) ==
    \/ RefusePaused(c)
    \/ PassPauseCheck(c)
    \/ RefuseMismatch(c)
    \/ ReplayStored(c)
    \/ ResumeExisting(c)
    \/ BeginReservation(c)
    \/ LockQuota(c)
    \/ CountUsage(c)
    \/ AdmitQuota(c)
    \/ RefuseOverQuota(c)
    \/ Reserve(c)
    \/ RefuseBusy(c)

Sdk(c) ==
    \/ VerifyAccepted(c)
    \/ VerifyRefused(c)
    \/ OperationSucceeds(c)
    \/ OperationFails(c)
    \/ SettleMoves(c)
    \/ SettleRefused(c)

Booking(c) ==
    \/ Reload(c)
    \/ RecordSettled(c)
    \/ RecordSettlementAttempt(c)
    \/ RecordUnreadable(c)
    \/ RecordNotSettled(c)

Progress(c) == Gate(c) \/ Sdk(c) \/ Booking(c)

Next ==
    \/ \E c \in Calls : Arrive(c) \/ Progress(c) \/ Abort(c) \/ AbortAfterSettlement(c)
    \/ OwnerPauses
    \/ OwnerResumes
    \/ Midnight

Spec == Init /\ [][Next]_vars

\* Every await of a call ends: queries and HTTP clients carry timeouts and the
\* event loop serves every ready coroutine.
Fairness == \A c \in Calls : WF_vars(Progress(c))

FairSpec == Spec /\ Fairness

-----------------------------------------------------------------------------
(* Properties *)

\* Every variable has its shape: rows, attempts and locals of gateway_impl.
TypeOK ==
    /\ rows \in [PaymentIds -> Row \cup {NoRow}]
    /\ attempts \subseteq Attempt
    /\ chain \in [Auths -> Calls \cup {None}]
    /\ quotaLock \in Calls \cup {None}
    /\ paused \in BOOLEAN
    /\ pauses \in Nat
    /\ day \in Nat \ {0}
    /\ req \in [Calls -> Request \cup {NoRequest}]
    /\ pc \in [Calls -> {"idle"} \cup InFlight \cup Answer]
    /\ local \in [Calls -> Local]

\* A row that reports settlement is backed by an on-chain transfer that was
\* submitted under its own payment id for its own request, and no transfer
\* backs two rows: settled_revenue_by_network never counts money that did not
\* arrive or counts it twice, whatever calls raced for the row.
RevenueBacked ==
    /\ \A p \in PaymentIds : rows[p].settle = "success" =>
        /\ rows[p].tx # None
        /\ chain[rows[p].tx] # None
        /\ req[chain[rows[p].tx]].pid = p
        /\ req[chain[rows[p].tx]].fp = rows[p].fp
    /\ \A p, q \in PaymentIds :
        rows[p].settle = "success" /\ rows[q].settle = "success" /\ rows[p].tx = rows[q].tx
            => p = q

\* A paid result reaches a client only when some call with the same payment id
\* and the same request has moved money on chain; this covers the replay of a
\* stored response to a call that paid nothing itself.
PaidDelivery ==
    \A c \in Calls : pc[c] \in {"paid", "replayed"} =>
        \E a \in Auths :
            /\ chain[a] # None
            /\ req[chain[a]].pid = req[c].pid
            /\ req[chain[a]].fp = req[c].fp

\* A client that was given a paid result can have it again: the row of its
\* payment id still answers for the same request (clients that keep one call
\* per id in flight).
PaidIsReplayable ==
    \A c \in Calls : pc[c] \in {"paid", "replayed"} =>
        Replayable(c) /\ RowOf(c).fp = req[c].fp

\* Rows that a later answer has taken out of pending / success at least once.
Released ==
    {req[x.call].pid : x \in {y \in attempts : ~y.ok /\ pc[y.call] \notin {"mismatch", "invalid"}}}

\* However calls interleave between the usage queries and the insert, the rows
\* created on one day that never gave their slot back stay within the daily
\* settlement limit: the advisory lock serialises count and insert.
QuotaHeld ==
    Mainnet /\ SettlementQuota =>
        \A d \in 1..day :
            Cardinality(ReservedOn(d) \ Released) <= SettlementLimit

\* The same for the daily revenue limit, read by the second usage query.
RevenueQuotaHeld ==
    Mainnet /\ RevenueQuota =>
        \A d \in 1..day :
            SumFunctionOnSet(Amounts, ReservedOn(d) \ Released) <= RevenueLimit

\* Both daily limits at once: calls that pass the usage queries one after the
\* other under the advisory lock never admit more than either limit allows.
QuotasHeld == QuotaHeld /\ RevenueQuotaHeld

\* The daily settlement limit as the 429 answer words it: no day has more
\* pending and settled rows than the limit.
DailyLimitKept ==
    Mainnet /\ SettlementQuota => \A d \in 1..day : Cardinality(ReservedOn(d)) <= SettlementLimit

\* Once a payment id is reserved for a request it stays bound to it, with the
\* amount and the day of the reservation, through races and retries.
IdBoundForever ==
    [][\A p \in PaymentIds : rows[p] # NoRow =>
        /\ rows'[p].fp = rows[p].fp
        /\ rows'[p].amount = rows[p].amount
        /\ rows'[p].day = rows[p].day]_vars

\* A recorded settlement stays recorded, so that every later call with the id
\* gets the cached response.
SettledStaysRecorded ==
    [][\A p \in PaymentIds : rows[p].settle = "success" => rows'[p].settle = "success"]_vars

\* Money moves at most once under one payment id.
OneSettlementPerPaymentId ==
    \A a, b \in Auths :
        chain[a] # None /\ chain[b] # None /\ req[chain[a]].pid = req[chain[b]].pid => a = b

\* A settled row shows the amount that was actually transferred.
RevenueIsWhatWasPaid ==
    \A p \in PaymentIds : rows[p].settle = "success" => rows[p].amount = AmountOf[rows[p].tx]

\* Every call is answered: no call waits forever, in particular not for the
\* advisory lock of a call that was refused, lost the insert or died.
EveryCallAnswered == \A c \in Calls : pc[c] \in InFlight ~> pc[c] \in Answer

\* The gateway as a book of payment ids: rows that are neither missing nor
\* settled are open, whatever their status column says.
BookEntry(p) ==
    [state |-> IF rows[p] = NoRow THEN "free"
               ELSE IF rows[p].settle = "success" THEN "settled" ELSE "open",
     fp |-> rows[p].fp,
     tx |-> IF rows[p].settle = "success" THEN rows[p].tx ELSE None]

PromisedBook ==
    INSTANCE PaymentBook WITH
        book <- [p \in PaymentIds |-> BookEntry(p)],
        moved <- {a \in Auths : chain[a] # None}

\* For clients that keep one call per payment id in flight, the gateway
\* implements the book: opened once, settled at most once, settled for good.
ImplementsBook == PromisedBook!Spec
=============================================================================
