----------------------------- MODULE BuyerBridge -----------------------------
(***************************************************************************)
(* The buyer bridge (buyer_bridge.py, BuyerBridgeService.paid_call) over   *)
(* the shared ledger: concurrent paid calls of one user's bridge           *)
(* processes, the user approving quotes from the CLI, and the steps at     *)
(* which a call can die.  A call works through: unpaid 402 quote, ledger   *)
(* quote and approval (manual mode), wallet, reservation, one signed       *)
(* submission, outcome.                                                    *)
(*                                                                         *)
(* The seller and the chain are external: once a signed payload is         *)
(* submitted the money may move at any later time, once; a response that   *)
(* proves settlement arrives only after it has; any other answer, or none, *)
(* is an unknown outcome.                                                  *)
(***************************************************************************)
EXTENDS BuyerLedger

CONSTANTS
    PaidCalls,  \* invocations of paid_call
    ModeOf,     \* policy.approval_mode of the bridge that runs each call
    PerCallCap  \* policy.max_per_call_atomic, or None

ASSUME BridgeAssumption ==
    /\ None \notin PaidCalls
    /\ ModeOf \in [PaidCalls -> {"manual", "auto"}]
    /\ PerCallCap \in Nat \cup {None}
    \* validate_bridge_policy refuses automatic mode without both caps.
    /\ (\E c \in PaidCalls : ModeOf[c] = "auto")
        => DailyLimit # None /\ PerCallCap # None
    /\ DailyLimit # None /\ PerCallCap # None => PerCallCap <= DailyLimit

VARIABLES
    pc,         \* where each paid_call is
    call,       \* its local variables
    signed,     \* amount of the authorization submitted for each entry, 0 if none
    paid,       \* amount that has moved on chain for each entry, 0 if none
    consented,  \* history: entries the user has approved
    spentOn     \* history: UTC day of each entry's reservation, by its clock reading

ledgerVars == <<ledger, clock>>
callVars == <<pc, call>>
history == <<consented, spentOn>>
vars == <<ledger, clock, pc, call, signed, paid, consented, spentOn>>

Running ==
    {"quoted", "cleared", "reserving", "paying", "waiting", "settling", "doubting"}
Ended ==
    {"unsafeQuote", "approvalRequired", "noWallet", "blocked",
     "settled", "unknown", "died"}

Call ==
    [request : Requests \cup {None}, price : Prices \cup {0},
     entry : Entries \cup {None}, since : Nat]
NoCall == [request |-> None, price |-> 0, entry |-> None, since |-> 0]

FingerprintOf(c) == Fingerprint(call[c].request, call[c].price)

\* The clock readings a ledger method of call c may run under: taken after the
\* call's previous step, and at most the wait for the write lock ago.
Readings(c) == {t \in call[c].since..clock : clock - t <= MaxLockWait}

\* The call moves on; its next clock reading cannot be older than now.
Goto(c, from, to) ==
    /\ pc[c] = from
    /\ pc' = [pc EXCEPT ![c] = to]
    /\ call' = [call EXCEPT ![c].since = clock]

End(c, from, to) ==
    /\ pc[c] = from
    /\ pc' = [pc EXCEPT ![c] = to]
    /\ UNCHANGED call

-----------------------------------------------------------------------------
Init ==
    /\ LedgerInit
    /\ pc = [c \in PaidCalls |-> "idle"]
    /\ call = [c \in PaidCalls |-> NoCall]
    /\ signed = [e \in Entries |-> 0]
    /\ paid = [e \in Entries |-> 0]
    /\ consented = {}
    /\ spentOn = [e \in Entries |-> 0]

SafePrice(price) == PerCallCap # None => price <= PerCallCap

\* _fetch_quote and parse_quote: the seller's live price, within the cap.
FetchQuote(c) ==
    /\ pc[c] = "idle"
    /\ \E r \in Requests, price \in Prices :
        /\ SafePrice(price)
        /\ call' = [call EXCEPT ![c] =
                [request |-> r, price |-> price, entry |-> None, since |-> clock]]
    /\ pc' = [pc EXCEPT ![c] = IF ModeOf[c] = "manual" THEN "quoted" ELSE "cleared"]
    /\ UNCHANGED <<ledger, clock, signed, paid, history>>

\* No 402, or no single safe payment option in it.
RefuseQuote(c) ==
    /\ End(c, "idle", "unsafeQuote")
    /\ \E price \in Prices : ~SafePrice(price)
    /\ UNCHANGED <<ledger, clock, signed, paid, history>>

\* ensure_quote returns a live entry; only an approved one lets the call go on.
SeeQuote(c) ==
    \E now \in Readings(c), e \in Entries :
        /\ pc[c] = "quoted"
        /\ FindQuote(FingerprintOf(c), now, e)
        /\ Goto(c, "quoted",
                IF ledger[e].status = "approved" THEN "cleared" ELSE "approvalRequired")
        /\ UNCHANGED <<clock, signed, paid, history>>

AskApproval(c) ==
    \E now \in Readings(c), e \in Entries :
        /\ End(c, "quoted", "approvalRequired")
        /\ InsertQuote(FingerprintOf(c), call[c].price, now, e)
        /\ UNCHANGED <<clock, signed, paid, history>>

\* The user runs "onecent approve" on a quote that was shown.
UserApproves(e) ==
    \E now \in ledger[e].created..clock :
        /\ clock - now <= MaxLockWait
        /\ Approve(e, now)
        /\ consented' = consented \cup {e}
        /\ UNCHANGED <<clock, callVars, signed, paid, spentOn>>

\* "onecent bridge-state" and buyer_bridge_status.
UserLooks ==
    /\ Snapshot(clock)
    /\ UNCHANGED <<clock, callVars, signed, paid, history>>

LoadWallet(c) ==
    /\ Goto(c, "cleared", "reserving")
    /\ UNCHANGED <<ledgerVars, signed, paid, history>>

NoWallet(c) ==
    /\ End(c, "cleared", "noWallet")
    /\ UNCHANGED <<ledgerVars, signed, paid, history>>

\* The reservation of entry e moves the call into the paid part.
Reserved(c, e, now) ==
    /\ pc' = [pc EXCEPT ![c] = "paying"]
    /\ call' = [call EXCEPT ![c].entry = e, ![c].since = clock]
    /\ spentOn' = [spentOn EXCEPT ![e] = DayOf(now)]
    /\ UNCHANGED <<clock, signed, paid, consented>>

ReserveManual(c) ==
    \E now \in Readings(c), e \in Entries :
        /\ pc[c] = "reserving" /\ ModeOf[c] = "manual"
        /\ ReserveApproved(FingerprintOf(c), now, e)
        /\ Reserved(c, e, now)

ReserveCapped(c) ==
    \E now \in Readings(c), e \in Entries :
        /\ pc[c] = "reserving" /\ ModeOf[c] = "auto"
        /\ ReserveAuto(FingerprintOf(c), call[c].price, now, e)
        /\ Reserved(c, e, now)

RefuseReservation(c) ==
    /\ pc[c] = "reserving"
    /\ \E now \in Readings(c) :
        \/ ModeOf[c] = "manual" /\ RefusesApproved(FingerprintOf(c), now)
        \/ ModeOf[c] = "auto" /\ RefusesAuto(FingerprintOf(c), call[c].price, now)
    /\ End(c, "reserving", "blocked")
    /\ UNCHANGED <<ledgerVars, signed, paid, history>>

-----------------------------------------------------------------------------
(* _execute_payment *)

\* Mutant: the requirement of the second 402 is signed as it comes.
SignsAnything(c, price) == TRUE

\* exact_quote_policy and _resource_guard: what is signed is what was quoted.
Signs(c, price) == price = call[c].price

\* The second, signed request goes out.
Submit(c) ==
    /\ End(c, "paying", "waiting")
    /\ \E price \in Prices :
        /\ Signs(c, price)
        /\ signed' = [signed EXCEPT ![call[c].entry] = price]
    /\ UNCHANGED <<ledgerVars, paid, history>>

\* The guard aborts the signature: an exception like any other.
RefuseToSign(c) ==
    /\ End(c, "paying", "doubting")
    /\ UNCHANGED <<ledgerVars, signed, paid, history>>

\* The seller settles what it was sent, before or after the buyer stops waiting.
SellerCollects(e) ==
    /\ signed[e] # 0
    /\ paid[e] = 0
    /\ paid' = [paid EXCEPT ![e] = signed[e]]
    /\ UNCHANGED <<ledgerVars, callVars, signed, history>>

\* HTTP 200 with a PAYMENT-RESPONSE that classify_payment accepts.
ReceiveProof(c) ==
    /\ End(c, "waiting", "settling")
    /\ paid[call[c].entry] # 0
    /\ UNCHANGED <<ledgerVars, signed, paid, history>>

\* Any other answer, a timeout or a broken connection.
ReceiveNoProof(c) ==
    /\ End(c, "waiting", "doubting")
    /\ UNCHANGED <<ledgerVars, signed, paid, history>>

RecordSuccess(c) ==
    /\ End(c, "settling", "settled")
    /\ Finish(call[c].entry, "success")
    /\ UNCHANGED <<clock, signed, paid, history>>

\* Mutant: a payment without proof of settlement frees its approval again.
ReleaseUnknown(c) ==
    /\ End(c, "doubting", "unknown")
    /\ Finish(call[c].entry, IF ModeOf[c] = "manual" THEN "approved" ELSE "expired")
    /\ UNCHANGED <<clock, signed, paid, history>>

\* Mutant: a status that the CHECK constraint of the table does not know.
RecordFailed(c) ==
    /\ End(c, "doubting", "unknown")
    /\ Finish(call[c].entry, "failed")
    /\ UNCHANGED <<clock, signed, paid, history>>

RecordUnknown(c) ==
    /\ End(c, "doubting", "unknown")
    /\ Finish(call[c].entry, "unknown")
    /\ UNCHANGED <<clock, signed, paid, history>>

\* The process is killed, or the coroutine cancelled; nothing is written.
Die(c) ==
    /\ pc[c] \in Running
    /\ End(c, pc[c], "died")
    /\ UNCHANGED <<ledgerVars, signed, paid, history>>

TimePasses == Tick /\ UNCHANGED <<ledger, callVars, signed, paid, history>>

Progress(c) ==
    \/ SeeQuote(c)
    \/ AskApproval(c)
    \/ LoadWallet(c)
    \/ NoWallet(c)
    \/ ReserveManual(c)
    \/ ReserveCapped(c)
    \/ RefuseReservation(c)
    \/ Submit(c)
    \/ RefuseToSign(c)
    \/ ReceiveProof(c)
    \/ ReceiveNoProof(c)
    \/ RecordSuccess(c)
    \/ RecordUnknown(c)

Next ==
    \/ \E c \in PaidCalls :
        FetchQuote(c) \/ RefuseQuote(c) \/ Progress(c) \/ Die(c)
    \/ \E e \in Entries : UserApproves(e) \/ SellerCollects(e)
    \/ UserLooks
    \/ TimePasses

Spec == Init /\ [][Next]_vars

-----------------------------------------------------------------------------
(* Properties *)

\* Every variable has its shape.
TypeOK ==
    /\ ledger \in [Entries -> Entry \cup {NoEntry}]
    /\ clock \in Nat
    /\ pc \in [PaidCalls -> {"idle"} \cup Running \cup Ended]
    /\ call \in [PaidCalls -> Call]
    /\ signed \in [Entries -> Prices \cup {0}]
    /\ paid \in [Entries -> Prices \cup {0}]
    /\ consented \subseteq Entries
    /\ spentOn \in [Entries -> Nat]

\* One fingerprint has at most one quote or approval that can still be used,
\* so one user decision can never feed two payments.
OneLiveEntry ==
    \A e, d \in Entries :
        /\ ledger[e].status \in Live
        /\ ledger[d].status \in Live
        /\ ledger[e].fp = ledger[d].fp
        => e = d

\* One fingerprint has at most one payment in doubt, across all processes that
\* share the ledger, however their calls interleave.
OneUnresolvedEntry ==
    \A e, d \in Entries :
        /\ ledger[e].status \in Unresolved
        /\ ledger[d].status \in Unresolved
        /\ ledger[e].fp = ledger[d].fp
        => e = d

\* No two paid calls ever submit a payment under the same ledger entry: an
\* approval is good for exactly one call.
OneCallPerEntry ==
    \A c, d \in PaidCalls :
        call[c].entry # None /\ call[c].entry = call[d].entry => c = d

\* In manual mode money moves only under an entry the user has approved, and
\* exactly the approved amount, although quote, approval and submission are
\* three visits to a seller whose price may change in between.
ChargedWhatWasApproved ==
    \A c \in PaidCalls :
        LET e == call[c].entry
        IN  e # None /\ signed[e] # 0 =>
                /\ signed[e] = ledger[e].amount
                /\ paid[e] \in {0, signed[e]}
                /\ ledger[e].fp = FingerprintOf(c)
                /\ ModeOf[c] = "manual" => e \in consented

\* Money that has moved, or still may, is never forgotten: its entry counts
\* towards the day, and unless it is confirmed it blocks its fingerprint, also
\* after a crash.
ChargedStaysOnTheBooks ==
    \A e \in Entries :
        /\ signed[e] # 0 => ledger[e].status \in Spent
        /\ ledger[e].status = "success" => paid[e] # 0

\* An approval is not used after its ten minutes, up to the time a reservation
\* may wait for the write lock.
ApprovalIsFresh ==
    [][\A e \in Entries :
        ledger[e].status = "approved" /\ ledger'[e].status = "pending"
            => clock < ledger[e].expires + MaxLockWait]_vars

\* The amounts reserved on one UTC day stay within the local daily cap, with
\* pending and unknown payments counted as spent.
SpentOn(date) ==
    SumFunctionOnSet(Amounts,
        {e \in Entries : ledger[e].status \in Spent /\ spentOn[e] = date})

DailyCapHeld ==
    DailyLimit # None => \A date \in 0..DayOf(clock) : SpentOn(date) <= DailyLimit

\* The bridge as the promise it makes for each fingerprint.
UnresolvedEntry(f) ==
    IF HasUnresolved(f)
    THEN CHOOSE e \in OfStatus(ledger, f, Unresolved) : TRUE
    ELSE None

Promised ==
    INSTANCE SpendPromise WITH
        open <- [f \in Fingerprints |-> UnresolvedEntry(f)],
        used <- {e \in Entries : ledger[e].status \in Spent},
        charged <- {e \in Entries : paid[e] # 0},
        confirmed <- {e \in Entries : ledger[e].status = "success"}

ImplementsPromise == Promised!Spec
=============================================================================
