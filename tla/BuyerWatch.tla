----------------------------- MODULE BuyerWatch -----------------------------
(***************************************************************************)
(* "onecent watch" (buyer_cli.py, watch): a loop of paid url_changed calls *)
(* with a pause between them and a webhook, over the ledger that outlives  *)
(* the process, and against a seller that keeps one newest snapshot of a   *)
(* page for all its clients and may change its price.  How a paid call     *)
(* works is BuyerBridge; here it is refused, settled or in doubt.  Tool,   *)
(* page and seller are the same in every call of the watch, so that the    *)
(* price stands for the fingerprint (buyer_bridge.py, request_fingerprint).*)
(* The user may start the watch again whenever it has ended, Starts times  *)
(* in all.                                                                 *)
(***************************************************************************)
EXTENDS Integers

CONSTANTS
    Contents,  \* what the page may say
    Prices,    \* of url_changed
    None,
    MaxRuns,   \* --max-runs
    Interval,  \* --interval-seconds, in ticks
    Starts,    \* bound of the model
    Others     \* whether other clients call url_changed for the page

ASSUME WatchAssumption ==
    /\ None \notin Contents /\ Prices # {}
    /\ MaxRuns \in 1..1000
    /\ {Interval, Starts} \subseteq Nat \ {0}
    /\ Others \in BOOLEAN

VARIABLES
    pc,       \* of the watch process
    run,      \* run_number
    price,    \* the seller's
    quote,    \* the last one paid
    inDoubt,  \* the prices with a pending or unknown entry in the ledger
    late,     \* those whose work the seller may still do
    page,     \* its content
    newest,   \* the seller's newest snapshot of it
    pause,    \* what is left of the pause
    starts,
    \* history:
    attempts, \* payments submitted by this process, up to MaxRuns + 1
    since,    \* ticks since the last of them, up to Interval
    report    \* the last answer: page at the one before, page, changed, and whether
              \* no other payment was in doubt

ledger == <<price, quote, inDoubt, late>>
vars == <<pc, run, ledger, page, newest, pause, starts, attempts, since, report>>

NoReport == [before |-> None, at |-> None, changed |-> FALSE, clear |-> TRUE]

Init ==
    /\ pc = "off" /\ run = 0
    /\ price \in Prices /\ quote = price /\ inDoubt = {} /\ late = {}
    /\ page \in Contents /\ newest = None
    /\ pause = 0 /\ starts = 0
    /\ attempts = 0 /\ since = Interval /\ report = NoReport

Start ==
    /\ pc = "off" /\ starts < Starts
    /\ pc' = "call" /\ run' = 1
    /\ starts' = starts + 1
    /\ attempts' = 0 /\ since' = Interval
    /\ UNCHANGED <<ledger, page, newest, pause, report>>

\* A quote, a cap, the wallet or the network refuses, or the ledger knows of a
\* payment in doubt: nothing is paid and the watch is over.
Blocked ==
    /\ pc = "call"
    /\ pc' = "off"
    /\ UNCHANGED <<run, ledger, page, newest, pause, starts, attempts, since, report>>

\* Reserved for the price just quoted, unless that one is in doubt.
Submit ==
    /\ pc = "call" /\ price \notin inDoubt
    /\ pc' = "paying"
    /\ quote' = price /\ inDoubt' = inDoubt \cup {price}
    /\ attempts' = IF attempts <= MaxRuns THEN attempts + 1 ELSE attempts
    /\ since' = 0
    /\ UNCHANGED <<run, price, late, page, newest, pause, starts, report>>

\* url_changed: the content is compared with the newest snapshot.
Changed == newest # None /\ newest # page

\* Mutant: the reading is not recorded.
KeepsNewest == newest' = IF newest = None THEN page ELSE newest

\* and becomes the newest.
AddSnapshot == newest' = page

RunsLeft == run < MaxRuns

Continue ==
    /\ pc' = IF RunsLeft THEN "sleep" ELSE "off"
    /\ pause' = IF RunsLeft THEN Interval ELSE 0

\* The paid answer with its proof of settlement.
Settled ==
    /\ pc = "paying"
    /\ inDoubt' = inDoubt \ {quote}
    /\ report' = [before |-> report.at, at |-> page, changed |-> Changed,
                  clear |-> inDoubt = {quote}]
    /\ AddSnapshot
    /\ IF Changed THEN pc' = "notify" /\ UNCHANGED pause ELSE Continue
    /\ UNCHANGED <<run, price, quote, late, page, starts, attempts, since>>

\* The seller has done its work for the payment in doubt, or may still do it.
WorkDoneOrDue ==
    \/ AddSnapshot /\ UNCHANGED late
    \/ late' = late \cup {quote} /\ UNCHANGED newest

\* No proof of settlement
Doubt ==
    /\ pc = "paying"
    /\ pc' = "off"
    /\ WorkDoneOrDue
    /\ UNCHANGED <<run, price, quote, inDoubt, page, pause, starts, attempts, since, report>>

Notified ==
    /\ pc = "notify"
    /\ Continue
    /\ UNCHANGED <<run, ledger, page, newest, starts, attempts, since, report>>

\* raise_for_status, a timeout or a broken connection ends the watch.
WebhookFails ==
    /\ pc = "notify"
    /\ pc' = "off"
    /\ UNCHANGED <<run, ledger, page, newest, pause, starts, attempts, since, report>>

Wake ==
    /\ pc = "sleep" /\ pause = 0
    /\ pc' = "call" /\ run' = run + 1
    /\ UNCHANGED <<ledger, page, newest, pause, starts, attempts, since, report>>

Tick ==
    /\ pause > 0 \/ since < Interval
    /\ pause' = IF pause > 0 THEN pause - 1 ELSE 0
    /\ since' = IF since < Interval THEN since + 1 ELSE since
    /\ UNCHANGED <<pc, run, ledger, page, newest, starts, attempts, report>>

\* The process is killed; a payment it had submitted stays pending.
Killed ==
    /\ pc # "off"
    /\ pc' = "off" /\ pause' = 0
    /\ IF pc = "paying" THEN WorkDoneOrDue ELSE UNCHANGED <<newest, late>>
    /\ UNCHANGED <<run, price, quote, inDoubt, page, starts, attempts, since, report>>

LateWork(due) ==
    /\ AddSnapshot
    /\ late' = late \ {due}
    /\ UNCHANGED <<pc, run, price, quote, inDoubt, page, pause, starts, attempts, since, report>>

PriceChanges ==
    /\ price' \in Prices \ {price}
    /\ UNCHANGED <<pc, run, quote, inDoubt, late, page, newest, pause, starts, attempts,
                   since, report>>

PageChanges ==
    /\ page' \in Contents \ {page}
    /\ UNCHANGED <<pc, run, ledger, newest, pause, starts, attempts, since, report>>

\* Another client has the seller read the page.
OtherLooks ==
    /\ Others
    /\ AddSnapshot
    /\ UNCHANGED <<pc, run, ledger, page, pause, starts, attempts, since, report>>

Answer == Blocked \/ Settled \/ Doubt \/ Notified \/ WebhookFails

Next ==
    \/ Start \/ Submit \/ Answer \/ Wake
    \/ Tick \/ Killed \/ PageChanges \/ OtherLooks \/ PriceChanges
    \/ \E due \in late : LateWork(due)

Spec == Init /\ [][Next]_vars

\* Every request of the process has a timeout, and it wakes up.
Fairness == WF_vars(Submit \/ Answer) /\ WF_vars(Wake) /\ WF_vars(Tick)
FairSpec == Spec /\ Fairness

-----------------------------------------------------------------------------
(* Properties *)

TypeOK ==
    /\ pc \in {"off", "call", "paying", "notify", "sleep"}
    /\ run \in 0..MaxRuns
    /\ {price, quote} \subseteq Prices /\ late \subseteq inDoubt /\ inDoubt \subseteq Prices
    /\ page \in Contents /\ newest \in Contents \cup {None}
    /\ pause \in 0..Interval
    /\ since \in 0..Interval
    /\ attempts \in 0..run
    /\ report.changed \in BOOLEAN

\* The watch reports a change between two of its answers exactly when the page
\* differs, however long ago and in whatever process the earlier answer came, as
\* long as its ledger has no payment in doubt besides the one answered.
ReportsChanges ==
    report.before # None /\ report.clear => (report.changed <=> report.before # report.at)

\* Without the exception: a payment in doubt at one price may have moved the
\* baseline of the answer that is paid at another.
ReportsEveryChange ==
    report.before # None => (report.changed <=> report.before # report.at)

\* buyer_bridge.py, "automatic retry blocked for this request": after a payment
\* whose outcome is not known no watch pays for the page again.
NoPaymentInDoubt == [][inDoubt # {} => attempts' <= attempts]_vars

\* Payments of one process keep the interval, whatever happens in between.
KeepsInterval ==
    [][attempts' = attempts + 1 => since = Interval]_vars

\* However the page changes and requests fail, a watch comes to its end.
WatchEnds == pc # "off" ~> pc = "off"
=============================================================================
