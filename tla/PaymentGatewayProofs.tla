------------------------ MODULE PaymentGatewayProofs ------------------------
(***************************************************************************)
(* What the payment gateway promises, for any number of calls, ids,        *)
(* requests and authorizations and any limits.  Four inductive invariants  *)
(* build on each other: BaseInv (shape, and a row bound to its request     *)
(* behind the gate), MoneyInv (who knows of which transfer), QuotaInv      *)
(* (what the advisory lock protects) and, for clients that keep one call   *)
(* per id in flight, AloneInv (nobody else writes the row).                *)
(***************************************************************************)
EXTENDS PaymentGateway, FiniteSums

-----------------------------------------------------------------------------
(* Type correctness *)

\* A call that presents a signature has a request.
Presented ==
    \A c \in Calls : pc[c] \notin {"idle", "challenged", "invalid"} => req[c] \in Request

\* Behind the gate its payment id is bound to its request.
Bound ==
    \A c \in Calls : pc[c] \in AtSdk \cup AtBook => Exists(c) /\ RowOf(c).fp = req[c].fp

BaseInv == TypeOK /\ Presented /\ Bound

\* What is left of a row whose status columns are assigned.
LEMMA AssignEffect ==
    ASSUME TypeOK, NEW c \in Calls, req[c] \in Request, Exists(c),
           NEW verify \in VerifyStatus \cup {local[c].verify}, NEW settle \in SettleStatus
    PROVE  LET row == AssignStatus(c, verify, settle)
           IN  /\ row \in Row
               /\ row.fp = RowOf(c).fp
               /\ row.amount = RowOf(c).amount
               /\ row.day = RowOf(c).day
               /\ row.tx = RowOf(c).tx
               /\ row.body = RowOf(c).body
               /\ row.settle = IF local[c].settle = settle THEN RowOf(c).settle ELSE settle
<1>1. RowOf(c) \in Row
  BY DEF TypeOK, RowOf, Exists, Request
<1>2. Assign(local[c].verify, verify, RowOf(c).verify) \in VerifyStatus
  BY <1>1 DEF Assign, Row
<1>3. Assign(local[c].settle, settle, RowOf(c).settle) \in SettleStatus
  BY <1>1 DEF Assign, Row
<1> QED BY <1>1, <1>2, <1>3 DEF AssignStatus, Assign, Row

LEMMA BaseInit == Init => BaseInv
<1> SUFFICES ASSUME Init PROVE BaseInv
  OBVIOUS
<1> USE DEF Init
<1>1. rows \in [PaymentIds -> Row \cup {NoRow}]
  OBVIOUS
<1>2. req \in [Calls -> Request \cup {NoRequest}] /\ chain \in [Auths -> Calls \cup {None}]
  OBVIOUS
<1>3. pc \in [Calls -> {"idle"} \cup InFlight \cup Answer] /\ Presented /\ Bound
  BY DEF Presented, Bound, AtSdk, AtBook
<1>4. local \in [Calls -> Local]
  BY DEF Local, Fresh
<1>5. attempts \subseteq Attempt /\ quotaLock \in Calls \cup {None}
  OBVIOUS
<1>6. pauses \in Nat /\ day \in Nat \ {0}
  OBVIOUS
<1>7. paused \in BOOLEAN
  BY Zenon
<1> HIDE DEF Init
<1> QED BY <1>1, <1>2, <1>3, <1>4, <1>5, <1>6, <1>7 DEF BaseInv, TypeOK

\* Steps that neither write a row nor move money.
LEMMA QuietBase ==
    ASSUME BaseInv, NEW c \in Calls,
           \/ ArriveUnsigned(c) \/ ArriveUndecodable(c) \/ RefusePaused(c) \/ PassPauseCheck(c)
           \/ RefuseMismatch(c) \/ ReplayStored(c) \/ ResumeExisting(c) \/ BeginReservation(c)
           \/ LockQuota(c) \/ AdmitQuota(c) \/ RefuseOverQuota(c) \/ RefuseBusy(c)
           \/ VerifyAccepted(c) \/ VerifyRefused(c) \/ OperationSucceeds(c) \/ OperationFails(c)
           \/ SettleRefused(c) \/ RecordSettlementAttempt(c) \/ Abort(c)
    PROVE  BaseInv'
<1> USE DEF BaseInv, TypeOK
<1>1. \/ attempts' = attempts
      \/ \E kind \in {"challenge", "verify", "settlement"}, ok \in BOOLEAN : Note(c, kind, ok)
  BY Zenon DEF ArriveUnsigned, ArriveUndecodable, RefusePaused, PassPauseCheck, RefuseMismatch,
     ReplayStored, ResumeExisting, BeginReservation, LockQuota, AdmitQuota, RefuseOverQuota,
     RefuseBusy, VerifyAccepted, VerifyRefused, OperationSucceeds, OperationFails, SettleRefused,
     RecordSettlementAttempt, Abort
<1>2. quotaLock' \in Calls \cup {None}
  BY DEF ArriveUnsigned, ArriveUndecodable, RefusePaused, PassPauseCheck, RefuseMismatch,
     ReplayStored, ResumeExisting, BeginReservation, LockQuota, AdmitQuota, RefuseOverQuota,
     RefuseBusy, VerifyAccepted, VerifyRefused, OperationSucceeds, OperationFails, SettleRefused,
     RecordSettlementAttempt, Abort, ReleaseQuotaLock
<1>3. \/ local' = local
      \/ local' = [local EXCEPT ![c] = Fresh]
      \/ \E outcome \in Outcome : local' = [local EXCEPT ![c] = [Fresh EXCEPT !.outcome = outcome]]
  BY DEF ArriveUnsigned, ArriveUndecodable, RefusePaused, PassPauseCheck, RefuseMismatch,
     ReplayStored, ResumeExisting, BeginReservation, LockQuota, AdmitQuota, RefuseOverQuota,
     RefuseBusy, VerifyAccepted, VerifyRefused, OperationSucceeds, OperationFails, SettleRefused,
     RecordSettlementAttempt, Abort, Finish, Returned, Outcome
<1>4. pc' \in [Calls -> {"idle"} \cup InFlight \cup Answer] /\ Presented'
  BY DEF ArriveUnsigned, ArriveUndecodable, RefusePaused, PassPauseCheck, RefuseMismatch,
     ReplayStored, ResumeExisting, BeginReservation, LockQuota, AdmitQuota, RefuseOverQuota,
     RefuseBusy, VerifyAccepted, VerifyRefused, OperationSucceeds, OperationFails, SettleRefused,
     RecordSettlementAttempt, Abort, Finish, Returned, Goto, Presented,
     InFlight, AtGate, AtSdk, AtBook, Answer
<1>5. UNCHANGED <<rows, chain, paused, pauses, day, req>>
  BY DEF ArriveUnsigned, ArriveUndecodable, RefusePaused, PassPauseCheck, RefuseMismatch,
     ReplayStored, ResumeExisting, BeginReservation, LockQuota, AdmitQuota, RefuseOverQuota,
     RefuseBusy, VerifyAccepted, VerifyRefused, OperationSucceeds, OperationFails, SettleRefused,
     RecordSettlementAttempt, Abort
<1>6. attempts' \subseteq Attempt
  BY <1>1 DEF Note, Attempt
<1>7. local' \in [Calls -> Local]
  BY <1>3 DEF Local, Fresh
<1>8. Bound'
  <2>1. \/ pc'[c] \notin AtSdk \cup AtBook
        \/ pc[c] \in AtSdk \cup AtBook
        \/ Exists(c) /\ RowOf(c).fp = req[c].fp
    BY DEF ArriveUnsigned, ArriveUndecodable, RefusePaused, PassPauseCheck, RefuseMismatch,
       ReplayStored, ResumeExisting, BeginReservation, LockQuota, AdmitQuota, RefuseOverQuota,
       RefuseBusy, VerifyAccepted, VerifyRefused, OperationSucceeds, OperationFails, SettleRefused,
       RecordSettlementAttempt, Abort, Finish, Returned, Goto, AtSdk, AtBook
  <2>2. \A d \in Calls \ {c} : pc'[d] = pc[d]
    BY DEF ArriveUnsigned, ArriveUndecodable, RefusePaused, PassPauseCheck, RefuseMismatch,
       ReplayStored, ResumeExisting, BeginReservation, LockQuota, AdmitQuota, RefuseOverQuota,
       RefuseBusy, VerifyAccepted, VerifyRefused, OperationSucceeds, OperationFails, SettleRefused,
       RecordSettlementAttempt, Abort, Finish, Returned, Goto
  <2> QED BY <1>5, <2>1, <2>2 DEF Bound, Exists, RowOf
<1> QED BY <1>2, <1>4, <1>5, <1>6, <1>7, <1>8

LEMMA ArriveBase ==
    ASSUME BaseInv, NEW c \in Calls, ArriveSigned(c)
    PROVE  BaseInv'
<1> USE DEF BaseInv, TypeOK, ArriveSigned
<1>1. PICK p \in PaymentIds, f \in Fingerprints, a \in Auths :
        req' = [req EXCEPT ![c] = [pid |-> p, fp |-> f, auth |-> a]]
  BY GatewayAssumption
<1>2. req' \in [Calls -> Request \cup {NoRequest}] /\ req'[c] \in Request
  BY <1>1 DEF Request
<1>3. pc' = [pc EXCEPT ![c] = "pauseCheck"]
  BY DEF Goto
<1>4. pc' \in [Calls -> {"idle"} \cup InFlight \cup Answer] /\ Presented'
  BY <1>1, <1>2, <1>3 DEF Presented, InFlight, AtGate
<1>5. Bound'
  BY <1>1, <1>3 DEF Bound, Exists, RowOf, AtSdk, AtBook
<1>6. UNCHANGED <<rows, attempts, chain, quotaLock, paused, pauses, day, local>>
  OBVIOUS
<1> HIDE DEF ArriveSigned
<1> QED BY <1>2, <1>4, <1>5, <1>6

LEMMA CountUsageBase ==
    ASSUME BaseInv, NEW c \in Calls, CountUsage(c)
    PROVE  BaseInv'
<1> USE DEF BaseInv, TypeOK
<1>1. Cardinality(ReservedOn(day)) \in Nat
  <2>1. ReservedOn(day) \in SUBSET PaymentIds
    BY DEF ReservedOn
  <2> QED BY <2>1, GatewayAssumption, FS_Subset, FS_CardinalityType
<1>2. local' = [local EXCEPT ![c] = [@ EXCEPT !.count = Cardinality(ReservedOn(day)), !.day = day]]
  BY DEF CountUsage
<1>3. local' \in [Calls -> Local]
  BY <1>1, <1>2 DEF Local
<1>4. pc[c] = "countUsage" /\ pc' = [pc EXCEPT ![c] = "sumUsage"]
  BY DEF CountUsage, Goto
<1>5. pc' \in [Calls -> {"idle"} \cup InFlight \cup Answer]
  BY <1>4 DEF InFlight, AtGate
<1>6. UNCHANGED <<rows, attempts, chain, quotaLock, paused, pauses, day, req>>
  BY DEF CountUsage
<1>7. Presented' /\ Bound'
  BY <1>4, <1>6 DEF Presented, Bound, Exists, RowOf, AtSdk, AtBook
<1> QED BY <1>3, <1>5, <1>6, <1>7

LEMMA ReserveBase ==
    ASSUME BaseInv, NEW c \in Calls, Reserve(c)
    PROVE  BaseInv'
<1> USE DEF BaseInv, TypeOK
<1> DEFINE p == req[c].pid
           row == [fp |-> req[c].fp, amount |-> AmountOf[req[c].auth], day |-> day,
                   verify |-> "pending", settle |-> "pending", tx |-> None, body |-> None]
<1>1. pc[c] = "reserve" /\ pc' = [pc EXCEPT ![c] = "verify"]
  BY DEF Reserve, Goto
<1>2. req[c] \in Request /\ AmountOf[req[c].auth] \in Nat
  BY <1>1, GatewayAssumption DEF Presented, Request
<1>3. row \in Row /\ row # NoRow
  BY <1>2 DEF Row, NoRow, Request, VerifyStatus, SettleStatus
<1>4. rows[p] = NoRow /\ rows' = [rows EXCEPT ![p] = row]
  BY DEF Reserve, Exists, RowOf
<1>5. p \in PaymentIds /\ row.fp = req[c].fp
  BY <1>2 DEF Request
<1> HIDE DEF row
<1>6. rows' \in [PaymentIds -> Row \cup {NoRow}] /\ rows'[p] = row
  BY <1>3, <1>4, <1>5
<1>7. quotaLock' \in Calls \cup {None}
  BY DEF Reserve, ReleaseQuotaLock
<1>8. UNCHANGED <<attempts, chain, paused, pauses, day, req, local>>
  BY DEF Reserve
<1>9. pc' \in [Calls -> {"idle"} \cup InFlight \cup Answer] /\ Presented'
  BY <1>1, <1>2, <1>8 DEF Presented, InFlight, AtSdk
<1>10. Bound'
  <2> SUFFICES ASSUME NEW d \in Calls, pc'[d] \in AtSdk \cup AtBook
               PROVE  Exists(d)' /\ RowOf(d)'.fp = req'[d].fp
    BY DEF Bound
  <2>1. CASE d = c
    BY <1>3, <1>5, <1>6, <1>8, <2>1 DEF Exists, RowOf
  <2>2. CASE d # c
    <3>1. Exists(d) /\ RowOf(d).fp = req[d].fp
      BY <1>1, <2>2 DEF Bound
    <3>2. req[d].pid # p /\ rows'[req[d].pid] = rows[req[d].pid]
      BY <1>4, <3>1 DEF Exists, RowOf
    <3> QED BY <1>8, <3>1, <3>2 DEF Exists, RowOf
  <2> QED BY <2>1, <2>2
<1> QED BY <1>6, <1>7, <1>8, <1>9, <1>10

LEMMA MoneyBase ==
    ASSUME BaseInv, NEW c \in Calls, SettleMoves(c) \/ AbortAfterSettlement(c)
    PROVE  BaseInv'
<1> USE DEF BaseInv, TypeOK
<1>1. pc[c] = "settle" /\ chain' = [chain EXCEPT ![req[c].auth] = c]
  BY DEF SettleMoves, AbortAfterSettlement
<1>2. chain' \in [Auths -> Calls \cup {None}]
  BY <1>1
<1>3. \/ pc' = [pc EXCEPT ![c] = "aborted"] /\ local' = [local EXCEPT ![c] = Fresh]
      \/ /\ pc' = [pc EXCEPT ![c] = "reload"]
         /\ \E outcome \in Outcome :
              local' = [local EXCEPT ![c] = [Fresh EXCEPT !.outcome = outcome]]
  BY DEF SettleMoves, AbortAfterSettlement, Returned, Finish, Outcome
<1>4. local' \in [Calls -> Local]
  BY <1>3 DEF Local, Fresh
<1>5. UNCHANGED <<rows, attempts, quotaLock, paused, pauses, day, req>>
  BY DEF SettleMoves, AbortAfterSettlement
<1>6. pc' \in [Calls -> {"idle"} \cup InFlight \cup Answer] /\ Presented'
  BY <1>1, <1>3, <1>5 DEF Presented, InFlight, AtBook, Answer
<1>7. Bound'
  BY <1>1, <1>3, <1>5 DEF Bound, Exists, RowOf, AtSdk, AtBook
<1> QED BY <1>2, <1>4, <1>5, <1>6, <1>7

Recording(c) == RecordSettled(c) \/ RecordUnreadable(c) \/ RecordNotSettled(c)

\* Recording an answer writes the row of the call's id and leaves what the row
\* was reserved for.
LEMMA RecordEffect ==
    ASSUME BaseInv, NEW c \in Calls, Recording(c)
    PROVE  /\ req[c] \in Request /\ Exists(c)
           /\ \E row \in Row :
                /\ rows' = [rows EXCEPT ![req[c].pid] = row]
                /\ row.fp = RowOf(c).fp
                /\ row.amount = RowOf(c).amount
                /\ row.day = RowOf(c).day
<1>1. pc[c] = "record" /\ TypeOK
  BY DEF Recording, RecordSettled, RecordUnreadable, RecordNotSettled, Goto, BaseInv
<1>2. req[c] \in Request /\ Exists(c)
  BY <1>1 DEF BaseInv, Presented, Bound, AtBook
<1>3. CASE RecordSettled(c)
  <2> DEFINE base == AssignStatus(c, "success", "success")
             row == [base EXCEPT !.tx = req[c].auth, !.body = req[c].fp]
  <2>1. /\ base \in Row
        /\ base.fp = RowOf(c).fp
        /\ base.amount = RowOf(c).amount
        /\ base.day = RowOf(c).day
    BY <1>1, <1>2, AssignEffect DEF VerifyStatus, SettleStatus
  <2>2. rows' = [rows EXCEPT ![req[c].pid] = row]
    BY <1>3 DEF RecordSettled
  <2> HIDE DEF base
  <2>3. /\ row \in Row
        /\ row.fp = RowOf(c).fp
        /\ row.amount = RowOf(c).amount
        /\ row.day = RowOf(c).day
    BY <1>2, <2>1 DEF Row, Request
  <2> QED BY <1>2, <2>2, <2>3
<1>4. CASE RecordUnreadable(c)
  <2> DEFINE row == AssignStatus(c, local[c].verify, "failure")
  <2>1. /\ row \in Row
        /\ row.fp = RowOf(c).fp
        /\ row.amount = RowOf(c).amount
        /\ row.day = RowOf(c).day
    BY <1>1, <1>2, AssignEffect DEF VerifyStatus, SettleStatus
  <2>2. rows' = [rows EXCEPT ![req[c].pid] = row]
    BY <1>4 DEF RecordUnreadable
  <2> QED BY <1>2, <2>1, <2>2
<1>5. CASE RecordNotSettled(c)
  <2> DEFINE row == AssignStatus(c, "failure", "not_settled")
  <2>1. /\ row \in Row
        /\ row.fp = RowOf(c).fp
        /\ row.amount = RowOf(c).amount
        /\ row.day = RowOf(c).day
    BY <1>1, <1>2, AssignEffect DEF VerifyStatus, SettleStatus
  <2>2. rows' = [rows EXCEPT ![req[c].pid] = row]
    BY <1>5 DEF RecordNotSettled
  <2> QED BY <1>2, <2>1, <2>2
<1> QED BY <1>3, <1>4, <1>5 DEF Recording

LEMMA RecordBase ==
    ASSUME BaseInv, NEW c \in Calls, Recording(c)
    PROVE  BaseInv'
<1> USE DEF BaseInv, TypeOK
<1> DEFINE p == req[c].pid
<1>1. PICK row \in Row :
        /\ rows' = [rows EXCEPT ![p] = row]
        /\ row.fp = RowOf(c).fp
  BY RecordEffect
<1>2. req[c] \in Request /\ p \in PaymentIds /\ row # NoRow
  BY RecordEffect DEF Request, Row, NoRow, VerifyStatus
<1>3. rows' \in [PaymentIds -> Row \cup {NoRow}] /\ rows'[p] = row
  BY <1>1, <1>2
<1>4. pc[c] = "record" /\ \E to \in {"recordSettlement"} \cup Answer : pc' = [pc EXCEPT ![c] = to]
  <2>1. CASE RecordSettled(c)
    BY <2>1 DEF RecordSettled, Goto
  <2>2. CASE RecordUnreadable(c)
    BY <2>2 DEF RecordUnreadable, Finish, Answer
  <2>3. CASE RecordNotSettled(c)
    BY <2>3 DEF RecordNotSettled, Finish, Answer
  <2> QED BY <2>1, <2>2, <2>3 DEF Recording
<1>5. local' = local \/ local' = [local EXCEPT ![c] = Fresh]
  BY DEF Recording, RecordSettled, RecordUnreadable, RecordNotSettled, Finish
<1>6. \E kind \in {"challenge", "verify", "settlement"}, ok \in BOOLEAN : Note(c, kind, ok)
  BY Zenon DEF Recording, RecordSettled, RecordUnreadable, RecordNotSettled
<1>7. UNCHANGED <<chain, quotaLock, paused, pauses, day, req>>
  BY DEF Recording, RecordSettled, RecordUnreadable, RecordNotSettled
<1>8. pc' \in [Calls -> {"idle"} \cup InFlight \cup Answer] /\ Presented'
  BY <1>2, <1>4, <1>7 DEF Presented, InFlight, AtBook, Answer
<1>9. local' \in [Calls -> Local] /\ attempts' \subseteq Attempt
  BY <1>5, <1>6 DEF Local, Fresh, Note, Attempt
<1>10. Bound'
  <2> SUFFICES ASSUME NEW d \in Calls, pc'[d] \in AtSdk \cup AtBook
               PROVE  Exists(d)' /\ RowOf(d)'.fp = req'[d].fp
    BY DEF Bound
  <2>1. Exists(d) /\ RowOf(d).fp = req[d].fp /\ req[d].pid \in PaymentIds
    <3>1. pc[d] \in AtSdk \cup AtBook
      BY <1>4 DEF AtBook
    <3> QED BY <3>1 DEF Bound, Presented, AtSdk, AtBook, Request
  <2>2. CASE req[d].pid = p
    BY <1>1, <1>2, <1>3, <1>7, <2>1, <2>2 DEF Exists, RowOf
  <2>3. CASE req[d].pid # p
    BY <1>1, <1>7, <2>1, <2>3 DEF Exists, RowOf
  <2> QED BY <2>2, <2>3
<1> QED BY <1>3, <1>7, <1>8, <1>9, <1>10

LEMMA ReloadBase ==
    ASSUME BaseInv, NEW c \in Calls, Reload(c)
    PROVE  BaseInv'
<1> USE DEF BaseInv, TypeOK
<1>1. pc[c] = "reload" /\ pc' = [pc EXCEPT ![c] = "record"]
  BY DEF Reload, Goto
<1>2. local' = [local EXCEPT ![c] =
                 [@ EXCEPT !.verify = RowOf(c).verify, !.settle = RowOf(c).settle]]
  BY DEF Reload
<1>3. RowOf(c) \in Row
  BY <1>1 DEF Bound, Presented, AtBook, Request, Exists, RowOf
<1>4. RowOf(c).verify \in VerifyStatus /\ RowOf(c).settle \in SettleStatus
  BY <1>3 DEF Row
<1>5. local' \in [Calls -> Local]
  BY <1>2, <1>4 DEF Local
<1>6. UNCHANGED <<rows, attempts, chain, quotaLock, paused, pauses, day, req>>
  BY DEF Reload
<1>7. pc' \in [Calls -> {"idle"} \cup InFlight \cup Answer]
  BY <1>1 DEF InFlight, AtBook
<1>8. Presented' /\ Bound'
  BY <1>1, <1>6 DEF Presented, Bound, Exists, RowOf, AtSdk, AtBook
<1> QED BY <1>5, <1>6, <1>7, <1>8

LEMMA AroundBase ==
    ASSUME BaseInv, OwnerPauses \/ OwnerResumes \/ Midnight \/ UNCHANGED vars
    PROVE  BaseInv'
<1> USE DEF BaseInv, TypeOK
<1>1. UNCHANGED <<rows, attempts, chain, quotaLock, req, pc, local>>
  BY DEF OwnerPauses, OwnerResumes, Midnight, vars
<1>2. pauses' \in Nat /\ day' \in Nat \ {0}
  BY DEF OwnerPauses, OwnerResumes, Midnight, vars
<1>3. paused' \in BOOLEAN
  BY Zenon DEF OwnerPauses, OwnerResumes, Midnight, vars
<1>4. Presented' /\ Bound'
  BY <1>1 DEF Presented, Bound, Exists, RowOf
<1> QED BY <1>1, <1>2, <1>3, <1>4, Zenon

LEMMA BaseStep == BaseInv /\ [Next]_vars => BaseInv'
<1> SUFFICES ASSUME BaseInv, [Next]_vars PROVE BaseInv'
  OBVIOUS
<1>1. ASSUME NEW c \in Calls, Arrive(c) \/ Progress(c) \/ Abort(c) \/ AbortAfterSettlement(c)
      PROVE  BaseInv'
  <2>1. CASE Arrive(c)
    BY <2>1, ArriveBase, QuietBase DEF Arrive
  <2>2. CASE Gate(c)
    BY <2>2, QuietBase, CountUsageBase, ReserveBase DEF Gate
  <2>3. CASE Sdk(c)
    BY <2>3, QuietBase, MoneyBase DEF Sdk
  <2>4. CASE Booking(c)
    BY <2>4, QuietBase, ReloadBase, RecordBase DEF Booking, Recording
  <2> QED BY <1>1, <2>1, <2>2, <2>3, <2>4, QuietBase, MoneyBase DEF Progress
<1> QED BY <1>1, AroundBase DEF Next

LEMMA BaseAlways == Spec => []BaseInv
BY BaseInit, BaseStep, PTL DEF Spec

\* Every variable keeps its shape.
THEOREM TypeCorrect == Spec => []TypeOK
<1>1. BaseInv => TypeOK
  BY DEF BaseInv
<1> QED BY <1>1, BaseAlways, PTL

-----------------------------------------------------------------------------
(* What lasts *)

\* A call is presented once, money moves once, a row stays reserved for what it
\* was reserved for, and attempts are only added.
Lasting ==
    /\ \A c \in Calls : pc[c] # "idle" => pc'[c] # "idle" /\ req'[c] = req[c]
    /\ \A a \in Auths : chain[a] # None => chain'[a] = chain[a]
    /\ \A p \in PaymentIds : rows[p] # NoRow =>
        /\ rows'[p] # NoRow
        /\ rows'[p].fp = rows[p].fp
        /\ rows'[p].amount = rows[p].amount
        /\ rows'[p].day = rows[p].day
    /\ attempts \subseteq attempts'

Act(c) == Arrive(c) \/ Progress(c) \/ Abort(c) \/ AbortAfterSettlement(c)

\* What the steps of a call leave alone, by the variable they write.
LEMMA Frame ==
    ASSUME TypeOK, NEW c \in Calls, Act(c)
    PROVE  /\ req' = req \/ ArriveSigned(c)
           /\ chain' = chain \/ SettleMoves(c) \/ AbortAfterSettlement(c)
           /\ rows' = rows \/ Reserve(c) \/ Recording(c)
           /\ attempts' = attempts
              \/ ArriveUnsigned(c) \/ ArriveUndecodable(c) \/ RefuseMismatch(c)
              \/ RecordSettlementAttempt(c) \/ Recording(c)
           /\ UNCHANGED <<paused, pauses, day>>
           /\ \A d \in Calls \ {c} : pc'[d] = pc[d] /\ local'[d] = local[d]
           /\ pc[c] \notin Answer /\ pc'[c] # "idle"
<1> USE DEF Act, TypeOK, Recording
<1>1. CASE Arrive(c)
  BY <1>1 DEF Arrive, ArriveSigned, ArriveUnsigned, ArriveUndecodable, Goto, Answer
<1>2. CASE Gate(c)
  BY <1>2 DEF Gate, RefusePaused, PassPauseCheck, RefuseMismatch, ReplayStored, ResumeExisting,
     BeginReservation, LockQuota, CountUsage, AdmitQuota, RefuseOverQuota, Reserve, RefuseBusy,
     Goto, Finish, Answer
<1>3. CASE Sdk(c)
  BY <1>3 DEF Sdk, VerifyAccepted, VerifyRefused, OperationSucceeds, OperationFails, SettleMoves,
     SettleRefused, Goto, Returned, Answer
<1>4. CASE RecordSettled(c) \/ RecordSettlementAttempt(c) \/ RecordUnreadable(c) \/ Reload(c)
  BY <1>4 DEF RecordSettled, RecordSettlementAttempt, RecordUnreadable, Reload,
     Goto, Finish, Answer
<1>5. CASE RecordNotSettled(c)
  BY <1>5 DEF RecordNotSettled, Finish, Answer
<1>6. CASE Abort(c) \/ AbortAfterSettlement(c)
  BY <1>6 DEF Abort, AbortAfterSettlement, Finish, Answer, InFlight, AtGate, AtSdk, AtBook
<1> HIDE DEF TypeOK, Recording
<1> QED BY <1>1, <1>2, <1>3, <1>4, <1>5, <1>6 DEF Progress, Booking

LEMMA ActLasts ==
    ASSUME BaseInv, NEW c \in Calls, Act(c)
    PROVE  Lasting
<1>0. TypeOK
  BY DEF BaseInv
<1>1. \A d \in Calls : pc[d] # "idle" => pc'[d] # "idle" /\ req'[d] = req[d]
  <2>1. req' = req \/ (pc[c] = "idle" /\ \A d \in Calls \ {c} : req'[d] = req[d])
    BY <1>0, Frame DEF ArriveSigned, Goto, TypeOK
  <2> QED BY <1>0, <2>1, Frame
<1>2. \A a \in Auths : chain[a] # None => chain'[a] = chain[a]
  BY <1>0, Frame DEF SettleMoves, AbortAfterSettlement, TypeOK
<1>3. \A p \in PaymentIds : rows[p] # NoRow =>
        /\ rows'[p] # NoRow
        /\ rows'[p].fp = rows[p].fp
        /\ rows'[p].amount = rows[p].amount
        /\ rows'[p].day = rows[p].day
  <2>1. CASE rows' = rows
    BY <2>1
  <2>2. CASE Reserve(c)
    BY <1>0, <2>2 DEF Reserve, Exists, RowOf, TypeOK
  <2>3. CASE Recording(c)
    <3>1. PICK row \in Row :
            /\ rows' = [rows EXCEPT ![req[c].pid] = row]
            /\ row.fp = RowOf(c).fp
            /\ row.amount = RowOf(c).amount
            /\ row.day = RowOf(c).day
      BY <2>3, RecordEffect
    <3>2. row # NoRow
      BY DEF Row, NoRow, VerifyStatus
    <3> QED BY <1>0, <3>1, <3>2 DEF RowOf, TypeOK
  <2> QED BY <1>0, <2>1, <2>2, <2>3, Frame
<1>4. attempts \subseteq attempts'
  BY <1>0, Frame DEF ArriveUnsigned, ArriveUndecodable, RefuseMismatch, RecordSettlementAttempt,
     Recording, RecordSettled, RecordUnreadable, RecordNotSettled, Note
<1> QED BY <1>1, <1>2, <1>3, <1>4 DEF Lasting

LEMMA StepLasts == BaseInv /\ [Next]_vars => Lasting
<1> SUFFICES ASSUME BaseInv, [Next]_vars PROVE Lasting
  OBVIOUS
<1>1. CASE OwnerPauses \/ OwnerResumes \/ Midnight \/ UNCHANGED vars
  BY <1>1 DEF OwnerPauses, OwnerResumes, Midnight, vars, Lasting
<1> QED BY <1>1, ActLasts DEF Next, Act

\* Once a payment id is reserved for a request it stays bound to it, with the
\* amount and the day of the reservation, through races, retries and crashes.
THEOREM IdStaysBound == Spec => IdBoundForever
<1>1. Lasting => \A p \in PaymentIds : rows[p] # NoRow =>
        /\ rows'[p].fp = rows[p].fp
        /\ rows'[p].amount = rows[p].amount
        /\ rows'[p].day = rows[p].day
  BY DEF Lasting
<1> QED BY <1>1, BaseAlways, StepLasts, PTL DEF Spec, IdBoundForever

-----------------------------------------------------------------------------
(* Money *)

\* Money moved for the authorization that the call had presented.
ByItsCall ==
    \A a \in Auths : chain[a] # None =>
        pc[chain[a]] # "idle" /\ req[chain[a]] \in Request /\ req[chain[a]].auth = a

\* A call that was told of a settlement has made it.
ToldTruly ==
    \A c \in Calls :
        /\ local[c].outcome # None => pc[c] \in AtBook
        /\ pc[c] = "recordSettlement" => local[c].outcome = "settled"
        /\ local[c].outcome = "settled" \/ pc[c] = "paid" =>
            req[c] \in Request /\ chain[req[c].auth] = c

\* A settled row names a transfer made under its own id for its own request,
\* and holds the response.
RowsBacked ==
    \A p \in PaymentIds : rows[p].settle = "success" =>
        /\ rows[p].tx \in Auths /\ rows[p].body # None
        /\ chain[rows[p].tx] # None
        /\ req[chain[rows[p].tx]].pid = p
        /\ req[chain[rows[p].tx]].fp = rows[p].fp

MoneyInv == ByItsCall /\ ToldTruly /\ RowsBacked /\ PaidDelivery

LEMMA MoneyInit == Init => MoneyInv
<1> SUFFICES ASSUME Init PROVE MoneyInv
  OBVIOUS
<1>1. ByItsCall /\ ToldTruly /\ PaidDelivery
  BY NullAssumption DEF Init, ByItsCall, ToldTruly, PaidDelivery, Fresh, Outcome
<1>2. RowsBacked
  BY DEF Init, RowsBacked, NoRow
<1> QED BY <1>1, <1>2 DEF MoneyInv

\* What the step of a call does to what it was told.
LEMMA Telling ==
    ASSUME BaseInv, NEW c \in Calls, Act(c)
    PROVE  \/ /\ local'[c].outcome = local[c].outcome
              /\ pc'[c] \notin {"recordSettlement", "paid"}
              /\ pc[c] \in AtBook => pc'[c] \in AtBook
           \/ local'[c].outcome = None /\ pc'[c] \notin {"recordSettlement", "paid"}
           \/ /\ pc'[c] = "reload"
              /\ local'[c].outcome \in {"refused", "unreadable", "failed"}
           \/ SettleMoves(c) /\ pc'[c] = "reload"
           \/ /\ RecordSettled(c) /\ pc'[c] = "recordSettlement"
              /\ local'[c].outcome = "settled" /\ local[c].outcome = "settled"
           \/ RecordSettlementAttempt(c) /\ pc'[c] = "paid" /\ local'[c].outcome = None
<1> USE DEF Act, TypeOK, BaseInv, Fresh, AtBook
<1>1. CASE Arrive(c)
  BY <1>1 DEF Arrive, ArriveSigned, ArriveUnsigned, ArriveUndecodable, Goto
<1>2. CASE Gate(c) /\ ~CountUsage(c)
  <2>1. CASE RefusePaused(c) \/ PassPauseCheck(c) \/ RefuseMismatch(c) \/ ReplayStored(c)
    <3>1. \/ local' = local /\ pc[c] = "pauseCheck" /\ pc' = [pc EXCEPT ![c] = "lookup"]
          \/ /\ local' = [local EXCEPT ![c] = Fresh]
             /\ \E to \in {"paused", "mismatch", "replayed"} : pc' = [pc EXCEPT ![c] = to]
      BY <2>1, Zenon DEF RefusePaused, PassPauseCheck, RefuseMismatch, ReplayStored, Goto, Finish
    <3> QED BY <3>1
  <2>2. CASE \/ ResumeExisting(c) \/ BeginReservation(c) \/ LockQuota(c) \/ AdmitQuota(c)
             \/ RefuseOverQuota(c) \/ Reserve(c) \/ RefuseBusy(c)
    BY <2>2 DEF ResumeExisting, BeginReservation, LockQuota, AdmitQuota, RefuseOverQuota,
       Reserve, RefuseBusy, Goto, Finish
  <2> QED BY <1>2, <2>1, <2>2 DEF Gate
<1>3. CASE CountUsage(c)
  BY <1>3 DEF CountUsage, Goto, Local
<1>4. CASE Sdk(c)
  <2>1. CASE VerifyAccepted(c) \/ OperationSucceeds(c)
    BY <2>1 DEF VerifyAccepted, OperationSucceeds, Goto
  <2>2. CASE VerifyRefused(c) \/ OperationFails(c) \/ SettleRefused(c)
    <3>1. pc' = [pc EXCEPT ![c] = "reload"]
          /\ \E outcome \in {"refused", "failed"} :
                local' = [local EXCEPT ![c] = [Fresh EXCEPT !.outcome = outcome]]
      BY <2>2, Zenon DEF VerifyRefused, OperationFails, SettleRefused, Returned
    <3> QED BY <3>1
  <2>3. CASE SettleMoves(c)
    BY <2>3 DEF SettleMoves, Returned
  <2> QED BY <1>4, <2>1, <2>2, <2>3 DEF Sdk
<1>5. CASE Reload(c)
  BY <1>5 DEF Reload, Goto, Local
<1>6. CASE RecordSettled(c) \/ RecordSettlementAttempt(c) \/ RecordUnreadable(c)
  <2>1. CASE RecordSettled(c)
    BY <2>1 DEF RecordSettled, Goto
  <2>2. CASE RecordSettlementAttempt(c)
    BY <2>2 DEF RecordSettlementAttempt, Finish
  <2>3. CASE RecordUnreadable(c)
    BY <2>3 DEF RecordUnreadable, Finish
  <2> QED BY <1>6, <2>1, <2>2, <2>3
<1>7. CASE RecordNotSettled(c)
  BY <1>7 DEF RecordNotSettled, Finish
<1>8. CASE Abort(c) \/ AbortAfterSettlement(c)
  BY <1>8 DEF Abort, AbortAfterSettlement, Finish
<1> QED BY <1>1, <1>2, <1>3, <1>4, <1>5, <1>6, <1>7, <1>8 DEF Progress, Booking

LEMMA MoneyAct ==
    ASSUME BaseInv, MoneyInv, NEW c \in Calls, Act(c)
    PROVE  MoneyInv'
<1>0. TypeOK /\ TypeOK' /\ Lasting
  <2>1. [Next]_vars
    BY DEF Act, Next
  <2> QED BY <2>1, BaseStep, ActLasts DEF BaseInv
<1>1. ByItsCall'
  <2> SUFFICES ASSUME NEW a \in Auths, chain'[a] # None
               PROVE  /\ pc'[chain'[a]] # "idle"
                      /\ req'[chain'[a]] \in Request /\ req'[chain'[a]].auth = a
    BY DEF ByItsCall
  <2>1. CASE chain[a] # None
    BY <1>0, <2>1 DEF MoneyInv, ByItsCall, Lasting, TypeOK
  <2>2. CASE chain[a] = None
    <3>1. SettleMoves(c) \/ AbortAfterSettlement(c)
      BY <1>0, <2>2, Frame
    <3>2. a = req[c].auth /\ chain'[a] = c /\ pc[c] = "settle"
      BY <1>0, <2>2, <3>1 DEF SettleMoves, AbortAfterSettlement, TypeOK
    <3>3. req[c] \in Request /\ req'[c] = req[c] /\ pc'[c] # "idle"
      BY <1>0, <3>2 DEF BaseInv, Presented, Lasting
    <3> QED BY <3>2, <3>3
  <2> QED BY <2>1, <2>2
<1>2. ToldTruly'
  <2> SUFFICES ASSUME NEW d \in Calls
               PROVE  /\ local'[d].outcome # None => pc'[d] \in AtBook
                      /\ pc'[d] = "recordSettlement" => local'[d].outcome = "settled"
                      /\ local'[d].outcome = "settled" \/ pc'[d] = "paid" =>
                          req'[d] \in Request /\ chain'[req'[d].auth] = d
    BY DEF ToldTruly
  <2>1. local[d].outcome = "settled" \/ pc[d] = "paid" =>
          req'[d] = req[d] /\ req[d] \in Request /\ chain'[req[d].auth] = d
    <3>1. SUFFICES ASSUME local[d].outcome = "settled" \/ pc[d] = "paid"
                   PROVE  req'[d] = req[d] /\ req[d] \in Request /\ chain'[req[d].auth] = d
      OBVIOUS
    <3>2. pc[d] # "idle" /\ req[d] \in Request /\ chain[req[d].auth] = d
      BY <3>1, NullAssumption DEF MoneyInv, ToldTruly, AtBook, Outcome
    <3> QED BY <1>0, <3>2, GatewayAssumption DEF Lasting, Request
  <2>2. CASE d # c
    <3>1. pc'[d] = pc[d] /\ local'[d] = local[d]
      BY <1>0, <2>2, Frame
    <3> QED BY <2>1, <3>1 DEF MoneyInv, ToldTruly
  <2>3. CASE d = c
    <3>1. CASE /\ local'[c].outcome = local[c].outcome
               /\ pc'[c] \notin {"recordSettlement", "paid"}
               /\ pc[c] \in AtBook => pc'[c] \in AtBook
      BY <2>1, <2>3, <3>1 DEF MoneyInv, ToldTruly
    <3>2. CASE local'[c].outcome = None /\ pc'[c] \notin {"recordSettlement", "paid"}
      BY <2>3, <3>2, NullAssumption DEF Outcome
    <3>3. CASE pc'[c] = "reload" /\ local'[c].outcome \in {"refused", "unreadable", "failed"}
      BY <2>3, <3>3 DEF AtBook
    <3>4. CASE SettleMoves(c) /\ pc'[c] = "reload"
      <4>1. pc[c] = "settle" /\ chain' = [chain EXCEPT ![req[c].auth] = c]
        BY <3>4 DEF SettleMoves
      <4>2. req[c] \in Request /\ req'[c] = req[c]
        BY <1>0, <4>1 DEF BaseInv, Presented, Lasting
      <4>3. chain'[req[c].auth] = c
        BY <1>0, <4>1, <4>2 DEF TypeOK, Request
      <4> QED BY <2>3, <3>4, <4>2, <4>3 DEF AtBook
    <3>5. CASE /\ RecordSettled(c) /\ pc'[c] = "recordSettlement"
               /\ local'[c].outcome = "settled" /\ local[c].outcome = "settled"
      BY <2>1, <2>3, <3>5 DEF AtBook
    <3>6. CASE RecordSettlementAttempt(c) /\ pc'[c] = "paid" /\ local'[c].outcome = None
      <4>1. local[c].outcome = "settled"
        BY <3>6 DEF RecordSettlementAttempt, MoneyInv, ToldTruly
      <4> QED BY <2>1, <2>3, <3>6, <4>1
    <3> QED BY <3>1, <3>2, <3>3, <3>4, <3>5, <3>6, Telling
  <2> QED BY <2>2, <2>3
<1>3. RowsBacked'
  <2> SUFFICES ASSUME NEW p \in PaymentIds, rows'[p].settle = "success"
               PROVE  /\ rows'[p].tx \in Auths /\ rows'[p].body # None
                      /\ chain'[rows'[p].tx] # None
                      /\ req'[chain'[rows'[p].tx]].pid = p
                      /\ req'[chain'[rows'[p].tx]].fp = rows'[p].fp
    BY DEF RowsBacked
  <2>1. CASE /\ rows[p].settle = "success" /\ rows'[p].tx = rows[p].tx
             /\ rows'[p].body = rows[p].body /\ rows'[p].fp = rows[p].fp
    <3>1. rows[p].tx \in Auths /\ rows[p].body # None /\ chain[rows[p].tx] # None
      BY <2>1 DEF MoneyInv, RowsBacked
    <3>2. chain'[rows[p].tx] = chain[rows[p].tx] /\ chain[rows[p].tx] \in Calls
      BY <1>0, <3>1 DEF Lasting, TypeOK
    <3>3. req'[chain[rows[p].tx]] = req[chain[rows[p].tx]]
      BY <1>0, <3>1, <3>2 DEF Lasting, MoneyInv, ByItsCall
    <3> QED BY <2>1, <3>1, <3>2, <3>3 DEF MoneyInv, RowsBacked
  <2>2. CASE rows'[p] = rows[p]
    BY <2>1, <2>2
  <2>3. CASE Reserve(c) /\ rows'[p] # rows[p]
    BY <1>0, <2>3 DEF Reserve, TypeOK
  <2>4. CASE Recording(c) /\ rows'[p] # rows[p]
    <3>0. req[c] \in Request /\ Exists(c)
      BY <2>4, RecordEffect
    <3>1. CASE RecordSettled(c)
      <4> DEFINE base == AssignStatus(c, "success", "success")
      <4>1. base \in Row /\ base.fp = RowOf(c).fp
        BY <1>0, <3>0, AssignEffect DEF VerifyStatus, SettleStatus
      <4>2. rows' = [rows EXCEPT ![req[c].pid] =
                      [base EXCEPT !.tx = req[c].auth, !.body = req[c].fp]]
        BY <3>1 DEF RecordSettled
      <4> HIDE DEF base
      <4>3. p = req[c].pid
        BY <1>0, <2>4, <4>2 DEF TypeOK
      <4>4. rows'[p].tx = req[c].auth /\ rows'[p].body = req[c].fp /\ rows'[p].fp = RowOf(c).fp
        BY <1>0, <4>1, <4>2, <4>3 DEF TypeOK, Row
      <4>5. pc[c] = "record" /\ local[c].outcome = "settled"
        BY <3>1 DEF RecordSettled, Goto
      <4>6. RowOf(c).fp = req[c].fp /\ req'[c] = req[c]
        BY <1>0, <4>5 DEF BaseInv, Bound, AtBook, Lasting
      <4>7. chain[req[c].auth] = c
        BY <4>5 DEF MoneyInv, ToldTruly
      <4>8. chain'[req[c].auth] = c
        BY <1>0, <3>0, <4>7, GatewayAssumption DEF Lasting, Request
      <4> QED BY <3>0, <4>3, <4>4, <4>6, <4>8, GatewayAssumption DEF Request
    <3>2. CASE RecordUnreadable(c)
      <4> DEFINE row == AssignStatus(c, local[c].verify, "failure")
      <4>1. /\ row.fp = RowOf(c).fp /\ row.tx = RowOf(c).tx /\ row.body = RowOf(c).body
            /\ row.settle = IF local[c].settle = "failure" THEN RowOf(c).settle ELSE "failure"
        BY <1>0, <3>0, AssignEffect DEF VerifyStatus, SettleStatus
      <4>2. rows' = [rows EXCEPT ![req[c].pid] = row]
        BY <3>2 DEF RecordUnreadable
      <4> HIDE DEF row
      <4> QED BY <1>0, <2>1, <2>4, <4>1, <4>2 DEF TypeOK, RowOf
    <3>3. CASE RecordNotSettled(c)
      <4> DEFINE row == AssignStatus(c, "failure", "not_settled")
      <4>1. /\ row.fp = RowOf(c).fp /\ row.tx = RowOf(c).tx /\ row.body = RowOf(c).body
            /\ row.settle = IF local[c].settle = "not_settled" THEN RowOf(c).settle
                            ELSE "not_settled"
        BY <1>0, <3>0, AssignEffect DEF VerifyStatus, SettleStatus
      <4>2. rows' = [rows EXCEPT ![req[c].pid] = row]
        BY <3>3 DEF RecordNotSettled
      <4> HIDE DEF row
      <4> QED BY <1>0, <2>1, <2>4, <4>1, <4>2 DEF TypeOK, RowOf
    <3> QED BY <2>4, <3>1, <3>2, <3>3 DEF Recording
  <2> QED BY <1>0, <2>2, <2>3, <2>4, Frame
<1>4. PaidDelivery'
  <2> SUFFICES ASSUME NEW d \in Calls, pc'[d] \in {"paid", "replayed"}
               PROVE  \E a \in Auths :
                        /\ chain'[a] # None
                        /\ req'[chain'[a]].pid = req'[d].pid
                        /\ req'[chain'[a]].fp = req'[d].fp
    BY DEF PaidDelivery
  <2>1. CASE pc'[d] = "paid"
    BY <1>2, <2>1, GatewayAssumption DEF ToldTruly, Request
  <2>2. CASE pc'[d] = "replayed" /\ pc[d] = "replayed"
    <3>1. PICK a \in Auths :
            /\ chain[a] # None
            /\ req[chain[a]].pid = req[d].pid
            /\ req[chain[a]].fp = req[d].fp
      BY <2>2 DEF MoneyInv, PaidDelivery
    <3>2. chain'[a] = chain[a] /\ req'[chain[a]] = req[chain[a]] /\ req'[d] = req[d]
      BY <1>0, <2>2, <3>1 DEF Lasting, MoneyInv, ByItsCall, TypeOK
    <3> QED BY <3>1, <3>2
  <2>3. CASE pc'[d] = "replayed" /\ pc[d] # "replayed"
    <3>1. d = c /\ ReplayStored(c)
      <4>1. d = c
        BY <1>0, <2>3, Frame
      <4>2. ~Sdk(c) /\ ~Booking(c) /\ ~Arrive(c) /\ ~Abort(c) /\ ~AbortAfterSettlement(c)
        BY <1>0, <2>3, <4>1 DEF TypeOK, Sdk, Booking, Arrive, Abort, AbortAfterSettlement,
           VerifyAccepted, VerifyRefused, OperationSucceeds, OperationFails, SettleMoves,
           SettleRefused, Reload, RecordSettled, RecordSettlementAttempt, RecordUnreadable,
           RecordNotSettled, ArriveSigned, ArriveUnsigned, ArriveUndecodable,
           Goto, Finish, Returned
      <4>3. Gate(c)
        BY <4>2 DEF Act, Progress
      <4> QED BY <1>0, <2>3, <4>1, <4>3 DEF Gate, TypeOK, RefusePaused, PassPauseCheck,
            RefuseMismatch, ResumeExisting, BeginReservation, LockQuota, CountUsage,
            AdmitQuota, RefuseOverQuota, Reserve, RefuseBusy, Goto, Finish
    <3>2. pc[c] = "lookup" /\ req[c] \in Request /\ RowOf(c).settle = "success"
          /\ RowOf(c).fp = req[c].fp
      BY <3>1 DEF ReplayStored, Replayable, BaseInv, Presented
    <3> DEFINE a == RowOf(c).tx
    <3>3. a \in Auths /\ chain[a] # None /\ req[chain[a]].pid = req[c].pid
          /\ req[chain[a]].fp = req[c].fp
      BY <3>2 DEF MoneyInv, RowsBacked, RowOf, Request
    <3> HIDE DEF a
    <3>4. chain'[a] = chain[a] /\ req'[chain[a]] = req[chain[a]] /\ req'[d] = req[d]
      BY <1>0, <3>1, <3>2, <3>3 DEF Lasting, MoneyInv, ByItsCall, TypeOK
    <3> QED BY <3>1, <3>3, <3>4
  <2> QED BY <2>1, <2>2, <2>3
<1> QED BY <1>1, <1>2, <1>3, <1>4 DEF MoneyInv

LEMMA MoneyStep == BaseInv /\ MoneyInv /\ [Next]_vars => MoneyInv'
<1> SUFFICES ASSUME BaseInv, MoneyInv, [Next]_vars PROVE MoneyInv'
  OBVIOUS
<1>1. CASE OwnerPauses \/ OwnerResumes \/ Midnight \/ UNCHANGED vars
  <2>1. UNCHANGED <<rows, chain, req, pc, local>>
    BY <1>1 DEF OwnerPauses, OwnerResumes, Midnight, vars
  <2> QED BY <2>1 DEF MoneyInv, ByItsCall, ToldTruly, RowsBacked, PaidDelivery
<1> QED BY <1>1, MoneyAct DEF Next, Act

LEMMA MoneyAlways == Spec => [](BaseInv /\ MoneyInv)
<1>1. Init => BaseInv /\ MoneyInv
  BY BaseInit, MoneyInit
<1>2. (BaseInv /\ MoneyInv) /\ [Next]_vars => (BaseInv /\ MoneyInv)'
  BY BaseStep, MoneyStep
<1> QED BY <1>1, <1>2, PTL DEF Spec

\* Revenue is money: a row that reports settlement is backed by a transfer made
\* for its own id and request, and no transfer backs two rows.
THEOREM RevenueIsMoney == Spec => []RevenueBacked
<1>1. MoneyInv => RevenueBacked
  BY GatewayAssumption DEF MoneyInv, RowsBacked, RevenueBacked
<1> QED BY <1>1, MoneyAlways, PTL

\* No paid result leaves the gateway without money for that id and request.
THEOREM NothingForFree == Spec => []PaidDelivery
<1>1. MoneyInv => PaidDelivery
  BY DEF MoneyInv
<1> QED BY <1>1, MoneyAlways, PTL

-----------------------------------------------------------------------------
(* The daily quotas *)

\* The rows of a day that count against its limits and were never given back.
Kept(d) == ReservedOn(d) \ Released

AtLimit == {"countUsage", "sumUsage", "reserve"}

\* The advisory lock covers the usage queries and the insert.
OneAtLimit == \A c \in Calls : QuotasEnabled /\ pc[c] \in AtLimit => quotaLock = c

\* A row that no longer holds quota was given back by an answer.
GivenBack ==
    /\ \A p \in PaymentIds :
        rows[p] # NoRow /\ rows[p].settle \notin {"pending", "success"} => p \in Released
    /\ \A x \in attempts : ~x.ok => pc[x.call] \in Answer

\* No row is of a day to come.
NotAhead == \A p \in PaymentIds : rows[p].day <= day

\* What a call has read of the usage still covers the day it has read it of, and
\* nothing was inserted since, on that day or a later one.
RoomLeft ==
    \A c \in Calls, d \in Nat :
        QuotasEnabled /\ pc[c] \in {"sumUsage", "reserve"} /\ local[c].day = d =>
            /\ d <= day
            /\ \A p \in PaymentIds : rows[p].day <= d
            /\ Cardinality(Kept(d)) <= local[c].count
            /\ pc[c] = "reserve" /\ SettlementQuota => local[c].count < SettlementLimit
            /\ pc[c] = "reserve" /\ RevenueQuota =>
                SumFunctionOnSet(Amounts, Kept(d)) + AmountOf[req[c].auth] <= RevenueLimit

\* The limits themselves, of every day.
WithinLimits ==
    \A d \in Nat \ {0} :
        /\ Mainnet /\ SettlementQuota => Cardinality(Kept(d)) <= SettlementLimit
        /\ Mainnet /\ RevenueQuota => SumFunctionOnSet(Amounts, Kept(d)) <= RevenueLimit

QuotaInv == OneAtLimit /\ GivenBack /\ NotAhead /\ RoomLeft /\ WithinLimits

LEMMA AmountsType ==
    ASSUME TypeOK
    PROVE  /\ Amounts \in [PaymentIds -> Nat]
           /\ \A p \in PaymentIds : Amounts[p] = rows[p].amount
BY DEF TypeOK, Amounts, Row, NoRow

LEMMA KeptType ==
    ASSUME NEW d
    PROVE  /\ Kept(d) \in SUBSET PaymentIds /\ IsFiniteSet(Kept(d))
           /\ Cardinality(Kept(d)) \in Nat
           /\ ReservedOn(d) \in SUBSET PaymentIds /\ IsFiniteSet(ReservedOn(d))
           /\ Cardinality(ReservedOn(d)) \in Nat
<1>1. Kept(d) \in SUBSET PaymentIds /\ ReservedOn(d) \in SUBSET PaymentIds
  BY DEF Kept, ReservedOn
<1> QED BY <1>1, GatewayAssumption, FS_Subset, FS_CardinalityType

LEMMA QuotaInit == Init => QuotaInv
<1> SUFFICES ASSUME Init PROVE QuotaInv
  OBVIOUS
<1>1. OneAtLimit /\ GivenBack /\ NotAhead /\ RoomLeft
  BY DEF Init, OneAtLimit, GivenBack, NotAhead, RoomLeft, AtLimit, NoRow
<1>2. \A d : Kept(d) = {}
  BY DEF Init, Kept, ReservedOn, NoRow
<1>3. WithinLimits
  BY <1>2, FS_EmptySet, SumEmpty, GatewayAssumption DEF WithinLimits
<1> QED BY <1>1, <1>3 DEF QuotaInv

\* How the step of a call moves through the quota gate.
LEMMA AtTheGate ==
    ASSUME TypeOK, NEW c \in Calls, Act(c)
    PROVE  /\ \/ quotaLock' = quotaLock
              \/ quotaLock = c
              \/ LockQuota(c)
           /\ pc'[c] \in AtLimit =>
                \/ LockQuota(c)
                \/ CountUsage(c)
                \/ AdmitQuota(c)
                \/ BeginReservation(c) /\ ~QuotasEnabled
<1> USE DEF Act, TypeOK, ReleaseQuotaLock, AtLimit
<1>1. CASE Arrive(c)
  BY <1>1 DEF Arrive, ArriveSigned, ArriveUnsigned, ArriveUndecodable, Goto
<1>2. CASE Gate(c)
  BY <1>2 DEF Gate, RefusePaused, PassPauseCheck, RefuseMismatch, ReplayStored, ResumeExisting,
     BeginReservation, LockQuota, CountUsage, AdmitQuota, RefuseOverQuota, Reserve, RefuseBusy,
     Goto, Finish
<1>3. CASE Sdk(c)
  BY <1>3 DEF Sdk, VerifyAccepted, VerifyRefused, OperationSucceeds, OperationFails, SettleMoves,
     SettleRefused, Goto, Returned
<1>4. CASE Booking(c)
  BY <1>4 DEF Booking, Reload, RecordSettled, RecordSettlementAttempt, RecordUnreadable,
     RecordNotSettled, Goto, Finish
<1>5. CASE Abort(c) \/ AbortAfterSettlement(c)
  BY <1>5 DEF Abort, AbortAfterSettlement, Finish
<1> QED BY <1>1, <1>2, <1>3, <1>4, <1>5 DEF Progress

LEMMA LockStep ==
    ASSUME TypeOK, OneAtLimit, NEW c \in Calls, Act(c)
    PROVE  OneAtLimit'
<1> SUFFICES ASSUME NEW d \in Calls, QuotasEnabled, pc'[d] \in AtLimit
             PROVE  quotaLock' = d
  BY DEF OneAtLimit, QuotasEnabled
<1>1. CASE d # c
  <2>1. quotaLock = d
    BY <1>1, Frame DEF OneAtLimit
  <2> QED BY <1>1, <2>1, AtTheGate, GatewayAssumption DEF LockQuota
<1>2. CASE d = c
  <2>1. CASE LockQuota(c)
    BY <1>2, <2>1 DEF LockQuota
  <2>2. CASE CountUsage(c) \/ AdmitQuota(c)
    BY <1>2, <2>2 DEF CountUsage, AdmitQuota, Goto, OneAtLimit, AtLimit
  <2> QED BY <1>2, <2>1, <2>2, AtTheGate
<1> QED BY <1>1, <1>2

LEMMA ReleasedGrows ==
    ASSUME BaseInv, GivenBack, NEW c \in Calls, Act(c)
    PROVE  Released \subseteq Released'
<1>1. TypeOK
  BY DEF BaseInv
<1> SUFFICES ASSUME NEW x \in attempts, ~x.ok, pc[x.call] \notin {"mismatch", "invalid"}
             PROVE  req[x.call].pid \in Released'
  BY DEF Released
<1>2. x.call \in Calls /\ pc[x.call] \in Answer
  BY <1>1 DEF TypeOK, Attempt, GivenBack
<1>3. pc'[x.call] = pc[x.call]
  BY <1>1, <1>2, Frame
<1>4. req'[x.call] = req[x.call] /\ x \in attempts'
  BY <1>2, ActLasts DEF Lasting, Answer
<1> QED BY <1>3, <1>4 DEF Released

\* An answer that fails gives the quota back.
LEMMA FailureGivesBack ==
    ASSUME BaseInv, NEW c \in Calls, RecordUnreadable(c) \/ RecordNotSettled(c)
    PROVE  req[c].pid \in Released'
<1>1. req' = req
  BY DEF RecordUnreadable, RecordNotSettled
<1>2. \E kind \in {"verify", "settlement"} : [call |-> c, kind |-> kind, ok |-> FALSE] \in attempts'
  BY DEF RecordUnreadable, RecordNotSettled, Note
<1>3. pc'[c] \notin {"mismatch", "invalid"}
  BY DEF RecordUnreadable, RecordNotSettled, Finish, BaseInv, TypeOK
<1> QED BY <1>1, <1>2, <1>3 DEF Released

LEMMA GivenBackStep ==
    ASSUME BaseInv, GivenBack, NEW c \in Calls, Act(c)
    PROVE  GivenBack'
<1>1. TypeOK
  BY DEF BaseInv
<1>2. ASSUME NEW p \in PaymentIds, rows'[p] # NoRow, rows'[p].settle \notin {"pending", "success"}
      PROVE  p \in Released'
  <2>1. CASE rows[p] # NoRow /\ rows[p].settle \notin {"pending", "success"}
    BY <2>1, ReleasedGrows DEF GivenBack
  <2>2. CASE rows'[p] = rows[p]
    BY <1>2, <2>1, <2>2
  <2>3. CASE Reserve(c) /\ rows'[p] # rows[p]
    BY <1>1, <1>2, <2>3 DEF Reserve, TypeOK
  <2>4. CASE Recording(c) /\ rows'[p] # rows[p]
    <3>0. req[c] \in Request /\ Exists(c) /\ p = req[c].pid
      BY <1>1, <2>4, RecordEffect DEF TypeOK
    <3>1. CASE RecordSettled(c)
      <4> DEFINE base == AssignStatus(c, "success", "success")
      <4>1. base \in Row /\ base.settle \in {"success", RowOf(c).settle}
        BY <1>1, <3>0, AssignEffect DEF VerifyStatus, SettleStatus
      <4>2. rows' = [rows EXCEPT ![req[c].pid] =
                      [base EXCEPT !.tx = req[c].auth, !.body = req[c].fp]]
        BY <3>1 DEF RecordSettled
      <4> HIDE DEF base
      <4>3. rows'[p].settle = base.settle
        BY <1>1, <3>0, <4>1, <4>2 DEF TypeOK, Row
      <4> QED BY <1>2, <2>1, <3>0, <4>1, <4>3 DEF Exists, RowOf
    <3> QED BY <2>4, <3>0, <3>1, FailureGivesBack DEF Recording
  <2> QED BY <1>1, <2>2, <2>3, <2>4, Frame
<1>3. ASSUME NEW x \in attempts', ~x.ok
      PROVE  pc'[x.call] \in Answer
  <2>1. CASE x \in attempts
    <3>1. x.call \in Calls /\ pc[x.call] \in Answer
      BY <1>1, <1>3, <2>1 DEF TypeOK, Attempt, GivenBack
    <3> QED BY <1>1, <3>1, Frame
  <2>2. CASE x \notin attempts
    <3>1. ~(ArriveUnsigned(c) \/ RecordSettlementAttempt(c) \/ RecordSettled(c))
      BY <1>3, <2>2 DEF ArriveUnsigned, RecordSettlementAttempt, RecordSettled, Note
    <3>2. \/ ArriveUndecodable(c) \/ RefuseMismatch(c)
          \/ RecordUnreadable(c) \/ RecordNotSettled(c)
      BY <1>1, <1>3, <2>2, <3>1, Frame DEF Recording
    <3>3. x.call = c
      BY <1>3, <2>2, <3>2 DEF ArriveUndecodable, RefuseMismatch, RecordUnreadable,
         RecordNotSettled, Note
    <3> QED BY <1>1, <3>2, <3>3 DEF TypeOK, ArriveUndecodable, RefuseMismatch, RecordUnreadable,
          RecordNotSettled, Goto, Finish, Answer
  <2> QED BY <2>1, <2>2
<1> QED BY <1>2, <1>3 DEF GivenBack

\* Only an insert adds to what a day holds.
LEMMA KeptShrinks ==
    ASSUME BaseInv, GivenBack, NEW c \in Calls, Act(c), ~Reserve(c), NEW d
    PROVE  /\ Kept(d)' \subseteq Kept(d)
           /\ Cardinality(Kept(d)') <= Cardinality(Kept(d))
           /\ SumFunctionOnSet(Amounts', Kept(d)') <= SumFunctionOnSet(Amounts, Kept(d))
<1>0. TypeOK /\ TypeOK' /\ Lasting
  <2>1. [Next]_vars
    BY DEF Act, Next
  <2> QED BY <2>1, BaseStep, ActLasts DEF BaseInv
<1>1. \A p \in PaymentIds : rows'[p] # NoRow => rows[p] # NoRow
  <2>1. CASE Recording(c)
    BY <1>0, <2>1, RecordEffect DEF TypeOK, Exists, RowOf
  <2> QED BY <1>0, <2>1, Frame
<1>2. \A p \in Kept(d)' : p \in Kept(d) /\ Amounts'[p] = Amounts[p]
  <2> SUFFICES ASSUME NEW p \in Kept(d)' PROVE p \in Kept(d) /\ Amounts'[p] = Amounts[p]
    OBVIOUS
  <2>1. /\ p \in PaymentIds /\ rows'[p].day = d /\ p \notin Released'
        /\ rows'[p].settle \in {"pending", "success"}
    BY DEF Kept, ReservedOn
  <2>2. rows'[p] # NoRow /\ rows[p] # NoRow
    BY <1>1, <2>1 DEF NoRow
  <2>3. rows[p].day = d /\ rows'[p].amount = rows[p].amount
    BY <1>0, <2>1, <2>2 DEF Lasting
  <2>4. p \notin Released
    BY <2>1, ReleasedGrows
  <2>5. rows[p].settle \in {"pending", "success"}
    BY <2>1, <2>2, <2>4 DEF GivenBack
  <2> QED BY <2>1, <2>3, <2>4, <2>5 DEF Kept, ReservedOn, Amounts
<1>3. Kept(d)' \subseteq Kept(d)
  BY <1>2
<1>4. Kept(d) \in SUBSET PaymentIds /\ IsFiniteSet(Kept(d))
  BY KeptType
<1>5. Cardinality(Kept(d)') <= Cardinality(Kept(d))
  BY <1>3, <1>4, FS_Subset
<1>6. \A p \in Kept(d) : Amounts[p] \in Nat
  BY <1>0, <1>4, AmountsType
<1>7. \A p \in Kept(d)' : Amounts'[p] \in Nat /\ Amounts'[p] <= Amounts[p]
  BY <1>2, <1>6
<1>8. SumFunctionOnSet(Amounts', Kept(d)') <= SumFunctionOnSet(Amounts, Kept(d))
  <2> DEFINE S == Kept(d)  T == Kept(d)'  f == Amounts'  g == Amounts
  <2> HIDE DEF S, T, f, g
  <2>1. T \in SUBSET S /\ IsFiniteSet(S)
    BY <1>3, <1>4 DEF S, T
  <2>2. \A x \in S : g[x] \in Nat
    BY <1>6 DEF S, g
  <2>3. \A x \in T : f[x] \in Nat /\ f[x] <= g[x]
    BY <1>7 DEF T, f, g
  <2>4. SumFunctionOnSet(f, T) <= SumFunctionOnSet(g, S)
    BY <2>1, <2>2, <2>3, SumMonotone
  <2> QED BY <2>4 DEF S, T, f, g
<1> QED BY <1>3, <1>5, <1>8

\* An insert adds its own row to its own day.
LEMMA KeptGrows ==
    ASSUME BaseInv, GivenBack, NEW c \in Calls, Reserve(c), NEW d
    PROVE  /\ d # day => Kept(d)' \subseteq Kept(d)
           /\ Cardinality(Kept(d)') <= Cardinality(Kept(d)) + (IF d = day THEN 1 ELSE 0)
           /\ SumFunctionOnSet(Amounts', Kept(d)')
                <= SumFunctionOnSet(Amounts, Kept(d)) + (IF d = day THEN AmountOf[req[c].auth] ELSE 0)
<1> DEFINE q == req[c].pid
           amount == AmountOf[req[c].auth]
           S == Kept(d)
           T == Kept(d)'
<1>0. TypeOK /\ Act(c)
  BY DEF BaseInv, Act, Progress, Gate
<1>1. pc[c] = "reserve" /\ req[c] \in Request /\ rows[q] = NoRow
  BY DEF Reserve, Goto, Exists, RowOf, BaseInv, Presented
<1>2. q \in PaymentIds /\ amount \in Nat
  BY <1>1, GatewayAssumption DEF Request
<1>3. /\ rows'[q].amount = amount /\ rows'[q].day = day
      /\ \A p \in PaymentIds \ {q} : rows'[p] = rows[p]
  BY <1>0, <1>2 DEF Reserve, TypeOK
<1>4. Released \subseteq Released'
  BY <1>0, ReleasedGrows
<1>5. S \in SUBSET PaymentIds /\ IsFiniteSet(S) /\ q \notin S
  <2>1. q \notin S
    BY <1>1 DEF Kept, ReservedOn, NoRow
  <2> QED BY <2>1, KeptType
<1>6. T \subseteq S \cup {q} /\ (d # day => T \subseteq S)
  BY <1>3, <1>4 DEF Kept, ReservedOn
<1>7. \A p \in S : Amounts[p] \in Nat /\ Amounts'[p] = Amounts[p]
  <2>1. \A p \in S : p \in PaymentIds /\ p # q
    BY <1>5
  <2> QED BY <1>0, <1>3, <2>1, AmountsType DEF Amounts
<1>8. Amounts'[q] = amount
  BY <1>2, <1>3 DEF Amounts
<1> DEFINE f == Amounts  g == Amounts'
<1> HIDE DEF S, T, f, g, amount, q
<1>9. \A p \in S \cup {q} : g[p] \in Nat
  BY <1>2, <1>7, <1>8 DEF f, g
<1>10. SumFunctionOnSet(g, S) = SumFunctionOnSet(f, S) /\ SumFunctionOnSet(f, S) \in Nat
  <2>1. \A x \in S : f[x] \in Nat /\ f[x] = g[x]
    BY <1>7 DEF f, g
  <2> QED BY <1>5, <2>1, SumSame, SumType
<1>11. SumFunctionOnSet(g, S \cup {q}) = amount + SumFunctionOnSet(f, S)
  <2>1. SumFunctionOnSet(g, S \cup {q}) = g[q] + SumFunctionOnSet(g, S)
    BY <1>5, <1>9, SumAdd
  <2> QED BY <1>8, <1>10, <2>1 DEF g
<1>12. IsFiniteSet(S \cup {q}) /\ Cardinality(S \cup {q}) = Cardinality(S) + 1
       /\ Cardinality(S) \in Nat
  BY <1>5, FS_AddElement, FS_CardinalityType
<1>13. CASE d = day
  <2>1. Cardinality(T) <= Cardinality(S) + 1
    BY <1>6, <1>12, FS_Subset
  <2>2. T \in SUBSET (S \cup {q})
    BY <1>6
  <2>3. \A x \in T : g[x] \in Nat /\ g[x] <= g[x]
    BY <1>9, <2>2
  <2>4. SumFunctionOnSet(g, T) <= SumFunctionOnSet(g, S \cup {q})
    BY <1>9, <1>12, <2>2, <2>3, SumMonotone
  <2>5. SumFunctionOnSet(g, T) <= SumFunctionOnSet(f, S) + amount
    BY <1>2, <1>10, <1>11, <2>4 DEF amount
  <2> QED BY <1>13, <2>1, <2>5 DEF S, T, f, g, amount
<1>14. CASE d # day
  <2>1. T \in SUBSET S
    BY <1>6, <1>14
  <2>2. Cardinality(T) <= Cardinality(S) + 0
    BY <1>5, <1>12, <2>1, FS_Subset
  <2>3. \A x \in S : g[x] \in Nat
    BY <1>9
  <2>4. \A x \in T : g[x] \in Nat /\ g[x] <= g[x]
    BY <2>1, <2>3
  <2>5. SumFunctionOnSet(g, T) <= SumFunctionOnSet(g, S)
    BY <1>5, <2>1, <2>3, <2>4, SumMonotone
  <2>6. SumFunctionOnSet(g, T) <= SumFunctionOnSet(f, S) + 0
    BY <1>10, <2>5
  <2> QED BY <1>14, <2>1, <2>2, <2>6 DEF S, T, f, g
<1> QED BY <1>13, <1>14

LEMMA NotAheadStep ==
    ASSUME BaseInv, NotAhead, NEW c \in Calls, Act(c)
    PROVE  NotAhead'
<1>0. TypeOK /\ day' = day
  BY Frame DEF BaseInv
<1>1. \A p \in PaymentIds : rows[p].day <= day /\ day <= day
  BY <1>0 DEF NotAhead, TypeOK
<1>2. CASE Reserve(c)
  BY <1>0, <1>1, <1>2 DEF Reserve, NotAhead, TypeOK
<1>3. CASE Recording(c)
  <2>1. PICK row \in Row : rows' = [rows EXCEPT ![req[c].pid] = row] /\ row.day = RowOf(c).day
    BY <1>3, RecordEffect
  <2>2. req[c].pid \in PaymentIds
    BY <1>3, RecordEffect DEF Request
  <2> QED BY <1>0, <1>1, <2>1, <2>2 DEF NotAhead, TypeOK, RowOf
<1> QED BY <1>0, <1>1, <1>2, <1>3, Frame DEF NotAhead

\* What a day keeps sums to no more than what the second usage query reads.
LEMMA KeptSum ==
    ASSUME TypeOK, NEW d
    PROVE  /\ Cardinality(Kept(d)) \in Nat
           /\ SumFunctionOnSet(Amounts, Kept(d)) \in Nat
           /\ SumFunctionOnSet(Amounts, ReservedOn(d)) \in Nat
           /\ SumFunctionOnSet(Amounts, Kept(d)) <= SumFunctionOnSet(Amounts, ReservedOn(d))
<1>1. /\ IsFiniteSet(Kept(d)) /\ Cardinality(Kept(d)) \in Nat
      /\ ReservedOn(d) \in SUBSET PaymentIds /\ IsFiniteSet(ReservedOn(d))
      /\ Kept(d) \in SUBSET ReservedOn(d)
  BY KeptType DEF Kept
<1>2. \A p \in PaymentIds : Amounts[p] \in Nat
  BY AmountsType
<1> DEFINE f == Amounts  S == ReservedOn(d)  T == Kept(d)
<1> HIDE DEF f, S, T
<1>3. \A p \in S : f[p] \in Nat
  BY <1>1, <1>2 DEF f, S
<1>4. \A p \in T : f[p] \in Nat /\ f[p] <= f[p]
  BY <1>1, <1>3 DEF S, T
<1>5. IsFiniteSet(S) /\ IsFiniteSet(T) /\ T \in SUBSET S
  BY <1>1 DEF S, T
<1>6. SumFunctionOnSet(f, S) \in Nat /\ SumFunctionOnSet(f, T) \in Nat
  BY <1>3, <1>4, <1>5, SumType
<1>7. SumFunctionOnSet(f, T) <= SumFunctionOnSet(f, S)
  BY <1>3, <1>4, <1>5, SumMonotone
<1> QED BY <1>1, <1>6, <1>7 DEF f, S, T

LEMMA KeptSumNext ==
    ASSUME TypeOK', NEW d
    PROVE  Cardinality(Kept(d)') \in Nat /\ SumFunctionOnSet(Amounts', Kept(d)') \in Nat
<1> DEFINE f == Amounts'  T == Kept(d)'
<1>1. T \in SUBSET PaymentIds
  BY DEF Kept, ReservedOn
<1>2. \A p \in PaymentIds : f[p] \in Nat
  BY DEF TypeOK, Amounts, Row, NoRow
<1> HIDE DEF f, T
<1>3. IsFiniteSet(T) /\ \A p \in T : f[p] \in Nat
  BY <1>1, <1>2, GatewayAssumption, FS_Subset
<1>4. Cardinality(T) \in Nat /\ SumFunctionOnSet(f, T) \in Nat
  BY <1>3, FS_CardinalityType, SumType
<1> QED BY <1>4 DEF f, T

LEMMA RoomStep ==
    ASSUME BaseInv, QuotaInv, NEW c \in Calls, Act(c)
    PROVE  RoomLeft'
<1>0. TypeOK /\ TypeOK' /\ GivenBack /\ day' = day /\ Lasting
  <2>1. [Next]_vars
    BY DEF Act, Next
  <2> QED BY <2>1, BaseStep, Frame, ActLasts DEF BaseInv, QuotaInv
<1> SUFFICES ASSUME NEW d \in Calls, NEW m \in Nat, QuotasEnabled,
                    pc'[d] \in {"sumUsage", "reserve"}, local'[d].day = m
             PROVE  /\ m <= day
                    /\ \A p \in PaymentIds : rows'[p].day <= m
                    /\ Cardinality(Kept(m)') <= local'[d].count
                    /\ pc'[d] = "reserve" /\ SettlementQuota => local'[d].count < SettlementLimit
                    /\ pc'[d] = "reserve" /\ RevenueQuota =>
                        SumFunctionOnSet(Amounts', Kept(m)') + AmountOf[req'[d].auth] <= RevenueLimit
  BY <1>0 DEF RoomLeft, QuotasEnabled
<1>1. ~Reserve(c)
  <2>1. CASE d = c
    BY <1>0, <2>1 DEF Reserve, Goto, TypeOK
  <2>2. CASE d # c
    <3>1. pc'[d] = pc[d]
      BY <1>0, <2>2, Frame
    <3> QED BY <2>2, <3>1 DEF QuotaInv, OneAtLimit, AtLimit, Reserve, Goto
  <2> QED BY <2>1, <2>2
<1>2. /\ Cardinality(Kept(m)') <= Cardinality(Kept(m))
      /\ SumFunctionOnSet(Amounts', Kept(m)') <= SumFunctionOnSet(Amounts, Kept(m))
      /\ Cardinality(Kept(m)') \in Nat /\ Cardinality(Kept(m)) \in Nat
      /\ SumFunctionOnSet(Amounts', Kept(m)') \in Nat /\ SumFunctionOnSet(Amounts, Kept(m)) \in Nat
  <2>1. Cardinality(Kept(m)) \in Nat /\ SumFunctionOnSet(Amounts, Kept(m)) \in Nat
    BY <1>0, KeptSum
  <2>2. Cardinality(Kept(m)') \in Nat /\ SumFunctionOnSet(Amounts', Kept(m)') \in Nat
    BY <1>0, KeptSumNext
  <2> QED BY <1>0, <1>1, <2>1, <2>2, KeptShrinks
<1>3. \A p \in PaymentIds : rows'[p].day = rows[p].day
  <2>1. CASE Recording(c)
    <3>1. PICK row \in Row : rows' = [rows EXCEPT ![req[c].pid] = row] /\ row.day = RowOf(c).day
      BY <2>1, RecordEffect
    <3> QED BY <1>0, <3>1 DEF TypeOK, RowOf
  <2> QED BY <1>0, <1>1, <2>1, Frame
<1>4. AmountOf \in [Auths -> Nat] /\ SettlementLimit \in Nat /\ RevenueLimit \in Nat
  BY GatewayAssumption
<1>5. local'[d].count \in Nat
  BY <1>0 DEF TypeOK, Local
<1>6. CASE pc'[d] = pc[d] /\ local'[d] = local[d]
  <2>1. req'[d] = req[d] /\ req[d].auth \in Auths
    BY <1>0, <1>6 DEF Lasting, BaseInv, Presented, Request
  <2>2. /\ m <= day
        /\ \A p \in PaymentIds : rows[p].day <= m
        /\ Cardinality(Kept(m)) <= local[d].count
        /\ pc[d] = "reserve" /\ SettlementQuota => local[d].count < SettlementLimit
        /\ pc[d] = "reserve" /\ RevenueQuota =>
            SumFunctionOnSet(Amounts, Kept(m)) + AmountOf[req[d].auth] <= RevenueLimit
    BY <1>6 DEF QuotaInv, RoomLeft
  <2>3. \A p \in PaymentIds : rows'[p].day <= m
    BY <1>3, <2>2
  <2>4. Cardinality(Kept(m)') <= local'[d].count
    BY <1>2, <1>5, <1>6, <2>2
  <2>5. pc'[d] = "reserve" /\ SettlementQuota => local'[d].count < SettlementLimit
    BY <1>6, <2>2
  <2>6. pc'[d] = "reserve" /\ RevenueQuota =>
          SumFunctionOnSet(Amounts', Kept(m)') + AmountOf[req'[d].auth] <= RevenueLimit
    BY <1>2, <1>4, <1>6, <2>1, <2>2
  <2> QED BY <2>2, <2>3, <2>4, <2>5, <2>6
<1>7. CASE d = c /\ CountUsage(c)
  <2>1. pc'[c] = "sumUsage" /\ local'[c].day = day /\ local'[c].count = Cardinality(ReservedOn(day))
    BY <1>0, <1>7 DEF CountUsage, Goto, TypeOK, Local
  <2>2. m = day /\ \A p \in PaymentIds : rows[p].day <= m
    BY <1>7, <2>1 DEF QuotaInv, NotAhead
  <2>3. Cardinality(Kept(m)) <= Cardinality(ReservedOn(m))
    <3>1. Kept(m) \subseteq ReservedOn(m) /\ IsFiniteSet(ReservedOn(m))
      BY KeptType DEF Kept
    <3> QED BY <3>1, FS_Subset
  <2>4. Cardinality(Kept(m)') <= local'[d].count
    BY <1>2, <1>5, <1>7, <2>1, <2>2, <2>3
  <2>5. m <= day
    BY <2>2
  <2> QED BY <1>3, <1>7, <2>1, <2>2, <2>4, <2>5
<1>8. CASE d = c /\ AdmitQuota(c)
  <2>1. /\ pc[c] = "sumUsage" /\ pc'[c] = "reserve" /\ local' = local /\ req' = req
        /\ AdmittedByQuota(c)
    BY <1>0, <1>8 DEF AdmitQuota, Goto, TypeOK
  <2>2. req[c].auth \in Auths
    BY <2>1 DEF BaseInv, Presented, Request
  <2>3. /\ m <= day
        /\ \A p \in PaymentIds : rows[p].day <= m
        /\ Cardinality(Kept(m)) <= local[c].count
    BY <1>8, <2>1 DEF QuotaInv, RoomLeft
  <2>4. \A p \in PaymentIds : rows'[p].day <= m
    BY <1>3, <2>3
  <2>5. Cardinality(Kept(m)') <= local'[d].count
    BY <1>2, <1>5, <1>8, <2>1, <2>3
  <2>6. /\ SettlementQuota => local[c].count < SettlementLimit
        /\ RevenueQuota =>
            SumFunctionOnSet(Amounts, ReservedOn(m)) + AmountOf[req[c].auth] <= RevenueLimit
    BY <1>8, <2>1 DEF AdmittedByQuota, DailyLimitAllows, RevenueOn
  <2>7. RevenueQuota =>
          SumFunctionOnSet(Amounts', Kept(m)') + AmountOf[req'[d].auth] <= RevenueLimit
    <3>1. SumFunctionOnSet(Amounts, ReservedOn(m)) \in Nat
          /\ SumFunctionOnSet(Amounts, Kept(m)) <= SumFunctionOnSet(Amounts, ReservedOn(m))
      BY <1>0, KeptSum
    <3> QED BY <1>2, <1>4, <1>8, <2>1, <2>2, <2>6, <3>1
  <2> QED BY <1>8, <2>1, <2>3, <2>4, <2>5, <2>6, <2>7
<1>9. \/ d # c /\ pc'[d] = pc[d] /\ local'[d] = local[d]
      \/ d = c /\ (CountUsage(c) \/ AdmitQuota(c))
  <2>1. CASE d # c
    BY <1>0, <2>1, Frame
  <2>2. CASE d = c
    <3>1. ~LockQuota(c) /\ ~(BeginReservation(c) /\ ~QuotasEnabled)
      BY <1>0, <2>2 DEF LockQuota, Goto, TypeOK
    <3>2. pc'[c] \in AtLimit
      BY <2>2 DEF AtLimit
    <3> QED BY <1>0, <2>2, <3>1, <3>2, AtTheGate
  <2> QED BY <2>1, <2>2
<1> QED BY <1>6, <1>7, <1>8, <1>9

LEMMA LimitsStep ==
    ASSUME BaseInv, QuotaInv, NEW c \in Calls, Act(c)
    PROVE  WithinLimits'
<1>0. TypeOK /\ TypeOK' /\ GivenBack
  <2>1. [Next]_vars
    BY DEF Act, Next
  <2> QED BY <2>1, BaseStep DEF BaseInv, QuotaInv
<1> SUFFICES ASSUME NEW d \in Nat \ {0}
             PROVE  /\ Mainnet /\ SettlementQuota => Cardinality(Kept(d)') <= SettlementLimit
                    /\ Mainnet /\ RevenueQuota =>
                        SumFunctionOnSet(Amounts', Kept(d)') <= RevenueLimit
  BY DEF WithinLimits
<1>1. /\ Cardinality(Kept(d)) \in Nat /\ Cardinality(Kept(d)') \in Nat
      /\ SumFunctionOnSet(Amounts, Kept(d)) \in Nat
      /\ SumFunctionOnSet(Amounts', Kept(d)') \in Nat
  BY <1>0, KeptSum, KeptSumNext
<1>2. SettlementLimit \in Nat /\ RevenueLimit \in Nat
  BY GatewayAssumption
<1>3. /\ Mainnet /\ SettlementQuota => Cardinality(Kept(d)) <= SettlementLimit
      /\ Mainnet /\ RevenueQuota => SumFunctionOnSet(Amounts, Kept(d)) <= RevenueLimit
  BY DEF QuotaInv, WithinLimits
<1>4. CASE /\ Cardinality(Kept(d)') <= Cardinality(Kept(d))
           /\ SumFunctionOnSet(Amounts', Kept(d)') <= SumFunctionOnSet(Amounts, Kept(d))
  BY <1>1, <1>2, <1>3, <1>4
<1>5. CASE ~Reserve(c)
  BY <1>0, <1>4, <1>5, KeptShrinks
<1>6. CASE Reserve(c) /\ d # day
  <2>1. /\ Cardinality(Kept(d)') <= Cardinality(Kept(d)) + 0
        /\ SumFunctionOnSet(Amounts', Kept(d)') <= SumFunctionOnSet(Amounts, Kept(d)) + 0
    BY <1>0, <1>6, KeptGrows
  <2> QED BY <1>1, <1>4, <2>1
<1>7. CASE Reserve(c) /\ d = day /\ QuotasEnabled
  <2> DEFINE amount == AmountOf[req[c].auth]
             m == local[c].day
  <2>1. pc[c] = "reserve" /\ req[c] \in Request /\ amount \in Nat
    BY <1>7, GatewayAssumption DEF Reserve, Goto, BaseInv, Presented, Request
  <2>2. m \in Nat /\ local[c].count \in Nat
    BY <1>0 DEF TypeOK, Local
  <2>3. /\ m <= day
        /\ \A p \in PaymentIds : rows[p].day <= m
        /\ Cardinality(Kept(m)) <= local[c].count
        /\ SettlementQuota => local[c].count < SettlementLimit
        /\ RevenueQuota => SumFunctionOnSet(Amounts, Kept(m)) + amount <= RevenueLimit
    BY <1>7, <2>1, <2>2 DEF QuotaInv, RoomLeft
  <2>4. /\ Cardinality(Kept(d)') <= Cardinality(Kept(d)) + 1
        /\ SumFunctionOnSet(Amounts', Kept(d)') <= SumFunctionOnSet(Amounts, Kept(d)) + amount
    BY <1>0, <1>7, KeptGrows
  <2>5. CASE m = d
    BY <1>1, <1>2, <2>1, <2>2, <2>3, <2>4, <2>5
  <2>6. CASE m # d
    \* Midnight has passed since the usage was read: the new day is still empty.
    <3>1. Kept(d) = {}
      <4>1. \A p \in PaymentIds : rows[p].day # d
        BY <1>0, <1>7, <2>2, <2>3, <2>6 DEF TypeOK, Row, NoRow
      <4> QED BY <4>1 DEF Kept, ReservedOn
    <3>2. Cardinality(Kept(d)) = 0 /\ SumFunctionOnSet(Amounts, Kept(d)) = 0
      BY <3>1, FS_EmptySet, SumEmpty
    <3>3. Cardinality(Kept(m)) \in Nat /\ SumFunctionOnSet(Amounts, Kept(m)) \in Nat
      BY <1>0, KeptSum
    <3> HIDE DEF amount, m
    <3> QED BY <1>1, <1>2, <2>1, <2>2, <2>3, <2>4, <3>2, <3>3
  <2> QED BY <2>5, <2>6
<1> QED BY <1>5, <1>6, <1>7 DEF QuotasEnabled

LEMMA QuotaStep == BaseInv /\ QuotaInv /\ [Next]_vars => QuotaInv'
<1> SUFFICES ASSUME BaseInv, QuotaInv, [Next]_vars PROVE QuotaInv'
  OBVIOUS
<1>1. ASSUME NEW c \in Calls, Act(c) PROVE QuotaInv'
  BY <1>1, LockStep, GivenBackStep, NotAheadStep, RoomStep, LimitsStep DEF QuotaInv, BaseInv
<1>2. CASE OwnerPauses \/ OwnerResumes \/ Midnight \/ UNCHANGED vars
  <2>1. UNCHANGED <<rows, attempts, quotaLock, req, pc, local>> /\ day \in Nat
    BY <1>2 DEF OwnerPauses, OwnerResumes, Midnight, vars, BaseInv, TypeOK
  <2>2. day' = day \/ day' = day + 1
    BY <1>2 DEF OwnerPauses, OwnerResumes, Midnight, vars
  <2>3. OneAtLimit' /\ GivenBack' /\ WithinLimits'
    BY <2>1 DEF QuotaInv, OneAtLimit, GivenBack, WithinLimits, Released, Kept, ReservedOn, Amounts,
       QuotasEnabled
  <2>4. NotAhead'
    <3>1. \A p \in PaymentIds : rows[p].day \in Nat /\ rows[p].day <= day
      BY DEF QuotaInv, NotAhead, BaseInv, TypeOK, Row, NoRow
    <3> QED BY <2>1, <2>2, <3>1 DEF NotAhead
  <2>5. RoomLeft'
    <3>1. /\ \A d \in Nat : Kept(d)' = Kept(d) /\ (d <= day => d <= day')
          /\ Amounts' = Amounts
      BY <2>1, <2>2 DEF Kept, ReservedOn, Released, Amounts
    <3> QED BY <2>1, <3>1 DEF QuotaInv, RoomLeft, QuotasEnabled
  <2> QED BY <2>3, <2>4, <2>5 DEF QuotaInv
<1> QED BY <1>1, <1>2 DEF Next, Act

\* The daily limits hold over what was admitted, however calls interleave
\* between the usage queries and the insert and whichever side of midnight the
\* insert falls on.
THEOREM QuotasAreHeld == Spec => []QuotasHeld
<1>1. Init => BaseInv /\ QuotaInv
  BY BaseInit, QuotaInit
<1>2. (BaseInv /\ QuotaInv) /\ [Next]_vars => (BaseInv /\ QuotaInv)'
  BY BaseStep, QuotaStep
<1>3. BaseInv /\ QuotaInv => QuotasHeld
  <2> SUFFICES ASSUME BaseInv, QuotaInv PROVE QuotasHeld
    OBVIOUS
  <2>1. \A d \in 1..day : d \in Nat \ {0}
    BY DEF BaseInv, TypeOK
  <2> QED BY <2>1 DEF QuotaInv, WithinLimits, Kept, QuotasHeld, QuotaHeld, RevenueQuotaHeld
<1> QED BY <1>1, <1>2, <1>3, PTL DEF Spec

-----------------------------------------------------------------------------
(* Clients that keep one call per payment id in flight *)

\* One call per payment id is in flight.
OneInFlight ==
    \A c, d \in Calls :
        pc[c] \in InFlight /\ pc[d] \in InFlight /\ req[c].pid = req[d].pid => c = d

\* Nobody else settles the row of a call that is past the gate, and what the
\* call has loaded of it stays current.
RowsAlone ==
    \A c \in Calls :
        /\ pc[c] \in AtSdk \cup {"reload", "record"} => RowOf(c).settle # "success"
        /\ pc[c] = "record" => local[c].settle = RowOf(c).settle
        /\ pc[c] = "recordSettlement" => RowOf(c).settle = "success"

AloneInv == OneInFlight /\ RowsAlone /\ PaidIsReplayable

LEMMA AloneInit == Init => AloneInv
BY DEF Init, AloneInv, OneInFlight, RowsAlone, PaidIsReplayable, InFlight, AtGate, AtSdk, AtBook

LEMMA OneInFlightStep ==
    ASSUME ~Overlap, BaseInv, OneInFlight, NEW c \in Calls, Act(c)
    PROVE  OneInFlight'
<1>0. TypeOK /\ Lasting
  BY ActLasts DEF BaseInv
<1> SUFFICES ASSUME NEW d \in Calls, NEW e \in Calls, d # e,
                    pc'[d] \in InFlight, pc'[e] \in InFlight, req'[d].pid = req'[e].pid
             PROVE  FALSE
  BY DEF OneInFlight
<1>1. CASE ArriveSigned(c)
  <2>1. PICK p \in PaymentIds, f \in Fingerprints, a \in Auths :
          /\ \A x \in Calls : pc[x] \in InFlight => req[x].pid # p
          /\ req' = [req EXCEPT ![c] = [pid |-> p, fp |-> f, auth |-> a]]
    BY <1>1, GatewayAssumption DEF ArriveSigned
  <2>2. req'[c].pid = p
    BY <1>0, <2>1 DEF TypeOK
  <2>3. \A x \in Calls \ {c} : pc'[x] = pc[x] /\ req'[x] = req[x]
    BY <1>0, <2>1, Frame
  <2>4. \A x \in Calls \ {c} : pc'[x] \in InFlight => req'[x].pid # req'[c].pid
    BY <2>1, <2>2, <2>3
  <2> QED BY <2>3, <2>4 DEF OneInFlight
<1>2. CASE ~ArriveSigned(c)
  <2>1. req' = req
    BY <1>0, <1>2, Frame
  <2>2. pc'[c] \in InFlight => pc[c] \in InFlight
    <3>1. CASE Arrive(c)
      BY <1>0, <1>2, <3>1 DEF Arrive, ArriveUnsigned, ArriveUndecodable, Goto, TypeOK,
         InFlight, AtGate, AtSdk, AtBook
    <3>2. pc[c] = "idle" => Arrive(c)
      BY DEF Act, Arrive, Progress, Gate, Sdk, Booking, Abort, AbortAfterSettlement,
         RefusePaused, PassPauseCheck, RefuseMismatch, ReplayStored, ResumeExisting,
         BeginReservation, LockQuota, CountUsage, AdmitQuota, RefuseOverQuota, Reserve,
         RefuseBusy, VerifyAccepted, VerifyRefused, OperationSucceeds, OperationFails,
         SettleMoves, SettleRefused, Reload, RecordSettled, RecordSettlementAttempt,
         RecordUnreadable, RecordNotSettled, Goto, InFlight, AtGate, AtSdk, AtBook
    <3>3. CASE pc[c] # "idle"
      BY <1>0, <3>3, Frame DEF TypeOK
    <3> QED BY <3>1, <3>2, <3>3
  <2>3. \A x \in Calls : pc'[x] \in InFlight => pc[x] \in InFlight
    BY <1>0, <2>2, Frame
  <2> QED BY <2>1, <2>3 DEF OneInFlight
<1> QED BY <1>1, <1>2

\* A call writes no row but that of its own id, and only while in flight.
LEMMA WritesOwnRow ==
    ASSUME BaseInv, NEW c \in Calls, Act(c)
    PROVE  /\ \A p \in PaymentIds : p # req[c].pid => rows'[p] = rows[p]
           /\ rows' # rows => pc[c] \in {"reserve", "record"}
<1>0. TypeOK
  BY DEF BaseInv
<1>1. CASE Reserve(c)
  BY <1>0, <1>1 DEF Reserve, Goto, TypeOK
<1>2. CASE Recording(c)
  <2>1. PICK row \in Row : rows' = [rows EXCEPT ![req[c].pid] = row]
    BY <1>2, RecordEffect
  <2>2. pc[c] = "record"
    BY <1>2 DEF Recording, RecordSettled, RecordUnreadable, RecordNotSettled, Goto
  <2> QED BY <1>0, <2>1, <2>2 DEF TypeOK
<1> QED BY <1>0, <1>1, <1>2, Frame

\* How the step of a call gets past the gate and to its answer.
LEMMA PastTheGate ==
    ASSUME TypeOK, NEW c \in Calls, Act(c)
    PROVE  /\ pc'[c] \in AtSdk \cup {"reload"} =>
                \/ ResumeExisting(c)
                \/ Reserve(c)
                \/ pc[c] \in AtSdk /\ rows' = rows
           /\ pc'[c] = "record" => Reload(c)
           /\ pc'[c] = "recordSettlement" => RecordSettled(c)
           /\ pc'[c] = "paid" => RecordSettlementAttempt(c)
           /\ pc'[c] = "replayed" => ReplayStored(c)
<1> USE DEF Act, TypeOK, AtSdk
<1>1. CASE Arrive(c)
  BY <1>1 DEF Arrive, ArriveSigned, ArriveUnsigned, ArriveUndecodable, Goto
<1>2. CASE Gate(c)
  BY <1>2 DEF Gate, RefusePaused, PassPauseCheck, RefuseMismatch, ReplayStored, ResumeExisting,
     BeginReservation, LockQuota, CountUsage, AdmitQuota, RefuseOverQuota, Reserve, RefuseBusy,
     Goto, Finish
<1>3. CASE Sdk(c)
  BY <1>3 DEF Sdk, VerifyAccepted, VerifyRefused, OperationSucceeds, OperationFails, SettleMoves,
     SettleRefused, Goto, Returned
<1>4. CASE Booking(c)
  BY <1>4 DEF Booking, Reload, RecordSettled, RecordSettlementAttempt, RecordUnreadable,
     RecordNotSettled, Goto, Finish
<1>5. CASE Abort(c) \/ AbortAfterSettlement(c)
  BY <1>5 DEF Abort, AbortAfterSettlement, Finish
<1> QED BY <1>1, <1>2, <1>3, <1>4, <1>5 DEF Progress

LEMMA RowsAloneStep ==
    ASSUME BaseInv, MoneyInv, AloneInv, NEW c \in Calls, Act(c)
    PROVE  RowsAlone'
<1>0. TypeOK /\ Lasting
  BY ActLasts DEF BaseInv
<1> SUFFICES ASSUME NEW d \in Calls
             PROVE  /\ pc'[d] \in AtSdk \cup {"reload", "record"} =>
                        rows'[req'[d].pid].settle # "success"
                    /\ pc'[d] = "record" => local'[d].settle = rows'[req'[d].pid].settle
                    /\ pc'[d] = "recordSettlement" => rows'[req'[d].pid].settle = "success"
  BY DEF RowsAlone, RowOf
<1>1. CASE d # c
  <2>1. pc'[d] = pc[d] /\ local'[d] = local[d]
    BY <1>0, <1>1, Frame
  <2>2. SUFFICES ASSUME pc[d] \in AtSdk \cup AtBook
                 PROVE  req'[d] = req[d] /\ rows'[req[d].pid] = rows[req[d].pid]
    BY <2>1, <2>2 DEF AloneInv, RowsAlone, RowOf, AtBook
  <2>3. req'[d] = req[d] /\ req[d].pid \in PaymentIds
    BY <1>0, <2>2 DEF Lasting, AtSdk, AtBook, BaseInv, Presented, Request
  <2>4. CASE req[d].pid # req[c].pid
    BY <2>3, <2>4, WritesOwnRow
  <2>5. CASE req[d].pid = req[c].pid
    BY <1>1, <2>2, <2>3, <2>5, WritesOwnRow
    DEF AloneInv, OneInFlight, InFlight, AtGate, AtSdk, AtBook
  <2> QED BY <2>3, <2>4, <2>5
<1>2. CASE d = c
  <2>1. pc'[c] \in AtSdk \cup {"reload"} => rows'[req'[c].pid].settle # "success"
    <3>1. CASE ResumeExisting(c)
      <4>1. pc[c] = "lookup" /\ ~Replayable(c) /\ rows' = rows /\ req' = req
        BY <3>1 DEF ResumeExisting, Goto
      <4>2. req[c].pid \in PaymentIds
        BY <4>1 DEF BaseInv, Presented, Request
      <4> QED BY <4>1, <4>2 DEF Replayable, RowOf, MoneyInv, RowsBacked
    <3>2. CASE Reserve(c)
      <4>1. pc[c] = "reserve" /\ req' = req
        BY <3>2 DEF Reserve, Goto
      <4>2. req[c].pid \in PaymentIds
        BY <4>1 DEF BaseInv, Presented, Request
      <4> QED BY <1>0, <3>2, <4>1, <4>2 DEF Reserve, TypeOK
    <3>3. CASE pc[c] \in AtSdk /\ rows' = rows
      BY <1>0, <3>3 DEF AloneInv, RowsAlone, RowOf, Lasting, AtSdk
    <3> QED BY <1>0, <3>1, <3>2, <3>3, PastTheGate
  <2>2. CASE Reload(c)
    <3>1. pc[c] = "reload" /\ pc'[c] = "record" /\ rows' = rows /\ req' = req
          /\ local'[c].settle = RowOf(c).settle
      BY <1>0, <2>2 DEF Reload, Goto, TypeOK, Local
    <3> QED BY <1>2, <3>1 DEF AloneInv, RowsAlone, RowOf
  <2>3. CASE RecordSettled(c)
    <3> DEFINE base == AssignStatus(c, "success", "success")
    <3>1. pc[c] = "record" /\ pc'[c] = "recordSettlement" /\ req' = req
      BY <1>0, <2>3 DEF RecordSettled, Goto, TypeOK
    <3>2. req[c] \in Request /\ Exists(c) /\ req[c].pid \in PaymentIds
      BY <2>3, RecordEffect DEF Recording, Request
    <3>3. base \in Row /\ base.settle = "success"
      BY <1>0, <3>1, <3>2, AssignEffect DEF VerifyStatus, SettleStatus, AloneInv, RowsAlone
    <3>4. rows' = [rows EXCEPT ![req[c].pid] =
                    [base EXCEPT !.tx = req[c].auth, !.body = req[c].fp]]
      BY <2>3 DEF RecordSettled
    <3> HIDE DEF base
    <3>5. rows'[req[c].pid].settle = "success"
      BY <1>0, <3>2, <3>3, <3>4 DEF TypeOK, Row
    <3> QED BY <1>2, <3>1, <3>5 DEF AtSdk
  <2>4. CASE ~Reload(c) /\ ~RecordSettled(c)
    BY <1>0, <1>2, <2>1, <2>4, PastTheGate
  <2> QED BY <2>2, <2>3, <2>4
<1> QED BY <1>1, <1>2

LEMMA ReplayableStep ==
    ASSUME BaseInv, MoneyInv, AloneInv, NEW c \in Calls, Act(c)
    PROVE  PaidIsReplayable'
<1>0. TypeOK /\ Lasting
  BY ActLasts DEF BaseInv
<1> SUFFICES ASSUME NEW d \in Calls, pc'[d] \in {"paid", "replayed"}
             PROVE  /\ rows'[req'[d].pid].settle = "success"
                    /\ rows'[req'[d].pid].body # None
                    /\ rows'[req'[d].pid].fp = req'[d].fp
  BY DEF PaidIsReplayable, Replayable, RowOf
<1> DEFINE p == req[d].pid
<1>1. pc[d] \in {"paid", "replayed"} \/ (pc[d] \in {"recordSettlement", "lookup"} /\ d = c)
  <2>1. CASE d # c
    BY <1>0, <2>1, Frame
  <2>2. CASE d = c
    BY <1>0, <2>2, PastTheGate DEF RecordSettlementAttempt, ReplayStored
  <2> QED BY <2>1, <2>2
<1>2. req[d] \in Request /\ p \in PaymentIds /\ req'[d] = req[d]
  BY <1>0, <1>1 DEF BaseInv, Presented, Lasting, Request
<1>3. rows[p].settle = "success" /\ rows[p].body # None /\ rows[p].fp = req[d].fp
  <2>1. CASE pc[d] \in {"paid", "replayed"}
    BY <2>1 DEF AloneInv, PaidIsReplayable, Replayable, RowOf
  <2>2. CASE pc[d] = "recordSettlement"
    <3>1. RowOf(d).settle = "success" /\ RowOf(d).fp = req[d].fp
      BY <2>2 DEF AloneInv, RowsAlone, BaseInv, Bound, AtBook
    <3> QED BY <1>2, <3>1 DEF RowOf, MoneyInv, RowsBacked
  <2>3. CASE pc[d] = "lookup" /\ d = c
    <3>1. ReplayStored(c)
      BY <1>0, <2>3, PastTheGate DEF RecordSettlementAttempt
    <3> QED BY <2>3, <3>1 DEF ReplayStored, Replayable, RowOf
  <2> QED BY <1>1, <2>1, <2>2, <2>3
<1>4. rows'[p] = rows[p]
  <2>1. CASE p # req[c].pid
    BY <1>2, <2>1, WritesOwnRow
  <2>2. CASE p = req[c].pid /\ pc[c] = "record"
    BY <1>3, <2>2 DEF AloneInv, RowsAlone, RowOf
  <2>3. CASE p = req[c].pid /\ pc[c] = "reserve"
    <3>1. rows[p] # NoRow
      BY <1>3 DEF NoRow
    <3>2. ~Reserve(c) /\ ~Recording(c)
      BY <2>3, <3>1 DEF Reserve, Exists, RowOf, Recording, RecordSettled, RecordUnreadable,
         RecordNotSettled, Goto
    <3> QED BY <1>0, <3>2, Frame
  <2> QED BY <2>1, <2>2, <2>3, WritesOwnRow
<1> HIDE DEF p
<1> QED BY <1>2, <1>3, <1>4 DEF p

LEMMA AloneStep ==
    ASSUME ~Overlap
    PROVE  BaseInv /\ MoneyInv /\ AloneInv /\ [Next]_vars => AloneInv'
<1> SUFFICES ASSUME BaseInv, MoneyInv, AloneInv, [Next]_vars PROVE AloneInv'
  OBVIOUS
<1>1. CASE OwnerPauses \/ OwnerResumes \/ Midnight \/ UNCHANGED vars
  <2>1. UNCHANGED <<rows, req, pc, local>>
    BY <1>1 DEF OwnerPauses, OwnerResumes, Midnight, vars
  <2> QED BY <2>1 DEF AloneInv, OneInFlight, RowsAlone, PaidIsReplayable, Replayable, RowOf
<1>2. ASSUME NEW c \in Calls, Act(c) PROVE AloneInv'
  BY <1>2, OneInFlightStep, RowsAloneStep, ReplayableStep DEF AloneInv
<1> QED BY <1>1, <1>2 DEF Next, Act

LEMMA AloneAlways == ASSUME ~Overlap PROVE Spec => [](BaseInv /\ MoneyInv /\ AloneInv)
<1>1. Init => BaseInv /\ MoneyInv /\ AloneInv
  BY BaseInit, MoneyInit, AloneInit
<1>2. (BaseInv /\ MoneyInv /\ AloneInv) /\ [Next]_vars => (BaseInv /\ MoneyInv /\ AloneInv)'
  BY BaseStep, MoneyStep, AloneStep
<1> QED BY <1>1, <1>2, PTL DEF Spec

\* A client that keeps one call per id in flight can have its paid result again.
THEOREM PaidResultsLast == ASSUME ~Overlap PROVE Spec => []PaidIsReplayable
<1>1. BaseInv /\ MoneyInv /\ AloneInv => PaidIsReplayable
  BY DEF AloneInv
<1> QED BY <1>1, AloneAlways, PTL

-----------------------------------------------------------------------------
(* The book *)

Book == [p \in PaymentIds |-> BookEntry(p)]
Moved == {a \in Auths : chain[a] # None}

LEMMA BookInit == Init => PromisedBook!Init
<1> SUFFICES ASSUME Init PROVE PromisedBook!Init
  OBVIOUS
<1>1. \A p \in PaymentIds : BookEntry(p) = [state |-> "free", fp |-> None, tx |-> None]
  BY DEF Init, BookEntry, NoRow
<1>2. {a \in Auths : chain[a] # None} = {}
  BY DEF Init
<1> QED BY <1>1, <1>2 DEF PromisedBook!Init, PromisedBook!Free

\* The step of a call is one of the book's, or none.
LEMMA BookAct ==
    ASSUME ~Overlap, BaseInv, MoneyInv, AloneInv, NEW c \in Calls, Act(c)
    PROVE  [PromisedBook!Next]_PromisedBook!vars
<1>0. TypeOK /\ Lasting
  BY ActLasts DEF BaseInv
<1> SUFFICES \/ Book' = Book /\ Moved' = Moved
             \/ \E q \in PaymentIds, f \in Fingerprints : PromisedBook!OpenEntry(q, f)
             \/ \E a \in Auths : PromisedBook!Move(a)
             \/ \E q \in PaymentIds, a \in Auths : PromisedBook!SettleEntry(q, a)
  BY DEF PromisedBook!Next, PromisedBook!vars, Book, Moved
<1>1. rows' = rows => Book' = Book
  BY DEF Book, BookEntry
<1>2. chain' = chain => Moved' = Moved
  BY DEF Moved
<1>3. CASE SettleMoves(c) \/ AbortAfterSettlement(c)
  <2>1. /\ pc[c] = "settle" /\ chain[req[c].auth] = None
        /\ chain' = [chain EXCEPT ![req[c].auth] = c] /\ rows' = rows
    BY <1>3 DEF SettleMoves, AbortAfterSettlement
  <2>2. PICK a \in Auths : a = req[c].auth
    BY <2>1 DEF BaseInv, Presented, Request
  <2>3. PromisedBook!Move(a)
    <3>1. Moved' = Moved \cup {a} /\ a \notin Moved
      BY <1>0, <2>1, <2>2, GatewayAssumption DEF Moved, TypeOK
    <3> QED BY <1>1, <2>1, <3>1 DEF PromisedBook!Move, Book, Moved
  <2> QED BY <2>2, <2>3
<1>4. CASE Reserve(c)
  <2>0. PICK p \in PaymentIds, f \in Fingerprints : p = req[c].pid /\ f = req[c].fp
    BY <1>4 DEF Reserve, Goto, BaseInv, Presented, Request
  <2>1. rows[p] = NoRow /\ chain' = chain
    BY <1>4, <2>0 DEF Reserve, Exists, RowOf
  <2>2. /\ \A q \in PaymentIds \ {p} : rows'[q] = rows[q]
        /\ rows'[p].fp = f /\ rows'[p].settle = "pending" /\ rows'[p] # NoRow
    BY <1>0, <1>4, <2>0, <2>1 DEF Reserve, TypeOK, NoRow
  <2>3. BookEntry(p) = PromisedBook!Free
    BY <2>1 DEF BookEntry, NoRow, PromisedBook!Free
  <2>4. BookEntry(p)' = PromisedBook!Open(f)
    BY <1>4, <2>2 DEF BookEntry, PromisedBook!Open, Reserve
  <2>5. Book' = [Book EXCEPT ![p] = PromisedBook!Open(f)] /\ Book[p] = PromisedBook!Free
    BY <2>1, <2>2, <2>3, <2>4 DEF Book, BookEntry
  <2>6. PromisedBook!OpenEntry(p, f)
    BY <1>2, <2>1, <2>5 DEF PromisedBook!OpenEntry, Book, Moved
  <2> QED BY <2>6
<1>5. CASE RecordUnreadable(c) \/ RecordNotSettled(c)
  <2>1. pc[c] = "record" /\ chain' = chain
    BY <1>5 DEF RecordUnreadable, RecordNotSettled
  <2>0. PICK p \in PaymentIds : p = req[c].pid
    BY <1>5, RecordEffect DEF Recording, Request
  <2>2. req[c] \in Request /\ Exists(c)
    BY <1>5, RecordEffect DEF Recording
  <2>3. PICK row \in Row :
          /\ rows' = [rows EXCEPT ![p] = row]
          /\ row.fp = RowOf(c).fp
          /\ row.settle # "success"
    <3>0. RowOf(c).settle # "success"
      BY <2>1 DEF AloneInv, RowsAlone
    <3>1. CASE RecordUnreadable(c)
      <4> DEFINE row == AssignStatus(c, local[c].verify, "failure")
      <4>1. row \in Row /\ row.fp = RowOf(c).fp /\ row.settle # "success"
        BY <1>0, <2>2, <3>0, AssignEffect DEF VerifyStatus, SettleStatus
      <4>2. rows' = [rows EXCEPT ![p] = row]
        BY <2>0, <3>1 DEF RecordUnreadable
      <4> QED BY <4>1, <4>2
    <3>2. CASE RecordNotSettled(c)
      <4> DEFINE row == AssignStatus(c, "failure", "not_settled")
      <4>1. row \in Row /\ row.fp = RowOf(c).fp /\ row.settle # "success"
        BY <1>0, <2>2, <3>0, AssignEffect DEF VerifyStatus, SettleStatus
      <4>2. rows' = [rows EXCEPT ![p] = row]
        BY <2>0, <3>2 DEF RecordNotSettled
      <4> QED BY <4>1, <4>2
    <3> QED BY <1>5, <3>1, <3>2
  <2>4. rows'[p] = row /\ row # NoRow /\ \A q \in PaymentIds \ {p} : rows'[q] = rows[q]
    BY <1>0, <2>2, <2>3 DEF TypeOK, Row, NoRow, VerifyStatus
  <2>5. \A q \in PaymentIds : BookEntry(q)' = BookEntry(q)
    <3>1. RowOf(c).settle # "success" /\ RowOf(c) # NoRow
      BY <2>1, <2>2 DEF AloneInv, RowsAlone, Exists
    <3> QED BY <2>0, <2>3, <2>4, <3>1 DEF BookEntry, RowOf
  <2>6. Book' = Book
    BY <2>5 DEF Book
  <2> QED BY <1>2, <2>1, <2>6
<1>6. CASE RecordSettled(c)
  <2> DEFINE base == AssignStatus(c, "success", "success")
  <2>0. PICK p \in PaymentIds, a \in Auths : p = req[c].pid /\ a = req[c].auth
    BY <1>6, RecordEffect DEF Recording, Request
  <2>1. pc[c] = "record" /\ local[c].outcome = "settled" /\ chain' = chain
    BY <1>6 DEF RecordSettled, Goto
  <2>2. req[c] \in Request /\ Exists(c)
    BY <1>6, RecordEffect DEF Recording
  <2>3. RowOf(c).settle # "success" /\ local[c].settle = RowOf(c).settle
    BY <2>1 DEF AloneInv, RowsAlone
  <2>4. base \in Row /\ base.settle = "success" /\ base.fp = RowOf(c).fp
    BY <1>0, <2>2, <2>3, AssignEffect DEF VerifyStatus, SettleStatus
  <2>5. rows' = [rows EXCEPT ![p] = [base EXCEPT !.tx = a, !.body = req[c].fp]]
    BY <1>6, <2>0 DEF RecordSettled
  <2> HIDE DEF base
  <2>6. /\ rows'[p].settle = "success" /\ rows'[p].tx = a /\ rows'[p].fp = RowOf(c).fp
        /\ rows'[p] # NoRow
        /\ \A q \in PaymentIds \ {p} : rows'[q] = rows[q]
    BY <1>0, <2>2, <2>4, <2>5 DEF TypeOK, Row, NoRow
  <2>7. chain[a] = c
    BY <2>0, <2>1 DEF MoneyInv, ToldTruly
  <2>8. \A q \in PaymentIds : BookEntry(q).tx # a
    <3> SUFFICES ASSUME NEW q \in PaymentIds, rows[q].settle = "success", rows[q].tx = a
                 PROVE  FALSE
      BY GatewayAssumption DEF BookEntry
    <3>1. q = p
      BY <2>0, <2>7 DEF MoneyInv, RowsBacked
    <3> QED BY <2>0, <2>3, <3>1 DEF RowOf
  <2>9. BookEntry(p).state = "open" /\ BookEntry(p).fp = RowOf(c).fp
    BY <2>0, <2>2, <2>3 DEF BookEntry, Exists, RowOf
  <2>10. BookEntry(p)' = PromisedBook!Settled(RowOf(c).fp, a)
    BY <2>6 DEF BookEntry, PromisedBook!Settled
  <2>11. \A q \in PaymentIds \ {p} : BookEntry(q)' = BookEntry(q)
    BY <2>6 DEF BookEntry
  <2>12. /\ Book' = [Book EXCEPT ![p] = PromisedBook!Settled(@.fp, a)]
         /\ Book[p].state = "open"
         /\ \A q \in PaymentIds : Book[q].tx # a
    BY <2>2, <2>8, <2>9, <2>10, <2>11 DEF Book
  <2>13. a \in Moved
    BY <2>2, <2>7, GatewayAssumption DEF Moved
  <2>14. PromisedBook!SettleEntry(p, a)
    BY <1>2, <2>1, <2>12, <2>13 DEF PromisedBook!SettleEntry, Book, Moved
  <2> QED BY <2>14
<1>7. CASE rows' = rows /\ chain' = chain
  BY <1>1, <1>2, <1>7
<1> QED BY <1>0, <1>3, <1>4, <1>5, <1>6, <1>7, Frame DEF Recording

\* For clients that keep one call per payment id in flight, the gateway
\* implements the book: each id opened once, settled at most once with a transfer
\* of its own, and settled for good.
THEOREM GatewayKeepsTheBook == ASSUME ~Overlap PROVE Spec => ImplementsBook
<1>1. BaseInv /\ MoneyInv /\ AloneInv /\ [Next]_vars => [PromisedBook!Next]_PromisedBook!vars
  <2> SUFFICES ASSUME BaseInv, MoneyInv, AloneInv, [Next]_vars
               PROVE  [PromisedBook!Next]_PromisedBook!vars
    OBVIOUS
  <2>1. CASE OwnerPauses \/ OwnerResumes \/ Midnight \/ UNCHANGED vars
    <3>1. rows' = rows /\ chain' = chain
      BY <2>1 DEF OwnerPauses, OwnerResumes, Midnight, vars
    <3> QED BY <3>1 DEF PromisedBook!vars, BookEntry
  <2> QED BY <2>1, BookAct DEF Next, Act
<1> QED BY <1>1, BookInit, AloneAlways, PTL DEF Spec, ImplementsBook, PromisedBook!Spec
=============================================================================
