------------------------- MODULE BuyerBridgeProofs -------------------------
(***************************************************************************)
(* What the bridges of one ledger promise, for any calls, entries, prices, *)
(* lifetimes and clocks, and with death at any step.                       *)
(*                                                                         *)
(* The lemmas ...Effect say what one ledger transaction does to one entry, *)
(* for any clock reading.  BaseInv: a fingerprint has at most one live and *)
(* one unresolved entry, and a call with an approval holds one of its own. *)
(* HoldInv: what a call remembers agrees with the entry it holds, and what *)
(* was signed or paid is still spent there.  CapInv: the reservations of a *)
(* day stay below the cap, reckoned by the day of the quote.               *)
(***************************************************************************)
EXTENDS BuyerBridge, FiniteSums

-----------------------------------------------------------------------------
(* What each transaction does to the entries *)

LedgerType == ledger \in [Entries -> Entry \cup {NoEntry}]

\* The step leaves entry d alone, except that its time may be over.
Quiet(d) ==
    \/ ledger'[d] = ledger[d]
    \/ ledger[d].status \in Live /\ ledger'[d] = [ledger[d] EXCEPT !.status = "expired"]

LEMMA DayOfType == ASSUME NEW t \in Nat PROVE DayOf(t) \in Nat
BY LedgerAssumption DEF DayOf

LEMMA NewEntryType ==
    ASSUME NEW f \in Fingerprints, NEW a \in Prices, NEW s \in Status, NEW now \in Nat
    PROVE  NewEntry(f, a, s, now) \in Entry
BY DayOfType, LedgerAssumption DEF NewEntry, Entry

LEMMA ExpiredType ==
    ASSUME LedgerType, NEW now
    PROVE  /\ Expired(now) \in [Entries -> Entry \cup {NoEntry}]
           /\ \A d \in Entries :
                \/ Expired(now)[d] = ledger[d]
                \/ /\ ledger[d].status \in Live
                   /\ Expired(now)[d] = [ledger[d] EXCEPT !.status = "expired"]
                   /\ Expired(now)[d].status = "expired"
                   /\ Expired(now)[d].fp = ledger[d].fp
BY DEF LedgerType, Expired, Entry, NoEntry, Live, Status

LEMMA FindQuoteEffect ==
    ASSUME LedgerType, NEW f, NEW now, NEW e \in Entries, FindQuote(f, now, e)
    PROVE  /\ LedgerType'
           /\ \A d \in Entries : Quiet(d)
           /\ ledger[e].status \in Live
           /\ ledger[e].fp = f
BY ExpiredType DEF FindQuote, LedgerType, Quiet, Newest, OfStatus, Live, Entry, NoEntry

LEMMA InsertQuoteEffect ==
    ASSUME LedgerType, NEW f \in Fingerprints, NEW a \in Prices, NEW now \in Nat,
           NEW e \in Entries, InsertQuote(f, a, now, e)
    PROVE  /\ LedgerType'
           /\ ledger[e] = NoEntry
           /\ ledger'[e] = NewEntry(f, a, "quote", now)
           /\ \A d \in Entries \ {e} :
                Quiet(d) /\ (ledger'[d].status \in Live => ledger'[d].fp # f)
BY ExpiredType, NewEntryType
DEF InsertQuote, LedgerType, Quiet, OfStatus, Live, Status

LEMMA ApproveEffect ==
    ASSUME LedgerType, NEW e \in Entries, NEW now, Approve(e, now)
    PROVE  /\ LedgerType'
           /\ ledger[e].status = "quote"
           /\ ledger'[e] = [ledger[e] EXCEPT !.status = "approved"]
           /\ \A d \in Entries \ {e} : Quiet(d)
<1>1. /\ Expired(now) \in [Entries -> Entry \cup {NoEntry}]
      /\ Expired(now)[e] = ledger[e]
      /\ ledger[e].status = "quote"
  BY ExpiredType DEF Approve
<1>2. ledger[e] \in Entry
  BY <1>1 DEF LedgerType, NoEntry
<1>3. ledger' = [Expired(now) EXCEPT ![e] = [ledger[e] EXCEPT !.status = "approved"]]
  BY <1>1 DEF Approve
<1>4. [ledger[e] EXCEPT !.status = "approved"] \in Entry
  BY <1>2 DEF Entry, Status
<1> QED
  BY <1>1, <1>3, <1>4, ExpiredType DEF LedgerType, Quiet

LEMMA ReserveApprovedEffect ==
    ASSUME LedgerType, NEW f, NEW now, NEW e \in Entries, ReserveApproved(f, now, e)
    PROVE  /\ LedgerType'
           /\ ledger[e].status = "approved"
           /\ ledger[e].fp = f
           /\ ledger'[e] = [ledger[e] EXCEPT !.status = "pending"]
           /\ \A d \in Entries \ {e} : Quiet(d)
           /\ \A d \in Entries : ledger[d].fp = f => ledger[d].status \notin Unresolved
<1>1. /\ Expired(now) \in [Entries -> Entry \cup {NoEntry}]
      /\ Expired(now)[e] = ledger[e]
      /\ ledger[e].status = "approved"
      /\ ledger[e].fp = f
  BY ExpiredType DEF ReserveApproved, Approved, Newest, OfStatus
<1>2. ledger[e] \in Entry
  BY <1>1 DEF LedgerType, NoEntry
<1>3. ledger' = [Expired(now) EXCEPT ![e] = [ledger[e] EXCEPT !.status = "pending"]]
  BY <1>1 DEF ReserveApproved
<1>4. [ledger[e] EXCEPT !.status = "pending"] \in Entry
  BY <1>2 DEF Entry, Status
<1>5. \A d \in Entries : ledger[d].fp = f => ledger[d].status \notin Unresolved
  BY DEF ReserveApproved, HasUnresolved, OfStatus
<1> QED
  BY <1>1, <1>3, <1>4, <1>5, ExpiredType DEF LedgerType, Quiet

LEMMA ReserveAutoEffect ==
    ASSUME LedgerType, NEW f \in Fingerprints, NEW a \in Prices, NEW now \in Nat,
           NEW e \in Entries, ReserveAuto(f, a, now, e)
    PROVE  /\ LedgerType'
           /\ ledger[e] = NoEntry
           /\ ledger'[e] = NewEntry(f, a, "pending", now)
           /\ \A d \in Entries \ {e} : ledger'[d] = ledger[d]
           /\ \A d \in Entries : ledger[d].fp = f => ledger[d].status \notin Unresolved
BY NewEntryType DEF ReserveAuto, HasUnresolved, OfStatus, LedgerType, Status

LEMMA FinishEffect ==
    ASSUME LedgerType, NEW e \in Entries, NEW s \in {"success", "unknown"}, Finish(e, s)
    PROVE  /\ LedgerType'
           /\ ledger[e].status = "pending"
           /\ ledger'[e] = [ledger[e] EXCEPT !.status = s]
           /\ \A d \in Entries \ {e} : ledger'[d] = ledger[d]
BY DEF Finish, LedgerType, Entry, NoEntry, Status

LEMMA SnapshotEffect ==
    ASSUME LedgerType, NEW now, Snapshot(now)
    PROVE  LedgerType' /\ \A d \in Entries : Quiet(d)
BY ExpiredType DEF Snapshot, LedgerType, Quiet

-----------------------------------------------------------------------------
(* The ledger keeps its entries apart, whoever runs the transaction *)

\* The amount of an entry is the amount its fingerprint was made from.
AmountInv == \A e \in Entries : ledger[e] # NoEntry => ledger[e].amount = ledger[e].fp[2]

LedgerInv == LedgerType /\ OneLiveEntry /\ OneUnresolvedEntry /\ AmountInv

LEMMA QuietFields ==
    ASSUME LedgerType, NEW d \in Entries, Quiet(d)
    PROVE  /\ ledger'[d].fp = ledger[d].fp
           /\ ledger'[d].amount = ledger[d].amount
           /\ ledger'[d] = NoEntry <=> ledger[d] = NoEntry
           /\ \/ ledger'[d].status = ledger[d].status
              \/ ledger[d].status \in Live /\ ledger'[d].status = "expired"
BY DEF LedgerType, Quiet, Live, Entry, NoEntry, Status

LEMMA QuietInv ==
    ASSUME LedgerInv, LedgerType', \A d \in Entries : Quiet(d)
    PROVE  LedgerInv'
BY QuietFields
DEF LedgerInv, OneLiveEntry, OneUnresolvedEntry, AmountInv, Live, Unresolved

\* After the step, entry e meets no other of its fingerprint among the live or
\* among the unresolved ones.
KeptApart(e) ==
    \A d \in Entries \ {e} :
        ledger'[d].fp = ledger'[e].fp =>
            /\ ledger'[e].status \in Live => ledger'[d].status \notin Live
            /\ ledger'[e].status \in Unresolved => ledger'[d].status \notin Unresolved

\* A transaction that rewrites one entry keeps the ledger's promise if that
\* entry is kept apart.
LEMMA RewriteInv ==
    ASSUME LedgerInv, LedgerType', NEW e \in Entries,
           \A d \in Entries \ {e} : Quiet(d),
           ledger'[e].amount = ledger'[e].fp[2],
           KeptApart(e)
    PROVE  LedgerInv'
<1>1. \A d \in Entries \ {e} :
        /\ ledger'[d].fp = ledger[d].fp
        /\ ledger'[d].amount = ledger[d].amount
        /\ ledger'[d] = NoEntry <=> ledger[d] = NoEntry
        /\ ledger'[d].status \in Live => ledger[d].status \in Live
        /\ ledger'[d].status \in Unresolved => ledger[d].status \in Unresolved
  BY QuietFields DEF LedgerInv, Live, Unresolved
<1>2. AmountInv'
  BY <1>1 DEF AmountInv, LedgerInv
<1>3. OneLiveEntry'
  BY <1>1 DEF OneLiveEntry, LedgerInv, KeptApart
<1>4. OneUnresolvedEntry'
  BY <1>1 DEF OneUnresolvedEntry, LedgerInv, KeptApart
<1> QED
  BY <1>2, <1>3, <1>4 DEF LedgerInv

LEMMA InsertQuoteInv ==
    ASSUME LedgerInv, NEW r \in Requests, NEW a \in Prices, NEW now \in Nat,
           NEW e \in Entries, InsertQuote(Fingerprint(r, a), a, now, e)
    PROVE  LedgerInv'
<1> DEFINE f == Fingerprint(r, a)
<1>1. f \in Fingerprints /\ f[2] = a
  BY DEF Fingerprint, Fingerprints
<1>2. /\ LedgerType'
      /\ \A d \in Entries \ {e} :
            Quiet(d) /\ (ledger'[d].status \in Live => ledger'[d].fp # f)
      /\ ledger'[e] = NewEntry(f, a, "quote", now)
  BY <1>1, InsertQuoteEffect DEF LedgerInv
<1>3. ledger'[e].fp = f /\ ledger'[e].amount = a /\ ledger'[e].status = "quote"
  BY <1>2 DEF NewEntry
<1> HIDE DEF f
<1>4. KeptApart(e)
  BY <1>2, <1>3 DEF KeptApart, Unresolved
<1> QED
  BY <1>1, <1>2, <1>3, <1>4, RewriteInv

LEMMA ApproveInv ==
    ASSUME LedgerInv, NEW e \in Entries, NEW now, Approve(e, now)
    PROVE  LedgerInv'
<1>1. /\ LedgerType'
      /\ ledger[e].status = "quote"
      /\ ledger'[e] = [ledger[e] EXCEPT !.status = "approved"]
      /\ \A d \in Entries \ {e} : Quiet(d)
  BY ApproveEffect DEF LedgerInv
<1>2. /\ ledger'[e].fp = ledger[e].fp
      /\ ledger'[e].amount = ledger[e].fp[2]
      /\ ledger'[e].status = "approved"
  BY <1>1 DEF LedgerInv, LedgerType, AmountInv, Entry, NoEntry
<1>3. \A d \in Entries \ {e} : ledger'[d].status \in Live => ledger'[d].fp # ledger[e].fp
  BY <1>1, QuietFields DEF LedgerInv, OneLiveEntry, Live
<1>4. ledger'[e].amount = ledger'[e].fp[2] /\ KeptApart(e)
  BY <1>2, <1>3 DEF KeptApart, Unresolved
<1> QED
  BY <1>1, <1>4, RewriteInv

LEMMA ReserveApprovedInv ==
    ASSUME LedgerInv, NEW f, NEW now, NEW e \in Entries, ReserveApproved(f, now, e)
    PROVE  LedgerInv'
<1>1. /\ LedgerType'
      /\ ledger[e].status = "approved"
      /\ ledger[e].fp = f
      /\ ledger'[e] = [ledger[e] EXCEPT !.status = "pending"]
      /\ \A d \in Entries \ {e} : Quiet(d)
      /\ \A d \in Entries : ledger[d].fp = f => ledger[d].status \notin Unresolved
  BY ReserveApprovedEffect DEF LedgerInv
<1>2. /\ ledger'[e].fp = f
      /\ ledger'[e].amount = f[2]
      /\ ledger'[e].status = "pending"
  BY <1>1 DEF LedgerInv, LedgerType, AmountInv, Entry, NoEntry
<1>3. \A d \in Entries \ {e} : ledger'[d].status \in Unresolved => ledger'[d].fp # f
  BY <1>1, QuietFields DEF LedgerInv, Unresolved
<1>4. ledger'[e].amount = ledger'[e].fp[2] /\ KeptApart(e)
  BY <1>2, <1>3 DEF KeptApart, Live
<1> QED
  BY <1>1, <1>4, RewriteInv

LEMMA ReserveAutoInv ==
    ASSUME LedgerInv, NEW r \in Requests, NEW a \in Prices, NEW now \in Nat,
           NEW e \in Entries, ReserveAuto(Fingerprint(r, a), a, now, e)
    PROVE  LedgerInv'
<1> DEFINE f == Fingerprint(r, a)
<1>1. f \in Fingerprints /\ f[2] = a
  BY DEF Fingerprint, Fingerprints
<1>2. /\ LedgerType'
      /\ ledger'[e] = NewEntry(f, a, "pending", now)
      /\ \A d \in Entries \ {e} : ledger'[d] = ledger[d]
      /\ \A d \in Entries : ledger[d].fp = f => ledger[d].status \notin Unresolved
  BY <1>1, ReserveAutoEffect DEF LedgerInv
<1>3. ledger'[e].fp = f /\ ledger'[e].amount = a /\ ledger'[e].status = "pending"
  BY <1>2 DEF NewEntry
<1> HIDE DEF f
<1>4. ledger'[e].amount = ledger'[e].fp[2] /\ KeptApart(e)
  BY <1>1, <1>2, <1>3 DEF KeptApart, Live
<1> QED
  BY <1>2, <1>4, RewriteInv DEF Quiet

LEMMA FinishInv ==
    ASSUME LedgerInv, NEW e \in Entries, NEW s \in {"success", "unknown"}, Finish(e, s)
    PROVE  LedgerInv'
<1>1. /\ LedgerType'
      /\ ledger[e].status = "pending"
      /\ ledger'[e] = [ledger[e] EXCEPT !.status = s]
      /\ \A d \in Entries \ {e} : ledger'[d] = ledger[d]
  BY FinishEffect DEF LedgerInv
<1>2. /\ ledger'[e].fp = ledger[e].fp
      /\ ledger'[e].amount = ledger[e].fp[2]
      /\ ledger'[e].status = s
  BY <1>1 DEF LedgerInv, LedgerType, AmountInv, Entry, NoEntry
<1>3. \A d \in Entries \ {e} : ledger[d].status \in Unresolved => ledger[d].fp # ledger[e].fp
  BY <1>1 DEF LedgerInv, OneUnresolvedEntry, Unresolved
<1>4. ledger'[e].amount = ledger'[e].fp[2] /\ KeptApart(e)
  BY <1>1, <1>2, <1>3 DEF KeptApart, Live
<1> QED
  BY <1>1, <1>4, RewriteInv DEF Quiet

-----------------------------------------------------------------------------
(* Type correctness *)

\* Where a call holds a reservation, and where it is before one.
Holding == {"paying", "waiting", "settling", "doubting"}
Preparing == {"quoted", "cleared", "reserving"}

\* The variables around the ledger have their shape.
CallsType ==
    /\ clock \in Nat
    /\ pc \in [PaidCalls -> {"idle"} \cup Running \cup Ended]
    /\ call \in [PaidCalls -> Call]
    /\ signed \in [Entries -> Prices \cup {0}]
    /\ paid \in [Entries -> Prices \cup {0}]
    /\ consented \subseteq Entries
    /\ spentOn \in [Entries -> Nat]

\* A call that is past its quote has a request and a price, and one that is
\* past its reservation an entry.
Equipped ==
    \A c \in PaidCalls :
        /\ pc[c] \in Preparing \cup Holding
            => call[c].request \in Requests /\ call[c].price \in Prices
        /\ pc[c] \in Holding => call[c].entry \in Entries

BaseInv == LedgerInv /\ CallsType /\ Equipped

LEMMA BaseInit == Init => BaseInv
<1> SUFFICES ASSUME Init PROVE BaseInv
  OBVIOUS
<1> USE DEF Init, LedgerInit
<1>1. LedgerInv
  BY DEF LedgerInv, LedgerType, OneLiveEntry, OneUnresolvedEntry, AmountInv,
         NoEntry, Live, Unresolved
<1>2. CallsType
  BY DEF CallsType, Call, NoCall
<1>3. Equipped
  BY DEF Equipped, Preparing, Holding
<1> QED
  BY <1>1, <1>2, <1>3 DEF BaseInv

LEMMA ReadingType ==
    ASSUME CallsType, NEW c \in PaidCalls, NEW now \in Readings(c)
    PROVE  now \in Nat
BY DEF CallsType, Readings, Call

\* Steps that leave the ledger alone.
LEMMA OutsideLedger ==
    ASSUME BaseInv, NEW c \in PaidCalls,
           \/ FetchQuote(c) \/ RefuseQuote(c) \/ LoadWallet(c) \/ NoWallet(c)
           \/ RefuseReservation(c) \/ Submit(c) \/ RefuseToSign(c)
           \/ ReceiveProof(c) \/ ReceiveNoProof(c) \/ Die(c)
    PROVE  BaseInv'
<1> USE DEF BaseInv
<1>1. ledger' = ledger
  BY DEF FetchQuote, RefuseQuote, LoadWallet, NoWallet, RefuseReservation, Submit,
         RefuseToSign, ReceiveProof, ReceiveNoProof, Die, ledgerVars
<1>2. LedgerInv'
  BY <1>1 DEF LedgerInv, LedgerType, OneLiveEntry, OneUnresolvedEntry, AmountInv
<1>3. CASE FetchQuote(c)
  <2>1. CallsType'
    BY <1>3 DEF FetchQuote, CallsType, Call, Running, history
  <2>2. Equipped'
    BY <1>3, <2>1 DEF FetchQuote, CallsType, Equipped, Preparing, Holding
  <2> QED
    BY <1>2, <2>1, <2>2
<1>4. CASE Submit(c)
  <2>1. CallsType'
    BY <1>4 DEF Submit, End, CallsType, Equipped, Holding, Running, ledgerVars, history
  <2>2. Equipped'
    BY <1>4 DEF Submit, End, CallsType, Equipped, Preparing, Holding
  <2> QED
    BY <1>2, <2>1, <2>2
<1>5. CASE LoadWallet(c)
  <2>1. CallsType'
    BY <1>5 DEF LoadWallet, Goto, CallsType, Call, Running, ledgerVars, history
  <2>2. Equipped'
    BY <1>5 DEF LoadWallet, Goto, CallsType, Equipped, Preparing, Holding
  <2> QED
    BY <1>2, <2>1, <2>2
<1>6. ASSUME RefuseQuote(c) \/ NoWallet(c) \/ RefuseReservation(c) \/ RefuseToSign(c)
             \/ ReceiveProof(c) \/ ReceiveNoProof(c) \/ Die(c)
      PROVE  BaseInv'
  <2>1. \E from \in Running \cup {"idle"}, to \in Ended \cup {"doubting", "settling"} :
            /\ End(c, from, to)
            /\ to \in {"doubting", "settling"} => from \in Holding
    BY <1>6 DEF RefuseQuote, NoWallet, RefuseReservation, RefuseToSign, ReceiveProof,
                ReceiveNoProof, Die, Running, Ended, Holding
  <2>2. UNCHANGED <<clock, signed, paid, consented, spentOn>>
    BY <1>6 DEF RefuseQuote, NoWallet, RefuseReservation, RefuseToSign, ReceiveProof,
                ReceiveNoProof, Die, ledgerVars, history
  <2>3. CallsType'
    BY <2>1, <2>2 DEF End, CallsType, Running, Ended
  <2>4. Equipped'
    BY <2>1 DEF End, CallsType, Equipped, Preparing, Holding, Ended
  <2> QED
    BY <1>2, <2>3, <2>4
<1> QED
  BY <1>3, <1>4, <1>5, <1>6

LEMMA SeeQuoteBase ==
    ASSUME BaseInv, NEW c \in PaidCalls, SeeQuote(c)
    PROVE  BaseInv'
<1> USE DEF BaseInv
<1>1. PICK now \in Readings(c), e \in Entries :
        /\ FindQuote(FingerprintOf(c), now, e)
        /\ Goto(c, "quoted", IF ledger[e].status = "approved"
                             THEN "cleared" ELSE "approvalRequired")
        /\ UNCHANGED <<clock, signed, paid, consented, spentOn>>
  BY DEF SeeQuote, history
<1>2. LedgerInv'
  BY <1>1, FindQuoteEffect, QuietInv DEF LedgerInv
<1>3. CallsType'
  BY <1>1 DEF Goto, CallsType, Call, Running, Ended
<1>4. Equipped'
  BY <1>1 DEF Goto, CallsType, Equipped, Preparing, Holding
<1> QED
  BY <1>2, <1>3, <1>4

LEMMA AskApprovalBase ==
    ASSUME BaseInv, NEW c \in PaidCalls, AskApproval(c)
    PROVE  BaseInv'
<1> USE DEF BaseInv
<1>1. PICK now \in Readings(c), e \in Entries :
        /\ End(c, "quoted", "approvalRequired")
        /\ InsertQuote(FingerprintOf(c), call[c].price, now, e)
        /\ UNCHANGED <<clock, signed, paid, consented, spentOn>>
  BY DEF AskApproval, history
<1>2. call[c].request \in Requests /\ call[c].price \in Prices /\ now \in Nat
  BY <1>1, ReadingType DEF End, Equipped, Preparing
<1>3. LedgerInv'
  BY <1>1, <1>2, InsertQuoteInv DEF FingerprintOf
<1>4. CallsType'
  BY <1>1 DEF End, CallsType, Ended
<1>5. Equipped'
  BY <1>1 DEF End, CallsType, Equipped, Preparing, Holding
<1> QED
  BY <1>3, <1>4, <1>5

LEMMA UserBase ==
    ASSUME BaseInv, UserLooks \/ \E e \in Entries : UserApproves(e)
    PROVE  BaseInv'
<1> USE DEF BaseInv
<1>1. LedgerInv'
  <2>1. CASE UserLooks
    BY <2>1, SnapshotEffect, QuietInv DEF UserLooks, LedgerInv
  <2>2. ASSUME NEW e \in Entries, UserApproves(e) PROVE LedgerInv'
    BY <2>2, ApproveInv DEF UserApproves
  <2> QED
    BY <2>1, <2>2
<1>2. CallsType' /\ Equipped'
  BY DEF UserLooks, UserApproves, CallsType, Equipped, callVars, history
<1> QED
  BY <1>1, <1>2

LEMMA ReserveBase ==
    ASSUME BaseInv, NEW c \in PaidCalls, ReserveManual(c) \/ ReserveCapped(c)
    PROVE  BaseInv'
<1> USE DEF BaseInv
<1>1. PICK now \in Readings(c), e \in Entries :
        /\ pc[c] = "reserving"
        /\ \/ ReserveApproved(FingerprintOf(c), now, e)
           \/ ReserveAuto(FingerprintOf(c), call[c].price, now, e)
        /\ Reserved(c, e, now)
  BY DEF ReserveManual, ReserveCapped
<1>2. call[c].request \in Requests /\ call[c].price \in Prices
  BY <1>1 DEF Equipped, Preparing
<1>3. now \in Nat
  BY ReadingType
<1>4. DayOf(now) \in Nat
  BY <1>3, DayOfType
<1>5. LedgerInv'
  BY <1>1, <1>2, <1>3, ReserveApprovedInv, ReserveAutoInv DEF FingerprintOf
<1>6. CallsType'
  BY <1>1, <1>4 DEF Reserved, CallsType, Call, Running
<1>7. Equipped'
  BY <1>1 DEF Reserved, CallsType, Equipped, Preparing, Holding
<1> QED
  BY <1>5, <1>6, <1>7

LEMMA RecordBase ==
    ASSUME BaseInv, NEW c \in PaidCalls, RecordSuccess(c) \/ RecordUnknown(c)
    PROVE  BaseInv'
<1> USE DEF BaseInv
<1>1. PICK s \in {"success", "unknown"}, to \in {"settled", "unknown"} :
        /\ pc[c] \in Holding
        /\ End(c, pc[c], to)
        /\ Finish(call[c].entry, s)
        /\ UNCHANGED <<clock, signed, paid, consented, spentOn>>
  BY DEF RecordSuccess, RecordUnknown, End, Holding, history
<1>2. LedgerInv'
  BY <1>1, FinishInv DEF Equipped
<1>3. CallsType'
  BY <1>1 DEF End, CallsType, Ended
<1>4. Equipped'
  BY <1>1 DEF End, CallsType, Equipped, Preparing, Holding
<1> QED
  BY <1>2, <1>3, <1>4

LEMMA EnvironmentBase ==
    ASSUME BaseInv, TimePasses \/ \E e \in Entries : SellerCollects(e)
    PROVE  BaseInv'
<1> USE DEF BaseInv
<1>1. UNCHANGED <<ledger, pc, call, signed, consented, spentOn>>
  BY DEF TimePasses, SellerCollects, ledgerVars, callVars, history
<1>2. LedgerInv'
  BY <1>1 DEF LedgerInv, LedgerType, OneLiveEntry, OneUnresolvedEntry, AmountInv
<1>3. CallsType'
  BY <1>1 DEF TimePasses, SellerCollects, Tick, CallsType, ledgerVars
<1>4. Equipped'
  BY <1>1 DEF Equipped
<1> QED
  BY <1>2, <1>3, <1>4

LEMMA BaseStep == BaseInv /\ [Next]_vars => BaseInv'
<1> SUFFICES ASSUME BaseInv, [Next]_vars PROVE BaseInv'
  OBVIOUS
<1>1. CASE Next
  BY <1>1, OutsideLedger, SeeQuoteBase, AskApprovalBase, UserBase, ReserveBase,
     RecordBase, EnvironmentBase
  DEF Next, Progress
<1>2. CASE UNCHANGED vars
  BY <1>2 DEF vars, BaseInv, LedgerInv, LedgerType, OneLiveEntry, OneUnresolvedEntry,
              AmountInv, CallsType, Equipped
<1> QED
  BY <1>1, <1>2

LEMMA BaseAlways == Spec => []BaseInv
BY BaseInit, BaseStep, PTL DEF Spec

\* Type correctness of the bridge and its ledger.
THEOREM TypeCorrect == Spec => []TypeOK
<1>1. BaseInv => TypeOK
  BY DEF BaseInv, LedgerInv, LedgerType, CallsType, TypeOK
<1> QED
  BY <1>1, BaseAlways, PTL

\* One fingerprint never has two usable quotes or approvals.
THEOREM LiveEntriesApart == Spec => []OneLiveEntry
<1>1. BaseInv => OneLiveEntry
  BY DEF BaseInv, LedgerInv
<1> QED
  BY <1>1, BaseAlways, PTL

\* One fingerprint never has two payments in doubt, for any number of calls and
\* processes on one ledger.
THEOREM UnresolvedEntriesApart == Spec => []OneUnresolvedEntry
<1>1. BaseInv => OneUnresolvedEntry
  BY DEF BaseInv, LedgerInv
<1> QED
  BY <1>1, BaseAlways, PTL

-----------------------------------------------------------------------------
(* Who holds which entry *)

\* What a call and the entry it has reserved know of each other.
Hold(c) ==
    LET e == call[c].entry
    IN  /\ pc[c] \in {"idle"} \cup Preparing => e = None
        /\ pc[c] \in Holding => e # None /\ ledger[e].status = "pending"
        /\ pc[c] = "paying" => signed[e] = 0
        /\ pc[c] = "settling" => paid[e] # 0
        /\ e # None =>
            /\ e \in Entries
            /\ ledger[e].status \in Spent
            /\ ledger[e].fp = FingerprintOf(c)
            /\ ModeOf[c] = "manual" => e \in consented

\* What the ledger knows of the money of an entry.
Money(e) ==
    /\ signed[e] # 0 => ledger[e].status \in Spent /\ signed[e] = ledger[e].amount
    /\ paid[e] \in {0, signed[e]}
    /\ ledger[e].status = "success" => paid[e] # 0
    /\ ledger[e].status = "approved" => e \in consented

HoldInv ==
    /\ OneCallPerEntry
    /\ \A c \in PaidCalls : Hold(c)
    /\ \A e \in Entries : Money(e)

\* What payments have been reserved on the day they were quoted.
SpentAsQuoted(date) ==
    {e \in Entries :
        ledger[e].status \in Spent /\ spentOn[e] = date /\ ledger[e].date = date}

CapInv ==
    DailyLimit # None => \A date \in Nat : SumFunctionOnSet(Amounts, SpentAsQuoted(date)) <= DailyLimit

LEMMA HoldInit == Init => HoldInv
BY DEF Init, LedgerInit, HoldInv, OneCallPerEntry, Hold, Money, NoCall, NoEntry, Holding

\* Outside payments an entry is neither reserved nor resolved, and it is
\* approved by the user only.
KeepsBook(d) ==
    \/ ledger'[d] = ledger[d]
    \/ /\ ledger[d].status \notin Spent /\ ledger'[d].status \notin Spent
       /\ ledger'[d].status = "approved" => ledger[d].status = "approved" \/ d \in consented'

Reserves(c) == ReserveManual(c) \/ ReserveCapped(c)
Records(c) == RecordSuccess(c) \/ RecordUnknown(c)

\* The steps that touch no money.
Around ==
    \/ \E c \in PaidCalls :
        \/ FetchQuote(c) \/ RefuseQuote(c) \/ SeeQuote(c) \/ AskApproval(c)
        \/ LoadWallet(c) \/ NoWallet(c) \/ RefuseReservation(c)
        \/ RefuseToSign(c) \/ ReceiveNoProof(c) \/ Die(c)
    \/ \E e \in Entries : UserApproves(e)
    \/ UserLooks
    \/ TimePasses
    \/ UNCHANGED vars

LEMMA NextSplit ==
    ASSUME [Next]_vars
    PROVE  \/ Around
           \/ \E c \in PaidCalls : Reserves(c) \/ Records(c) \/ Submit(c) \/ ReceiveProof(c)
           \/ \E e \in Entries : SellerCollects(e)
BY Zenon DEF Next, Progress, Around, Reserves, Records

LEMMA QuietKeeps ==
    ASSUME LedgerType, NEW d \in Entries, Quiet(d)
    PROVE  KeepsBook(d)
BY QuietFields DEF KeepsBook, Quiet, Live, Spent

LEMMA AroundKeeps ==
    ASSUME BaseInv, Around
    PROVE  /\ \A d \in Entries : KeepsBook(d)
           /\ consented \subseteq consented'
           /\ UNCHANGED <<signed, paid, spentOn>>
<1>0. LedgerType
  BY DEF BaseInv, LedgerInv
<1>1. ASSUME NEW c \in PaidCalls,
             \/ FetchQuote(c) \/ RefuseQuote(c) \/ LoadWallet(c) \/ NoWallet(c)
             \/ RefuseReservation(c) \/ RefuseToSign(c) \/ ReceiveNoProof(c) \/ Die(c)
      PROVE  UNCHANGED <<ledger, consented, signed, paid, spentOn>>
  BY <1>1 DEF FetchQuote, RefuseQuote, LoadWallet, NoWallet, RefuseReservation, RefuseToSign,
     ReceiveNoProof, Die, ledgerVars, history
<1>2. ASSUME NEW c \in PaidCalls, SeeQuote(c)
      PROVE  /\ \A d \in Entries : KeepsBook(d)
             /\ UNCHANGED <<consented, signed, paid, spentOn>>
  BY <1>0, <1>2, FindQuoteEffect, QuietKeeps DEF SeeQuote, history
<1>3. ASSUME NEW c \in PaidCalls, AskApproval(c)
      PROVE  /\ \A d \in Entries : KeepsBook(d)
             /\ UNCHANGED <<consented, signed, paid, spentOn>>
  <2>1. PICK now \in Readings(c), e \in Entries :
          /\ pc[c] = "quoted"
          /\ InsertQuote(FingerprintOf(c), call[c].price, now, e)
          /\ UNCHANGED <<consented, signed, paid, spentOn>>
    BY <1>3 DEF AskApproval, End, history
  <2>2. FingerprintOf(c) \in Fingerprints /\ call[c].price \in Prices /\ now \in Nat
    BY <2>1, ReadingType DEF BaseInv, Equipped, Preparing, FingerprintOf, Fingerprint, Fingerprints
  <2>3. /\ ledger[e] = NoEntry
        /\ ledger'[e] = NewEntry(FingerprintOf(c), call[c].price, "quote", now)
        /\ \A d \in Entries \ {e} : Quiet(d)
    BY <1>0, <2>1, <2>2, InsertQuoteEffect
  <2>4. KeepsBook(e)
    BY <2>3 DEF KeepsBook, NewEntry, NoEntry, Spent
  <2> QED BY <1>0, <2>1, <2>3, <2>4, QuietKeeps
<1>4. ASSUME NEW e \in Entries, UserApproves(e)
      PROVE  /\ \A d \in Entries : KeepsBook(d)
             /\ consented \subseteq consented'
             /\ UNCHANGED <<signed, paid, spentOn>>
  <2>1. /\ \E now : Approve(e, now)
        /\ consented' = consented \cup {e}
        /\ UNCHANGED <<signed, paid, spentOn>>
    BY <1>4 DEF UserApproves
  <2>2. /\ ledger[e].status = "quote"
        /\ ledger'[e] = [ledger[e] EXCEPT !.status = "approved"]
        /\ \A d \in Entries \ {e} : Quiet(d)
    BY <1>0, <2>1, ApproveEffect
  <2>3. ledger'[e].status = "approved"
    BY <1>0, <2>2 DEF LedgerType, Entry, NoEntry
  <2>4. KeepsBook(e)
    BY <2>1, <2>2, <2>3 DEF KeepsBook, Spent
  <2> QED BY <1>0, <2>1, <2>2, <2>4, QuietKeeps
<1>5. CASE UserLooks
  BY <1>0, <1>5, SnapshotEffect, QuietKeeps DEF UserLooks, history
<1>6. CASE TimePasses \/ UNCHANGED vars
  BY <1>6 DEF TimePasses, vars, KeepsBook, callVars, history
<1> QED BY <1>1, <1>2, <1>3, <1>4, <1>5, <1>6 DEF Around, KeepsBook

\* What they do to a call: it may prepare a payment or lose sight of one.
LEMMA AroundCalls ==
    ASSUME BaseInv, Around, NEW c \in PaidCalls
    PROVE  \/ /\ \/ pc'[c] = pc[c] \/ pc'[c] \in Ended
                 \/ pc[c] \in Preparing /\ pc'[c] \in Preparing
                 \/ pc[c] \in Holding /\ pc'[c] = "doubting"
              /\ call'[c].entry = call[c].entry
              /\ FingerprintOf(c)' = FingerprintOf(c)
           \/ /\ pc[c] = "idle" /\ pc'[c] \in Preparing
              /\ call'[c].entry = None
<1> USE DEF BaseInv, CallsType, FingerprintOf, Call, Ended, Preparing, Holding
<1>1. ASSUME NEW d \in PaidCalls, FetchQuote(d)
      PROVE  \/ pc'[c] = pc[c] /\ call'[c] = call[c]
             \/ pc[c] = "idle" /\ pc'[c] \in Preparing /\ call'[c].entry = None
  BY <1>1 DEF FetchQuote
<1>2. ASSUME NEW d \in PaidCalls,
             \/ RefuseQuote(d) \/ NoWallet(d) \/ RefuseReservation(d) \/ AskApproval(d) \/ Die(d)
      PROVE  (pc'[c] = pc[c] \/ pc'[c] \in Ended) /\ call' = call
  BY <1>2 DEF RefuseQuote, NoWallet, RefuseReservation, AskApproval, Die, End
<1>3. ASSUME NEW d \in PaidCalls, RefuseToSign(d) \/ ReceiveNoProof(d)
      PROVE  /\ \/ pc'[c] = pc[c]
                \/ pc[c] \in Holding /\ pc'[c] = "doubting"
             /\ call' = call
  BY <1>3 DEF RefuseToSign, ReceiveNoProof, End
<1>4. ASSUME NEW d \in PaidCalls, SeeQuote(d) \/ LoadWallet(d)
      PROVE  /\ \/ pc'[c] = pc[c] \/ pc'[c] \in Ended
                \/ pc[c] \in Preparing /\ pc'[c] \in Preparing
             /\ call'[c].entry = call[c].entry
             /\ FingerprintOf(c)' = FingerprintOf(c)
  BY <1>4 DEF SeeQuote, LoadWallet, Goto
<1>5. ASSUME \/ \E e \in Entries : UserApproves(e)
             \/ UserLooks \/ TimePasses \/ UNCHANGED vars
      PROVE  pc' = pc /\ call' = call
  BY <1>5 DEF UserApproves, UserLooks, TimePasses, vars, callVars
<1> HIDE DEF BaseInv, CallsType, Call, Ended, Preparing, Holding
<1> QED BY <1>1, <1>2, <1>3, <1>4, <1>5 DEF Around

LEMMA ReserveEffect ==
    ASSUME BaseInv, NEW c \in PaidCalls, Reserves(c)
    PROVE  \E now \in Nat, e \in Entries :
             /\ pc[c] = "reserving"
             /\ now \in Readings(c)
             /\ Reserved(c, e, now)
             /\ ledger[e].status \notin Spent
             /\ ModeOf[c] = "manual" => ledger[e].status = "approved"
             /\ ledger'[e] \in Entry
             /\ ledger'[e].status = "pending"
             /\ ledger'[e].fp = FingerprintOf(c)
             /\ ledger'[e].amount = call[c].price
             /\ ModeOf[c] = "auto" => ledger'[e].date = DayOf(now)
             /\ \A d \in Entries \ {e} : Quiet(d)
             /\ ~HasUnresolved(FingerprintOf(c))
             /\ WithinCap(call[c].price, now)
<1>0. LedgerType /\ LedgerInv
  BY DEF BaseInv, LedgerInv
<1>1. CASE ReserveManual(c)
  <2>1. PICK now \in Readings(c), e \in Entries :
          /\ pc[c] = "reserving" /\ ModeOf[c] = "manual"
          /\ ReserveApproved(FingerprintOf(c), now, e)
          /\ Reserved(c, e, now)
    BY <1>1 DEF ReserveManual
  <2>2. now \in Nat /\ call[c].price \in Prices /\ call[c].request \in Requests
    BY <2>1, ReadingType DEF BaseInv, Equipped, Preparing
  <2>3. /\ ledger[e].status = "approved"
        /\ ledger[e].fp = FingerprintOf(c)
        /\ ledger'[e] = [ledger[e] EXCEPT !.status = "pending"]
        /\ \A d \in Entries \ {e} : Quiet(d)
    BY <1>0, <2>1, ReserveApprovedEffect
  <2>4. ledger[e] \in Entry
    BY <1>0, <2>3 DEF LedgerType, NoEntry
  <2>5. ledger[e].amount = call[c].price
    BY <1>0, <2>3 DEF LedgerInv, AmountInv, NoEntry, FingerprintOf, Fingerprint
  <2>6. /\ ledger'[e] \in Entry /\ ledger'[e].status = "pending"
        /\ ledger'[e].fp = FingerprintOf(c) /\ ledger'[e].amount = call[c].price
    BY <2>3, <2>4, <2>5 DEF Entry, Status
  <2>7. ~HasUnresolved(FingerprintOf(c)) /\ WithinCap(call[c].price, now)
    BY <2>1, <2>5 DEF ReserveApproved
  <2> QED BY <2>1, <2>2, <2>3, <2>6, <2>7 DEF Spent
<1>2. CASE ReserveCapped(c)
  <2>1. PICK now \in Readings(c), e \in Entries :
          /\ pc[c] = "reserving" /\ ModeOf[c] = "auto"
          /\ ReserveAuto(FingerprintOf(c), call[c].price, now, e)
          /\ Reserved(c, e, now)
    BY <1>2 DEF ReserveCapped
  <2>2. /\ now \in Nat /\ call[c].price \in Prices
        /\ FingerprintOf(c) \in Fingerprints
    BY <2>1, ReadingType DEF BaseInv, Equipped, Preparing, FingerprintOf, Fingerprint, Fingerprints
  <2>3. /\ ledger[e] = NoEntry
        /\ ledger'[e] = NewEntry(FingerprintOf(c), call[c].price, "pending", now)
        /\ \A d \in Entries \ {e} : ledger'[d] = ledger[d]
    BY <1>0, <2>1, <2>2, ReserveAutoEffect
  <2>4. ledger'[e] \in Entry
    BY <2>2, <2>3, NewEntryType DEF Status
  <2>5. /\ ledger'[e].status = "pending" /\ ledger'[e].fp = FingerprintOf(c)
        /\ ledger'[e].amount = call[c].price /\ ledger'[e].date = DayOf(now)
    BY <2>3 DEF NewEntry
  <2>6. ~HasUnresolved(FingerprintOf(c)) /\ WithinCap(call[c].price, now)
    BY <2>1 DEF ReserveAuto
  <2>7. ledger[e].status \notin Spent /\ \A d \in Entries \ {e} : Quiet(d)
    BY <2>3 DEF NoEntry, Spent, Quiet
  <2> QED BY <2>1, <2>2, <2>4, <2>5, <2>6, <2>7
<1> QED BY <1>1, <1>2 DEF Reserves

LEMMA RecordEffect ==
    ASSUME BaseInv, HoldInv, NEW c \in PaidCalls, Records(c)
    PROVE  \E e \in Entries, s \in {"success", "unknown"} :
             /\ e = call[c].entry
             /\ ledger[e].status = "pending"
             /\ ledger[e] \in Entry
             /\ ledger' = [ledger EXCEPT ![e] = [ledger[e] EXCEPT !.status = s]]
             /\ s = "success" => pc[c] = "settling" /\ paid[e] # 0
             /\ pc[c] \in Holding
             /\ pc' = [pc EXCEPT ![c] = IF s = "success" THEN "settled" ELSE "unknown"]
             /\ UNCHANGED <<clock, call, signed, paid, consented, spentOn>>
<1>1. PICK s \in {"success", "unknown"} :
        /\ Finish(call[c].entry, s)
        /\ s = "success" => pc[c] = "settling"
        /\ pc[c] \in {"settling", "doubting"}
        /\ pc' = [pc EXCEPT ![c] = IF s = "success" THEN "settled" ELSE "unknown"]
        /\ UNCHANGED <<clock, call, signed, paid, consented, spentOn>>
  BY DEF Records, RecordSuccess, RecordUnknown, End, history
<1>2. call[c].entry \in Entries /\ pc[c] \in Holding
  BY <1>1 DEF BaseInv, Equipped, Holding
<1>3. ledger[call[c].entry] \in Entry /\ ledger[call[c].entry].status = "pending"
  BY <1>1, <1>2 DEF Finish, BaseInv, LedgerInv, LedgerType, NoEntry
<1>4. pc[c] = "settling" => paid[call[c].entry] # 0
  BY DEF HoldInv, Hold
<1>5. ledger' = [ledger EXCEPT ![call[c].entry] = [ledger[call[c].entry] EXCEPT !.status = s]]
  BY <1>1 DEF Finish
<1> QED BY <1>1, <1>2, <1>3, <1>4, <1>5

LEMMA AroundHold ==
    ASSUME BaseInv, HoldInv, Around
    PROVE  HoldInv'
<1>1. OneCallPerEntry'
  <2>1. \A c \in PaidCalls : call'[c].entry = call[c].entry \/ call'[c].entry = None
    BY AroundCalls
  <2> QED BY <2>1 DEF HoldInv, OneCallPerEntry
<1>2. ASSUME NEW e \in Entries PROVE Money(e)'
  <2>1. Money(e)
    BY DEF HoldInv
  <2>2. KeepsBook(e) /\ consented \subseteq consented' /\ UNCHANGED <<signed, paid>>
    BY AroundKeeps
  <2> QED BY <2>1, <2>2 DEF Money, KeepsBook, Spent
<1>3. ASSUME NEW c \in PaidCalls PROVE Hold(c)'
  <2>1. Hold(c)
    BY DEF HoldInv
  <2>2. CASE pc[c] = "idle" /\ pc'[c] \in Preparing /\ call'[c].entry = None
    BY <2>2 DEF Hold, Preparing, Holding
  <2>3. CASE /\ \/ pc'[c] = pc[c] \/ pc'[c] \in Ended
                \/ pc[c] \in Preparing /\ pc'[c] \in Preparing
                \/ pc[c] \in Holding /\ pc'[c] = "doubting"
             /\ call'[c].entry = call[c].entry
             /\ FingerprintOf(c)' = FingerprintOf(c)
    <3> DEFINE e == call[c].entry
    <3>1. pc'[c] \in {"idle"} \cup Preparing => e = None
      BY <2>1, <2>3 DEF Hold, Preparing, Ended
    <3>2. pc'[c] \in Holding => pc[c] \in Holding
      BY <2>3 DEF Holding, Preparing, Ended
    <3>3. e # None =>
            /\ e \in Entries
            /\ ledger'[e].status \in Spent
            /\ ledger'[e] = ledger[e]
            /\ ledger'[e].fp = FingerprintOf(c)
            /\ ModeOf[c] = "manual" => e \in consented'
      BY <2>1, AroundKeeps DEF Hold, KeepsBook
    <3>4. pc'[c] = "paying" => pc[c] = "paying"
      BY <2>3 DEF Preparing, Ended
    <3>5. pc'[c] = "settling" => pc[c] = "settling"
      BY <2>3 DEF Preparing, Ended
    <3>6. signed' = signed /\ paid' = paid
      BY AroundKeeps
    <3> QED BY <2>1, <2>3, <3>1, <3>2, <3>3, <3>4, <3>5, <3>6 DEF Hold
  <2> QED BY <2>2, <2>3, AroundCalls
<1> QED BY <1>1, <1>2, <1>3 DEF HoldInv

LEMMA MoneyHold ==
    ASSUME BaseInv, HoldInv, NEW c \in PaidCalls, Submit(c) \/ ReceiveProof(c)
    PROVE  HoldInv'
<1>1. UNCHANGED <<ledger, call, paid, consented>>
  BY DEF Submit, ReceiveProof, End, ledgerVars, history
<1>2. OneCallPerEntry'
  BY <1>1 DEF HoldInv, OneCallPerEntry
<1>3. CASE ReceiveProof(c)
  <2>1. /\ pc[c] = "waiting" /\ pc' = [pc EXCEPT ![c] = "settling"] /\ signed' = signed
        /\ paid[call[c].entry] # 0
    BY <1>3 DEF ReceiveProof, End
  <2>2. \A d \in PaidCalls : Hold(d)'
    BY <1>1, <2>1 DEF HoldInv, Hold, FingerprintOf, BaseInv, CallsType, Preparing, Holding
  <2>3. \A e \in Entries : Money(e)'
    BY <1>1, <2>1 DEF HoldInv, Money
  <2> QED BY <1>2, <2>2, <2>3 DEF HoldInv
<1>4. CASE Submit(c)
  <2>1. PICK e \in Entries : e = call[c].entry /\ pc[c] = "paying"
    BY <1>4 DEF Submit, End, BaseInv, Equipped, Holding
  <2>2. /\ pc' = [pc EXCEPT ![c] = "waiting"]
        /\ signed' = [signed EXCEPT ![e] = call[c].price]
    BY <1>4, <2>1 DEF Submit, End, Signs
  <2>3. /\ ledger[e].status = "pending" /\ ledger[e].fp = FingerprintOf(c)
        /\ signed[e] = 0 /\ paid[e] = 0 /\ e # None
    BY <2>1 DEF HoldInv, Hold, Holding, Money
  <2>4. ledger[e].amount = call[c].price
    BY <2>3 DEF BaseInv, LedgerInv, AmountInv, NoEntry, FingerprintOf, Fingerprint
  <2>5. \A d \in PaidCalls : Hold(d)'
    <3> SUFFICES ASSUME NEW d \in PaidCalls PROVE Hold(d)'
      OBVIOUS
    <3>1. Hold(d)
      BY DEF HoldInv
    <3>2. CASE d = c
      BY <1>1, <2>1, <2>2, <3>1, <3>2 DEF Hold, FingerprintOf, BaseInv, CallsType, Preparing, Holding
    <3>3. CASE d # c
      <4>1. pc'[d] = pc[d] /\ call[d].entry # e
        BY <2>1, <2>2, <2>3, <3>3 DEF HoldInv, OneCallPerEntry
      <4>2. call[d].entry # None => call[d].entry \in Entries /\ signed'[call[d].entry] = signed[call[d].entry]
        BY <2>2, <3>1, <4>1 DEF Hold, BaseInv, CallsType
      <4>3. pc[d] = "paying" => call[d].entry # None
        BY <3>1 DEF Hold, Holding
      <4> QED BY <1>1, <3>1, <4>1, <4>2, <4>3 DEF Hold, FingerprintOf
    <3> QED BY <3>2, <3>3
  <2>6. \A d \in Entries : Money(d)'
    BY <1>1, <2>2, <2>3, <2>4 DEF HoldInv, Money, BaseInv, CallsType, Spent
  <2> QED BY <1>2, <2>5, <2>6 DEF HoldInv
<1> QED BY <1>3, <1>4

LEMMA CollectHold ==
    ASSUME BaseInv, HoldInv, NEW e \in Entries, SellerCollects(e)
    PROVE  HoldInv'
<1>1. /\ signed[e] # 0 /\ paid[e] = 0
      /\ paid' = [paid EXCEPT ![e] = signed[e]]
      /\ UNCHANGED <<ledger, pc, call, signed, consented>>
  BY DEF SellerCollects, ledgerVars, callVars, history
<1>2. OneCallPerEntry'
  BY <1>1 DEF HoldInv, OneCallPerEntry
<1>3. \A d \in Entries : paid[d] # 0 => paid'[d] # 0
  BY <1>1 DEF BaseInv, CallsType
<1>4. \A c \in PaidCalls : Hold(c)'
  <2> SUFFICES ASSUME NEW c \in PaidCalls PROVE Hold(c)'
    OBVIOUS
  <2>1. Hold(c)
    BY DEF HoldInv
  <2>2. pc[c] = "settling" => call[c].entry \in Entries /\ paid'[call[c].entry] # 0
    BY <1>3, <2>1 DEF Hold, Holding
  <2> QED BY <1>1, <2>1, <2>2 DEF Hold, FingerprintOf
<1>5. \A d \in Entries : Money(d)'
  BY <1>1 DEF HoldInv, Money, BaseInv, CallsType
<1> QED BY <1>2, <1>4, <1>5 DEF HoldInv

LEMMA ReserveHold ==
    ASSUME BaseInv, HoldInv, NEW c \in PaidCalls, Reserves(c)
    PROVE  HoldInv'
<1>1. PICK now \in Nat, e \in Entries :
        /\ pc[c] = "reserving"
        /\ Reserved(c, e, now)
        /\ ledger[e].status \notin Spent
        /\ ModeOf[c] = "manual" => ledger[e].status = "approved"
        /\ ledger'[e].status = "pending"
        /\ ledger'[e].fp = FingerprintOf(c)
        /\ \A d \in Entries \ {e} : Quiet(d)
  BY ReserveEffect
<1>2. /\ pc' = [pc EXCEPT ![c] = "paying"]
      /\ call' = [call EXCEPT ![c] = [@ EXCEPT !.entry = e, !.since = clock]]
      /\ UNCHANGED <<signed, paid, consented>>
  BY <1>1 DEF Reserved
<1>3. /\ call'[c].entry = e /\ FingerprintOf(c)' = FingerprintOf(c) /\ pc'[c] = "paying"
      /\ \A d \in PaidCalls \ {c} : call'[d] = call[d] /\ pc'[d] = pc[d]
  BY <1>2 DEF BaseInv, CallsType, Call, FingerprintOf
<1>4. \A d \in PaidCalls : call[d].entry # e
  BY <1>1, LedgerAssumption DEF HoldInv, Hold
<1>5. signed[e] = 0 /\ paid[e] = 0 /\ e # None
  BY <1>1, LedgerAssumption DEF HoldInv, Money
<1>6. \A d \in Entries \ {e} : KeepsBook(d)
  BY <1>1, QuietKeeps DEF BaseInv, LedgerInv
<1>7. OneCallPerEntry'
  BY <1>3, <1>4 DEF HoldInv, OneCallPerEntry
<1>8. \A d \in PaidCalls : Hold(d)'
  <2> SUFFICES ASSUME NEW d \in PaidCalls PROVE Hold(d)'
    OBVIOUS
  <2>1. CASE d = c
    <3>1. ModeOf[c] = "manual" => e \in consented
      BY <1>1 DEF HoldInv, Money
    <3> QED BY <1>1, <1>2, <1>3, <1>5, <2>1, <3>1 DEF Hold, Preparing, Holding, Spent
  <2>2. CASE d # c
    <3>1. Hold(d)
      BY DEF HoldInv
    <3>2. call[d].entry # None => call[d].entry \in Entries /\ ledger'[call[d].entry] = ledger[call[d].entry]
      BY <1>4, <1>6, <3>1 DEF Hold, KeepsBook
    <3> QED BY <1>2, <1>3, <2>2, <3>1, <3>2 DEF Hold, FingerprintOf
  <2> QED BY <2>1, <2>2
<1>9. \A d \in Entries : Money(d)'
  <2> SUFFICES ASSUME NEW d \in Entries PROVE Money(d)'
    OBVIOUS
  <2>1. CASE d = e
    BY <1>1, <1>2, <1>5, <2>1 DEF Money
  <2>2. CASE d # e
    BY <1>2, <1>6, <2>2 DEF HoldInv, Money, KeepsBook, Spent
  <2> QED BY <2>1, <2>2
<1> QED BY <1>7, <1>8, <1>9 DEF HoldInv

LEMMA RecordHold ==
    ASSUME BaseInv, HoldInv, NEW c \in PaidCalls, Records(c)
    PROVE  HoldInv'
<1>1. PICK e \in Entries, s \in {"success", "unknown"} :
        /\ e = call[c].entry
        /\ ledger[e].status = "pending"
        /\ ledger[e] \in Entry
        /\ ledger' = [ledger EXCEPT ![e] = [ledger[e] EXCEPT !.status = s]]
        /\ s = "success" => pc[c] = "settling" /\ paid[e] # 0
        /\ pc[c] \in Holding
        /\ pc' = [pc EXCEPT ![c] = IF s = "success" THEN "settled" ELSE "unknown"]
        /\ UNCHANGED <<clock, call, signed, paid, consented, spentOn>>
  BY RecordEffect
<1>2. /\ ledger'[e].status = s /\ ledger'[e].fp = ledger[e].fp
      /\ ledger'[e].amount = ledger[e].amount
      /\ \A d \in Entries \ {e} : ledger'[d] = ledger[d]
  BY <1>1 DEF BaseInv, LedgerInv, LedgerType, Entry
<1>3. OneCallPerEntry'
  BY <1>1 DEF HoldInv, OneCallPerEntry
<1>4. \A d \in PaidCalls : Hold(d)'
  <2> SUFFICES ASSUME NEW d \in PaidCalls PROVE Hold(d)'
    OBVIOUS
  <2>1. Hold(d)
    BY DEF HoldInv
  <2>2. CASE d = c
    <3>1. pc'[c] \in {"settled", "unknown"}
      BY <1>1 DEF BaseInv, CallsType
    <3> QED BY <1>1, <1>2, <2>1, <2>2, <3>1 DEF Hold, FingerprintOf, Preparing, Holding, Spent
  <2>3. CASE d # c
    <3>1. pc'[d] = pc[d]
      BY <1>1, <2>3
    <3>2. call[d].entry # e
      BY <1>1, <2>3 DEF HoldInv, OneCallPerEntry, Hold
    <3>3. call[d].entry # None => call[d].entry \in Entries /\ ledger'[call[d].entry] = ledger[call[d].entry]
      BY <1>2, <2>1, <3>2 DEF Hold
    <3> QED BY <1>1, <2>1, <3>1, <3>3 DEF Hold, FingerprintOf
  <2> QED BY <2>2, <2>3
<1>5. \A d \in Entries : Money(d)'
  BY <1>1, <1>2 DEF HoldInv, Money, Spent
<1> QED BY <1>3, <1>4, <1>5 DEF HoldInv

LEMMA HoldStep == BaseInv /\ HoldInv /\ [Next]_vars => HoldInv'
BY NextSplit, AroundHold, MoneyHold, CollectHold, ReserveHold, RecordHold

LEMMA HoldAlways == Spec => [](BaseInv /\ HoldInv)
<1>1. Init => BaseInv /\ HoldInv
  BY BaseInit, HoldInit
<1>2. (BaseInv /\ HoldInv) /\ [Next]_vars => (BaseInv /\ HoldInv)'
  BY BaseStep, HoldStep
<1> QED BY <1>1, <1>2, PTL DEF Spec

\* A reservation belongs to one call, in any number of processes.
THEOREM ReservationsHaveOneCall == Spec => []OneCallPerEntry
<1>1. HoldInv => OneCallPerEntry
  BY DEF HoldInv
<1> QED BY <1>1, HoldAlways, PTL

\* What is charged is what was approved, although the seller is asked three times.
THEOREM ChargesAreApproved == Spec => []ChargedWhatWasApproved
<1>1. HoldInv => ChargedWhatWasApproved
  BY DEF HoldInv, Hold, Money, ChargedWhatWasApproved
<1> QED BY <1>1, HoldAlways, PTL

\* Money that may have moved stays on the books, through crashes and lost answers.
THEOREM ChargesStayOnTheBooks == Spec => []ChargedStaysOnTheBooks
<1>1. HoldInv => ChargedStaysOnTheBooks
  BY DEF HoldInv, Money, ChargedStaysOnTheBooks
<1> QED BY <1>1, HoldAlways, PTL

-----------------------------------------------------------------------------
(* Approvals age *)

LEMMA FreshStep ==
    ASSUME BaseInv, HoldInv, [Next]_vars, NEW e \in Entries,
           ledger[e].status = "approved", ledger'[e].status = "pending"
    PROVE  clock < ledger[e].expires + MaxLockWait
<1>0. LedgerType
  BY DEF BaseInv, LedgerInv
<1>1. PICK c \in PaidCalls : Reserves(c)
  <2>1. ~Around
    BY AroundKeeps DEF KeepsBook, Spent
  <2>2. \A c \in PaidCalls : ~Records(c)
    <3> SUFFICES ASSUME NEW c \in PaidCalls, Records(c) PROVE FALSE
      OBVIOUS
    <3>1. ledger' = [ledger EXCEPT ![call[c].entry] = ledger'[call[c].entry]]
          /\ ledger[call[c].entry].status = "pending" /\ call[c].entry \in Entries
      BY <1>0 DEF Records, RecordSuccess, RecordUnknown, Finish, End, LedgerType,
         BaseInv, Equipped, Holding
    <3>2. ledger'[e] = ledger[e]
      BY <1>0, <3>1 DEF LedgerType
    <3> QED BY <3>2
  <2> QED BY <2>1, <2>2, NextSplit DEF Submit, ReceiveProof, SellerCollects, ledgerVars
<1>2. CASE ReserveManual(c)
  <2>1. PICK now \in Readings(c), d \in Entries : ReserveApproved(FingerprintOf(c), now, d)
    BY <1>2 DEF ReserveManual
  <2>2. /\ now \in Nat /\ clock \in Nat /\ clock - now <= MaxLockWait
        /\ MaxLockWait \in Nat /\ ledger[e] \in Entry
    BY <1>0, ReadingType, LedgerAssumption
    DEF Readings, BaseInv, CallsType, LedgerType, NoEntry
  <2>3. d = e
    <3>1. \A x \in Entries \ {d} : Quiet(x)
      BY <1>0, <2>1, ReserveApprovedEffect
    <3> QED BY <1>0, <3>1, QuietFields DEF Live
  <2>4. Expired(now)[e].status = "approved"
    BY <2>1, <2>3 DEF ReserveApproved, Approved, Newest, OfStatus
  <2>5. ~(ledger[e].expires <= now)
    BY <1>0, <2>4 DEF Expired, LedgerType, Entry, NoEntry, Live
  <2>6. ledger[e].expires \in Nat
    BY <2>2 DEF Entry
  <2> QED BY <2>2, <2>5, <2>6
<1>3. CASE ReserveCapped(c)
  <2>1. PICK d \in Entries : ledger[d] = NoEntry /\ \A x \in Entries \ {d} : ledger'[x] = ledger[x]
    BY <1>0, <1>3 DEF ReserveCapped, ReserveAuto, LedgerType
  <2> QED BY <2>1 DEF NoEntry
<1> QED BY <1>1, <1>2, <1>3 DEF Reserves

\* An approval is not used after its ten minutes, up to the wait for the lock.
THEOREM ApprovalsAge == Spec => ApprovalIsFresh
<1>1. BaseInv /\ HoldInv /\ [Next]_vars =>
        \A e \in Entries : ledger[e].status = "approved" /\ ledger'[e].status = "pending"
            => clock < ledger[e].expires + MaxLockWait
  BY FreshStep
<1> QED BY <1>1, HoldAlways, PTL DEF Spec, ApprovalIsFresh

-----------------------------------------------------------------------------
(* The promise *)

Open == [f \in Fingerprints |-> UnresolvedEntry(f)]
Used == {e \in Entries : ledger[e].status \in Spent}
Charged == {e \in Entries : paid[e] # 0}
Confirmed == {e \in Entries : ledger[e].status = "success"}

\* The open payment of a fingerprint is its one unresolved entry.
LEMMA OpenIs ==
    ASSUME LedgerType, OneUnresolvedEntry, NEW f
    PROVE  /\ \A e \in Entries :
                UnresolvedEntry(f) = e <=> ledger[e].status \in Unresolved /\ ledger[e].fp = f
           /\ UnresolvedEntry(f) = None <=> ~HasUnresolved(f)
           /\ UnresolvedEntry(f) \in Entries \cup {None}
<1>1. CASE HasUnresolved(f)
  <2>1. UnresolvedEntry(f) \in OfStatus(ledger, f, Unresolved)
    BY <1>1 DEF UnresolvedEntry, HasUnresolved
  <2> QED BY <1>1, <2>1, LedgerAssumption DEF OfStatus, OneUnresolvedEntry
<1>2. CASE ~HasUnresolved(f)
  BY <1>2, LedgerAssumption DEF UnresolvedEntry, HasUnresolved, OfStatus
<1> QED BY <1>1, <1>2

LEMMA OpenSame ==
    ASSUME NEW f,
           \A e \in Entries : (ledger'[e].status \in Unresolved /\ ledger'[e].fp = f)
                                <=> (ledger[e].status \in Unresolved /\ ledger[e].fp = f)
    PROVE  UnresolvedEntry(f)' = UnresolvedEntry(f)
<1>1. OfStatus(ledger', f, Unresolved) = OfStatus(ledger, f, Unresolved)
  BY DEF OfStatus
<1>2. UnresolvedEntry(f)' = IF OfStatus(ledger', f, Unresolved) # {}
                            THEN CHOOSE e \in OfStatus(ledger', f, Unresolved) : TRUE ELSE None
  BY DEF UnresolvedEntry, HasUnresolved, OfStatus
<1>3. UnresolvedEntry(f) = IF OfStatus(ledger, f, Unresolved) # {}
                           THEN CHOOSE e \in OfStatus(ledger, f, Unresolved) : TRUE ELSE None
  BY DEF UnresolvedEntry, HasUnresolved
<1> QED BY <1>1, <1>2, <1>3

LEMMA PromiseInit == Init => Promised!Init
<1> SUFFICES ASSUME Init PROVE Promised!Init
  OBVIOUS
<1>1. \A f \in Fingerprints : UnresolvedEntry(f) = None
  BY DEF Init, LedgerInit, UnresolvedEntry, HasUnresolved, OfStatus, NoEntry, Unresolved
<1>2. Used = {} /\ Charged = {} /\ Confirmed = {}
  BY DEF Init, LedgerInit, Used, Charged, Confirmed, NoEntry, Spent
<1> QED BY <1>1, <1>2 DEF Promised!Init, Used, Charged, Confirmed

\* The step of the bridge is one of the promise's, or none.
LEMMA PromiseStep ==
    ASSUME BaseInv, HoldInv, [Next]_vars
    PROVE  [Promised!Next]_Promised!vars
<1>0. /\ LedgerType /\ LedgerType' /\ OneUnresolvedEntry /\ OneUnresolvedEntry'
      /\ CallsType
  BY BaseStep DEF BaseInv, LedgerInv
<1> SUFFICES \/ Open' = Open /\ Used' = Used /\ Charged' = Charged /\ Confirmed' = Confirmed
             \/ \E f \in Fingerprints, e \in Entries : Promised!Start(f, e)
             \/ \E e \in Entries : Promised!Charge(e)
             \/ \E f \in Fingerprints : Promised!Confirm(f)
  BY DEF Promised!Next, Promised!vars, Open, Used, Charged, Confirmed
<1>1. CASE Around \/ \E c \in PaidCalls : Submit(c) \/ ReceiveProof(c)
  <2>1. (\A d \in Entries : KeepsBook(d)) /\ paid' = paid
    BY <1>1, AroundKeeps DEF Submit, ReceiveProof, ledgerVars, history, KeepsBook
  <2>2. \A f \in Fingerprints : UnresolvedEntry(f)' = UnresolvedEntry(f)
    BY <2>1, OpenSame DEF KeepsBook, Spent, Unresolved
  <2> QED BY <2>1, <2>2 DEF Open, Used, Charged, Confirmed, KeepsBook, Spent
<1>2. ASSUME NEW c \in PaidCalls, Reserves(c)
      PROVE  \E f \in Fingerprints, e \in Entries : Promised!Start(f, e)
  <2>1. PICK now \in Nat, e \in Entries :
          /\ Reserved(c, e, now)
          /\ ledger[e].status \notin Spent
          /\ ledger'[e] \in Entry
          /\ ledger'[e].status = "pending"
          /\ ledger'[e].fp = FingerprintOf(c)
          /\ \A d \in Entries \ {e} : Quiet(d)
          /\ ~HasUnresolved(FingerprintOf(c))
    BY <1>2, ReserveEffect
  <2>2. PICK f \in Fingerprints : f = ledger'[e].fp
    BY <2>1 DEF Entry
  <2>3. \A d \in Entries \ {e} : KeepsBook(d)
    BY <1>0, <2>1, QuietKeeps
  <2>4. UnresolvedEntry(f) = None /\ UnresolvedEntry(f)' = e
    <3>1. UnresolvedEntry(f) = None
      BY <1>0, <2>1, <2>2, OpenIs
    <3>2. OfStatus(ledger', f, Unresolved) = {e}
      <4>1. e \in OfStatus(ledger', f, Unresolved)
        BY <2>1, <2>2 DEF OfStatus, Unresolved
      <4> QED BY <1>0, <4>1 DEF OfStatus, OneUnresolvedEntry
    <3>3. UnresolvedEntry(f)' = IF OfStatus(ledger', f, Unresolved) # {}
                                THEN CHOOSE x \in OfStatus(ledger', f, Unresolved) : TRUE ELSE None
      BY DEF UnresolvedEntry, HasUnresolved, OfStatus
    <3> QED BY <3>1, <3>2, <3>3
  <2>5. \A g \in Fingerprints \ {f} : UnresolvedEntry(g)' = UnresolvedEntry(g)
    <3> SUFFICES ASSUME NEW g \in Fingerprints \ {f}
                 PROVE  UnresolvedEntry(g)' = UnresolvedEntry(g)
      OBVIOUS
    <3>1. ledger'[e].fp # g /\ ledger[e].status \notin Unresolved
      BY <2>1, <2>2 DEF Spent, Unresolved
    <3>2. \A d \in Entries \ {e} : (ledger'[d].status \in Unresolved /\ ledger'[d].fp = g)
                                <=> (ledger[d].status \in Unresolved /\ ledger[d].fp = g)
      BY <2>3 DEF KeepsBook, Spent, Unresolved
    <3> QED BY <3>1, <3>2, OpenSame
  <2>6. Open[f] = None /\ Open' = [Open EXCEPT ![f] = e]
    BY <2>4, <2>5 DEF Open
  <2>7. e \notin Used /\ Used' = Used \cup {e} /\ Confirmed' = Confirmed
    BY <2>1, <2>3 DEF Used, Confirmed, KeepsBook, Spent
  <2>8. Charged' = Charged
    BY <2>1 DEF Reserved, Charged
  <2>9. Promised!Start(f, e)
    BY <2>6, <2>7, <2>8 DEF Promised!Start, Open, Used, Charged, Confirmed
  <2> QED BY <2>9
<1>3. ASSUME NEW e \in Entries, SellerCollects(e)
      PROVE  \E d \in Entries : Promised!Charge(d)
  <2>1. /\ signed[e] # 0 /\ paid[e] = 0 /\ paid' = [paid EXCEPT ![e] = signed[e]]
        /\ ledger' = ledger
    BY <1>3 DEF SellerCollects, ledgerVars
  <2>2. ledger[e].status \in Unresolved /\ ledger[e] \in Entry
    BY <1>0, <2>1 DEF HoldInv, Money, Spent, Unresolved, LedgerType, NoEntry
  <2>3. PICK f \in Fingerprints : f = ledger[e].fp
    BY <2>2 DEF Entry
  <2>4. Open[f] = e
    BY <1>0, <2>2, <2>3, OpenIs DEF Open
  <2>5. e \notin Charged /\ Charged' = Charged \cup {e}
    BY <1>0, <2>1 DEF Charged, CallsType
  <2>6. \A g \in Fingerprints : UnresolvedEntry(g)' = UnresolvedEntry(g)
    BY <2>1, OpenSame
  <2>7. Open' = Open /\ Used' = Used /\ Confirmed' = Confirmed
    BY <2>1, <2>6 DEF Open, Used, Confirmed
  <2>8. Promised!Charge(e)
    BY <2>4, <2>5, <2>7 DEF Promised!Charge, Open, Used, Charged, Confirmed
  <2> QED BY <2>8
<1>4. ASSUME NEW c \in PaidCalls, Records(c)
      PROVE  \/ Open' = Open /\ Used' = Used /\ Charged' = Charged /\ Confirmed' = Confirmed
             \/ \E f \in Fingerprints : Promised!Confirm(f)
  <2>1. PICK e \in Entries, s \in {"success", "unknown"} :
          /\ ledger[e].status = "pending"
          /\ ledger[e] \in Entry
          /\ ledger' = [ledger EXCEPT ![e] = [ledger[e] EXCEPT !.status = s]]
          /\ s = "success" => paid[e] # 0
          /\ paid' = paid
    BY <1>4, RecordEffect
  <2>2. /\ ledger'[e].status = s /\ ledger'[e].fp = ledger[e].fp
        /\ \A d \in Entries \ {e} : ledger'[d] = ledger[d]
    BY <1>0, <2>1 DEF LedgerType, Entry
  <2>3. Used' = Used /\ Charged' = Charged
    BY <2>1, <2>2 DEF Used, Charged, Spent
  <2>4. CASE s = "unknown"
    <3>1. \A f \in Fingerprints : UnresolvedEntry(f)' = UnresolvedEntry(f)
      BY <2>1, <2>2, <2>4, OpenSame DEF Unresolved
    <3>2. Open' = Open /\ Confirmed' = Confirmed
      BY <2>1, <2>2, <2>4, <3>1 DEF Open, Confirmed
    <3> QED BY <2>3, <3>2
  <2>5. CASE s = "success"
    <3>1. PICK f \in Fingerprints : f = ledger[e].fp
      BY <2>1 DEF Entry
    <3>2. UnresolvedEntry(f) = e
      BY <1>0, <2>1, <3>1, OpenIs DEF Unresolved
    <3>3. UnresolvedEntry(f)' = None
      <4>1. OfStatus(ledger', f, Unresolved) = {}
        BY <1>0, <2>1, <2>2, <2>5, <3>1 DEF OfStatus, OneUnresolvedEntry, Unresolved
      <4>2. UnresolvedEntry(f)' = IF OfStatus(ledger', f, Unresolved) # {}
                                THEN CHOOSE x \in OfStatus(ledger', f, Unresolved) : TRUE ELSE None
        BY DEF UnresolvedEntry, HasUnresolved, OfStatus
      <4> QED BY <4>1, <4>2
    <3>4. \A g \in Fingerprints \ {f} : UnresolvedEntry(g)' = UnresolvedEntry(g)
      BY <2>2, <3>1, OpenSame
    <3>5. Open' = [Open EXCEPT ![f] = None] /\ Open[f] = e
      BY <3>2, <3>3, <3>4 DEF Open
    <3>6. e \in Charged
      BY <2>1, <2>5 DEF Charged
    <3>7. Confirmed' = Confirmed \cup {e}
      BY <2>2, <2>5 DEF Confirmed
    <3>8. Promised!Confirm(f)
      BY <2>3, <3>5, <3>6, <3>7 DEF Promised!Confirm, Open, Used, Charged, Confirmed
    <3> QED BY <3>8
  <2> QED BY <2>4, <2>5
<1> QED BY <1>1, <1>2, <1>3, <1>4, NextSplit

\* The bridge keeps its promise about every fingerprint: one open payment at a
\* time, money only for an open one and once, and room for the next only after
\* a confirmation.
THEOREM BridgeKeepsPromise == Spec => ImplementsPromise
<1>1. BaseInv /\ HoldInv /\ [Next]_vars => [Promised!Next]_Promised!vars
  BY PromiseStep
<1> QED BY <1>1, PromiseInit, HoldAlways, PTL DEF Spec, ImplementsPromise, Promised!Spec

-----------------------------------------------------------------------------
(* The daily cap *)

LEMMA AmountsType ==
    ASSUME LedgerType, NEW T \in SUBSET Entries, \A d \in T : ledger[d].status \in Spent
    PROVE  /\ IsFiniteSet(T)
           /\ \A d \in T : Amounts[d] \in Nat /\ Amounts[d] = ledger[d].amount
<1>1. IsFiniteSet(T)
  BY FS_Subset, LedgerAssumption
<1>2. ASSUME NEW d \in T PROVE ledger[d].amount \in Nat
  <2>1. ledger[d] \in Entry
    <3>1. ledger[d] \in Entry \cup {NoEntry} /\ ledger[d].status \in Spent
      BY DEF LedgerType
    <3> QED BY <3>1 DEF NoEntry, Spent
  <2> QED BY <2>1, LedgerAssumption DEF Entry
<1> QED BY <1>1, <1>2 DEF Amounts

\* A step that reserves nothing changes no day's sum.
LEMMA CapSteady ==
    ASSUME LedgerType, LedgerType', CapInv, UNCHANGED spentOn,
           \A d \in Entries : ledger'[d].status \in Spent =>
                /\ ledger[d].status \in Spent
                /\ ledger'[d].amount = ledger[d].amount
                /\ ledger'[d].date = ledger[d].date
    PROVE  CapInv'
<1> SUFFICES ASSUME DailyLimit # None, NEW date \in Nat
             PROVE  SumFunctionOnSet(Amounts', SpentAsQuoted(date)') <= DailyLimit
  BY DEF CapInv
<1> DEFINE S == SpentAsQuoted(date)
           T == SpentAsQuoted(date)'
           f == Amounts
           g == Amounts'
<1>1. T \in SUBSET S /\ S \in SUBSET Entries
  BY DEF SpentAsQuoted
<1>2. /\ \A d \in S : ledger[d].status \in Spent
      /\ \A d \in T : ledger'[d].status \in Spent
  BY DEF SpentAsQuoted
<1>3. IsFiniteSet(S) /\ \A d \in S : f[d] \in Nat /\ f[d] = ledger[d].amount
  BY <1>1, <1>2, AmountsType
<1>4. \A d \in T : g[d] = ledger'[d].amount
  BY <1>1 DEF Amounts
<1>5. \A d \in T : g[d] \in Nat /\ g[d] <= f[d]
  BY <1>1, <1>2, <1>3, <1>4
<1>6. SumFunctionOnSet(f, S) <= DailyLimit /\ SumFunctionOnSet(f, S) \in Nat
  BY <1>3, SumType DEF CapInv
<1> HIDE DEF S, T, f, g
<1>7. SumFunctionOnSet(g, T) <= SumFunctionOnSet(f, S)
  BY <1>1, <1>3, <1>5, SumMonotone
<1>8. SumFunctionOnSet(g, T) \in Nat
  BY <1>1, <1>3, <1>5, FS_Subset, SumType
<1>9. DailyLimit \in Nat
  BY LedgerAssumption
<1> QED BY <1>6, <1>7, <1>8, <1>9 DEF T, g

\* The reserved entry adds its amount to the sum of its day, which the ledger
\* counts at least as high.
LEMMA CapReserve ==
    ASSUME BaseInv, BaseInv', CapInv, NEW c \in PaidCalls, Reserves(c)
    PROVE  CapInv'
<1>0. LedgerType /\ LedgerType'
  BY DEF BaseInv, LedgerInv
<1>1. PICK now \in Nat, e \in Entries :
        /\ Reserved(c, e, now)
        /\ ledger[e].status \notin Spent
        /\ ledger'[e].status = "pending"
        /\ ledger'[e].amount = call[c].price
        /\ \A d \in Entries \ {e} : Quiet(d)
        /\ WithinCap(call[c].price, now)
  BY ReserveEffect
<1>2. spentOn' = [spentOn EXCEPT ![e] = DayOf(now)] /\ spentOn \in [Entries -> Nat]
  BY <1>1 DEF Reserved, BaseInv, CallsType
<1>3. PICK day \in Nat : day = DayOf(now)
  BY DayOfType
<1>4. PICK price \in Nat : price = call[c].price /\ ledger'[e].amount = price
  <2>1. ledger'[e] \in Entry
    BY <1>0, <1>1 DEF LedgerType, NoEntry
  <2> QED BY <1>1, <2>1, LedgerAssumption DEF Entry
<1>5. ASSUME NEW d \in Entries \ {e}, ledger'[d].status \in Spent
      PROVE  ledger'[d] = ledger[d]
  BY <1>0, <1>1, <1>5, QuietFields DEF Quiet, Live, Spent
<1> SUFFICES ASSUME DailyLimit # None, NEW date \in Nat
             PROVE  SumFunctionOnSet(Amounts', SpentAsQuoted(date)') <= DailyLimit
  BY DEF CapInv
<1> DEFINE S == SpentAsQuoted(date)
           T == SpentAsQuoted(date)'
           f == Amounts
           g == Amounts'
           R == T \ {e}
<1>6. DailyLimit \in Nat
  BY LedgerAssumption
<1>7. S \in SUBSET Entries /\ T \in SUBSET Entries /\ R \in SUBSET S
  <2>1. ASSUME NEW d \in R PROVE d \in S
    <3>1. d \in Entries \ {e} /\ ledger'[d].status \in Spent
          /\ spentOn'[d] = date /\ ledger'[d].date = date
      BY DEF SpentAsQuoted
    <3> QED BY <1>2, <1>5, <3>1 DEF SpentAsQuoted
  <2> QED BY <2>1 DEF SpentAsQuoted
<1>8. IsFiniteSet(S) /\ IsFiniteSet(T) /\ IsFiniteSet(R)
  BY <1>7, LedgerAssumption, FS_Subset
<1>9. \A d \in S : f[d] \in Nat
  BY <1>0, <1>7, AmountsType DEF SpentAsQuoted
<1>10. \A d \in R : g[d] = f[d]
  <2>1. \A d \in R : d \in Entries \ {e} /\ ledger'[d].status \in Spent
    BY DEF SpentAsQuoted
  <2> QED BY <1>5, <2>1 DEF Amounts
<1>11. g[e] = price
  BY <1>4 DEF Amounts
<1>12. SumFunctionOnSet(f, S) <= DailyLimit /\ SumFunctionOnSet(f, S) \in Nat
  BY <1>8, <1>9, SumType DEF CapInv
<1>13. CASE e \notin T
  <2>1. R = T
    BY <1>13
  <2> HIDE DEF S, T, f, g, R
  <2>2. SumFunctionOnSet(g, T) <= SumFunctionOnSet(f, S)
    BY <1>7, <1>8, <1>9, <1>10, <2>1, SumMonotone
  <2>3. SumFunctionOnSet(g, T) \in Nat
    BY <1>7, <1>8, <1>9, <1>10, <2>1, SumType
  <2> QED BY <1>6, <1>12, <2>2, <2>3 DEF T, g
<1>14. CASE e \in T
  <2>1. date = day
    BY <1>2, <1>3, <1>14 DEF SpentAsQuoted
  <2> DEFINE D == {d \in Entries : ledger[d].date = date /\ ledger[d].status \in Spent}
  <2>2. SumFunctionOnSet(f, D) + price <= DailyLimit
    BY <1>1, <1>3, <1>4, <2>1 DEF WithinCap, DailyTotal
  <2>3. IsFiniteSet(D) /\ \A d \in D : f[d] \in Nat
    BY <1>0, AmountsType
  <2>4. R \in SUBSET D /\ e \notin R /\ T = R \cup {e}
    <3>1. S \in SUBSET D
      BY DEF SpentAsQuoted
    <3> QED BY <1>7, <1>14, <3>1
  <2> HIDE DEF S, T, f, g, R, D
  <2>5. SumFunctionOnSet(g, R) <= SumFunctionOnSet(f, D)
    BY <1>10, <2>3, <2>4, SumMonotone
  <2>6. SumFunctionOnSet(g, T) = g[e] + SumFunctionOnSet(g, R)
    BY <1>7, <1>8, <1>9, <1>10, <1>11, <2>4, SumAdd
  <2>7. SumFunctionOnSet(g, R) \in Nat /\ SumFunctionOnSet(f, D) \in Nat
    BY <1>7, <1>8, <1>9, <1>10, <2>3, SumType
  <2>8. SumFunctionOnSet(g, T) <= DailyLimit
    BY <1>6, <1>11, <2>2, <2>5, <2>6, <2>7
  <2> QED BY <2>8 DEF T, g
<1> QED BY <1>13, <1>14

LEMMA CapRest ==
    ASSUME BaseInv, BaseInv', HoldInv, [Next]_vars, \A c \in PaidCalls : ~Reserves(c)
    PROVE  /\ UNCHANGED spentOn
           /\ \A d \in Entries : ledger'[d].status \in Spent =>
                /\ ledger[d].status \in Spent
                /\ ledger'[d].amount = ledger[d].amount
                /\ ledger'[d].date = ledger[d].date
<1>1. CASE Around
  BY <1>1, AroundKeeps DEF KeepsBook
<1>2. ASSUME NEW c \in PaidCalls, Records(c)
      PROVE  /\ UNCHANGED spentOn
             /\ \A d \in Entries : ledger'[d].status \in Spent =>
                  /\ ledger[d].status \in Spent
                  /\ ledger'[d].amount = ledger[d].amount
                  /\ ledger'[d].date = ledger[d].date
  <2>1. PICK e \in Entries, s \in {"success", "unknown"} :
          /\ ledger[e].status = "pending"
          /\ ledger[e] \in Entry
          /\ ledger' = [ledger EXCEPT ![e] = [ledger[e] EXCEPT !.status = s]]
          /\ UNCHANGED spentOn
    BY <1>2, RecordEffect
  <2>2. ledger \in [Entries -> Entry \cup {NoEntry}]
    BY DEF BaseInv, LedgerInv, LedgerType
  <2>3. /\ ledger'[e].amount = ledger[e].amount /\ ledger'[e].date = ledger[e].date
        /\ \A d \in Entries \ {e} : ledger'[d] = ledger[d]
    BY <2>1, <2>2 DEF Entry
  <2> QED BY <2>1, <2>3 DEF Spent
<1>3. ASSUME \/ \E c \in PaidCalls : Submit(c) \/ ReceiveProof(c)
             \/ \E e \in Entries : SellerCollects(e)
      PROVE  UNCHANGED <<ledger, spentOn>>
  BY <1>3 DEF Submit, ReceiveProof, SellerCollects, ledgerVars, history
<1> QED BY <1>1, <1>2, <1>3, NextSplit

LEMMA CapStep == BaseInv /\ HoldInv /\ CapInv /\ [Next]_vars => CapInv'
<1> SUFFICES ASSUME BaseInv, HoldInv, CapInv, [Next]_vars PROVE CapInv'
  OBVIOUS
<1>1. BaseInv'
  BY BaseStep
<1>2. LedgerType /\ LedgerType'
  BY <1>1 DEF BaseInv, LedgerInv
<1> QED BY <1>1, <1>2, CapReserve, CapRest, CapSteady

LEMMA CapInit == Init => CapInv
<1> SUFFICES ASSUME Init, DailyLimit # None, NEW date \in Nat
             PROVE  SumFunctionOnSet(Amounts, SpentAsQuoted(date)) <= DailyLimit
  BY DEF CapInv
<1>1. SpentAsQuoted(date) = {}
  BY DEF Init, LedgerInit, NoEntry, Spent, SpentAsQuoted
<1> QED BY <1>1, SumEmpty, LedgerAssumption

LEMMA CapAlways == Spec => [](BaseInv /\ HoldInv /\ CapInv)
<1>1. Init => BaseInv /\ HoldInv /\ CapInv
  BY BaseInit, HoldInit, CapInit
<1>2. (BaseInv /\ HoldInv /\ CapInv) /\ [Next]_vars => (BaseInv /\ HoldInv /\ CapInv)'
  BY BaseStep, HoldStep, CapStep
<1> QED BY <1>1, <1>2, PTL DEF Spec

\* Every payment counted was reserved on the day it was quoted.
DaysAgree == \A e \in Entries : ledger[e].status \in Spent => ledger[e].date = spentOn[e]

LEMMA CapHeldIf == ASSUME BaseInv, CapInv, DaysAgree PROVE DailyCapHeld
<1> SUFFICES ASSUME DailyLimit # None, NEW date \in 0..DayOf(clock)
             PROVE  SpentOn(date) <= DailyLimit
  BY DEF DailyCapHeld
<1>1. date \in Nat
  BY DayOfType DEF BaseInv, CallsType
<1>2. SpentAsQuoted(date) = {e \in Entries : ledger[e].status \in Spent /\ spentOn[e] = date}
  BY DEF SpentAsQuoted, DaysAgree
<1> QED BY <1>1, <1>2 DEF CapInv, SpentOn

\* Quotes, approvals and payments of however many processes keep the daily cap,
\* as long as no approval was used on another day than that of its quote.
THEOREM CapHeldWithinTheDay == Spec => [](DaysAgree => DailyCapHeld)
<1>1. BaseInv /\ HoldInv /\ CapInv => (DaysAgree => DailyCapHeld)
  BY CapHeldIf
<1> QED BY <1>1, CapAlways, PTL

LEMMA DaysStep ==
    ASSUME \A c \in PaidCalls : ModeOf[c] = "auto",
           BaseInv, HoldInv, DaysAgree, [Next]_vars
    PROVE  DaysAgree'
<1>0. BaseInv' /\ LedgerType /\ LedgerType'
  BY BaseStep DEF BaseInv, LedgerInv
<1>1. ASSUME NEW c \in PaidCalls, Reserves(c) PROVE DaysAgree'
  <2>1. PICK now \in Nat, e \in Entries :
          /\ Reserved(c, e, now)
          /\ ledger'[e].date = DayOf(now)
          /\ \A d \in Entries \ {e} : Quiet(d)
    BY <1>1, ReserveEffect
  <2>2. spentOn' = [spentOn EXCEPT ![e] = DayOf(now)] /\ spentOn \in [Entries -> Nat]
    BY <2>1 DEF Reserved, BaseInv, CallsType
  <2>3. \A d \in Entries \ {e} : ledger'[d].status \in Spent => ledger'[d] = ledger[d]
    BY <1>0, <2>1, QuietFields DEF Quiet, Live, Spent
  <2> QED BY <2>1, <2>2, <2>3 DEF DaysAgree
<1>2. CASE \A c \in PaidCalls : ~Reserves(c)
  BY <1>0, <1>2, CapRest DEF DaysAgree
<1> QED BY <1>1, <1>2

\* In automatic mode quote and reservation are one, and the cap always holds.
THEOREM AutomaticModeKeepsTheCap ==
    ASSUME \A c \in PaidCalls : ModeOf[c] = "auto"
    PROVE  Spec => []DailyCapHeld
<1>1. Init => DaysAgree
  BY DEF Init, LedgerInit, NoEntry, Spent, DaysAgree
<1>2. DaysAgree /\ (BaseInv /\ HoldInv /\ CapInv) /\ [Next]_vars => DaysAgree'
  BY DaysStep
<1>3. DaysAgree /\ (BaseInv /\ HoldInv /\ CapInv) => DailyCapHeld
  BY CapHeldIf
<1> QED BY <1>1, <1>2, <1>3, CapAlways, PTL DEF Spec
=============================================================================
