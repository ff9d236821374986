------------------------- MODULE TrafficAuditProofs -------------------------
(***************************************************************************)
(* For any number of calls and payments: a settlement is counted once, for *)
(* money that moved, and is put down to the owner exactly when the owner   *)
(* paid; and the events of a call are told from all others by their        *)
(* request id.                                                             *)
(***************************************************************************)
EXTENDS TrafficAudit, FiniteSetTheorems, TLAPS

Contexts ==
    [request : Calls \cup {"theirs"} \cup {<<c>> : c \in Calls}, source : {"rest", "mcp"},
     client : Clients \cup {"theirs"}, attribution : {"internal", "owner", "probable_external"},
     referral : Referrals]

AtGateway == {"gateway", "decode", "precheck", "gate", "submit", "book"}
Before == {"idle", "relay", "gateway", "decode", "precheck", "gate", "submit"}
WithPayment == {"precheck", "gate", "submit", "book", "count"}

\* The calls are among those of Kinds, and what has not come waits to.
Typed ==
    /\ asked \in [Calls -> Kinds \cup {NoCall}]
    /\ front \in [Calls -> {"idle", "waiting", "done"}]
    /\ pc \in [Calls -> Before \cup {"book", "count", "answered"}]
    /\ ctx \in [Calls -> Contexts \cup {NoContext}]
    /\ outer \in [Calls -> Contexts \cup {NoContext}]
    /\ got \in [Calls -> {None, "settled", "unreadable", "missing", "refused"}]
    /\ \A c \in Calls : front[c] = "idle" => pc[c] = "idle"

\* No context says "owner" before the payment shows it, and one whose settlement is
\* about to be counted says it exactly then.
Attributed ==
    \A c \in Calls :
      /\ pc[c] = "relay" => outer[c] \in Contexts /\ outer[c].attribution # "owner"
      /\ pc[c] \in AtGateway => ctx[c] \in Contexts
           /\ (ctx[c].attribution = "owner" => asked[c].sends \in OwnersPayments)
      /\ pc[c] = "count" => ctx[c] \in Contexts
           /\ (ctx[c].attribution = "owner" <=> asked[c].sends \in OwnersPayments)

\* One call at most has had a payment settled, and its money moved.
SettledOnce ==
    /\ \A c \in Calls :
         /\ pc[c] \in WithPayment => asked[c].sends \in Payments
         /\ pc[c] \in Before => got[c] = None
         /\ pc[c] = "count" => got[c] = "settled"
         /\ got[c] = "settled" => asked[c].sends \in paid
    /\ \A c, d \in Calls :
         got[c] = "settled" /\ got[d] = "settled" /\ asked[c].sends = asked[d].sends => c = d

Sale(e) == e.stage \in {"settlement", "operation_delivered"} /\ e.outcome = "success"

\* What is counted is what a call has recorded last.
Counted ==
    \A e \in events : Sale(e) =>
      /\ e.call \in Calls
      /\ pc[e.call] = "answered" /\ got[e.call] = "settled"
      /\ e = Event(e.call, ctx[e.call], e.stage, "success")
      /\ e.attribution = "owner" <=> e.payment \in OwnersPayments

IInv == Typed /\ Attributed /\ SettledOnce /\ Counted

-----------------------------------------------------------------------------

\* A set with no two members has at most one.
LEMMA AtMostOne ==
    ASSUME NEW S, \A e, f \in S : e = f
    PROVE  Cardinality(S) <= 1
<1>1. CASE S = {}
  BY <1>1, FS_EmptySet
<1>2. CASE S # {}
  <2>1. PICK e \in S : TRUE
    BY <1>2
  <2>2. S = {e}
    BY <2>1
  <2> QED
    BY <2>2, FS_Singleton
<1> QED
  BY <1>1, <1>2

LEMMA InitInv == Init => IInv
<1> SUFFICES ASSUME Init PROVE IInv
  OBVIOUS
<1>1. Typed
  BY DEF Init, Typed, Before
<1>2. Attributed
  BY DEF Init, Attributed, AtGateway
<1>3. SettledOnce
  BY DEF Init, SettledOnce, WithPayment, None
<1>4. Counted
  BY DEF Init, Counted
<1> QED
  BY <1>1, <1>2, <1>3, <1>4 DEF IInv

\* The context of a call from outside never says "owner".
LEMMA OutsideContext ==
    ASSUME NEW c \in Calls, NEW a \in Call
    PROVE  LET x == Context(IF a.claims THEN Claimed ELSE NoHeaders, a.client = "smoke", c,
                            a.client, a.referral) IN
           x \in Contexts /\ x.attribution # "owner"
BY TrafficAssumption DEF Context, Call, Claimed, NoHeaders, None, Contexts, Clients, Referrals

\* The context of a relayed call has the attribution of the outer one.
LEMMA RelayedContext ==
    ASSUME NEW c \in Calls, NEW client \in Clients, outer[c] \in Contexts
    PROVE  LET x == Context(RelayHeaders(c), TRUE, <<c>>, client, "direct") IN
           x \in Contexts /\ (x.attribution = "owner" => outer[c].attribution = "owner")
BY DEF Context, RelayHeaders, None, Contexts, Clients, Referrals

\* A step of one call that leaves its context alone and counts no sale.
LEMMA Advance ==
    ASSUME IInv, NEW c \in Calls, NEW to \in AtGateway \cup {"answered"},
           pc[c] \notin {"idle", "answered"}, pc' = [pc EXCEPT ![c] = to],
           UNCHANGED <<asked, front, ctx, got>>, outer' \in [Calls -> Contexts \cup {NoContext}],
           \A d \in Calls : d # c => outer'[d] = outer[d],
           paid \subseteq paid',
           to \in AtGateway => pc[c] \in AtGateway,
           to \in WithPayment => asked[c].sends \in Payments,
           to \in Before => pc[c] \in Before,
           \A e \in events' : e \in events \/ ~Sale(e)
    PROVE  IInv'
<1> USE DEF IInv
<1>1. Typed'
  BY DEF Typed, AtGateway, Before
<1>2. Attributed'
  BY DEF Attributed, Typed, AtGateway, Before
<1>3. SettledOnce'
  BY DEF SettledOnce, Typed, AtGateway, WithPayment, Before
<1>4. Counted'
  <2> SUFFICES ASSUME NEW e \in events, Sale(e)
               PROVE  /\ e.call \in Calls
                      /\ pc'[e.call] = "answered" /\ got[e.call] = "settled"
                      /\ e = Event(e.call, ctx[e.call], e.stage, "success")
                      /\ e.attribution = "owner" <=> e.payment \in OwnersPayments
    BY DEF Counted, Sale, Event
  <2> QED
    BY DEF Counted, Typed
<1> QED
  BY <1>1, <1>2, <1>3, <1>4

\* An event of another stage, or of another outcome, is no sale.
LEMMA NoSale ==
    ASSUME NEW c, NEW x, NEW stage, NEW outcome,
           stage \notin {"settlement", "operation_delivered"} \/ outcome # "success"
    PROVE  ~Sale(Event(c, x, stage, outcome))
BY DEF Sale, Event

LEMMA Arrives ==
    ASSUME IInv, NEW c \in Calls, Arrive(c)
    PROVE  IInv'
<1> USE DEF IInv
<1>1. PICK a \in Kinds :
        LET context == Context(IF a.claims THEN Claimed ELSE NoHeaders, a.client = "smoke", c,
                               a.client, a.referral) IN
        /\ asked' = [asked EXCEPT ![c] = a]
        /\ pc' = [pc EXCEPT ![c] =
                    CASE a.via = "mcp" -> "relay" [] a.via = "list" -> "answered" [] OTHER -> "gateway"]
        /\ IF a.via \in {"mcp", "list"}
             THEN outer' = [outer EXCEPT ![c] = context] /\ UNCHANGED ctx
             ELSE ctx' = [ctx EXCEPT ![c] = context] /\ UNCHANGED outer
  BY DEF Arrive
<1> DEFINE x == Context(IF a.claims THEN Claimed ELSE NoHeaders, a.client = "smoke", c,
                        a.client, a.referral)
<1>2. x \in Contexts /\ x.attribution # "owner"
  BY KindAssumption, OutsideContext
<1>3. \/ pc' = [pc EXCEPT ![c] = "relay"] /\ outer' = [outer EXCEPT ![c] = x] /\ ctx' = ctx
      \/ pc' = [pc EXCEPT ![c] = "answered"] /\ outer' = [outer EXCEPT ![c] = x] /\ ctx' = ctx
      \/ pc' = [pc EXCEPT ![c] = "gateway"] /\ ctx' = [ctx EXCEPT ![c] = x] /\ outer' = outer
  BY <1>1
<1> HIDE DEF x
<1>4. /\ front[c] = "idle" /\ front' = [front EXCEPT ![c] = "waiting"]
      /\ UNCHANGED <<got, paid, events>> /\ pc[c] = "idle"
  BY DEF Arrive, Typed
<1>5. Typed'
  BY <1>1, <1>2, <1>3, <1>4 DEF Typed, Before
<1>6. Attributed'
  BY <1>2, <1>3, <1>4 , <1>1 DEF Attributed, Typed, AtGateway, Before
<1>7. SettledOnce'
  BY <1>1, <1>3, <1>4 DEF SettledOnce, Typed, WithPayment, Before, None
<1>8. Counted'
  <2> SUFFICES ASSUME NEW e \in events, Sale(e)
               PROVE  /\ e.call \in Calls
                      /\ pc'[e.call] = "answered" /\ got'[e.call] = "settled"
                      /\ e = Event(e.call, ctx[e.call], e.stage, "success")'
                      /\ e.attribution = "owner" <=> e.payment \in OwnersPayments
    BY <1>4 DEF Counted, Sale, Event
  <2>1. e.call \in Calls /\ e.call # c
    BY <1>4 DEF Counted
  <2>2. ctx'[e.call] = ctx[e.call] /\ asked'[e.call] = asked[e.call] /\ pc'[e.call] = pc[e.call]
    BY <1>1, <1>3, <2>1 DEF Typed
  <2> QED
    BY <1>4, <2>1, <2>2 DEF Counted, Event
<1> QED
  BY <1>5, <1>6, <1>7, <1>8

LEMMA Relays ==
    ASSUME IInv, NEW c \in Calls, Relay(c)
    PROVE  IInv'
<1> USE DEF IInv
<1> DEFINE x == Context(RelayHeaders(c), TRUE, <<c>>, asked[c].client, "direct")
<1>1. outer[c] \in Contexts /\ outer[c].attribution # "owner" /\ pc[c] = "relay"
  BY DEF Relay, Goto, Attributed
<1>2. asked[c].client \in Clients
  BY KindAssumption DEF Typed, Call, NoCall, Clients
<1>3. x \in Contexts /\ x.attribution # "owner"
  BY <1>1, <1>2, RelayedContext
<1>4. /\ ctx' = [ctx EXCEPT ![c] = x] /\ pc' = [pc EXCEPT ![c] = "gateway"]
      /\ outer' = [outer EXCEPT ![c].source = "mcp"]
      /\ UNCHANGED <<asked, front, got, paid, events>>
  BY DEF Relay, Goto
<1> HIDE DEF x
<1>5. Typed'
  BY <1>1, <1>3, <1>4 DEF Typed, Before, Contexts
<1>6. Attributed'
  BY <1>1, <1>3, <1>4 DEF Attributed, Typed, AtGateway
<1>7. SettledOnce'
  BY <1>1, <1>4 DEF SettledOnce, Typed, WithPayment, Before
<1>8. Counted'
  <2> SUFFICES ASSUME NEW e \in events, Sale(e)
               PROVE  /\ e.call \in Calls
                      /\ pc'[e.call] = "answered" /\ got[e.call] = "settled"
                      /\ e = Event(e.call, ctx'[e.call], e.stage, "success")
                      /\ e.attribution = "owner" <=> e.payment \in OwnersPayments
    BY <1>4 DEF Counted, Sale, Event
  <2>1. e.call \in Calls /\ e.call # c
    BY <1>1 DEF Counted
  <2>2. ctx'[e.call] = ctx[e.call] /\ pc'[e.call] = pc[e.call]
    BY <1>4, <2>1 DEF Typed
  <2> QED
    BY <2>1, <2>2 DEF Counted
<1> QED
  BY <1>5, <1>6, <1>7, <1>8

LEMMA Decodes ==
    ASSUME IInv, NEW c \in Calls, Decode(c)
    PROVE  IInv'
<1> USE DEF IInv
<1>1. PICK context :
        /\ context \in {ctx[c], [ctx[c] EXCEPT !.attribution = "owner"]}
        /\ context # ctx[c] => asked[c].sends \in OwnersPayments
        /\ ctx' = [ctx EXCEPT ![c] = context]
        /\ events' = events \cup {Event(c, context, "payload_decoded", "success")}
  BY DEF Decode, Record
<1>2. /\ pc[c] = "decode" /\ pc' = [pc EXCEPT ![c] = "precheck"] /\ asked[c].sends \in Payments
      /\ UNCHANGED <<asked, front, outer, got, paid>>
  BY DEF Decode, Goto
<1>3. context \in Contexts /\ (context.attribution = "owner" => asked[c].sends \in OwnersPayments)
  BY <1>1, <1>2 DEF Attributed, AtGateway, Contexts
<1>4. Typed'
  BY <1>1, <1>2, <1>3 DEF Typed, Before
<1>5. Attributed'
  BY <1>1, <1>2, <1>3 DEF Attributed, Typed, AtGateway
<1>6. SettledOnce'
  BY <1>2 DEF SettledOnce, Typed, WithPayment, Before
<1>7. Counted'
  <2> SUFFICES ASSUME NEW e \in events, Sale(e)
               PROVE  /\ e.call \in Calls
                      /\ pc'[e.call] = "answered" /\ got[e.call] = "settled"
                      /\ e = Event(e.call, ctx'[e.call], e.stage, "success")
                      /\ e.attribution = "owner" <=> e.payment \in OwnersPayments
    BY <1>1, <1>2 DEF Counted, Sale, Event
  <2>1. e.call \in Calls /\ e.call # c
    BY <1>2 DEF Counted
  <2>2. ctx'[e.call] = ctx[e.call] /\ pc'[e.call] = pc[e.call]
    BY <1>1, <1>2, <2>1 DEF Typed
  <2> QED
    BY <2>1, <2>2 DEF Counted
<1> QED
  BY <1>4, <1>5, <1>6, <1>7

LEMMA Submits ==
    ASSUME IInv, NEW c \in Calls, NEW outcome \in {"settled", "unreadable", "missing", "refused"},
           Submit(c, outcome)
    PROVE  IInv'
<1> USE DEF IInv
<1>1. /\ pc[c] = "submit" /\ pc' = [pc EXCEPT ![c] = "book"] /\ got' = [got EXCEPT ![c] = outcome]
      /\ UNCHANGED <<asked, front, outer, ctx>> /\ paid \subseteq paid'
      /\ outcome = "settled" => asked[c].sends \notin paid /\ asked[c].sends \in paid'
  BY DEF Submit, Goto
<1>2. PICK o \in {"success", "failure", "unknown"} :
        events' = events \cup {Event(c, ctx[c], "facilitator_roundtrip", o)}
  BY DEF Submit, Log, Record
<1>3. Typed'
  BY <1>1 DEF Typed, Before
<1>4. Attributed'
  BY <1>1 DEF Attributed, Typed, AtGateway
<1>5. SettledOnce'
  BY <1>1 DEF SettledOnce, Typed, WithPayment, Before
<1>6. Counted'
  <2> SUFFICES ASSUME NEW e \in events, Sale(e)
               PROVE  /\ e.call \in Calls
                      /\ pc'[e.call] = "answered" /\ got'[e.call] = "settled"
                      /\ e = Event(e.call, ctx[e.call], e.stage, "success")
                      /\ e.attribution = "owner" <=> e.payment \in OwnersPayments
    BY <1>1, <1>2 DEF Counted, Sale, Event
  <2>1. e.call \in Calls /\ e.call # c
    BY <1>1 DEF Counted
  <2>2. got'[e.call] = got[e.call] /\ pc'[e.call] = pc[e.call]
    BY <1>1, <2>1 DEF Typed
  <2> QED
    BY <2>1, <2>2 DEF Counted
<1> QED
  BY <1>3, <1>4, <1>5, <1>6

LEMMA Books ==
    ASSUME IInv, NEW c \in Calls, BookSettled(c)
    PROVE  IInv'
<1> USE DEF IInv
<1>1. /\ pc[c] = "book" /\ pc' = [pc EXCEPT ![c] = "count"] /\ got[c] = "settled"
      /\ ctx' = [ctx EXCEPT ![c] = Settler(c)]
      /\ UNCHANGED <<asked, front, outer, got, paid, events>>
  BY DEF BookSettled, Goto
<1>2. /\ Settler(c) \in Contexts
      /\ Settler(c).attribution = "owner" <=> asked[c].sends \in OwnersPayments
  BY <1>1 DEF Attributed, AtGateway, Settler, Contexts
<1>3. Typed'
  BY <1>1, <1>2 DEF Typed, Before
<1>4. Attributed'
  BY <1>1, <1>2 DEF Attributed, Typed, AtGateway
<1>5. SettledOnce'
  BY <1>1 DEF SettledOnce, Typed, WithPayment, Before
<1>6. Counted'
  <2> SUFFICES ASSUME NEW e \in events, Sale(e)
               PROVE  /\ e.call \in Calls
                      /\ pc'[e.call] = "answered" /\ got[e.call] = "settled"
                      /\ e = Event(e.call, ctx'[e.call], e.stage, "success")
                      /\ e.attribution = "owner" <=> e.payment \in OwnersPayments
    BY <1>1 DEF Counted, Sale, Event
  <2>1. e.call \in Calls /\ e.call # c
    BY <1>1 DEF Counted
  <2>2. ctx'[e.call] = ctx[e.call] /\ pc'[e.call] = pc[e.call]
    BY <1>1, <2>1 DEF Typed
  <2> QED
    BY <2>1, <2>2 DEF Counted
<1> QED
  BY <1>3, <1>4, <1>5, <1>6

LEMMA Counts ==
    ASSUME IInv, NEW c \in Calls, CountSettled(c)
    PROVE  IInv'
<1> USE DEF IInv
<1>1. /\ pc[c] = "count" /\ pc' = [pc EXCEPT ![c] = "answered"]
      /\ UNCHANGED <<asked, front, outer, ctx, got, paid>>
      /\ events' = events \cup {Event(c, ctx[c], stage, "success") :
                                  stage \in {"settlement", "operation_delivered"}}
  BY DEF CountSettled, Goto, Record
<1>2. Typed'
  BY <1>1 DEF Typed, Before
<1>3. Attributed'
  BY <1>1 DEF Attributed, Typed, AtGateway
<1>4. SettledOnce'
  BY <1>1 DEF SettledOnce, Typed, WithPayment, Before
<1>5. Counted'
  <2> SUFFICES ASSUME NEW e \in events', Sale(e)
               PROVE  /\ e.call \in Calls
                      /\ pc'[e.call] = "answered" /\ got[e.call] = "settled"
                      /\ e = Event(e.call, ctx[e.call], e.stage, "success")
                      /\ e.attribution = "owner" <=> e.payment \in OwnersPayments
    BY <1>1 DEF Counted, Sale, Event
  <2>1. CASE e \in events
    BY <1>1, <2>1 DEF Counted, Typed
  <2>2. CASE e \notin events
    <3>1. PICK stage \in {"settlement", "operation_delivered"} : e = Event(c, ctx[c], stage, "success")
      BY <1>1, <2>2
    <3>2. e.call = c /\ e.stage = stage /\ e.payment = asked[c].sends
          /\ e.attribution = ctx[c].attribution
      BY <3>1 DEF Event
    <3> QED
      BY <1>1, <3>1, <3>2 DEF Attributed, SettledOnce, Typed
  <2> QED
    BY <2>1, <2>2
<1> QED
  BY <1>2, <1>3, <1>4, <1>5

LEMMA StepInv ==
    ASSUME IInv, [Next]_vars
    PROVE  IInv'
<1>1. ASSUME NEW c \in Calls, Arrive(c) PROVE IInv'
  BY <1>1, Arrives
<1>2. ASSUME NEW c \in Calls, Relay(c) PROVE IInv'
  BY <1>2, Relays
<1>3. ASSUME NEW c \in Calls, RelayRefuses(c) PROVE IInv'
  <2>1. /\ pc[c] = "relay" /\ pc' = [pc EXCEPT ![c] = "answered"]
        /\ outer' = [outer EXCEPT ![c].source = "mcp"]
        /\ UNCHANGED <<asked, front, ctx, got, paid>>
    BY <1>3 DEF RelayRefuses, Goto
  <2>2. outer' \in [Calls -> Contexts \cup {NoContext}] /\ \A d \in Calls : d # c => outer'[d] = outer[d]
    BY <2>1 DEF IInv, Typed, Attributed, Contexts
  <2>3. \A e \in events' : e \in events \/ ~Sale(e)
    BY <1>3, NoSale DEF RelayRefuses, Record
  <2> QED
    BY <2>1, <2>2, <2>3, Advance DEF AtGateway, WithPayment, Before
<1>4. ASSUME NEW c \in Calls,
             Challenge(c) \/ Receive(c) \/ RefuseUnreadable(c) \/ Precheck(c) \/ Refuse(c)
               \/ Replay(c) \/ Reserve(c) \/ Resume(c) \/ SubmitRaises(c) \/ BookUnsettled(c)
      PROVE  IInv'
  <2>1. PICK to \in {"answered", "decode", "gate", "submit"} :
          /\ pc' = [pc EXCEPT ![c] = to] /\ pc[c] \in AtGateway
          /\ UNCHANGED <<asked, front, outer, ctx, got>> /\ paid \subseteq paid'
          /\ to = "decode" => pc[c] = "gateway"
          /\ to = "gate" => pc[c] = "precheck"
          /\ to = "submit" => pc[c] = "gate"
    BY <1>4 DEF Challenge, Receive, RefuseUnreadable, Precheck, Refuse, Replay, Reserve, Resume,
                SubmitRaises, BookUnsettled, Goto, AtGateway
  <2>2. \A e \in events' : e \in events \/ ~Sale(e)
    <3>1. CASE \E stage, o : /\ stage \notin {"settlement", "operation_delivered"} \/ o # "success"
                             /\ Log(c, stage, o)
      BY <3>1, NoSale DEF Log, Record
    <3>2. CASE events' = events
      BY <3>2
    <3>3. CASE Challenge(c) \/ Receive(c) \/ RefuseUnreadable(c) \/ Replay(c) \/ SubmitRaises(c)
      BY <3>1, <3>3 DEF Challenge, Receive, RefuseUnreadable, Replay, SubmitRaises
    <3>4. CASE Precheck(c) \/ Refuse(c) \/ Reserve(c) \/ Resume(c)
      BY <3>1, <3>2, <3>4 DEF Precheck, Refuse, Reserve, Resume
    <3>5. CASE BookUnsettled(c)
      <4>1. events' = events \/ \E o \in {"failure", "unknown"} : Log(c, "settlement", o)
        BY <3>5 DEF BookUnsettled
      <4> QED
        BY <3>1, <3>2, <4>1
    <3> QED
      BY <1>4, <3>3, <3>4, <3>5
  <2>3. to \in WithPayment => asked[c].sends \in Payments
    BY <2>1 DEF IInv, SettledOnce, WithPayment
  <2>4. outer' \in [Calls -> Contexts \cup {NoContext}] /\ \A d \in Calls : d # c => outer'[d] = outer[d]
    BY <2>1 DEF IInv, Typed
  <2>5. to \in Before => pc[c] \in Before
    BY <2>1 DEF Before
  <2>6. pc[c] \notin {"idle", "answered"} /\ to \in AtGateway \cup {"answered"}
    BY <2>1 DEF AtGateway
  <2> QED
    BY <2>1, <2>2, <2>3, <2>4, <2>5, <2>6, Advance
<1>5. ASSUME NEW c \in Calls, Decode(c) PROVE IInv'
  BY <1>5, Decodes
<1>6. ASSUME NEW c \in Calls, NEW outcome \in {"settled", "unreadable", "missing", "refused"},
             Submit(c, outcome)
      PROVE  IInv'
  BY <1>6, Submits
<1>7. ASSUME NEW c \in Calls, BookSettled(c) PROVE IInv'
  BY <1>7, Books
<1>8. ASSUME NEW c \in Calls, CountSettled(c) PROVE IInv'
  BY <1>8, Counts
<1>9. ASSUME NEW c \in Calls, Answer(c) PROVE IInv'
  <2>1. /\ UNCHANGED <<asked, pc, outer, ctx, got, paid>> /\ front[c] = "waiting"
        /\ front' = [front EXCEPT ![c] = "done"]
    BY <1>9 DEF Answer
  <2>2. \A e \in events' : e \in events \/ ~Sale(e)
    <3>1. PICK o \in {"success", "failure"} :
            \/ events' = events
            \/ events' = events \cup {Event(c, ctx[c], "browser_payment_entry", o)}
            \/ events' = events \cup {Event(c, outer[c], "mcp_request", o)}
      BY <1>9 DEF Answer, Log, Record
    <3> QED
      BY <3>1 DEF Sale, Event
  <2>3. Typed' /\ Attributed' /\ SettledOnce'
    BY <2>1 DEF IInv, Typed, Attributed, SettledOnce
  <2>4. Counted'
    BY <2>1, <2>2 DEF IInv, Counted, Sale, Event
  <2> QED
    BY <2>3, <2>4 DEF IInv
<1>10. CASE Crash
  <2>1. /\ UNCHANGED <<asked, outer, ctx, got, paid, events>>
        /\ front' = [d \in Calls |-> IF front[d] = "idle" THEN "idle" ELSE "done"]
        /\ pc' = [d \in Calls |-> IF pc[d] = "idle" THEN "idle" ELSE "answered"]
    BY <1>10 DEF Crash
  <2>2. Typed'
    BY <2>1 DEF IInv, Typed, Before
  <2>3. Attributed' /\ SettledOnce'
    BY <2>1 DEF IInv, Attributed, SettledOnce, AtGateway, WithPayment, Before
  <2>4. Counted'
    BY <2>1 DEF IInv, Counted, Event
  <2> QED
    BY <2>2, <2>3, <2>4 DEF IInv
<1>11. CASE UNCHANGED vars
  BY <1>11 DEF vars, IInv, Typed, Attributed, SettledOnce, Counted, Event
<1> QED
  BY <1>1, <1>2, <1>3, <1>4, <1>5, <1>6, <1>7, <1>8, <1>9, <1>10, <1>11 DEF Next

LEMMA Invariant == Spec => []IInv
<1>1. Init => IInv
  BY InitInv
<1>2. IInv /\ [Next]_vars => IInv'
  BY StepInv
<1> QED
  BY <1>1, <1>2, PTL DEF Spec

-----------------------------------------------------------------------------

\* The settlements the funnel shows: each payment once, and only when its money
\* moved, however often it is presented and wherever the process dies.
THEOREM CountedOnce == Spec => []SettledCountedOnce
<1>1. IInv => SettledCountedOnce
  <2> SUFFICES ASSUME IInv, NEW p \in Payments
               PROVE  LET counted == {e \in Having("settlement", "success") : e.payment = p} IN
                      Cardinality(counted) <= 1 /\ (counted # {} => p \in paid)
    BY DEF SettledCountedOnce
  <2> DEFINE counted == {e \in Having("settlement", "success") : e.payment = p}
  <2>1. ASSUME NEW e \in counted
        PROVE  /\ e.call \in Calls /\ got[e.call] = "settled" /\ asked[e.call].sends = p
               /\ e = Event(e.call, ctx[e.call], "settlement", "success")
    BY <2>1 DEF IInv, Counted, Having, Sale, Event
  <2>2. \A e, f \in counted : e = f
    <3> SUFFICES ASSUME NEW e \in counted, NEW f \in counted PROVE e = f
      OBVIOUS
    <3>1. e.call = f.call
      BY <2>1 DEF IInv, SettledOnce
    <3> QED
      BY <2>1, <3>1
  <2>3. counted # {} => p \in paid
    BY <2>1 DEF IInv, SettledOnce
  <2>4. Cardinality(counted) <= 1
    BY <2>2, AtMostOne
  <2> QED
    BY <2>3, <2>4
<1> QED
  BY <1>1, Invariant, PTL

\* A settlement or a delivery is put down to the owner exactly when the owner paid.
THEOREM SalesAttributed == Spec => []OwnersSales
<1>1. IInv => OwnersSales
  BY DEF IInv, Counted, OwnersSales, Having, Sale
<1> QED
  BY <1>1, Invariant, PTL

-----------------------------------------------------------------------------
(* One request id from the middleware to the last event *)

WayOf(c) == IF asked[c].via = "mcp" THEN "mcp" ELSE "rest"

Own(c, x) == x.request = c /\ x.client = asked[c].client

\* The contexts a call records with are its own, and the one at the gateway
\* knows which way it came.
Placed(c) ==
    /\ front[c] = "waiting" => asked[c] \in Kinds /\ pc[c] # "idle"
    /\ pc[c] = "relay" => asked[c].via = "mcp"
    /\ asked[c].via \in {"mcp", "list"} => Own(c, outer[c])
    /\ asked[c].via = "browser" \/ pc[c] \in AtGateway \cup {"count"} =>
         Own(c, ctx[c]) /\ ctx[c].source = WayOf(c)

\* An event is of a call that has come, and names it.
Named(e) ==
    /\ e.call \in Calls /\ pc[e.call] # "idle"
    /\ e.request = e.call /\ e.client = asked[e.call].client
    /\ e.stage # "mcp_request" => e.source = WayOf(e.call)

LinkInv ==
    /\ \A c \in Calls : Placed(c)
    /\ \A e \in events : Named(e)

\* A call from outside gets an id of its own and the fingerprint of its client,
\* whatever its headers claim.
LEMMA OutsideIsOwn ==
    ASSUME NEW c \in Calls, NEW a \in Call
    PROVE  LET x == Context(IF a.claims THEN Claimed ELSE NoHeaders, a.client = "smoke", c,
                            a.client, a.referral) IN
           x.request = c /\ x.client = a.client /\ x.source = "rest"
BY DEF Context, Call, Claimed, NoHeaders, None, Clients

LEMMA EventFields ==
    ASSUME NEW c, NEW x, NEW stage, NEW o
    PROVE  LET e == Event(c, x, stage, o) IN
           /\ e.call = c /\ e.stage = stage
           /\ e.request = x.request /\ e.client = x.client /\ e.source = x.source
BY DEF Event

\* A step of one call that has come, recording in its own name.
LEMMA LinkKept ==
    ASSUME IInv, LinkInv, NEW c \in Calls, pc[c] # "idle", pc'[c] # "idle",
           UNCHANGED asked, \A d \in Calls \ {c} : pc'[d] = pc[d] /\ front'[d] = front[d]
                                                     /\ outer'[d] = outer[d] /\ ctx'[d] = ctx[d],
           Placed(c)',
           \A e \in events' : \/ e \in events
                              \/ \E x, stage, o :
                                   /\ e = Event(c, x, stage, o)
                                   /\ Own(c, x)
                                   /\ stage # "mcp_request" => x.source = WayOf(c)
    PROVE  LinkInv'
<1>1. ASSUME NEW d \in Calls PROVE Placed(d)'
  BY DEF LinkInv, Placed, Own, WayOf
<1>2. ASSUME NEW e \in events' PROVE Named(e)'
  <2>1. CASE e \in events
    BY <2>1 DEF LinkInv, Named, WayOf
  <2>2. CASE e \notin events
    <3>1. PICK x, stage, o : /\ e = Event(c, x, stage, o)
                             /\ Own(c, x)
                             /\ stage # "mcp_request" => x.source = WayOf(c)
      BY <2>2
    <3>2. /\ e.call = c /\ e.stage = stage
          /\ e.request = x.request /\ e.client = x.client /\ e.source = x.source
      BY <3>1, EventFields
    <3> QED BY <3>1, <3>2 DEF Named, Own, WayOf
  <2> QED BY <2>1, <2>2
<1> QED BY <1>1, <1>2 DEF LinkInv

\* At the gateway the context changes its attribution at most.
LEMMA LinkAtGateway ==
    ASSUME IInv, LinkInv, NEW c \in Calls, pc[c] \in AtGateway \cup {"count"},
           NEW to \in AtGateway \cup {"count", "answered"}, pc' = [pc EXCEPT ![c] = to],
           UNCHANGED <<asked, front, outer>>,
           NEW x \in {ctx[c], [ctx[c] EXCEPT !.attribution = "owner"]}, ctx' = [ctx EXCEPT ![c] = x],
           \A e \in events' : \/ e \in events
                              \/ \E stage, o : e = Event(c, x, stage, o) /\ stage # "mcp_request"
    PROVE  LinkInv'
<1>1. Own(c, ctx[c]) /\ ctx[c].source = WayOf(c) /\ ctx[c] \in Contexts
  BY DEF LinkInv, Placed, IInv, Attributed, AtGateway
<1>2. Own(c, x) /\ x.source = WayOf(c)
  BY <1>1 DEF Own, Contexts
<1>3. /\ ctx'[c] = x /\ pc'[c] = to /\ \A d \in Calls \ {c} : pc'[d] = pc[d] /\ ctx'[d] = ctx[d]
  BY DEF IInv, Typed
<1>4. Placed(c)'
  BY <1>2, <1>3 DEF LinkInv, Placed, Own, WayOf, AtGateway
<1>5. pc[c] # "idle" /\ to # "idle"
  BY DEF AtGateway
<1>6. \A e \in events' : \/ e \in events
                         \/ \E y, stage, o :
                              /\ e = Event(c, y, stage, o)
                              /\ Own(c, y)
                              /\ stage # "mcp_request" => y.source = WayOf(c)
  BY <1>2
<1> QED BY <1>3, <1>4, <1>5, <1>6, LinkKept

LEMMA LinkStep ==
    ASSUME IInv, LinkInv, [Next]_vars
    PROVE  LinkInv'
<1>1. ASSUME NEW c \in Calls, Arrive(c) PROVE LinkInv'
  <2>1. PICK a \in Kinds :
          LET x == Context(IF a.claims THEN Claimed ELSE NoHeaders, a.client = "smoke", c,
                           a.client, a.referral) IN
          /\ asked' = [asked EXCEPT ![c] = a]
          /\ pc' = [pc EXCEPT ![c] =
                      CASE a.via = "mcp" -> "relay" [] a.via = "list" -> "answered" [] OTHER -> "gateway"]
          /\ IF a.via \in {"mcp", "list"}
               THEN outer' = [outer EXCEPT ![c] = x] /\ UNCHANGED ctx
               ELSE ctx' = [ctx EXCEPT ![c] = x] /\ UNCHANGED outer
    BY <1>1 DEF Arrive
  <2> DEFINE x == Context(IF a.claims THEN Claimed ELSE NoHeaders, a.client = "smoke", c,
                          a.client, a.referral)
  <2>2. a \in Call /\ x.request = c /\ x.client = a.client /\ x.source = "rest"
    BY KindAssumption, OutsideIsOwn
  <2>3. /\ asked' = [asked EXCEPT ![c] = a] /\ front' = [front EXCEPT ![c] = "waiting"]
        /\ pc' = [pc EXCEPT ![c] = IF a.via = "mcp" THEN "relay"
                                   ELSE IF a.via = "list" THEN "answered" ELSE "gateway"]
        /\ a.via \in {"mcp", "list"} => outer' = [outer EXCEPT ![c] = x] /\ UNCHANGED ctx
        /\ a.via \notin {"mcp", "list"} => ctx' = [ctx EXCEPT ![c] = x] /\ UNCHANGED outer
        /\ UNCHANGED events /\ pc[c] = "idle"
    BY <1>1, <2>1 DEF Arrive, IInv, Typed
  <2> HIDE DEF x
  <2>4. Placed(c)'
    BY <2>2, <2>3 DEF IInv, Typed, Placed, Own, WayOf, AtGateway
  <2>5. ASSUME NEW d \in Calls \ {c} PROVE Placed(d)'
    BY <2>3 DEF IInv, Typed, LinkInv, Placed, Own, WayOf
  <2>6. ASSUME NEW e \in events PROVE Named(e)'
    BY <2>3 DEF IInv, Typed, LinkInv, Named, WayOf
  <2> QED BY <2>3, <2>4, <2>5, <2>6 DEF LinkInv
<1>2. ASSUME NEW c \in Calls, Relay(c) PROVE LinkInv'
  <2>1. /\ pc[c] = "relay" /\ pc' = [pc EXCEPT ![c] = "gateway"]
        /\ outer' = [outer EXCEPT ![c].source = "mcp"]
        /\ ctx' = [ctx EXCEPT ![c] = Context(RelayHeaders(c), TRUE, <<c>>, asked[c].client, "direct")]
        /\ UNCHANGED <<asked, front, events>>
    BY <1>2 DEF Relay, Goto
  <2>2. asked[c].via = "mcp" /\ Own(c, outer[c]) /\ outer[c] \in Contexts
    BY <2>1 DEF LinkInv, Placed, IInv, Attributed
  <2>3. asked[c].client \in Clients
    BY KindAssumption DEF IInv, Typed, Call, NoCall, Clients
  <2> DEFINE x == Context(RelayHeaders(c), TRUE, <<c>>, asked[c].client, "direct")
  <2>4. x.request = c /\ x.client = asked[c].client /\ x.source = "mcp"
    <3>1. outer[c].request = c /\ outer[c].client = asked[c].client
      BY <2>2 DEF Own
    <3>2. x.request = c /\ x.client = outer[c].client /\ x.source = "mcp"
      BY <2>3, <3>1, TrafficAssumption DEF Context, RelayHeaders, None, Clients
    <3> QED BY <3>1, <3>2
  <2> HIDE DEF x
  <2>5. /\ ctx'[c] = x /\ pc'[c] = "gateway" /\ Own(c, outer'[c])
        /\ \A d \in Calls \ {c} : pc'[d] = pc[d] /\ outer'[d] = outer[d] /\ ctx'[d] = ctx[d]
    BY <2>1, <2>2 DEF IInv, Typed, Own, Contexts, x
  <2>6. Placed(c)'
    BY <2>1, <2>2, <2>4, <2>5 DEF LinkInv, Placed, Own, WayOf
  <2> QED BY <2>1, <2>5, <2>6, LinkKept
<1>3. ASSUME NEW c \in Calls, RelayRefuses(c) PROVE LinkInv'
  <2> DEFINE x == [outer[c] EXCEPT !.source = "mcp"]
  <2>1. /\ pc[c] = "relay" /\ pc' = [pc EXCEPT ![c] = "answered"]
        /\ outer' = [outer EXCEPT ![c] = x]
        /\ events' = events \cup {Event(c, x, "payload_received", "observed"),
                                  Event(c, x, "payload_decoded", "failure")}
        /\ UNCHANGED <<asked, front, ctx>>
    BY <1>3 DEF RelayRefuses, Goto, Record
  <2>2. asked[c].via = "mcp" /\ Own(c, outer[c]) /\ outer[c] \in Contexts
    BY <2>1 DEF LinkInv, Placed, IInv, Attributed
  <2>3. Own(c, x) /\ x.source = WayOf(c)
    BY <2>2 DEF Own, Contexts, WayOf
  <2> HIDE DEF x
  <2>4. /\ outer'[c] = x /\ pc'[c] = "answered"
        /\ \A d \in Calls \ {c} : pc'[d] = pc[d] /\ outer'[d] = outer[d]
    BY <2>1 DEF IInv, Typed
  <2>5. Placed(c)'
    BY <2>1, <2>2, <2>3, <2>4 DEF LinkInv, Placed, Own, WayOf, AtGateway
  <2>6. \A e \in events' : \/ e \in events
                           \/ \E y, stage, o :
                                /\ e = Event(c, y, stage, o)
                                /\ Own(c, y)
                                /\ stage # "mcp_request" => y.source = WayOf(c)
    BY <2>1, <2>3
  <2> QED BY <2>1, <2>4, <2>5, <2>6, LinkKept
<1>4. ASSUME NEW c \in Calls, 
             Challenge(c) \/ Receive(c) \/ RefuseUnreadable(c) \/ Precheck(c) \/ Refuse(c)
               \/ Replay(c) \/ Reserve(c) \/ Resume(c) \/ SubmitRaises(c) \/ BookUnsettled(c)
               \/ CountSettled(c)
               \/ \E outcome \in {"settled", "unreadable", "missing", "refused"} : Submit(c, outcome)
      PROVE  LinkInv'
  <2>1. PICK to \in AtGateway \cup {"count", "answered"} :
          /\ pc[c] \in AtGateway \cup {"count"} /\ pc' = [pc EXCEPT ![c] = to]
          /\ UNCHANGED <<asked, front, outer, ctx>>
    BY <1>4 DEF Challenge, Receive, RefuseUnreadable, Precheck, Refuse, Replay, Reserve, Resume,
                SubmitRaises, BookUnsettled, CountSettled, Submit, Goto, AtGateway
  <2>2. \/ events' = events
        \/ \E stage, o : Log(c, stage, o) /\ stage # "mcp_request"
        \/ events' = events \cup {Event(c, ctx[c], stage, "success") :
                                    stage \in {"settlement", "operation_delivered"}}
    <3>1. CASE Challenge(c) \/ Receive(c) \/ RefuseUnreadable(c) \/ Replay(c) \/ SubmitRaises(c)
      BY <3>1 DEF Challenge, Receive, RefuseUnreadable, Replay, SubmitRaises
    <3>2. CASE Precheck(c) \/ Refuse(c) \/ Reserve(c) \/ Resume(c)
      BY <3>2 DEF Precheck, Refuse, Reserve, Resume
    <3>3. CASE BookUnsettled(c)
      <4>1. events' = events \/ \E o \in {"failure", "unknown"} : Log(c, "settlement", o)
        BY <3>3 DEF BookUnsettled
      <4> QED BY <4>1
    <3>4. CASE CountSettled(c)
      BY <3>4 DEF CountSettled, Record
    <3>5. ASSUME NEW outcome \in {"settled", "unreadable", "missing", "refused"}, Submit(c, outcome)
          PROVE  \E o : Log(c, "facilitator_roundtrip", o)
      BY <3>5 DEF Submit
    <3> QED BY <1>4, <3>1, <3>2, <3>3, <3>4, <3>5
  <2>3. \A e \in events' : \/ e \in events
                           \/ \E stage, o : e = Event(c, ctx[c], stage, o) /\ stage # "mcp_request"
    BY <2>2 DEF Log, Record
  <2>4. ctx' = [ctx EXCEPT ![c] = ctx[c]]
    BY <2>1 DEF IInv, Typed
  <2> QED BY <2>1, <2>3, <2>4, LinkAtGateway
<1>5. ASSUME NEW c \in Calls, Decode(c) PROVE LinkInv'
  <2>1. /\ pc[c] = "decode" /\ pc' = [pc EXCEPT ![c] = "precheck"]
        /\ UNCHANGED <<asked, front, outer>>
    BY <1>5 DEF Decode, Goto
  <2>2. PICK x \in {ctx[c], [ctx[c] EXCEPT !.attribution = "owner"]} :
          /\ ctx' = [ctx EXCEPT ![c] = x]
          /\ events' = events \cup {Event(c, x, "payload_decoded", "success")}
    BY <1>5 DEF Decode, Record
  <2>3. \A e \in events' : \/ e \in events
                           \/ \E stage, o : e = Event(c, x, stage, o) /\ stage # "mcp_request"
    BY <2>2
  <2> QED BY <2>1, <2>2, <2>3, LinkAtGateway DEF AtGateway
<1>6. ASSUME NEW c \in Calls, BookSettled(c) PROVE LinkInv'
  <2>1. /\ pc[c] = "book" /\ pc' = [pc EXCEPT ![c] = "count"]
        /\ ctx' = [ctx EXCEPT ![c] = Settler(c)]
        /\ UNCHANGED <<asked, front, outer, events>>
    BY <1>6 DEF BookSettled, Goto
  <2>2. Settler(c) \in {ctx[c], [ctx[c] EXCEPT !.attribution = "owner"]}
    BY DEF Settler
  <2>3. \A e \in events' : e \in events
    BY <2>1
  <2> QED BY <2>1, <2>2, <2>3, LinkAtGateway DEF AtGateway
<1>7. ASSUME NEW c \in Calls, Answer(c) PROVE LinkInv'
  <2>1. /\ front[c] = "waiting" /\ UNCHANGED <<asked, pc, outer, ctx>>
        /\ front' = [front EXCEPT ![c] = "done"]
        /\ pc[c] = "answered" \/ (asked[c].via = "mcp" /\ pc[c] # "relay")
    BY <1>7 DEF Answer
  <2>2. asked[c] \in Kinds /\ asked[c].via \in {"rest", "browser", "mcp", "list"}
    BY <2>1, KindAssumption DEF LinkInv, Placed, Call
  <2>3. PICK o \in {"success", "failure"} :
          \/ events' = events
          \/ asked[c].via = "browser" /\ events' = events \cup {Event(c, ctx[c], "browser_payment_entry", o)}
          \/ /\ asked[c].via \in {"mcp", "list"}
             /\ events' = events \cup {Event(c, outer[c], "mcp_request", o)}
    BY <1>7, <2>2 DEF Answer, Log, Record
  <2>4. /\ asked[c].via = "browser" => Own(c, ctx[c]) /\ ctx[c].source = WayOf(c)
        /\ asked[c].via \in {"mcp", "list"} => Own(c, outer[c])
    BY DEF LinkInv, Placed
  <2>5. \A e \in events' : \/ e \in events
                           \/ \E y, stage, s :
                                /\ e = Event(c, y, stage, s)
                                /\ Own(c, y)
                                /\ stage # "mcp_request" => y.source = WayOf(c)
    BY <2>3, <2>4
  <2>6. Placed(c)'
    BY <2>1 DEF LinkInv, Placed, Own, WayOf, IInv, Typed
  <2>7. pc[c] # "idle"
    BY <2>1 DEF LinkInv, Placed
  <2> QED BY <2>1, <2>5, <2>6, <2>7, LinkKept DEF IInv, Typed
<1>8. CASE Crash
  <2>1. /\ UNCHANGED <<asked, outer, ctx, events>>
        /\ front' = [d \in Calls |-> IF front[d] = "idle" THEN "idle" ELSE "done"]
        /\ pc' = [d \in Calls |-> IF pc[d] = "idle" THEN "idle" ELSE "answered"]
    BY <1>8 DEF Crash
  <2>2. ASSUME NEW d \in Calls PROVE Placed(d)'
    BY <2>1 DEF LinkInv, Placed, Own, WayOf, AtGateway
  <2>3. ASSUME NEW e \in events PROVE Named(e)'
    BY <2>1 DEF LinkInv, Named, WayOf
  <2> QED BY <2>1, <2>2, <2>3 DEF LinkInv
<1>9. CASE UNCHANGED vars
  BY <1>9 DEF vars, LinkInv, Placed, Named, Own, WayOf
<1> QED BY <1>1, <1>2, <1>3, <1>4, <1>5, <1>6, <1>7, <1>8, <1>9 DEF Next

\* The events of a call, and no others, have its request id; they name its
\* client, and those of the gateway the way it came.
THEOREM CallsAreTraced == Spec => []Linked
<1>1. Init => LinkInv
  BY DEF Init, LinkInv, Placed, AtGateway, NoCall, None
<1>2. IInv /\ LinkInv /\ [Next]_vars => LinkInv'
  BY LinkStep
<1>3. LinkInv => Linked
  BY DEF LinkInv, Named, Linked, WayOf
<1> QED BY <1>1, <1>2, <1>3, Invariant, PTL DEF Spec
=============================================================================
