---------------------------- MODULE TrafficAudit ----------------------------
(***************************************************************************)
(* Who asked, and what became of it: the traffic context of a request      *)
(* (services/traffic_audit.py), the MCP tools that relay a paid call to    *)
(* the REST route of the same process (mcp_server.py), and the funnel the  *)
(* gateway and the middleware append to (repositories/funnel.py).          *)
(*                                                                         *)
(* The gateway is kept as far as its funnel events tell it; what it does   *)
(* with a payment is PaymentGateway's subject.  A payment is one signed    *)
(* authorization, and moves money once.  An event is committed in a        *)
(* session of its own, after what it tells; a crash may come between.      *)
(***************************************************************************)
EXTENDS Naturals, FiniteSets

CONSTANTS
    Calls,          \* requests from outside; each gets an id of its own
    Payments,       \* authorizations
    OwnersPayments, \* those whose payer is in settings.owner_buyer_addresses
    Kinds           \* the calls that are made

ASSUME TrafficAssumption ==
    /\ IsFiniteSet(Calls) /\ OwnersPayments \subseteq Payments
    /\ {"none", "theirs"} \cap Calls = {} /\ {"nothing", "garbage"} \cap Payments = {}

VARIABLES
    asked,  \* what each call is
    front,  \* the outermost middleware of each call
    pc,     \* its gateway
    outer,  \* the context of a call of /mcp
    ctx,    \* the context at the gateway
    got,    \* what the facilitator's round trip brought
    status, \* payment_events.settlement_status by payment
    paid,   \* authorizations whose money moved
    events  \* payment_funnel_events

vars == <<asked, front, pc, outer, ctx, got, status, paid, events>>

-----------------------------------------------------------------------------
(* Contexts *)

None == "none"
Clients == {"visitor", "owner", "smoke"}
Referrals == {"direct", "smithery"}

\* via: a REST route, GET /try/result, a paid tool or anything else of /mcp.
\* claims: the client sends the headers the relay uses.  A payment is its client's.
Call ==
    {a \in [via : {"rest", "browser", "mcp", "list"}, client : Clients, referral : Referrals,
            claims : BOOLEAN, sends : Payments \cup {"nothing", "garbage"}] :
       /\ a.claims => a.client = "visitor"
       /\ a.sends \in Payments => (a.sends \in OwnersPayments <=> a.client = "owner")}

ASSUME KindAssumption == Kinds \subseteq Call
NoCall == [via |-> None, client |-> "visitor", referral |-> "direct", claims |-> FALSE,
           sends |-> "nothing"]

NoContext == [request |-> None]
NoHeaders == [request |-> None, source |-> None, client |-> None, attribution |-> None]
Claimed == [request |-> "theirs", source |-> "mcp", client |-> "theirs", attribution |-> "owner"]

\* build_traffic_context: only a peer on the loopback is believed.
Context(headers, local, fresh, client, referral) ==
    LET told == IF local THEN headers ELSE NoHeaders
        source == IF told.source = "mcp" THEN "mcp" ELSE "rest" IN
    [request |-> IF told.request # None THEN told.request ELSE fresh,
     source |-> source,
     client |-> IF told.client # None THEN told.client ELSE client,
     attribution |->
       IF told.attribution # None THEN told.attribution
       ELSE IF client = "smoke" \/ (local /\ source = "rest") THEN "internal"
       ELSE "probable_external",
     referral |-> referral]

\* Mutant: the relay leaves it to the route to give the call an id.
RelaysNoId(c) ==
    [request |-> None, source |-> "mcp", client |-> outer[c].client,
     attribution |-> outer[c].attribution]

\* The headers of the relay; none of them is about the referral.
RelayHeaders(c) ==
    [request |-> outer[c].request, source |-> "mcp", client |-> outer[c].client,
     attribution |-> outer[c].attribution]

-----------------------------------------------------------------------------
(* Events *)

Event(c, context, stage, outcome) ==
    [call |-> c, stage |-> stage, outcome |-> outcome, payment |-> asked[c].sends,
     request |-> context.request, source |-> context.source, client |-> context.client,
     attribution |-> context.attribution, referral |-> context.referral]

Record(new) == events' = events \cup new
Log(c, stage, outcome) == Record({Event(c, ctx[c], stage, outcome)})
Goto(c, from, to) == pc[c] = from /\ pc' = [pc EXCEPT ![c] = to]

-----------------------------------------------------------------------------

Init ==
    /\ asked = [c \in Calls |-> NoCall]
    /\ front = [c \in Calls |-> "idle"]
    /\ pc = [c \in Calls |-> "idle"]
    /\ outer = [c \in Calls |-> NoContext]
    /\ ctx = [c \in Calls |-> NoContext]
    /\ got = [c \in Calls |-> None]
    /\ status = [p \in Payments |-> "absent"]
    /\ paid = {}
    /\ events = {}

\* request_trace_middleware, up to call_next.  The smoke scripts run on the
\* server itself.
Arrive(c) ==
    /\ front[c] = "idle"
    /\ \E a \in Kinds :
         LET headers == IF a.claims THEN Claimed ELSE NoHeaders
             context == Context(headers, a.client = "smoke", c, a.client, a.referral) IN
         /\ asked' = [asked EXCEPT ![c] = a]
         /\ front' = [front EXCEPT ![c] = "waiting"]
         /\ pc' = [pc EXCEPT ![c] =
                     CASE a.via = "mcp" -> "relay" [] a.via = "list" -> "answered" [] OTHER -> "gateway"]
         /\ IF a.via \in {"mcp", "list"}
              THEN outer' = [outer EXCEPT ![c] = context] /\ UNCHANGED ctx
              ELSE ctx' = [ctx EXCEPT ![c] = context] /\ UNCHANGED outer
    /\ UNCHANGED <<got, status, paid, events>>

\* _paid_rest_call, up to the post: the route's request has no referral.
Relay(c) ==
    /\ Goto(c, "relay", "gateway")
    /\ outer' = [outer EXCEPT ![c].source = "mcp"]
    /\ ctx' = [ctx EXCEPT ![c] = Context(RelayHeaders(c), TRUE, <<c>>, asked[c].client, "direct")]
    /\ UNCHANGED <<asked, front, got, status, paid, events>>

\* ... or the payment in _meta is not one.
RelayRefuses(c) ==
    /\ Goto(c, "relay", "answered")
    /\ asked[c].sends = "garbage"
    /\ outer' = [outer EXCEPT ![c].source = "mcp"]
    /\ LET context == [outer[c] EXCEPT !.source = "mcp"] IN
         Record({Event(c, context, "payload_received", "observed"),
                 Event(c, context, "payload_decoded", "failure")})
    /\ UNCHANGED <<asked, front, ctx, got, status, paid>>

Challenge(c) ==
    /\ Goto(c, "gateway", "answered")
    /\ asked[c].sends = "nothing"
    /\ \/ Log(c, "challenge_issued", "success")
       \/ Log(c, "challenge_generation", "unknown")
    /\ UNCHANGED <<asked, front, outer, ctx, got, status, paid>>

Receive(c) ==
    /\ Goto(c, "gateway", "decode")
    /\ asked[c].sends # "nothing"
    /\ Log(c, "payload_received", "observed")
    /\ UNCHANGED <<asked, front, outer, ctx, got, status, paid>>

RefuseUnreadable(c) ==
    /\ Goto(c, "decode", "answered")
    /\ asked[c].sends = "garbage"
    /\ Log(c, "payload_decoded", "failure")
    /\ UNCHANGED <<asked, front, outer, ctx, got, status, paid>>

\* The payer may be in the payload.
Decode(c) ==
    /\ Goto(c, "decode", "precheck")
    /\ asked[c].sends \in Payments
    /\ \E known \in BOOLEAN :
         LET context == IF known /\ asked[c].sends \in OwnersPayments
                          THEN [ctx[c] EXCEPT !.attribution = "owner"] ELSE ctx[c] IN
         /\ ctx' = [ctx EXCEPT ![c] = context]
         /\ Record({Event(c, context, "payload_decoded", "success")})
    /\ UNCHANGED <<asked, front, outer, got, status, paid>>

\* The precheck only records; the SDK decides.
Precheck(c) ==
    /\ Goto(c, "precheck", "gate")
    /\ \E outcome \in {"success", "failure"} : Log(c, "payload_precheck", outcome)
    /\ UNCHANGED <<asked, front, outer, ctx, got, status, paid>>

\* Paused, another request's payment, over the quota, or busy.
Refuse(c) ==
    /\ Goto(c, "gate", "answered")
    /\ \E stage \in {"pre_submit_gate", "payment_reserved"} : Log(c, stage, "failure")
    /\ UNCHANGED <<asked, front, outer, ctx, got, status, paid>>

\* Mutant: an answer from the books counts as a settlement.
ReplayCounts(c) ==
    /\ Goto(c, "gate", "answered")
    /\ status[asked[c].sends] = "success"
    /\ Log(c, "settlement", "success")
    /\ UNCHANGED <<asked, front, outer, ctx, got, status, paid>>

Replay(c) ==
    /\ Goto(c, "gate", "answered")
    /\ status[asked[c].sends] = "success"
    /\ Log(c, "idempotent_replay", "success")
    /\ UNCHANGED <<asked, front, outer, ctx, got, status, paid>>

Reserve(c) ==
    /\ Goto(c, "gate", "submit")
    /\ status[asked[c].sends] = "absent"
    /\ status' = [status EXCEPT ![asked[c].sends] = "pending"]
    /\ Log(c, "payment_reserved", "success")
    /\ UNCHANGED <<asked, front, outer, ctx, got, paid>>

\* A row that is there and not settled is submitted again.
Resume(c) ==
    /\ Goto(c, "gate", "submit")
    /\ status[asked[c].sends] \notin {"absent", "success"}
    /\ UNCHANGED <<asked, front, outer, ctx, got, status, paid, events>>

\* The SDK raises; the money may have moved.
SubmitRaises(c) ==
    /\ Goto(c, "submit", "answered")
    /\ paid' \in {paid, paid \cup {asked[c].sends}}
    /\ Log(c, "facilitator_roundtrip", "unknown")
    /\ UNCHANGED <<asked, front, outer, ctx, got, status>>

Submit(c, outcome) ==
    /\ Goto(c, "submit", "book")
    /\ IF outcome = "settled"
         THEN asked[c].sends \notin paid /\ paid' = paid \cup {asked[c].sends}
         ELSE paid' \in {paid, paid \cup {asked[c].sends}}
    /\ got' = [got EXCEPT ![c] = outcome]
    /\ IF outcome = "refused" THEN \E o \in {"failure", "unknown"} : Log(c, "facilitator_roundtrip", o)
       ELSE Log(c, "facilitator_roundtrip", "success")
    /\ UNCHANGED <<asked, front, outer, ctx, status>>

\* Mutant: the settlement does not tell the context whose it was.
KeepsContext(c) == ctx[c]

Settler(c) ==
    IF asked[c].sends \in OwnersPayments THEN [ctx[c] EXCEPT !.attribution = "owner"] ELSE ctx[c]

BookSettled(c) ==
    /\ Goto(c, "book", "count")
    /\ got[c] = "settled"
    /\ status' = [status EXCEPT ![asked[c].sends] = "success"]
    /\ ctx' = [ctx EXCEPT ![c] = Settler(c)]
    /\ UNCHANGED <<asked, front, outer, got, paid, events>>

CountSettled(c) ==
    /\ Goto(c, "count", "answered")
    /\ Record({Event(c, ctx[c], stage, "success") : stage \in {"settlement", "operation_delivered"}})
    /\ UNCHANGED <<asked, front, outer, ctx, got, status, paid>>

BookUnsettled(c) ==
    /\ Goto(c, "book", "answered")
    /\ got[c] \in {"unreadable", "missing", "refused"}
    /\ status' = [status EXCEPT ![asked[c].sends] =
                    IF got[c] = "unreadable" THEN "failure" ELSE "not_settled"]
    /\ CASE got[c] = "unreadable" -> \E o \in {"failure", "unknown"} : Log(c, "settlement", o)
         [] got[c] = "missing" -> Log(c, "settlement", "unknown")
         [] got[c] = "refused" -> UNCHANGED events
    /\ UNCHANGED <<asked, front, outer, ctx, got, paid>>

\* request_trace_middleware, after call_next.
Answer(c) ==
    /\ front[c] = "waiting"
    /\ pc[c] = "answered" \/ (asked[c].via = "mcp" /\ pc[c] # "relay")  \* or the relay's 60 s
    /\ front' = [front EXCEPT ![c] = "done"]
    /\ \E o \in {"success", "failure"} :
         CASE asked[c].via = "rest" -> UNCHANGED events
           [] asked[c].via = "browser" -> Log(c, "browser_payment_entry", o)
           [] OTHER -> Record({Event(c, outer[c], "mcp_request", o)})
    /\ UNCHANGED <<asked, pc, outer, ctx, got, status, paid>>

\* The process dies; nothing of a call survives it.
Crash ==
    /\ front' = [c \in Calls |-> IF front[c] = "idle" THEN "idle" ELSE "done"]
    /\ pc' = [c \in Calls |-> IF pc[c] = "idle" THEN "idle" ELSE "answered"]
    /\ UNCHANGED <<asked, outer, ctx, got, status, paid, events>>

Next ==
    \/ \E c \in Calls :
         \/ Arrive(c) \/ Relay(c) \/ RelayRefuses(c) \/ Challenge(c) \/ Receive(c)
         \/ RefuseUnreadable(c) \/ Decode(c) \/ Precheck(c) \/ Refuse(c) \/ Replay(c)
         \/ Reserve(c) \/ Resume(c) \/ SubmitRaises(c)
         \/ \E outcome \in {"settled", "unreadable", "missing", "refused"} : Submit(c, outcome)
         \/ BookSettled(c) \/ CountSettled(c) \/ BookUnsettled(c) \/ Answer(c)
    \/ Crash

Spec == Init /\ [][Next]_vars

-----------------------------------------------------------------------------
(* What the owner is shown (payment_funnel_stats, within its window) *)

Having(stage, outcome) == {e \in events : e.stage = stage /\ e.outcome = outcome}
Challenged == {e.client : e \in {f \in events : f.stage = "challenge_issued"}}
Signed == {e.client : e \in {f \in events : f.stage = "payload_received"}}
NoSignedRetry == Challenged \ Signed

-----------------------------------------------------------------------------
(* Properties *)

\* A context has a source and an attribution the tables know and the fingerprint
\* of a client, not what a client claims; a call at the gateway has one.
TypeOK ==
    \A c \in Calls :
      /\ \A context \in {outer[c], ctx[c]} \ {NoContext} :
           /\ context.source \in {"rest", "mcp"} /\ context.referral \in Referrals /\ context.client \in Clients
           /\ context.attribution \in {"internal", "owner", "probable_external"}
      /\ pc[c] \notin {"idle", "relay", "answered"} => ctx[c] # NoContext

\* TRAFFIC_ATTRIBUTION_AND_AUDIT_REPORT.md, "One request context propagates through
\* REST, MCP-to-REST calls": the events of a call, and no others, have its request
\* id; they name its client, and the gateway's name the way it came.
Linked ==
    /\ \A e, f \in events : e.request = f.request <=> e.call = f.call
    /\ \A e \in events :
         /\ e.client = asked[e.call].client
         /\ e.stage # "mcp_request" => e.source = (IF asked[e.call].via = "mcp" THEN "mcp" ELSE "rest")

\* A settlement is counted once, and only when its money moved, however often its
\* payment is presented again.
SettledCountedOnce ==
    \A p \in Payments :
      LET counted == {e \in Having("settlement", "success") : e.payment = p} IN
      Cardinality(counted) <= 1 /\ (counted # {} => p \in paid)

\* A settlement is put down to the owner exactly when the owner paid, also when the
\* payload did not show the payer.
OwnersSales ==
    \A e \in Having("settlement", "success") \cup Having("operation_delivered", "success") :
      e.attribution = "owner" <=> e.payment \in OwnersPayments

\* A client that has come back with a payment, readable or
\* not, is not among those that were challenged and did not.
SignersAreNotCounted ==
    \A c \in Calls :
      asked[c].via \in {"rest", "browser", "mcp"} /\ asked[c].sends # "nothing"
        /\ pc[c] \notin {"idle", "relay", "gateway"} /\ front[c] = "waiting" =>
          asked[c].client \notin NoSignedRetry

\* BUYER_ACTIVATION_070_REPORT.md, the referral label is kept in the whole chain of
\* audit, payment, funnel and errors: every event of a call has the call's.
ReferralKept == \A e \in events : e.referral = asked[e.call].referral

\* ... and once the payer shows that a call is the owner's, so do its later events.
OwnerThroughout ==
    [][\A e \in events' \ events : ctx[e.call] # NoContext /\ ctx[e.call].attribution = "owner" =>
         e.attribution = "owner"]_vars
=============================================================================
