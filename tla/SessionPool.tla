---------------------------- MODULE SessionPool ----------------------------
(***************************************************************************)
(* The database connections of the API process (db.py: one engine, whose   *)
(* pool has a limit) and the requests that need them: the gateway's own    *)
(* session, and the one that _record_funnel opens for each event of the    *)
(* funnel (services/payments.py).                                          *)
(*                                                                         *)
(* Queries take milliseconds and the pool lets a request wait for half a   *)
(* minute, so a wait ends for its timeout only when nothing else can       *)
(* happen, and the longest wait ends first.                                *)
(***************************************************************************)
EXTENDS Naturals, Sequences, FiniteSets

CONSTANTS
    Requests, \* signed calls of paid routes
    Size,     \* pool_size + max_overflow; 15 by SQLAlchemy's defaults
    Ways      \* what becomes of a request: "replay", "paused", "reserve"

VARIABLES
    pc,    \* where a request is in gateway_impl
    way,   \* what it found in the database
    held,  \* the sessions of a request that have a connection
    queue  \* who waits for a connection, the longest first

vars == <<pc, way, held, queue>>

Main == "main"
Telemetry == "telemetry"

InUse == Cardinality({<<r, s>> \in Requests \X {Main, Telemetry} : s \in held[r]})
Waiting(r) == \E i \in DOMAIN queue : queue[i][1] = r
Ended == {"answered", "failed"}

Init ==
    /\ pc = [r \in Requests |-> "idle"]
    /\ way = [r \in Requests |-> "unknown"]
    /\ held = [r \in Requests |-> {}]
    /\ queue = <<>>

\* The first statement of a session asks the pool for a connection.
Ask(r, session) ==
    IF InUse < Size /\ queue = <<>>
      THEN held' = [held EXCEPT ![r] = @ \cup {session}] /\ UNCHANGED queue
      ELSE queue' = Append(queue, <<r, session>>) /\ UNCHANGED held

\* A connection that comes back goes to whoever has waited longest.
Release(r, sessions) ==
    IF sessions = {} \/ queue = <<>>
      THEN held' = [held EXCEPT ![r] = @ \ sessions] /\ UNCHANGED queue
      ELSE /\ held' = [held EXCEPT ![r] = @ \ sessions, ![Head(queue)[1]] = @ \cup {Head(queue)[2]}]
           /\ queue' = Tail(queue)

Goto(r, from, to) == pc[r] = from /\ ~Waiting(r) /\ pc' = [pc EXCEPT ![r] = to]

-----------------------------------------------------------------------------

Arrive(r) ==
    /\ Goto(r, "idle", "lookup")
    /\ Ask(r, Main)
    /\ UNCHANGED way

\* service_enabled and get_payment have been read; nothing ended the
\* transaction they began.
Look(r, found) ==
    /\ Goto(r, "lookup", IF found = "reserve" THEN "commit" ELSE "tell")
    /\ way' = [way EXCEPT ![r] = found]
    /\ UNCHANGED <<held, queue>>

\* reserve_payment commits, which gives the connection back.
Commit(r) ==
    /\ Goto(r, "commit", "tell")
    /\ Release(r, {Main})
    /\ UNCHANGED way

\* _record_funnel begins a session of its own.
Tell(r) ==
    /\ Goto(r, "tell", "told")
    /\ Ask(r, Telemetry)
    /\ UNCHANGED way

\* ... and ends it.
Told(r) ==
    /\ Goto(r, "told", "leave")
    /\ Release(r, held[r] \cap {Telemetry})
    /\ UNCHANGED way

Leave(r) ==
    /\ Goto(r, "leave", "answered")
    /\ Release(r, held[r])
    /\ UNCHANGED way

\* Every request that is under way waits for a connection.
Stuck == \A r \in Requests : pc[r] \in Ended \cup {"idle"} \/ Waiting(r)

\* The longest wait ends with an error: an event is dropped, a lookup fails.
Expire ==
    /\ Stuck /\ queue # <<>>
    /\ LET r == Head(queue)[1] IN
         pc' = [pc EXCEPT ![r] = IF Head(queue)[2] = Telemetry THEN "leave" ELSE "failed"]
    /\ queue' = Tail(queue)
    /\ UNCHANGED <<way, held>>

Next ==
    \/ \E r \in Requests :
         \/ Arrive(r) \/ Commit(r) \/ Tell(r) \/ Told(r) \/ Leave(r)
         \/ \E found \in Ways : Look(r, found)
    \/ Expire

Spec == Init /\ [][Next]_vars

\* A request that has its connection goes on, and the pool keeps its timeout;
\* nobody has to come.
FairSpec ==
    /\ Spec
    /\ \A r \in Requests :
         WF_vars(Commit(r) \/ Tell(r) \/ Told(r) \/ Leave(r) \/ \E found \in Ways : Look(r, found))
    /\ WF_vars(Expire)

-----------------------------------------------------------------------------
(* Properties *)

\* No more connections than the pool has; nobody waits while one is free; and a
\* request that has answered has none.
TypeOK ==
    /\ InUse <= Size
    /\ queue # <<>> => InUse = Size
    /\ \A r \in Requests : pc[r] \in Ended => held[r] = {} /\ ~Waiting(r)

\* Requests that each hold a connection and want another do not wait for each
\* other for ever: whoever came is answered, if only with an error.
EveryoneAnswered == \A r \in Requests : pc[r] # "idle" ~> pc[r] \in Ended

\* services/payments.py, "Telemetry must never change payment availability or
\* outcome": no request fails for want of a connection that telemetry waits for.
Available == \A r \in Requests : pc[r] # "failed"
=============================================================================
