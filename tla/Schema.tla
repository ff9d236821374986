------------------------------- MODULE Schema -------------------------------
(***************************************************************************)
(* The database migrations 0001 to 0009 and what "alembic upgrade head"    *)
(* and "alembic downgrade" make of a database.  A migration is what it     *)
(* creates and inserts, and what its downgrade drops and deletes; the      *)
(* migrations of one command are one transaction (migrations/env.py).      *)
(***************************************************************************)
EXTENDS Integers, FiniteSets, TLC

CONSTANTS
    OldTools, \* of tool_catalog.py before 0009
    NewTools  \* the ones 0009 was written for

Tools == OldTools \cup NewTools

Nothing == [creates |-> {}, adds |-> {}, seeds |-> {}]

Initial == [Nothing EXCEPT !.creates =
    {"service_settings", "request_events", "url_cache", "url_snapshots",
     "error_events", "bot_audit_log"}]

InitialDropped ==
    {"bot_audit_log", "error_events", "url_snapshots", "url_cache",
     "request_events", "service_settings"}

Payments == [Nothing EXCEPT !.creates = {"payment_events", "payment_attempts"}]
PaymentsDropped == {"payment_attempts", "payment_events"}

\* It also sets the four prices of the legacy operations, which its downgrade
\* leaves as they are.
Templates == [Nothing EXCEPT !.creates = {"message_templates", "message_template_usage"}]
TemplatesDropped == {"message_template_usage", "message_templates"}

\* The catalog is filled from the tool_catalog.py of the image that runs it.
Catalog(tools) ==
    [Nothing EXCEPT
        !.creates = {"tool_catalog", "settings_catalog", "runtime_settings", "settings_change_log"},
        !.seeds = tools]
CatalogDropped ==
    {"settings_change_log", "runtime_settings", "settings_catalog", "tool_catalog"}

Common(table) ==
    {table} \X {"request_id", "source", "client_fingerprint", "attribution"}
Traced ==
    {<<"payment_attempts", "normalized_user_agent">>, <<"payment_attempts", "endpoint">>}
      \cup UNION {Common(table) : table \in
             {"payment_attempts", "payment_events", "request_events", "error_events"}}
Tracing == [Nothing EXCEPT !.adds = Traced]
TracingRemoved ==
    {<<"payment_attempts", "normalized_user_agent">>, <<"payment_attempts", "endpoint">>}
      \cup UNION {Common(table) : table \in
             {"error_events", "request_events", "payment_events", "payment_attempts"}}

Funnel == [Nothing EXCEPT !.creates = {"payment_funnel_events"}]

FunnelDropped == {"payment_funnel_events"}

Demo == [Nothing EXCEPT !.creates = {"free_demo_usage"}]
DemoDropped == {"free_demo_usage"}

Referred ==
    {"request_events", "payment_attempts", "payment_events",
     "payment_funnel_events", "error_events"} \X {"referral_source"}
Referral == [Nothing EXCEPT !.adds = Referred]

Coverage == [Nothing EXCEPT !.seeds = NewTools]

CoverageDeleted == NewTools

Migration(n, tools) ==
    << Initial, Payments, Templates, Catalog(tools), Tracing, Funnel, Demo,
       Referral, Coverage >>[n]

Undoing(n) ==
    LET undo(drops, removes, deletes) == [drops |-> drops, removes |-> removes, deletes |-> deletes]
    IN << undo(InitialDropped, {}, {}), undo(PaymentsDropped, {}, {}),
          undo(TemplatesDropped, {}, {}), undo(CatalogDropped, {}, {}),
          undo({}, TracingRemoved, {}), undo(FunnelDropped, {}, {}),
          undo(DemoDropped, {}, {}), undo({}, Referred, {}),
          undo({}, {}, CoverageDeleted) >>[n]

-----------------------------------------------------------------------------
(* Databases *)

Empty == [rev |-> 0, tables |-> {}, columns |-> {}, tools |-> <<>>, payments |-> 0]
Failed == [failed |-> TRUE]

\* A table or column that exists already or a second row of a tool is an error.
Fits(db, m) ==
    /\ m.creates \cap db.tables = {}
    /\ m.adds \cap db.columns = {}
    /\ {column[1] : column \in m.adds} \subseteq db.tables
    /\ m.seeds \cap DOMAIN db.tools = {}

Applied(db, n, m) ==
    [rev |-> n,
     tables |-> db.tables \cup m.creates,
     columns |-> db.columns \cup m.adds,
     tools |-> [tool \in m.seeds \cup DOMAIN db.tools |->
                  IF tool \in m.seeds THEN "catalog" ELSE db.tools[tool]],
     payments |-> db.payments]

\* One migration of an upgrade
Migrated(before, n, tools) ==
    LET m == Migration(n, tools)
    IN IF before # Failed /\ Fits(before, m) THEN Applied(before, n, m) ELSE Failed

\* alembic upgrade head, by an image with this head and these tools
Upgraded(db, head, tools) ==
    LET at[n \in db.rev..head] == IF n = db.rev THEN db ELSE Migrated(at[n - 1], n, tools)
    IN IF db.rev > head THEN Failed ELSE at[head]

\* A table goes with its columns and rows.
Undone(db, n) ==
    LET undo == Undoing(n)
        tables == db.tables \ undo.drops
    IN [rev |-> n - 1,
        tables |-> tables,
        columns |-> {column \in db.columns \ undo.removes : column[1] \in tables},
        tools |-> [tool \in {t \in DOMAIN db.tools \ undo.deletes : "tool_catalog" \in tables}
                     |-> db.tools[tool]],
        payments |-> IF "payment_events" \in tables THEN db.payments ELSE 0]

\* alembic downgrade
Downgraded(db, rev) ==
    LET at[n \in rev..db.rev] == IF n = db.rev THEN db ELSE Undone(at[n + 1], n + 1)
    IN at[rev]

Layout(db) == [tables |-> db.tables, columns |-> db.columns, tools |-> DOMAIN db.tools]
=============================================================================
