---------------------------- MODULE PreviewQuota ----------------------------
(***************************************************************************)
(* The free previews and their quota: repositories/demo.py,                *)
(* services/live_demo.py, services/trial_preview.py and the routes of      *)
(* api/app.py and mcp_server.py that call them.                            *)
(*                                                                         *)
(* One table counts both kinds of preview.  A request takes its window     *)
(* from the clock, then waits for a connection and for the row: its upsert *)
(* may run when the window it was given is over.  The page is looked at    *)
(* after the count was committed.  A day has DayLength ticks and an hour   *)
(* HourLength.                                                             *)
(***************************************************************************)
EXTENDS Integers, FiniteSets

CONSTANTS
    Live,       \* requests for the live demo, over REST or MCP
    Trial,      \* requests for a preview of the buyer's URL
    Clients,    \* fingerprints
    ClientOf,
    LiveLimit,  \* demo_live_rate_per_hour
    TrialLimit, \* trial_preview_rate_per_day
    HourLength,
    DayLength,
    MaxTime     \* bound of the model

VARIABLES
    now,
    usage,    \* free_demo_usage: bucket -> row
    previewPc,
    window,   \* the window a request was given
    answer,
    \* history:
    admitted, \* when a request was counted, or -1
    counted   \* the row's window when it was counted, or -1

previewVars == <<now, usage, previewPc, window, answer, admitted, counted>>

Requests == Live \cup Trial

ASSUME PreviewAssumption ==
    /\ Live \cap Trial = {}
    /\ ClientOf \in [Requests -> Clients]
    /\ {LiveLimit, TrialLimit, HourLength, DayLength} \subseteq Nat \ {0}
    /\ DayLength % HourLength = 0
    /\ MaxTime \in Nat

Kind(r) == IF r \in Live THEN "live" ELSE "trial"
Length(r) == IF r \in Live THEN HourLength ELSE DayLength
Limit(r) == IF r \in Live THEN LiveLimit ELSE TrialLimit

\* Mutant: the trial's fingerprint has no namespace of its own.
Shared(r) == <<"live", ClientOf[r]>>

\* The fingerprint, and sha256("trial-preview" + fingerprint).
Bucket(r) == <<Kind(r), ClientOf[r]>>

Window(r, time) == time - (time % Length(r))

NoUsage == [window |-> 0, count |-> 0]
UsageRow == [window : 0..MaxTime, count : 0..Cardinality(Requests)]

PreviewInit ==
    /\ now = 0
    /\ usage = [bucket \in {"live", "trial"} \X Clients |-> NoUsage]
    /\ previewPc = [r \in Requests |-> "idle"]
    /\ window = [r \in Requests |-> 0]
    /\ answer = [r \in Requests |-> "none"]
    /\ admitted = [r \in Requests |-> -1]
    /\ counted = [r \in Requests |-> -1]

PreviewGoto(r, label) == previewPc' = [previewPc EXCEPT ![r] = label]
Reply(r, result) == PreviewGoto(r, "done") /\ answer' = [answer EXCEPT ![r] = result]

Arrive(r) ==
    /\ previewPc[r] = "idle"
    /\ window' = [window EXCEPT ![r] = Window(r, now)]
    /\ PreviewGoto(r, "upsert")
    /\ UNCHANGED <<now, usage, answer, admitted, counted>>

\* A row of an older window does not count: it is begun anew.
Outdated(r) == usage[Bucket(r)].window < window[r]

\* Mutant: one more than the limit.
AdmitsOneMore(r) ==
    usage[Bucket(r)] = NoUsage \/ Outdated(r) \/ usage[Bucket(r)].count <= Limit(r)

Admits(r) ==
    usage[Bucket(r)] = NoUsage \/ Outdated(r) \/ usage[Bucket(r)].count < Limit(r)

Counted(r) ==
    IF usage[Bucket(r)] = NoUsage \/ Outdated(r)
    THEN [window |-> window[r], count |-> 1]
    ELSE [usage[Bucket(r)] EXCEPT !.count = @ + 1]

Count(r) ==
    /\ usage' = [usage EXCEPT ![Bucket(r)] = Counted(r)]
    /\ admitted' = [admitted EXCEPT ![r] = now]
    /\ counted' = [counted EXCEPT ![r] = usage'[Bucket(r)].window]

\* INSERT ... ON CONFLICT DO UPDATE ... WHERE ... RETURNING, and its commit.
Consume(r) ==
    /\ previewPc[r] = "upsert"
    /\ Admits(r)
    /\ Count(r)
    /\ PreviewGoto(r, "pulse")
    /\ UNCHANGED <<now, window, answer>>

TurnDown(r) ==
    /\ previewPc[r] = "upsert"
    /\ ~Admits(r)
    /\ Reply(r, "limited")
    /\ UNCHANGED <<now, usage, window, admitted, counted>>

\* The connection breaks; the count may have been committed.
LoseConnection(r) ==
    /\ previewPc[r] = "upsert"
    /\ \/ Admits(r) /\ Count(r)
       \/ UNCHANGED <<usage, admitted, counted>>
    /\ Reply(r, "failed")
    /\ UNCHANGED <<now, window>>

\* pulse_with_audit; the live demo's target is fixed and safe.
PreviewPulse(r, result) ==
    /\ previewPc[r] = "pulse"
    /\ result = "unsafe" => r \in Trial
    /\ Reply(r, result)
    /\ UNCHANGED <<now, usage, window, admitted, counted>>

PreviewTick ==
    /\ now < MaxTime
    /\ now' = now + 1
    /\ UNCHANGED <<usage, previewPc, window, answer, admitted, counted>>

PreviewNext ==
    \/ PreviewTick
    \/ \E r \in Requests :
         \/ Arrive(r) \/ Consume(r) \/ TurnDown(r) \/ LoseConnection(r)
         \/ \E result \in {"served", "unsafe", "failed"} : PreviewPulse(r, result)

PreviewSpec == PreviewInit /\ [][PreviewNext]_previewVars

-----------------------------------------------------------------------------
(* Properties *)

\* The requests of r's kind and client that were counted.
Admitted(r) ==
    {s \in Requests : Kind(s) = Kind(r) /\ ClientOf[s] = ClientOf[r] /\ admitted[s] >= 0}

PreviewTypeOK ==
    /\ now \in 0..MaxTime
    /\ \A bucket \in DOMAIN usage : usage[bucket] \in UsageRow
    /\ \A r \in Requests :
         /\ usage[<<Kind(r), ClientOf[r]>>].count <= Limit(r)
         /\ previewPc[r] \in {"idle", "upsert", "pulse", "done"}
         /\ window[r] \in 0..now
         /\ answer[r] \in {"none", "limited", "unsafe", "failed", "served"}
         /\ (admitted[r] = -1) = (counted[r] = -1)

\* Counts that run late and counts that arrive together never give a client
\* more than the limit for each of the windows that have begun.
LimitPerWindow ==
    \A r \in Requests :
        Cardinality(Admitted(r)) <= Limit(r) * (now \div Length(r) + 1)

\* Nobody is turned away whose window is not used up: by as many of his own
\* requests of this kind, in this window or a later one.
RefusedWhenUsedUp ==
    \A r \in Requests : answer[r] = "limited" =>
        Cardinality({s \in Admitted(r) : counted[s] >= window[r]}) >= Limit(r)

\* repositories/demo.py, "Atomically consume one request from the current
\* UTC-hour bucket": in one hour of the clock no more than the limit.
RateHeld ==
    \A r \in Requests, start \in {t \in 0..MaxTime : t % HourLength = 0} :
        r \in Live =>
            Cardinality({s \in Admitted(r) : Window(s, admitted[s]) = start}) <= LiveLimit

\* API.md, "limited to one accepted preview per safe client fingerprint and
\* UTC day": a client that is turned away has had its preview, or is having it.
RefusedHadItsPreview ==
    \A r \in Trial : answer[r] = "limited" =>
        \E s \in Admitted(r) : previewPc[s] = "pulse" \/ answer[s] = "served"
=============================================================================
