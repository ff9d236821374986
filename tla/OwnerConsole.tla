---------------------------- MODULE OwnerConsole ----------------------------
(***************************************************************************)
(* How the owner changes the running service: the bot's one-time           *)
(* confirmations (bot/app.py) and the settings service behind them         *)
(* (services/settings_registry.py).                                        *)
(*                                                                         *)
(* A confirmation is a random token in the bot's memory.  Pressing its     *)
(* button removes it and either asks for a second one, or starts a job:    *)
(* a coroutine that waits for action_lock, reads the rows, commits and     *)
(* writes the audit record.  Advisory lock 825411 is taken inside          *)
(* action_lock and never contended in one process, so it is no step of its *)
(* own.  An undo takes neither lock: it picks a change, loads the row and  *)
(* commits, with awaits in between.                                        *)
(*                                                                         *)
(* A commit writes the columns that differ from the row as it was loaded   *)
(* (Written).  The check of the effective value after a commit reads the   *)
(* session's own object again, so it never fails and is no step either.    *)
(***************************************************************************)
EXTENDS SettingsTable, Sequences, FiniteSets

CONSTANTS
    Admins,      \* settings.admin_ids
    Strangers,   \* other Telegram users
    Keys,        \* the settings in play
    Values,      \* values an admin types
    Names,       \* the presets in play
    Tokens,      \* secrets.token_urlsafe, fresh each time
    Undos,       \* /undo_setting messages
    None,
    Overlap,     \* may an undo and a job run at the same time
    Lifetime,    \* of a confirmation: 60 seconds
    UndoWindow,  \* ten minutes
    MaxClock,    \* bound on time
    MaxRestarts  \* bound on restarts of the bot

Users == Admins \cup Strangers

ASSUME ConsoleAssumption ==
    /\ Keys \subseteq SettingKeys
    /\ Names \subseteq DOMAIN PRESETS
    /\ Values \subseteq Int
    /\ Admins \cap Strangers = {}
    /\ None \notin Tokens \cup Undos \cup Users
    /\ Overlap \in BOOLEAN
    /\ {Lifetime, UndoWindow, MaxClock, MaxRestarts} \subseteq Nat

VARIABLES
    rows,     \* runtime_settings; version 0 is no row
    log,      \* settings_change_log in the order of created_at
    enabled,  \* service_enabled
    audited,  \* bot_audit_log: which jobs and undos have a record
    open,     \* confirmations: the pending tokens
    token,    \* what each token was issued for
    job,      \* where the job of a token is
    loaded,   \* the rows a job or an undo has in its session
    undo,     \* where each undo is, and the change it takes back
    busy,     \* holder of action_lock
    clock,
    restarts

chat == <<open, token>>
tables == <<rows, log, enabled, audited>>
vars == <<chat, tables, job, loaded, undo, busy, clock, restarts>>

-----------------------------------------------------------------------------
(* Values *)

\* What a confirmation is about: a setting, a preset or the pause switch.
SettingAction == [kind : {"setting"}, key : Keys, value : Values, shown : Int, version : Nat]
PresetAction == [kind : {"preset"}, name : Names]
SwitchAction == [kind : {"pause", "resume"}]
Action == SettingAction \cup PresetAction \cup SwitchAction

NoToken == [issued |-> FALSE]
NoUndo == [pc |-> "idle", change |-> 0]
Empty == [k \in Keys |-> [value |-> Setting(k).default, version |-> 0]]

\* Values of a preset for the settings in play.
PresetKeys(name) == Keys \cap DOMAIN PRESETS[name]
KeysOf(action) ==
    IF action.kind = "setting" THEN {action.key}
    ELSE IF action.kind = "preset" THEN PresetKeys(action.name) ELSE {}
NewValue(action, k) ==
    IF action.kind = "setting" THEN action.value ELSE PRESETS[action.name][k]

\* Mutant: a preset needs no second confirmation.
PresetsAtOnce(action) ==
    action.kind = "setting" /\ Setting(action.key).risk = "red"

\* Red settings and presets are confirmed twice.
NeedsSecond(action) ==
    \/ action.kind = "preset"
    \/ action.kind = "setting" /\ Setting(action.key).risk = "red"

\* The ORM writes a column only if its value changed since it was loaded.
Written(now, was, new) == IF new = was THEN now ELSE new

Init ==
    /\ rows = Empty
    /\ log = <<>>
    /\ enabled = TRUE
    /\ audited = {}
    /\ open = {}
    /\ token = [t \in Tokens |-> NoToken]
    /\ job = [t \in Tokens |-> "none"]
    /\ loaded = [j \in Tokens \cup Undos |-> Empty]
    /\ undo = [u \in Undos |-> NoUndo]
    /\ busy = None
    /\ clock = 0
    /\ restarts = 0

-----------------------------------------------------------------------------
(* Messages and buttons *)

Issue(t, admin, action, first) ==
    /\ ~token[t].issued
    /\ open' = open \cup {t}
    /\ token' = [token EXCEPT ![t] =
                   [issued |-> TRUE, admin |-> admin, action |-> action,
                    first |-> first, expires |-> clock + Lifetime]]

Admissible(k, v) == Setting(k).editable /\ InBounds(k, v)

\* /set key value: the value and the version shown are those read here.
AskSetting(admin, k, v) ==
    /\ Admissible(k, v)
    /\ \E t \in Tokens :
         Issue(t, admin, [kind |-> "setting", key |-> k, value |-> v,
                          shown |-> rows[k].value, version |-> rows[k].version], None)
    /\ UNCHANGED <<tables, job, loaded, undo, busy, clock, restarts>>

\* /preset name
AskPreset(admin, name) ==
    /\ \E t \in Tokens : Issue(t, admin, [kind |-> "preset", name |-> name], None)
    /\ UNCHANGED <<tables, job, loaded, undo, busy, clock, restarts>>

\* The pause and resume buttons.
AskSwitch(admin, kind) ==
    /\ \E t \in Tokens : Issue(t, admin, [kind |-> kind], None)
    /\ UNCHANGED <<tables, job, loaded, undo, busy, clock, restarts>>

Quiet == Overlap \/ \A u \in Undos : undo[u].pc \in {"idle", "done"}

\* The token is gone whoever presses; only its admin goes on, in time.
Mine(t, user) == token[t].admin = user /\ clock <= token[t].expires

\* confirmations.pop
Pop(t) == open' = open \ {t}

PressInVain(t, user) ==
    /\ t \in open
    /\ ~Mine(t, user)
    /\ Pop(t)
    /\ UNCHANGED <<tables, token, job, loaded, undo, busy, clock, restarts>>

PressFirst(t, user) ==
    LET action == token[t].action IN
    /\ t \in open
    /\ Mine(t, user)
    /\ token[t].first = None /\ NeedsSecond(action)
    /\ \E second \in Tokens :
         /\ ~token[second].issued
         /\ open' = (open \ {t}) \cup {second}
         /\ token' = [token EXCEPT ![second] =
                        [issued |-> TRUE, admin |-> user, action |-> action,
                         first |-> t, expires |-> clock + Lifetime]]
    /\ UNCHANGED <<tables, job, loaded, undo, busy, clock, restarts>>

PressFinal(t, user) ==
    /\ t \in open
    /\ Mine(t, user)
    /\ token[t].first # None \/ ~NeedsSecond(token[t].action)
    /\ Quiet
    /\ Pop(t)
    /\ job' = [job EXCEPT ![t] = "waiting"]
    /\ UNCHANGED <<tables, token, loaded, undo, busy, clock, restarts>>

\* Cancelling asks neither who presses nor for what.
Cancel(t) ==
    /\ t \in open
    /\ Pop(t)
    /\ UNCHANGED <<tables, token, job, loaded, undo, busy, clock, restarts>>

-----------------------------------------------------------------------------
(* Jobs: SettingsService.update, apply_preset, set_service_enabled *)

TakeActionLock(t) ==
    /\ job[t] = "waiting"
    /\ busy = None
    /\ busy' = t
    /\ job' = [job EXCEPT ![t] = "locked"]
    /\ UNCHANGED <<chat, tables, loaded, undo, clock, restarts>>

\* Mutant: the version is not compared.
AnyVersion(t) == TRUE

VersionAsShown(t) ==
    LET action == token[t].action IN
    action.kind = "setting" => rows[action.key].version = action.version

LoadRows(t) ==
    /\ job[t] = "locked"
    /\ VersionAsShown(t)
    /\ loaded' = [loaded EXCEPT ![t] = rows]
    /\ job' = [job EXCEPT ![t] = "loaded"]
    /\ UNCHANGED <<chat, tables, undo, busy, clock, restarts>>

ReleaseLock == busy' = None

\* Mutant: the error leaves the lock taken.
RefusalKeepsLock(t) ==
    /\ job[t] = "locked"
    /\ ~VersionAsShown(t)
    /\ job' = [job EXCEPT ![t] = "refused"]
    /\ UNCHANGED <<chat, tables, loaded, undo, busy, clock, restarts>>

\* "setting version conflict"
RefuseVersion(t) ==
    /\ job[t] = "locked"
    /\ ~VersionAsShown(t)
    /\ ReleaseLock
    /\ job' = [job EXCEPT ![t] = "refused"]
    /\ UNCHANGED <<chat, tables, loaded, undo, clock, restarts>>

Change(t, k, v, at) ==
    [key |-> k, old |-> loaded[t][k].value, new |-> v, by |-> token[t].admin,
     token |-> t, status |-> "applied", at |-> at, clock |-> clock]

\* One transaction: every row, its version, and a change record for each.
Upsert(t, k, v) ==
    [value |-> Written(rows[k].value, loaded[t][k].value, v),
     version |-> loaded[t][k].version + 1]
Enumerate(keys) == CHOOSE s \in [1..Cardinality(keys) -> keys] : \A i, j \in DOMAIN s : s[i] = s[j] => i = j

SetServiceEnabled(action) ==
    enabled' = IF action.kind \in {"pause", "resume"} THEN action.kind = "resume" ELSE enabled

CommitChange(t) ==
    LET action == token[t].action
        keys == KeysOf(action)
        order == Enumerate(keys)
    IN
    /\ job[t] = "loaded"
    /\ rows' = [k \in Keys |-> IF k \in keys THEN Upsert(t, k, NewValue(action, k)) ELSE rows[k]]
    /\ log' = log \o [i \in DOMAIN order |->
                        Change(t, order[i], NewValue(action, order[i]), Len(log) + 1)]
    /\ SetServiceEnabled(action)
    /\ job' = [job EXCEPT ![t] = "committed"]
    /\ UNCHANGED <<chat, audited, loaded, undo, busy, clock, restarts>>

Audit(t) == audited' = audited \cup {t}

\* The audit record, and the answer that the value is in force.
Answer(t) ==
    /\ job[t] = "committed"
    /\ Audit(t)
    /\ ReleaseLock
    /\ job' = [job EXCEPT ![t] = "answered"]
    /\ UNCHANGED <<chat, rows, log, enabled, loaded, undo, clock, restarts>>

-----------------------------------------------------------------------------
(* /undo_setting *)

Working(t) == job[t] \in {"waiting", "locked", "loaded", "committed"}

\* The newest applied change of this admin in the window ...
Candidates(admin) ==
    {i \in DOMAIN log : /\ log[i].by = admin
                        /\ log[i].status = "applied"
                        /\ log[i].clock + UndoWindow >= clock}
Newest(admin) ==
    {i \in Candidates(admin) : \A j \in Candidates(admin) : log[j].at <= log[i].at}

\* ... unless its key has been changed since.
NewerExists(i) == \E j \in DOMAIN log : log[j].key = log[i].key /\ log[j].at > log[i].at

PickChange(u, admin) ==
    /\ undo[u].pc = "idle"
    /\ Overlap \/ \A t \in Tokens : ~Working(t)
    /\ Overlap \/ \A w \in Undos : undo[w].pc \in {"idle", "done"}
    /\ \E i \in Newest(admin) :
         /\ Setting(log[i].key).risk # "locked"
         /\ ~NewerExists(i)
         /\ undo' = [undo EXCEPT ![u] = [pc |-> "picked", change |-> i]]
    /\ UNCHANGED <<chat, tables, job, loaded, busy, clock, restarts>>

LoadRow(u) ==
    /\ undo[u].pc = "picked"
    /\ loaded' = [loaded EXCEPT ![u] = rows]
    /\ undo' = [undo EXCEPT ![u].pc = "loaded"]
    /\ UNCHANGED <<chat, tables, job, busy, clock, restarts>>

\* Mutant: the old value comes back under the version it is undone at.
RestoredInPlace(u, k) ==
    [value |-> Written(rows[k].value, loaded[u][k].value, log[undo[u].change].old),
     version |-> loaded[u][k].version]

\* _restore: the old value under the next version, the change rolled back.
Restored(u, k) ==
    [value |-> Written(rows[k].value, loaded[u][k].value, log[undo[u].change].old),
     version |-> loaded[u][k].version + 1]

\* Mutant: the change that is undone stays applied in the history.
UndoUnrecorded(u) ==
    /\ undo[u].pc = "loaded"
    /\ rows' = [rows EXCEPT ![log[undo[u].change].key] = Restored(u, log[undo[u].change].key)]
    /\ undo' = [undo EXCEPT ![u].pc = "done"]
    /\ UNCHANGED <<chat, log, enabled, audited, job, loaded, busy, clock, restarts>>

CommitUndo(u) ==
    LET i == undo[u].change
        k == log[i].key
    IN
    /\ undo[u].pc = "loaded"
    /\ rows' = [rows EXCEPT ![k] = Restored(u, k)]
    /\ log' = [log EXCEPT ![i].status = "rolled_back"]
    /\ undo' = [undo EXCEPT ![u].pc = "done"]
    /\ UNCHANGED <<chat, enabled, audited, job, loaded, busy, clock, restarts>>

-----------------------------------------------------------------------------
(* The bot restarts: what was in memory is gone, what was committed stays *)

Restart ==
    /\ restarts < MaxRestarts
    /\ restarts' = restarts + 1
    /\ open' = {}
    /\ job' = [t \in Tokens |-> IF Working(t) THEN "lost" ELSE job[t]]
    /\ undo' = [u \in Undos |-> IF undo[u].pc = "idle" THEN NoUndo
                                ELSE [undo[u] EXCEPT !.pc = "done"]]
    /\ ReleaseLock
    /\ UNCHANGED <<tables, token, loaded, clock>>

Tick ==
    /\ clock < MaxClock
    /\ clock' = clock + 1
    /\ UNCHANGED <<chat, tables, job, loaded, undo, busy, restarts>>

Work(t) ==
    TakeActionLock(t) \/ LoadRows(t) \/ RefuseVersion(t) \/ CommitChange(t) \/ Answer(t)

Next ==
    \/ \E a \in Admins, k \in Keys, v \in Values : AskSetting(a, k, v)
    \/ \E a \in Admins, n \in Names : AskPreset(a, n)
    \/ \E a \in Admins, kind \in {"pause", "resume"} : AskSwitch(a, kind)
    \/ \E t \in Tokens, user \in Users :
         PressInVain(t, user) \/ PressFirst(t, user) \/ PressFinal(t, user)
    \/ \E t \in Tokens : Cancel(t) \/ Work(t)
    \/ \E u \in Undos : (\E a \in Admins : PickChange(u, a)) \/ LoadRow(u) \/ CommitUndo(u)
    \/ Restart \/ Tick

Spec == Init /\ [][Next]_vars
FairSpec == Spec /\ \A t \in Tokens : WF_vars(Work(t))

-----------------------------------------------------------------------------
(* Properties *)

TypeOK ==
    /\ rows \in [Keys -> [value : Int, version : Nat]]
    /\ \A i \in DOMAIN log : log[i].key \in Keys /\ log[i].by \in Admins /\ log[i].at \in 1..i
    /\ enabled \in BOOLEAN
    /\ audited \subseteq Tokens
    /\ open \subseteq {t \in Tokens : token[t].issued}
    /\ \A t \in open : token[t].admin \in Admins /\ token[t].action \in Action
    /\ job \in [Tokens -> {"none", "waiting", "locked", "loaded", "committed",
                            "answered", "refused", "lost"}]
    /\ undo \in [Undos -> [pc : {"idle", "picked", "loaded", "done"}, change : Nat]]
    /\ busy \in Tokens \cup {None}

ChangesOf(k) == {i \in DOMAIN log : log[i].key = k}
RolledBack(i) == log[i].status = "rolled_back"

\* The history is the truth: the newest change of a setting tells its value,
\* the new one while it is applied, the old one once it is undone.
LogTellsValue ==
    \A k \in Keys :
        LET newest == {i \in ChangesOf(k) : \A j \in ChangesOf(k) : log[j].at <= log[i].at} IN
        /\ newest = {} => rows[k].value = Setting(k).default
        /\ \A i \in newest :
             rows[k].value = IF RolledBack(i) THEN log[i].old ELSE log[i].new

\* Every change and every undo has a version of its own, so a version shown to
\* an admin never stands for two values.
EveryChangeHasItsVersion ==
    \A k \in Keys :
        rows[k].version
          = Cardinality(ChangesOf(k)) + Cardinality({i \in ChangesOf(k) : RolledBack(i)})

\* What the admin confirmed is what happened: a change replaces the very value
\* its confirmation showed as the current one, through both presses, whatever
\* other admins set, preset or undid in between.
AppliedAsShown ==
    \A i \in DOMAIN log :
        LET action == token[log[i].token].action IN
        action.kind = "setting" =>
            log[i].old = action.shown /\ log[i].new = action.value

\* STAGE_11_TELEGRAM_CONTROL_REPORT.md: red settings and all presets require a
\* separate second confirmation: two tokens of one admin for the same action,
\* the second issued by the first, both used up.
TwoPressesForRed ==
    \A i \in DOMAIN log :
        LET t == log[i].token
            first == token[t].first
        IN
        token[t].action.kind = "preset" \/ Setting(log[i].key).risk = "red" =>
            /\ first \in Tokens \ {t}
            /\ token[first].admin = log[i].by /\ token[t].admin = log[i].by
            /\ token[first].action = token[t].action
            /\ {first, t} \cap open = {}

\* The same report: confirmations are single-use.  However often and by
\* whomever a button is pressed, a token changes a setting at most once.
SingleUse ==
    \A i, j \in DOMAIN log :
        log[i].token = log[j].token /\ log[i].key = log[j].key => i = j

\* Typed, preset or brought back by an undo, no value is out of the hard
\* bounds, and what Telegram may not edit keeps its default.
WithinBounds ==
    \A k \in Keys :
        /\ InBounds(k, rows[k].value)
        /\ ~Setting(k).editable => rows[k].value = Setting(k).default

\* The action lock is held by the job at work, and by none that is through with
\* it: two jobs never work at a time, and who waits for the lock waits for a job
\* that goes on, whatever was refused or lost before.
JobsTakeTurns ==
    \A t \in Tokens : job[t] \in {"locked", "loaded", "committed"} <=> busy = t

\* A job that waits for the action lock gets it and comes to an end, applied
\* or refused, if the bot keeps running.
EveryPressAnswered ==
    \A t \in Tokens : job[t] = "waiting" ~> job[t] \in {"answered", "refused"}

\* STAGE_11_TELEGRAM_CONTROL_REPORT.md: an undo takes back the last change "when
\* no newer same-key change exists".
UndoesTheNewest ==
    [][\A u \in Undos :
         undo[u].pc = "loaded" /\ log' # log /\ undo'[u].pc = "done"
           => ~NewerExists(undo[u].change)]_vars

\* bot/app.py tells the admin that the value is applied and the effective value
\* verified: the commit it speaks of leaves that value in the row.
VerifiedIsEffective ==
    [][\A t \in Tokens :
         job[t] = "loaded" /\ job'[t] = "committed"
           => \A k \in KeysOf(token[t].action) :
                rows'[k].value = NewValue(token[t].action, k)]_vars

\* STAGE_11_TELEGRAM_CONTROL_REPORT.md: "`/undo_setting` is audited".
UndoIsAudited ==
    \A u \in Undos :
        undo[u].pc = "done" /\ undo[u].change # 0 /\ RolledBack(undo[u].change)
          => u \in audited
=============================================================================
