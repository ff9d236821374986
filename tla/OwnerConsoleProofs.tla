------------------------- MODULE OwnerConsoleProofs -------------------------
(***************************************************************************)
(* What the owner's confirmations promise, for any admins, settings,       *)
(* values, tokens and undos.                                               *)
(*                                                                         *)
(* PressInv follows a token from its issue to the change records it leaves *)
(* and needs no assumption.  SerialInv is about the rows: if no undo       *)
(* overlaps a job (~Overlap), what a job or an undo has loaded is still    *)
(* what the table holds when it commits, so each commit takes the next     *)
(* version, and a version stands for one value.  LockInv adds to PressInv  *)
(* whose the action lock is; it needs no assumption either.                *)
(***************************************************************************)
EXTENDS OwnerConsole, FiniteSetTheorems, SequenceTheorems, TLAPS

-----------------------------------------------------------------------------
(* Types *)

Table == [Keys -> [value : Int, version : Nat]]

ChangeRecord ==
    [key : Keys, old : Int, new : Int, by : Admins, token : Tokens,
     status : {"applied", "rolled_back"}, at : Nat, clock : Nat]

TokenRecord ==
    [issued : {TRUE}, admin : Admins, action : Action,
     first : Tokens \cup {None}, expires : Nat]

JobState ==
    {"none", "waiting", "locked", "loaded", "committed", "answered", "refused", "lost"}

\* An undo between its pick and its commit.
Undoing(u) == undo[u].pc \in {"picked", "loaded"}

TypeInv ==
    /\ rows \in Table
    /\ log \in Seq(ChangeRecord)
    /\ \A i \in DOMAIN log : log[i].at \in 1..i
    /\ enabled \in BOOLEAN
    /\ audited \subseteq Tokens
    /\ open \subseteq Tokens
    /\ token \in [Tokens -> TokenRecord \cup {NoToken}]
    /\ \A t \in open : token[t] \in TokenRecord
    /\ job \in [Tokens -> JobState]
    /\ loaded \in [Tokens \cup Undos -> Table]
    /\ undo \in [Undos -> [pc : {"idle", "picked", "loaded", "done"}, change : Nat]]
    /\ busy \in Tokens \cup {None}
    /\ clock \in Nat /\ restarts \in Nat
    /\ \A u \in Undos : Undoing(u) => undo[u].change \in DOMAIN log

-----------------------------------------------------------------------------
(* From a token to the change records it leaves *)

Issued(t) == token[t] \in TokenRecord

\* A token that asks for a second press has had the first: by the same admin,
\* for the same action, under another token that is used up.
Seconds(t) ==
    LET first == token[t].first
    IN  Issued(t) /\ first # None =>
          /\ first # t /\ Issued(first) /\ first \notin open
          /\ token[first].admin = token[t].admin
          /\ token[first].action = token[t].action

\* A job was started by a token that nobody can press again, and that needs no
\* further press.
Started(t) ==
    job[t] # "none" =>
      /\ Issued(t) /\ t \notin open
      /\ token[t].first # None \/ ~NeedsSecond(token[t].action)

\* A change record is of a job that has committed.
Recorded(i) ==
    LET t == log[i].token
    IN  /\ job[t] \in {"committed", "answered", "lost"}
        /\ log[i].by = token[t].admin
        /\ log[i].key \in KeysOf(token[t].action)
        /\ token[t].action.kind = "setting" => log[i].new = token[t].action.value

PressInv ==
    /\ \A t \in Tokens : Seconds(t) /\ Started(t)
    /\ \A i \in DOMAIN log : Recorded(i)
    /\ SingleUse

-----------------------------------------------------------------------------
(* One after the other *)

AtWork == {"locked", "loaded", "committed"}

\* action_lock is held by the job that works.
LockInv == \A t \in Tokens : job[t] \in AtWork <=> busy = t

\* Nothing changes the rows under a job or an undo.
Alone ==
    /\ \A u \in Undos : Undoing(u) =>
         /\ \A t \in Tokens : ~Working(t)
         /\ \A w \in Undos \ {u} : ~Undoing(w)
    /\ \A t \in Tokens : job[t] = "loaded" => loaded[t] = rows /\ VersionAsShown(t)
    /\ \A u \in Undos : undo[u].pc = "loaded" => loaded[u] = rows
    /\ \A u \in Undos : Undoing(u) =>
         LET i == undo[u].change
         IN  i \in DOMAIN log /\ log[i].status = "applied" /\ ~NewerExists(i)

\* The changes of a setting are told apart by when they were made.
InOrder ==
    \A i, j \in DOMAIN log : log[i].key = log[j].key /\ log[i].at = log[j].at => i = j

\* The version an admin was shown is not ahead of the row, and stands for the
\* value he was shown with it.
ShownStands ==
    \A t \in Tokens :
      LET action == token[t].action
      IN  Issued(t) /\ action.kind = "setting" =>
            /\ action.version <= rows[action.key].version
            /\ action.version = rows[action.key].version
                 => rows[action.key].value = action.shown

BookInv ==
    InOrder /\ ShownStands /\ LogTellsValue /\ EveryChangeHasItsVersion /\ AppliedAsShown

SerialInv == LockInv /\ Alone /\ BookInv

-----------------------------------------------------------------------------
(* The catalogue *)

\* The numbers of the catalogue are too large for Zenon.
LEMMA DefaultsTyped == \A row \in SETTINGS : row.default \in Int
<1>1. \A key, m, x, d :
        /\ Green(key, d, m, x).default = d
        /\ Yellow(key, d, m, x).default = d
        /\ Red(key, d, m, x).default = d
        /\ ReadOnly(key, d, m, x).default = d
        /\ Switch(key).default = 1
        /\ Fixed(key).default = 0
  BY SMT DEF Green, Yellow, Red, ReadOnly, Switch, Fixed, Row
<1>2. \A row \in Economy : row.default \in Int
  BY <1>1, SMT DEF Economy
<1>3. \A row \in Limits : row.default \in Int
  BY <1>1, SMT DEF Limits
<1>4. \A row \in Fetch : row.default \in Int
  BY <1>1, SMT DEF Fetch
<1>5. \A row \in Cache : row.default \in Int
  BY <1>1, SMT DEF Cache
<1>6. \A row \in Telegram : row.default \in Int
  BY <1>1, SMT DEF Telegram
<1>7. \A row \in Monitor \cup Visibility \cup System : row.default \in Int
  BY <1>1, SMT DEF Monitor, Visibility, System
<1> QED BY <1>2, <1>3, <1>4, <1>5, <1>6, <1>7, Zenon DEF SETTINGS

LEMMA DefaultTyped == ASSUME NEW k \in Keys PROVE Setting(k).default \in Int
<1>1. PICK row \in SETTINGS : row.key = k
  BY ConsoleAssumption DEF SettingKeys
<1>2. Setting(k) \in SETTINGS
  BY <1>1 DEF Setting
<1> QED BY <1>2, DefaultsTyped

PresetSettings ==
    {"global_paid_concurrency", "per_domain_concurrency", "fetch_total_timeout_seconds",
     "critical_alerts"}

LEMMA PresetTyped ==
    ASSUME NEW name \in Names
    PROVE  PRESETS[name] \in [PresetSettings -> Int]
<1>1. \A p, d, w \in Int : Preset(p, d, w) \in [PresetSettings -> Int]
  BY DEF Preset, PresetSettings
<1>2. name \in {"safe", "balanced", "growth"}
  BY ConsoleAssumption DEF PRESETS
<1>3. PRESETS[name] \in {Preset(4, 1, 12), Preset(8, 2, 15), Preset(16, 4, 20)}
  BY <1>2 DEF PRESETS
<1>4. CASE PRESETS[name] = Preset(4, 1, 12)
  BY <1>1, <1>4
<1>5. CASE PRESETS[name] = Preset(8, 2, 15)
  BY <1>1, <1>5
<1>6. CASE PRESETS[name] = Preset(16, 4, 20)
  BY <1>1, <1>6
<1> QED BY <1>3, <1>4, <1>5, <1>6

LEMMA ActionShape ==
    ASSUME NEW action \in Action
    PROVE  /\ action.kind \in {"setting", "preset", "pause", "resume"}
           /\ action.kind = "setting" => action \in SettingAction
           /\ action.kind = "preset" => action \in PresetAction
BY DEF Action, SettingAction, PresetAction, SwitchAction

\* What an action changes: finitely many settings, each to a number.
LEMMA KeysOfAction ==
    ASSUME NEW action \in Action
    PROVE  /\ KeysOf(action) \subseteq Keys
           /\ IsFiniteSet(KeysOf(action))
           /\ \A k \in KeysOf(action) : NewValue(action, k) \in Int
<1>1. CASE action.kind = "setting"
  <2>1. action.key \in Keys /\ action.value \in Int
    BY <1>1, ActionShape, ConsoleAssumption DEF SettingAction
  <2>2. KeysOf(action) = {action.key} /\ \A k \in Keys : NewValue(action, k) = action.value
    BY <1>1 DEF KeysOf, NewValue
  <2> QED BY <2>1, <2>2, FS_Singleton
<1>2. CASE action.kind = "preset"
  <2>1. action.name \in Names
    BY <1>2, ActionShape DEF PresetAction
  <2>2. KeysOf(action) = Keys \cap DOMAIN PRESETS[action.name]
    BY <1>2 DEF KeysOf, PresetKeys
  <2>3. \A k \in Keys : NewValue(action, k) = PRESETS[action.name][k]
    BY <1>2 DEF NewValue
  <2>4. DOMAIN PRESETS[action.name] = PresetSettings
    BY <2>1, PresetTyped
  <2>5. IsFiniteSet(PresetSettings)
    <3>1. IsFiniteSet({"global_paid_concurrency"})
      BY FS_Singleton
    <3>2. IsFiniteSet({"global_paid_concurrency"} \cup {"per_domain_concurrency"})
      BY <3>1, FS_AddElement
    <3>3. IsFiniteSet({"global_paid_concurrency"} \cup {"per_domain_concurrency"}
                        \cup {"fetch_total_timeout_seconds"})
      BY <3>2, FS_AddElement
    <3>4. IsFiniteSet({"global_paid_concurrency"} \cup {"per_domain_concurrency"}
                        \cup {"fetch_total_timeout_seconds"} \cup {"critical_alerts"})
      BY <3>3, FS_AddElement
    <3> QED BY <3>4, FS_Subset DEF PresetSettings
  <2>6. IsFiniteSet(KeysOf(action))
    BY <2>2, <2>4, <2>5, FS_Subset
  <2> QED BY <2>1, <2>2, <2>3, <2>4, <2>6, PresetTyped
<1>3. CASE action.kind \notin {"setting", "preset"}
  BY <1>3, FS_EmptySet DEF KeysOf
<1> QED BY <1>1, <1>2, <1>3

LEMMA ActionsMade ==
    /\ \A k \in Keys, v \in Values, s \in Int, n \in Nat :
         [kind |-> "setting", key |-> k, value |-> v, shown |-> s, version |-> n] \in Action
    /\ \A n \in Names : [kind |-> "preset", name |-> n] \in Action
    /\ \A kind \in {"pause", "resume"} : [kind |-> kind] \in Action
<1>1. \A k \in Keys, v \in Values, s \in Int, n \in Nat :
        [kind |-> "setting", key |-> k, value |-> v, shown |-> s, version |-> n] \in SettingAction
  BY DEF SettingAction
<1>2. \A n \in Names : [kind |-> "preset", name |-> n] \in PresetAction
  BY DEF PresetAction
<1>3. \A kind \in {"pause", "resume"} : [kind |-> kind] \in SwitchAction
  BY DEF SwitchAction
<1> QED BY <1>1, <1>2, <1>3 DEF Action

-----------------------------------------------------------------------------
(* What a commit does *)

\* Enumerate lists every element of a finite set once.
LEMMA EnumerateIs ==
    ASSUME NEW S, IsFiniteSet(S)
    PROVE  /\ Cardinality(S) \in Nat
           /\ Enumerate(S) \in [1..Cardinality(S) -> S]
           /\ \A i, j \in 1..Cardinality(S) : Enumerate(S)[i] = Enumerate(S)[j] => i = j
           /\ \A k \in S : \E i \in 1..Cardinality(S) : Enumerate(S)[i] = k
<1> DEFINE N == 1..Cardinality(S)
           Lists(s) == \A i, j \in DOMAIN s : s[i] = s[j] => i = j
<1>1. Cardinality(S) \in Nat /\ ExistsBijection(N, S)
  BY FS_CardinalityType
<1>2. PICK f \in [N -> S] : Lists(f)
  <2>1. PICK f : f \in Bijection(N, S)
    BY <1>1 DEF ExistsBijection
  <2> QED BY <2>1 DEF Bijection, Injection, IsInjective
<1>3. Enumerate(S) \in [N -> S] /\ Lists(Enumerate(S))
  <2>1. Enumerate(S) = CHOOSE s \in [N -> S] : Lists(s)
    BY DEF Enumerate
  <2> HIDE DEF Lists
  <2> QED BY <1>2, <2>1
<1> DEFINE e == Enumerate(S)
<1>4. e \in Injection(N, S)
  <2> HIDE DEF e
  <2> QED BY <1>3 DEF e, Injection, IsInjective
<1>5. Cardinality(N) = Cardinality(S)
  BY <1>1, FS_Interval
<1>6. e \in Surjection(N, S)
  BY <1>4, <1>5, FS_Injection
<1> HIDE DEF e
<1>7. \A k \in S : \E i \in N : e[i] = k
  BY <1>6 DEF Surjection
<1> QED BY <1>1, <1>3, <1>7 DEF e

LEMMA LogEntries ==
    ASSUME TypeInv
    PROVE  /\ Len(log) \in Nat /\ DOMAIN log = 1..Len(log)
           /\ \A i \in DOMAIN log : log[i] \in ChangeRecord /\ log[i].at \in 1..i
<1>1. log \in Seq(ChangeRecord) /\ Len(log) \in Nat /\ DOMAIN log = 1..Len(log)
  BY LenProperties DEF TypeInv
<1>2. \A i \in 1..Len(log) : log[i] \in ChangeRecord
  BY <1>1, ElementOfSeq
<1> QED BY <1>1, <1>2 DEF TypeInv

LEMMA LoadedJob ==
    ASSUME TypeInv, PressInv, NEW t \in Tokens, job[t] # "none"
    PROVE  /\ token[t] \in TokenRecord /\ token[t].action \in Action
           /\ token[t].admin \in Admins /\ t \notin open
BY DEF PressInv, Started, Issued, TokenRecord

\* The rows of the action get their new values and versions ...
LEMMA CommitRows ==
    ASSUME TypeInv, PressInv, NEW t \in Tokens, CommitChange(t)
    PROVE  /\ token[t].action \in Action
           /\ KeysOf(token[t].action) \subseteq Keys
           /\ rows' \in Table
           /\ \A k \in Keys : rows'[k] = IF k \in KeysOf(token[t].action)
                                         THEN Upsert(t, k, NewValue(token[t].action, k))
                                         ELSE rows[k]
<1>1. token[t].action \in Action
  BY LoadedJob DEF CommitChange
<1>2. /\ KeysOf(token[t].action) \subseteq Keys
      /\ \A k \in KeysOf(token[t].action) : NewValue(token[t].action, k) \in Int
  BY <1>1, KeysOfAction
<1>3. rows' = [k \in Keys |-> IF k \in KeysOf(token[t].action)
                               THEN Upsert(t, k, NewValue(token[t].action, k)) ELSE rows[k]]
  BY DEF CommitChange
<1>4. ASSUME NEW k \in KeysOf(token[t].action)
      PROVE  Upsert(t, k, NewValue(token[t].action, k)) \in [value : Int, version : Nat]
  <2>1. k \in Keys /\ NewValue(token[t].action, k) \in Int
    BY <1>2
  <2>2. rows[k].value \in Int /\ loaded[t][k].version \in Nat
    BY <2>1 DEF TypeInv, Table
  <2>3. Written(rows[k].value, loaded[t][k].value, NewValue(token[t].action, k)) \in Int
    BY <2>1, <2>2 DEF Written
  <2> QED BY <2>2, <2>3 DEF Upsert
<1>5. \A k \in Keys : rows[k] \in [value : Int, version : Nat]
  BY DEF TypeInv, Table
<1> QED BY <1>1, <1>2, <1>3, <1>4, <1>5 DEF Table

\* ... and each of them has one new record in the log, of one moment.
LEMMA CommitLog ==
    ASSUME TypeInv, PressInv, NEW t \in Tokens, CommitChange(t)
    PROVE  /\ log' \in Seq(ChangeRecord)
           /\ Len(log) \in Nat /\ Len(log') \in Nat /\ Len(log) <= Len(log')
           /\ DOMAIN log = 1..Len(log) /\ DOMAIN log' = 1..Len(log')
           /\ \A i \in 1..Len(log) : log'[i] = log[i]
           /\ \A i \in (Len(log) + 1)..Len(log') :
                /\ log'[i].key \in KeysOf(token[t].action)
                /\ log'[i] = Change(t, log'[i].key,
                                    NewValue(token[t].action, log'[i].key), Len(log) + 1)
           /\ \A i, j \in (Len(log) + 1)..Len(log') : log'[i].key = log'[j].key => i = j
           /\ \A k \in KeysOf(token[t].action) :
                \E i \in (Len(log) + 1)..Len(log') : log'[i].key = k
<1> DEFINE action == token[t].action
           keys == KeysOf(action)
           order == Enumerate(keys)
           n == Cardinality(keys)
           at == Len(log) + 1
           C(k) == Change(t, k, NewValue(action, k), at)
           new == [i \in DOMAIN order |-> C(order[i])]
<1>1. action \in Action /\ token[t].admin \in Admins
  BY LoadedJob DEF CommitChange
<1>2. /\ keys \subseteq Keys /\ IsFiniteSet(keys)
      /\ \A k \in keys : NewValue(action, k) \in Int
  BY <1>1, KeysOfAction
<1>3. /\ n \in Nat /\ order \in [1..n -> keys]
      /\ \A i, j \in 1..n : order[i] = order[j] => i = j
      /\ \A k \in keys : \E i \in 1..n : order[i] = k
  BY <1>2, EnumerateIs
<1>4. log' = log \o new
  BY DEF CommitChange
<1>5. log \in Seq(ChangeRecord) /\ Len(log) \in Nat /\ DOMAIN log = 1..Len(log)
  BY LenProperties DEF TypeInv
<1>6. ASSUME NEW k \in keys PROVE C(k) \in ChangeRecord /\ C(k).key = k
  <2>1. k \in Keys /\ NewValue(action, k) \in Int /\ loaded[t][k].value \in Int
        /\ clock \in Nat /\ at \in Nat
    BY <1>2, <1>5 DEF TypeInv, Table
  <2> QED BY <1>1, <2>1 DEF Change, ChangeRecord
<1> HIDE DEF C, order, keys, action, n
<1>7. new = [i \in 1..n |-> C(order[i])]
  BY <1>3
<1>8. \A i \in 1..n : C(order[i]) \in ChangeRecord /\ C(order[i]).key = order[i]
  BY <1>3, <1>6
<1>9. new \in Seq(ChangeRecord) /\ Len(new) = n /\ \A i \in 1..n : new[i] = C(order[i])
  <2>1. new \in [1..n -> ChangeRecord]
    BY <1>7, <1>8
  <2>2. new \in Seq(ChangeRecord)
    BY <1>3, <2>1
  <2>3. DOMAIN new = 1..n /\ DOMAIN new = 1..Len(new) /\ Len(new) \in Nat
    BY <2>1, <2>2, LenProperties
  <2> QED BY <1>3, <1>7, <2>2, <2>3
<1> HIDE DEF new
<1>10. /\ log' \in Seq(ChangeRecord) /\ Len(log') = Len(log) + n
       /\ \A i \in 1..(Len(log) + n) :
            log'[i] = IF i <= Len(log) THEN log[i] ELSE new[i - Len(log)]
  BY <1>4, <1>5, <1>9, ConcatProperties
<1>11. Len(log') \in Nat /\ DOMAIN log' = 1..Len(log')
  BY <1>10, LenProperties
<1>12. ASSUME NEW i \in at..Len(log')
       PROVE  /\ i - Len(log) \in 1..n
              /\ log'[i] = C(order[i - Len(log)])
              /\ log'[i].key = order[i - Len(log)]
  <2>1. i - Len(log) \in 1..n /\ i \in 1..(Len(log) + n) /\ ~(i <= Len(log))
    BY <1>3, <1>5, <1>10, <1>12
  <2>2. log'[i] = new[i - Len(log)]
    BY <1>10, <2>1
  <2> QED BY <1>8, <1>9, <2>1, <2>2
<1>13. \A i \in at..Len(log') : log'[i].key \in keys /\ log'[i] = C(log'[i].key)
  BY <1>3, <1>12
<1>14. \A i, j \in at..Len(log') : log'[i].key = log'[j].key => i = j
  <2> SUFFICES ASSUME NEW i \in at..Len(log'), NEW j \in at..Len(log'),
                      log'[i].key = log'[j].key
               PROVE  i = j
    OBVIOUS
  <2>1. i - Len(log) = j - Len(log)
    BY <1>3, <1>12
  <2> QED BY <1>5, <1>11, <2>1
<1>15. \A k \in keys : \E i \in at..Len(log') : log'[i].key = k
  <2> SUFFICES ASSUME NEW k \in keys PROVE \E i \in at..Len(log') : log'[i].key = k
    OBVIOUS
  <2>1. PICK j \in 1..n : order[j] = k
    BY <1>3
  <2>2. j + Len(log) \in at..Len(log') /\ (j + Len(log)) - Len(log) = j
    BY <1>3, <1>5, <1>10
  <2> QED BY <1>12, <2>1, <2>2
<1>16. \A i \in 1..Len(log) : log'[i] = log[i]
  BY <1>3, <1>5, <1>10
<1> QED BY <1>3, <1>5, <1>10, <1>11, <1>13, <1>14, <1>15, <1>16 DEF C, keys, action

LEMMA UndoEffect ==
    ASSUME TypeInv, NEW u \in Undos, CommitUndo(u)
    PROVE  /\ undo[u].change \in 1..Len(log) /\ DOMAIN log = 1..Len(log) /\ Len(log) \in Nat
           /\ log[undo[u].change] \in ChangeRecord /\ log[undo[u].change].key \in Keys
           /\ rows' \in Table
           /\ rows' = [rows EXCEPT ![log[undo[u].change].key] =
                          Restored(u, log[undo[u].change].key)]
           /\ log' = [log EXCEPT ![undo[u].change] =
                          [log[undo[u].change] EXCEPT !.status = "rolled_back"]]
           /\ log' \in Seq(ChangeRecord) /\ DOMAIN log' = DOMAIN log
           /\ \A i \in DOMAIN log :
                /\ log'[i].key = log[i].key /\ log'[i].at = log[i].at /\ log'[i].by = log[i].by
                /\ log'[i].token = log[i].token
                /\ log'[i].old = log[i].old /\ log'[i].new = log[i].new
                /\ log'[i].status = IF i = undo[u].change THEN "rolled_back" ELSE log[i].status
<1>1. PICK i : i = undo[u].change
  OBVIOUS
<1>2. log \in Seq(ChangeRecord) /\ DOMAIN log = 1..Len(log) /\ Len(log) \in Nat
  BY LenProperties DEF TypeInv
<1>3. i \in DOMAIN log
  BY <1>1 DEF TypeInv, CommitUndo, Undoing
<1>4. \A j \in 1..Len(log) : log[j] \in ChangeRecord
  BY <1>2, ElementOfSeq
<1>5. PICK k \in Keys : k = log[i].key
  BY <1>2, <1>3, <1>4 DEF ChangeRecord
<1>6. rows' = [rows EXCEPT ![k] = Restored(u, k)]
  BY <1>1, <1>5 DEF CommitUndo
<1>7. Restored(u, k) \in [value : Int, version : Nat]
  <2>1. /\ rows[k].value \in Int /\ loaded[u][k].value \in Int /\ loaded[u][k].version \in Nat
        /\ log[i].old \in Int
    <3>1. rows \in Table /\ loaded[u] \in Table
      BY DEF TypeInv
    <3>2. log[i] \in ChangeRecord
      BY <1>2, <1>3, <1>4
    <3> QED BY <3>1, <3>2 DEF Table, ChangeRecord
  <2>2. Written(rows[k].value, loaded[u][k].value, log[i].old) \in Int
    BY <2>1 DEF Written
  <2> QED BY <1>1, <2>1, <2>2 DEF Restored
<1>8. rows' \in Table
  BY <1>6, <1>7 DEF TypeInv, Table
<1> DEFINE r == [log[i] EXCEPT !.status = "rolled_back"]
<1>9. /\ r \in ChangeRecord /\ r.status = "rolled_back"
      /\ r.key = log[i].key /\ r.at = log[i].at /\ r.by = log[i].by /\ r.token = log[i].token
      /\ r.old = log[i].old /\ r.new = log[i].new
  BY <1>2, <1>3, <1>4 DEF ChangeRecord
<1>10. log' = [log EXCEPT ![i] = r]
  BY <1>1, <1>3 DEF CommitUndo
<1> HIDE DEF r
<1>11. log' \in Seq(ChangeRecord) /\ Len(log') = Len(log)
       /\ \A j \in 1..Len(log) : log'[j] = IF j = i THEN r ELSE log[j]
  BY <1>2, <1>3, <1>9, <1>10, ExceptSeq
<1>12. DOMAIN log' = DOMAIN log
  BY <1>10
<1> QED BY <1>1, <1>2, <1>3, <1>4, <1>5, <1>6, <1>8, <1>9, <1>10, <1>11, <1>12 DEF r

-----------------------------------------------------------------------------
(* Types are kept *)

\* The steps in the chat: messages and buttons.
Asks ==
    \/ \E a \in Admins, k \in Keys, v \in Values : AskSetting(a, k, v)
    \/ \E a \in Admins, n \in Names : AskPreset(a, n)
    \/ \E a \in Admins, kind \in {"pause", "resume"} : AskSwitch(a, kind)

Drops(t) == (\E user \in Users : PressInVain(t, user)) \/ Cancel(t)

LEMMA NextSplit ==
    ASSUME [Next]_vars
    PROVE  \/ Asks
           \/ \E t \in Tokens :
                \/ Drops(t)
                \/ \E user \in Users : PressFirst(t, user) \/ PressFinal(t, user)
                \/ TakeActionLock(t) \/ LoadRows(t) \/ RefuseVersion(t)
                \/ CommitChange(t) \/ Answer(t)
           \/ \E u \in Undos : (\E a \in Admins : PickChange(u, a)) \/ LoadRow(u) \/ CommitUndo(u)
           \/ Restart \/ Tick \/ UNCHANGED vars
BY Zenon DEF Next, Work, Asks, Drops

\* What a message issues: one fresh token for an action, asked for once.
LEMMA AskEffect ==
    ASSUME TypeInv, Asks
    PROVE  \E t \in Tokens, a \in Admins, action \in Action :
             /\ Issue(t, a, action, None)
             /\ action.kind = "setting" =>
                  action.shown = rows[action.key].value /\ action.version = rows[action.key].version
             /\ UNCHANGED <<tables, job, loaded, undo, busy, clock, restarts>>
<1>1. ASSUME NEW a \in Admins, NEW k \in Keys, NEW v \in Values, AskSetting(a, k, v)
      PROVE  \E t \in Tokens, action \in Action :
               /\ Issue(t, a, action, None)
               /\ action.shown = rows[action.key].value /\ action.version = rows[action.key].version
               /\ UNCHANGED <<tables, job, loaded, undo, busy, clock, restarts>>
  <2> DEFINE action == [kind |-> "setting", key |-> k, value |-> v,
                        shown |-> rows[k].value, version |-> rows[k].version]
  <2>1. rows[k].value \in Int /\ rows[k].version \in Nat
    BY DEF TypeInv, Table
  <2>2. action \in Action
    BY <2>1, ActionsMade
  <2>3. action.shown = rows[action.key].value /\ action.version = rows[action.key].version
    OBVIOUS
  <2>4. /\ \E t \in Tokens : Issue(t, a, action, None)
        /\ UNCHANGED <<tables, job, loaded, undo, busy, clock, restarts>>
    BY <1>1 DEF AskSetting
  <2> QED BY <2>2, <2>3, <2>4, Zenon
<1>2. ASSUME NEW a \in Admins, NEW n \in Names, AskPreset(a, n)
      PROVE  \E t \in Tokens, action \in Action :
               /\ Issue(t, a, action, None)
               /\ action.kind # "setting"
               /\ UNCHANGED <<tables, job, loaded, undo, busy, clock, restarts>>
  <2> DEFINE action == [kind |-> "preset", name |-> n]
  <2>1. action \in Action /\ action.kind # "setting"
    BY ActionsMade
  <2> QED BY <1>2, <2>1, Zenon DEF AskPreset
<1>3. ASSUME NEW a \in Admins, NEW kind \in {"pause", "resume"}, AskSwitch(a, kind)
      PROVE  \E t \in Tokens, action \in Action :
               /\ Issue(t, a, action, None)
               /\ action.kind # "setting"
               /\ UNCHANGED <<tables, job, loaded, undo, busy, clock, restarts>>
  <2> DEFINE action == [kind |-> kind]
  <2>1. action \in Action /\ action.kind # "setting"
    BY ActionsMade
  <2> QED BY <1>3, <2>1, Zenon DEF AskSwitch
<1> QED BY <1>1, <1>2, <1>3, Zenon DEF Asks

\* A fresh token enters the open ones; the others stay as they are.
LEMMA NewToken ==
    ASSUME TypeInv, NEW t \in Tokens, NEW a \in Admins, NEW action \in Action,
           NEW first \in Tokens \cup {None}, token[t].issued = FALSE,
           token' = [token EXCEPT ![t] =
                       [issued |-> TRUE, admin |-> a, action |-> action,
                        first |-> first, expires |-> clock + Lifetime]]
    PROVE  /\ token' \in [Tokens -> TokenRecord \cup {NoToken}]
           /\ token'[t] \in TokenRecord
           /\ token'[t].admin = a /\ token'[t].action = action /\ token'[t].first = first
           /\ \A s \in Tokens \ {t} : token'[s] = token[s]
           /\ token[t] \notin TokenRecord
<1>1. clock + Lifetime \in Nat
  BY ConsoleAssumption DEF TypeInv
<1>2. [issued |-> TRUE, admin |-> a, action |-> action,
       first |-> first, expires |-> clock + Lifetime] \in TokenRecord
  BY <1>1 DEF TokenRecord
<1>3. token[t] \notin TokenRecord
  BY DEF TokenRecord
<1> QED BY <1>2, <1>3 DEF TypeInv

LEMMA TypeInit == Init => TypeInv
<1> SUFFICES ASSUME Init PROVE TypeInv
  OBVIOUS
<1>1. Empty \in Table
  BY DefaultTyped DEF Empty, Table
<1>2. log \in Seq(ChangeRecord) /\ DOMAIN log = {}
  BY DEF Init
<1>3. /\ token \in [Tokens -> TokenRecord \cup {NoToken}] /\ open = {}
      /\ job \in [Tokens -> JobState] /\ loaded \in [Tokens \cup Undos -> Table]
  BY <1>1 DEF Init, JobState
<1>4. /\ undo \in [Undos -> [pc : {"idle", "picked", "loaded", "done"}, change : Nat]]
      /\ \A u \in Undos : ~Undoing(u)
  BY DEF Init, NoUndo, Undoing
<1> QED BY <1>1, <1>2, <1>3, <1>4 DEF Init, TypeInv

\* Buttons and messages.
LEMMA TypeChat ==
    ASSUME TypeInv,
           \/ Asks
           \/ \E t \in Tokens : \/ Drops(t)
                                \/ \E user \in Users : PressFirst(t, user) \/ PressFinal(t, user)
    PROVE  TypeInv'
<1> DEFINE Rest == UNCHANGED <<tables, loaded, undo, busy, clock, restarts>>
<1>1. ASSUME Rest, open' \subseteq Tokens, job' \in [Tokens -> JobState],
             token' \in [Tokens -> TokenRecord \cup {NoToken}],
             \A t \in open' : token'[t] \in TokenRecord
      PROVE  TypeInv'
  BY <1>1 DEF TypeInv, tables, Undoing
<1>2. CASE Asks
  <2>1. PICK t \in Tokens, a \in Admins, action \in Action :
          Issue(t, a, action, None) /\ Rest /\ job' = job
    BY <1>2, AskEffect
  <2>2. /\ token' \in [Tokens -> TokenRecord \cup {NoToken}] /\ token'[t] \in TokenRecord
        /\ \A s \in Tokens \ {t} : token'[s] = token[s]
    <3>1. token[t].issued = FALSE
      BY <2>1 DEF Issue, TypeInv, TokenRecord, NoToken
    <3> QED BY <2>1, <3>1, NewToken DEF Issue
  <2>3. open' = open \cup {t}
    BY <2>1 DEF Issue
  <2> QED BY <1>1, <2>1, <2>2, <2>3 DEF TypeInv
<1>3. ASSUME NEW t \in Tokens, Drops(t) PROVE TypeInv'
  <2>1. Rest /\ open' = open \ {t} /\ UNCHANGED <<token, job>>
    BY <1>3 DEF Drops, PressInVain, Cancel, Pop, tables
  <2> QED BY <1>1, <2>1 DEF TypeInv
<1>4. ASSUME NEW t \in Tokens, NEW user \in Users, PressFirst(t, user) PROVE TypeInv'
  <2>1. token[t] \in TokenRecord
    BY <1>4 DEF PressFirst, TypeInv
  <2>2. PICK second \in Tokens :
          /\ ~token[second].issued /\ open' = (open \ {t}) \cup {second}
          /\ token' = [token EXCEPT ![second] =
                         [issued |-> TRUE, admin |-> user, action |-> token[t].action,
                          first |-> t, expires |-> clock + Lifetime]]
          /\ Rest /\ job' = job
    BY <1>4 DEF PressFirst, tables
  <2>3. user \in Admins /\ token[t].action \in Action
    BY <1>4, <2>1 DEF PressFirst, Mine, TokenRecord
  <2>4. /\ token' \in [Tokens -> TokenRecord \cup {NoToken}] /\ token'[second] \in TokenRecord
        /\ \A s \in Tokens \ {second} : token'[s] = token[s]
    <3>1. token[second].issued = FALSE
      BY <2>2 DEF TypeInv, TokenRecord, NoToken
    <3> QED BY <2>2, <2>3, <3>1, NewToken
  <2> QED BY <1>1, <2>2, <2>4 DEF TypeInv
<1>5. ASSUME NEW t \in Tokens, NEW user \in Users, PressFinal(t, user) PROVE TypeInv'
  <2>1. /\ Rest /\ open' = open \ {t} /\ token' = token
        /\ job' = [job EXCEPT ![t] = "waiting"]
    BY <1>5 DEF PressFinal, Pop, tables
  <2> QED BY <1>1, <2>1 DEF TypeInv, JobState
<1> QED BY <1>2, <1>3, <1>4, <1>5

\* Jobs.
LEMMA TypeJob ==
    ASSUME TypeInv, PressInv, NEW t \in Tokens,
           \/ TakeActionLock(t) \/ LoadRows(t) \/ RefuseVersion(t)
           \/ CommitChange(t) \/ Answer(t)
    PROVE  TypeInv'
<1>1. CASE TakeActionLock(t) \/ RefuseVersion(t)
  <2>1. /\ UNCHANGED <<chat, tables, loaded, undo, clock, restarts>>
        /\ busy' \in Tokens \cup {None} /\ job' \in [Tokens -> JobState]
    BY <1>1 DEF TakeActionLock, RefuseVersion, ReleaseLock, TypeInv, JobState
  <2> QED BY <2>1 DEF TypeInv, chat, tables, Undoing
<1>2. CASE LoadRows(t)
  <2>1. /\ UNCHANGED <<chat, tables, undo, busy, clock, restarts>>
        /\ loaded' \in [Tokens \cup Undos -> Table] /\ job' \in [Tokens -> JobState]
    BY <1>2 DEF LoadRows, TypeInv, JobState
  <2> QED BY <2>1 DEF TypeInv, chat, tables, Undoing
<1>3. CASE CommitChange(t)
  <2>1. /\ UNCHANGED <<chat, audited, loaded, undo, busy, clock, restarts>>
        /\ enabled' \in BOOLEAN /\ job' \in [Tokens -> JobState]
    BY <1>3 DEF CommitChange, SetServiceEnabled, TypeInv, JobState
  <2>2. rows' \in Table
    BY <1>3, CommitRows
  <2>3. /\ log' \in Seq(ChangeRecord)
        /\ Len(log) \in Nat /\ Len(log') \in Nat /\ Len(log) <= Len(log')
        /\ DOMAIN log = 1..Len(log) /\ DOMAIN log' = 1..Len(log')
        /\ \A i \in 1..Len(log) : log'[i] = log[i]
        /\ \A i \in (Len(log) + 1)..Len(log') :
             log'[i] = Change(t, log'[i].key,
                              NewValue(token[t].action, log'[i].key), Len(log) + 1)
    BY <1>3, CommitLog, Zenon
  <2>4. \A i \in (Len(log) + 1)..Len(log') : log'[i].at = Len(log) + 1
    <3>1. \A k, v, n : Change(t, k, v, n).at = n
      BY DEF Change
    <3> QED BY <2>3, <3>1
  <2>5. ASSUME NEW i \in DOMAIN log' PROVE log'[i].at \in 1..i
    <3>1. CASE i \in 1..Len(log)
      BY <2>3, <3>1 DEF TypeInv
    <3>2. CASE i \in (Len(log) + 1)..Len(log')
      BY <2>3, <2>4, <3>2
    <3> QED BY <2>3, <3>1, <3>2
  <2>6. DOMAIN log \subseteq DOMAIN log'
    BY <2>3
  <2>7. \A u \in Undos : Undoing(u)' => undo'[u].change \in DOMAIN log'
    BY <2>1, <2>6 DEF TypeInv, Undoing
  <2> QED BY <2>1, <2>2, <2>3, <2>5, <2>7 DEF TypeInv, chat
<1>4. CASE Answer(t)
  <2>1. /\ UNCHANGED <<chat, rows, log, enabled, loaded, undo, clock, restarts>>
        /\ audited' \subseteq Tokens /\ busy' = None /\ job' \in [Tokens -> JobState]
    BY <1>4 DEF Answer, Audit, ReleaseLock, TypeInv, JobState
  <2> QED BY <2>1 DEF TypeInv, chat, Undoing
<1> QED BY <1>1, <1>2, <1>3, <1>4

\* Undos, and what happens to the whole bot.
LEMMA TypeRest ==
    ASSUME TypeInv,
           \/ \E u \in Undos : (\E a \in Admins : PickChange(u, a)) \/ LoadRow(u) \/ CommitUndo(u)
           \/ Restart \/ Tick \/ UNCHANGED vars
    PROVE  TypeInv'
<1>1. ASSUME NEW u \in Undos, NEW a \in Admins, PickChange(u, a) PROVE TypeInv'
  <2>1. PICK i \in DOMAIN log : undo' = [undo EXCEPT ![u] = [pc |-> "picked", change |-> i]]
    BY <1>1 DEF PickChange, Newest, Candidates
  <2>2. i \in Nat
    BY LenProperties DEF TypeInv
  <2>3. /\ undo' \in [Undos -> [pc : {"idle", "picked", "loaded", "done"}, change : Nat]]
        /\ \A w \in Undos : undo'[w].pc \in {"picked", "loaded"} => undo'[w].change \in DOMAIN log
    BY <2>1, <2>2 DEF TypeInv, Undoing
  <2>4. UNCHANGED <<chat, tables, job, loaded, busy, clock, restarts>>
    BY <1>1 DEF PickChange
  <2> QED BY <2>3, <2>4 DEF TypeInv, chat, tables, Undoing
<1>2. ASSUME NEW u \in Undos, LoadRow(u) PROVE TypeInv'
  <2>1. /\ undo[u].pc = "picked" /\ undo' = [undo EXCEPT ![u].pc = "loaded"]
        /\ loaded' = [loaded EXCEPT ![u] = rows]
        /\ UNCHANGED <<chat, tables, job, busy, clock, restarts>>
    BY <1>2 DEF LoadRow
  <2>2. /\ undo' \in [Undos -> [pc : {"idle", "picked", "loaded", "done"}, change : Nat]]
        /\ \A w \in Undos : undo'[w].pc \in {"picked", "loaded"} => undo'[w].change \in DOMAIN log
    BY <2>1 DEF TypeInv, Undoing
  <2> QED BY <2>1, <2>2 DEF TypeInv, chat, tables, Undoing
<1>3. ASSUME NEW u \in Undos, CommitUndo(u) PROVE TypeInv'
  <2>1. /\ undo' = [undo EXCEPT ![u].pc = "done"]
        /\ UNCHANGED <<chat, enabled, audited, job, loaded, busy, clock, restarts>>
    BY <1>3 DEF CommitUndo
  <2>2. /\ rows' \in Table /\ log' \in Seq(ChangeRecord) /\ DOMAIN log' = DOMAIN log
        /\ \A i \in DOMAIN log : log'[i].at = log[i].at
    BY <1>3, UndoEffect
  <2>3. /\ undo' \in [Undos -> [pc : {"idle", "picked", "loaded", "done"}, change : Nat]]
        /\ \A w \in Undos : undo'[w].pc \in {"picked", "loaded"} => undo'[w].change \in DOMAIN log
    BY <2>1 DEF TypeInv, Undoing
  <2> QED BY <2>1, <2>2, <2>3 DEF TypeInv, chat, Undoing
<1>4. CASE Restart
  <2>1. /\ UNCHANGED <<tables, token, loaded, clock>>
        /\ open' = {} /\ busy' = None /\ restarts' \in Nat
        /\ job' \in [Tokens -> JobState]
    BY <1>4 DEF Restart, ReleaseLock, TypeInv, JobState
  <2>2. /\ undo' \in [Undos -> [pc : {"idle", "picked", "loaded", "done"}, change : Nat]]
        /\ \A w \in Undos : undo'[w].pc \notin {"picked", "loaded"}
    BY <1>4 DEF Restart, TypeInv, NoUndo
  <2> QED BY <2>1, <2>2 DEF TypeInv, tables, Undoing
<1>5. CASE Tick
  BY <1>5 DEF Tick, TypeInv, chat, tables, Undoing
<1>6. CASE UNCHANGED vars
  BY <1>6 DEF vars, TypeInv, chat, tables, Undoing
<1> QED BY <1>1, <1>2, <1>3, <1>4, <1>5, <1>6

LEMMA TypeStep == TypeInv /\ PressInv /\ [Next]_vars => TypeInv'
BY NextSplit, TypeChat, TypeJob, TypeRest

-----------------------------------------------------------------------------
(* Presses *)

LEMMA PressInit == Init => PressInv
<1> SUFFICES ASSUME Init PROVE PressInv
  OBVIOUS
<1>1. \A t \in Tokens : token[t] \notin TokenRecord /\ job[t] = "none"
  BY DEF Init, NoToken, TokenRecord
<1>2. DOMAIN log = {}
  BY DEF Init
<1> QED BY <1>1, <1>2 DEF PressInv, Seconds, Started, Issued, SingleUse

\* If a step keeps the issued tokens and opens none of them again, the first
\* presses stay what they were.
LEMMA SecondsKept ==
    ASSUME TypeInv, PressInv, NEW t \in Tokens, Issued(t), token'[t] = token[t],
           \A s \in Tokens : Issued(s) => token'[s] = token[s] /\ (s \in open' => s \in open)
    PROVE  Seconds(t)'
<1>1. Seconds(t)
  BY DEF PressInv
<1>2. CASE token[t].first = None
  BY <1>2 DEF Seconds
<1>3. CASE token[t].first # None
  <2>1. PICK first \in Tokens : first = token[t].first
    BY <1>3 DEF Issued, TokenRecord
  <2>2. /\ first # t /\ Issued(first) /\ first \notin open
        /\ token[first].admin = token[t].admin /\ token[first].action = token[t].action
    BY <1>1, <1>3, <2>1 DEF Seconds
  <2>3. token'[first] = token[first] /\ first \notin open'
    BY <2>2
  <2> QED BY <2>1, <2>2, <2>3 DEF Seconds, Issued
<1> QED BY <1>2, <1>3

\* A record stays the record of its job as long as that job does not start anew.
LEMMA RecordsKept ==
    ASSUME TypeInv, PressInv, UNCHANGED log,
           \A t \in Tokens : job[t] \in {"committed", "answered", "lost"} =>
                /\ token'[t] = token[t]
                /\ job'[t] \in {"committed", "answered", "lost"}
    PROVE  (\A i \in DOMAIN log : Recorded(i))' /\ SingleUse'
<1>1. \A i \in DOMAIN log : log[i].token \in Tokens
  BY LogEntries DEF ChangeRecord
<1>2. \A i \in DOMAIN log : Recorded(i) /\ token'[log[i].token] = token[log[i].token]
  BY <1>1 DEF PressInv, Recorded
<1>3. \A i \in DOMAIN log : Recorded(i)'
  BY <1>1, <1>2 DEF Recorded
<1> QED BY <1>3 DEF PressInv, SingleUse

LEMMA JobIsIssued ==
    ASSUME TypeInv, PressInv, NEW t \in Tokens, job[t] # "none"
    PROVE  Issued(t)
BY DEF PressInv, Started

LEMMA PressIssue ==
    ASSUME TypeInv, PressInv, NEW t \in Tokens, NEW a \in Admins, NEW action \in Action,
           NEW first \in Tokens \cup {None}, token[t].issued = FALSE,
           token' = [token EXCEPT ![t] =
                       [issued |-> TRUE, admin |-> a, action |-> action,
                        first |-> first, expires |-> clock + Lifetime]],
           \/ first = None /\ open' = open \cup {t}
           \/ /\ first \in open /\ token[first].admin = a /\ token[first].action = action
              /\ open' = (open \ {first}) \cup {t},
           UNCHANGED <<log, job>>
    PROVE  PressInv'
<1>1. /\ token'[t] \in TokenRecord /\ ~Issued(t)
      /\ token'[t].admin = a /\ token'[t].action = action /\ token'[t].first = first
      /\ \A s \in Tokens \ {t} : token'[s] = token[s]
  BY NewToken DEF Issued
<1>2. \A s \in Tokens : Issued(s) => token'[s] = token[s] /\ (s \in open' => s \in open)
  BY <1>1
<1>3. ASSUME NEW s \in Tokens PROVE Seconds(s)'
  <2>1. CASE Issued(s)
    BY <1>2, <2>1, SecondsKept
  <2>2. CASE s # t /\ ~Issued(s)
    BY <1>1, <2>2 DEF Seconds, Issued
  <2>3. CASE s = t /\ first = None
    BY <1>1, <2>3 DEF Seconds
  <2>4. CASE s = t /\ first # None
    <3>1. first \in open /\ token[first].admin = a /\ token[first].action = action
          /\ (first \notin open' \/ first = t)
      BY <2>4
    <3>2. token[first] \in TokenRecord /\ first \in Tokens
      BY <2>4, <3>1 DEF TypeInv
    <3>3. first # t
      BY <1>1, <3>2 DEF Issued
    <3>4. first \notin open' /\ token'[first] = token[first]
      BY <1>1, <2>4, <3>2, <3>3
    <3> QED BY <1>1, <2>4, <3>1, <3>2, <3>3, <3>4 DEF Seconds, Issued
  <2> QED BY <2>1, <2>2, <2>3, <2>4
<1>4. ASSUME NEW s \in Tokens PROVE Started(s)'
  BY <1>2 DEF PressInv, Started, Issued
<1>5. (\A i \in DOMAIN log : Recorded(i))' /\ SingleUse'
  BY <1>2, JobIsIssued, RecordsKept
<1> QED BY <1>3, <1>4, <1>5 DEF PressInv

LEMMA PressChat ==
    ASSUME TypeInv, PressInv,
           \/ Asks
           \/ \E t \in Tokens : \/ Drops(t)
                                \/ \E user \in Users : PressFirst(t, user) \/ PressFinal(t, user)
    PROVE  PressInv'
<1>1. CASE Asks
  <2>1. PICK t \in Tokens, a \in Admins, action \in Action :
          Issue(t, a, action, None) /\ UNCHANGED <<log, job>>
    BY <1>1, AskEffect DEF tables
  <2>2. token[t].issued = FALSE
    BY <2>1 DEF Issue, TypeInv, TokenRecord, NoToken
  <2> QED BY <2>1, <2>2, PressIssue DEF Issue
<1>2. ASSUME NEW t \in Tokens, Drops(t) PROVE PressInv'
  <2>1. open' = open \ {t} /\ UNCHANGED <<token, job, log>>
    BY <1>2 DEF Drops, PressInVain, Cancel, Pop, tables
  <2>2. \A s \in Tokens : Seconds(s)' /\ Started(s)'
    BY <2>1 DEF PressInv, Seconds, Started, Issued
  <2> QED BY <2>1, <2>2, RecordsKept DEF PressInv
<1>3. ASSUME NEW t \in Tokens, NEW user \in Users, PressFirst(t, user) PROVE PressInv'
  <2>1. token[t] \in TokenRecord /\ t \in open
    BY <1>3 DEF PressFirst, TypeInv
  <2>2. PICK second \in Tokens :
          /\ ~token[second].issued /\ open' = (open \ {t}) \cup {second}
          /\ token' = [token EXCEPT ![second] =
                         [issued |-> TRUE, admin |-> user, action |-> token[t].action,
                          first |-> t, expires |-> clock + Lifetime]]
          /\ UNCHANGED <<log, job>>
    BY <1>3 DEF PressFirst, tables
  <2>3. user \in Admins /\ token[t].admin = user /\ token[t].action \in Action
    BY <1>3, <2>1 DEF PressFirst, Mine, TokenRecord
  <2>4. token[second].issued = FALSE
    BY <2>2 DEF TypeInv, TokenRecord, NoToken
  <2> QED BY <2>1, <2>2, <2>3, <2>4, PressIssue
<1>4. ASSUME NEW t \in Tokens, NEW user \in Users, PressFinal(t, user) PROVE PressInv'
  <2>1. /\ t \in open /\ open' = open \ {t} /\ UNCHANGED <<token, log>>
        /\ job' = [job EXCEPT ![t] = "waiting"]
        /\ token[t].first # None \/ ~NeedsSecond(token[t].action)
    BY <1>4 DEF PressFinal, Pop, tables
  <2>2. job[t] = "none" /\ Issued(t)
    BY <2>1 DEF PressInv, Started, TypeInv, Issued
  <2>3. \A s \in Tokens : Seconds(s)'
    BY <2>1 DEF PressInv, Seconds, Issued
  <2>4. ASSUME NEW s \in Tokens PROVE Started(s)'
    <3>1. CASE s = t
      BY <2>1, <2>2, <3>1 DEF Started, Issued
    <3>2. CASE s # t
      <4>1. job'[s] = job[s] /\ (s \in open' => s \in open)
        BY <2>1, <3>2 DEF TypeInv
      <4> QED BY <2>1, <4>1 DEF PressInv, Started, Issued
    <3> QED BY <3>1, <3>2
  <2>5. \A s \in Tokens : job[s] \in {"committed", "answered", "lost"} => job'[s] = job[s]
    BY <2>1, <2>2 DEF TypeInv
  <2> QED BY <2>1, <2>3, <2>4, <2>5, RecordsKept DEF PressInv
<1> QED BY <1>1, <1>2, <1>3, <1>4

\* The job of t goes from one place to the next.
LEMMA PressMove ==
    ASSUME TypeInv, PressInv, NEW t \in Tokens, NEW place \in JobState \ {"none"},
           job[t] # "none", job' = [job EXCEPT ![t] = place], UNCHANGED chat
    PROVE  /\ \A s \in Tokens : Seconds(s)' /\ Started(s)'
           /\ \A s \in Tokens \ {t} : job'[s] = job[s]
           /\ job'[t] = place
<1>1. job'[t] = place /\ \A s \in Tokens \ {t} : job'[s] = job[s]
  BY DEF TypeInv
<1>2. \A s \in Tokens : Seconds(s)'
  BY DEF chat, PressInv, Seconds, Issued
<1>3. ASSUME NEW s \in Tokens PROVE Started(s)'
  <2>1. job'[s] # "none" => job[s] # "none"
    BY <1>1
  <2> QED BY <2>1 DEF chat, PressInv, Started, Issued
<1> QED BY <1>1, <1>2, <1>3

LEMMA PressCommit ==
    ASSUME TypeInv, PressInv, NEW t \in Tokens, CommitChange(t)
    PROVE  PressInv'
<1>1. job[t] = "loaded" /\ job' = [job EXCEPT ![t] = "committed"] /\ UNCHANGED chat
  BY DEF CommitChange
<1>2. /\ \A s \in Tokens : Seconds(s)' /\ Started(s)'
      /\ \A s \in Tokens \ {t} : job'[s] = job[s]
      /\ job'[t] = "committed"
  <2>1. "committed" \in JobState \ {"none"} /\ job[t] # "none"
    BY <1>1 DEF JobState
  <2> QED BY <1>1, <2>1, PressMove
<1>3. PICK n \in Nat : n = Len(log)
  BY LogEntries
<1>4. PICK action \in Action : action = token[t].action
  BY <1>1, LoadedJob
<1>5. /\ Len(log') \in Nat /\ n <= Len(log')
      /\ DOMAIN log = 1..n /\ DOMAIN log' = 1..Len(log')
      /\ \A i \in 1..n : log'[i] = log[i]
      /\ \A i \in (n + 1)..Len(log') :
           /\ log'[i].key \in KeysOf(action)
           /\ log'[i] = Change(t, log'[i].key, NewValue(action, log'[i].key), n + 1)
      /\ \A i, j \in (n + 1)..Len(log') : log'[i].key = log'[j].key => i = j
  BY <1>3, <1>4, CommitLog, Zenon
<1>6. token' = token
  BY <1>1 DEF chat
<1>7. ASSUME NEW i \in 1..n
      PROVE  Recorded(i)' /\ log'[i] = log[i] /\ log[i].token \in Tokens \ {t}
  <2>1. Recorded(i) /\ log[i].token \in Tokens
    BY <1>5, LogEntries DEF PressInv, ChangeRecord
  <2>2. log[i].token # t
    BY <1>1, <2>1 DEF Recorded
  <2>3. log'[i] = log[i]
    BY <1>5
  <2> QED BY <1>2, <1>6, <2>1, <2>2, <2>3 DEF Recorded
<1>8. ASSUME NEW i \in (n + 1)..Len(log') PROVE Recorded(i)' /\ log'[i].token = t
  <2>1. PICK k \in KeysOf(action) :
          /\ log'[i].key = k
          /\ log'[i] = Change(t, k, NewValue(action, k), n + 1)
    BY <1>5
  <2>2. log'[i].token = t /\ log'[i].by = token[t].admin /\ log'[i].new = NewValue(action, k)
    BY <2>1 DEF Change
  <2>3. action.kind = "setting" => NewValue(action, k) = action.value
    BY DEF NewValue
  <2> QED BY <1>2, <1>4, <1>6, <2>1, <2>2, <2>3 DEF Recorded
<1>9. DOMAIN log' = (1..n) \cup ((n + 1)..Len(log'))
  BY <1>5
<1>10. \A i \in DOMAIN log' : Recorded(i)'
  BY <1>7, <1>8, <1>9
<1>11. SingleUse'
  <2> SUFFICES ASSUME NEW i \in DOMAIN log', NEW j \in DOMAIN log',
                      log'[i].token = log'[j].token, log'[i].key = log'[j].key
               PROVE  i = j
    BY DEF SingleUse
  <2>1. CASE i \in 1..n /\ j \in 1..n
    BY <1>5, <1>7, <2>1 DEF PressInv, SingleUse
  <2>2. CASE i \in (n + 1)..Len(log') /\ j \in (n + 1)..Len(log')
    BY <1>5, <2>2
  <2>3. CASE i \in 1..n /\ j \in (n + 1)..Len(log')
    BY <1>7, <1>8, <2>3
  <2>4. CASE j \in 1..n /\ i \in (n + 1)..Len(log')
    BY <1>7, <1>8, <2>4
  <2> QED BY <1>9, <2>1, <2>2, <2>3, <2>4
<1> QED BY <1>2, <1>10, <1>11 DEF PressInv

LEMMA PressJob ==
    ASSUME TypeInv, PressInv, NEW t \in Tokens,
           \/ TakeActionLock(t) \/ LoadRows(t) \/ RefuseVersion(t)
           \/ CommitChange(t) \/ Answer(t)
    PROVE  PressInv'
<1>1. CASE ~CommitChange(t)
  <2>1. PICK place \in JobState \ {"none"} :
          /\ job[t] # "none" /\ job' = [job EXCEPT ![t] = place]
          /\ job[t] \in {"committed", "answered", "lost"} => place \in {"committed", "answered", "lost"}
          /\ UNCHANGED <<chat, log>>
    BY <1>1 DEF TakeActionLock, LoadRows, RefuseVersion, Answer, JobState, tables
  <2>2. /\ \A s \in Tokens : Seconds(s)' /\ Started(s)'
        /\ \A s \in Tokens \ {t} : job'[s] = job[s]
        /\ job'[t] = place
    BY <2>1, PressMove
  <2>3. \A s \in Tokens : job[s] \in {"committed", "answered", "lost"} =>
          token'[s] = token[s] /\ job'[s] \in {"committed", "answered", "lost"}
    BY <2>1, <2>2 DEF chat
  <2> QED BY <2>1, <2>2, <2>3, RecordsKept DEF PressInv
<1> QED BY <1>1, PressCommit

LEMMA PressRest ==
    ASSUME TypeInv, PressInv,
           \/ \E u \in Undos : (\E a \in Admins : PickChange(u, a)) \/ LoadRow(u) \/ CommitUndo(u)
           \/ Restart \/ Tick \/ UNCHANGED vars
    PROVE  PressInv'
<1>1. CASE UNCHANGED <<chat, log, job>>
  <2>1. \A s \in Tokens : Seconds(s)' /\ Started(s)'
    BY <1>1 DEF chat, PressInv, Seconds, Started, Issued
  <2> QED BY <1>1, <2>1, RecordsKept DEF PressInv, chat
<1>2. ASSUME NEW u \in Undos, CommitUndo(u) PROVE PressInv'
  <2>1. UNCHANGED <<chat, job>>
    BY <1>2 DEF CommitUndo
  <2>2. /\ DOMAIN log' = DOMAIN log
        /\ \A i \in DOMAIN log :
             /\ log'[i].key = log[i].key /\ log'[i].by = log[i].by
             /\ log'[i].token = log[i].token /\ log'[i].new = log[i].new
    BY <1>2, UndoEffect
  <2>3. \A s \in Tokens : Seconds(s)' /\ Started(s)'
    BY <2>1 DEF chat, PressInv, Seconds, Started, Issued
  <2>4. \A i \in DOMAIN log : Recorded(i)'
    BY <2>1, <2>2 DEF chat, PressInv, Recorded
  <2>5. SingleUse'
    BY <2>2 DEF PressInv, SingleUse
  <2> QED BY <2>2, <2>3, <2>4, <2>5 DEF PressInv
<1>3. CASE Restart
  <2>1. /\ open' = {} /\ UNCHANGED <<token, log>>
        /\ \A t \in Tokens : job'[t] = IF Working(t) THEN "lost" ELSE job[t]
    BY <1>3 DEF Restart, tables
  <2>2. \A t \in Tokens : Seconds(t)'
    BY <2>1 DEF PressInv, Seconds, Issued
  <2>3. \A t \in Tokens : job'[t] # "none" => job[t] # "none"
    BY <2>1 DEF Working
  <2>4. \A t \in Tokens : Started(t)'
    BY <2>1, <2>3 DEF PressInv, Started, Issued
  <2>5. \A t \in Tokens : job[t] \in {"committed", "answered", "lost"} =>
          token'[t] = token[t] /\ job'[t] \in {"committed", "answered", "lost"}
    BY <2>1
  <2> QED BY <2>1, <2>2, <2>4, <2>5, RecordsKept DEF PressInv
<1> QED BY <1>1, <1>2, <1>3 DEF PickChange, LoadRow, Tick, vars, tables

LEMMA PressAlways == Spec => [](TypeInv /\ PressInv)
<1>1. Init => TypeInv /\ PressInv
  BY TypeInit, PressInit
<1>2. (TypeInv /\ PressInv) /\ [Next]_vars => (TypeInv /\ PressInv)'
  BY NextSplit, TypeStep, PressChat, PressJob, PressRest
<1> QED BY <1>1, <1>2, PTL DEF Spec

\* Rows, records, tokens, jobs and undos keep their shape.
THEOREM TypeCorrect == Spec => []TypeOK
<1>1. TypeInv /\ PressInv => TypeOK
  <2> SUFFICES ASSUME TypeInv, PressInv PROVE TypeOK
    OBVIOUS
  <2>1. \A i \in DOMAIN log : log[i].key \in Keys /\ log[i].by \in Admins /\ log[i].at \in 1..i
    BY LogEntries DEF ChangeRecord
  <2>2. \A t \in open : token[t].issued /\ token[t].admin \in Admins /\ token[t].action \in Action
    BY DEF TypeInv, TokenRecord
  <2>3. open \subseteq {t \in Tokens : token[t].issued}
    BY <2>2 DEF TypeInv
  <2> QED BY <2>1, <2>2, <2>3 DEF TypeOK, TypeInv, Table, JobState
<1> QED BY <1>1, PressAlways, PTL

\* No red setting and no preset changes anything after one press: two tokens of
\* one admin for the same action are behind each change.
THEOREM RedTakesTwoPresses == Spec => []TwoPressesForRed
<1>1. TypeInv /\ PressInv => TwoPressesForRed
  <2> SUFFICES ASSUME TypeInv, PressInv, NEW i \in DOMAIN log,
                      NEW t \in Tokens, t = log[i].token,
                      token[t].action.kind = "preset" \/ Setting(log[i].key).risk = "red"
               PROVE  /\ token[t].first \in Tokens \ {t}
                      /\ token[token[t].first].admin = log[i].by /\ token[t].admin = log[i].by
                      /\ token[token[t].first].action = token[t].action
                      /\ {token[t].first, t} \cap open = {}
    BY LogEntries DEF TwoPressesForRed, ChangeRecord
  <2>1. /\ job[t] # "none" /\ log[i].by = token[t].admin
        /\ log[i].key \in KeysOf(token[t].action)
    BY DEF PressInv, Recorded
  <2>2. Issued(t) /\ t \notin open /\ (token[t].first # None \/ ~NeedsSecond(token[t].action))
    BY <2>1 DEF PressInv, Started
  <2>3. NeedsSecond(token[t].action)
    BY <2>1 DEF KeysOf, NeedsSecond
  <2>4. token[t].first \in Tokens
    BY <2>2, <2>3 DEF Issued, TokenRecord
  <2>5. Seconds(t) /\ token[t].first # None
    BY <2>2, <2>3 DEF PressInv
  <2> QED BY <2>1, <2>2, <2>4, <2>5 DEF Seconds
<1> QED BY <1>1, PressAlways, PTL

\* However often and by whomever its button is pressed, a token changes a
\* setting at most once.
THEOREM TokensAreSingleUse == Spec => []SingleUse
<1>1. PressInv => SingleUse
  BY DEF PressInv
<1> QED BY <1>1, PressAlways, PTL

-----------------------------------------------------------------------------
(* One job at a time *)

LEMMA LockStep ==
    ASSUME TypeInv, PressInv, LockInv, [Next]_vars
    PROVE  LockInv'
<1>0. None \notin Tokens
  BY ConsoleAssumption
<1>1. CASE UNCHANGED <<job, busy>>
  BY <1>1 DEF LockInv
<1>2. ASSUME NEW t \in Tokens, NEW user \in Users, PressFinal(t, user) PROVE LockInv'
  <2>1. job[t] = "none" /\ job' = [job EXCEPT ![t] = "waiting"] /\ busy' = busy
    BY <1>2 DEF PressFinal, PressInv, Started
  <2> QED BY <2>1 DEF TypeInv, LockInv, AtWork
<1>3. ASSUME NEW t \in Tokens, TakeActionLock(t) PROVE LockInv'
  BY <1>0, <1>3 DEF TakeActionLock, TypeInv, LockInv, AtWork
<1>4. ASSUME NEW t \in Tokens, LoadRows(t) \/ CommitChange(t) PROVE LockInv'
  <2>1. PICK place \in AtWork : job[t] \in AtWork /\ job' = [job EXCEPT ![t] = place] /\ busy' = busy
    BY <1>4 DEF LoadRows, CommitChange, AtWork
  <2> QED BY <2>1 DEF TypeInv, LockInv
<1>5. ASSUME NEW t \in Tokens, RefuseVersion(t) \/ Answer(t) PROVE LockInv'
  <2>1. PICK place \in JobState \ AtWork :
          job[t] \in AtWork /\ job' = [job EXCEPT ![t] = place] /\ busy' = None
    BY <1>5 DEF RefuseVersion, Answer, ReleaseLock, AtWork, JobState
  <2> QED BY <1>0, <2>1 DEF TypeInv, LockInv
<1>6. CASE Restart
  <2>1. /\ busy' = None
        /\ \A t \in Tokens : job'[t] = IF Working(t) THEN "lost" ELSE job[t]
    BY <1>6 DEF Restart, ReleaseLock
  <2> QED BY <1>0, <2>1 DEF LockInv, AtWork, Working
<1>7. CASE Asks
  BY <1>1, <1>7, AskEffect
<1>8. ASSUME NEW t \in Tokens, Drops(t) \/ \E user \in Users : PressFirst(t, user) PROVE LockInv'
  BY <1>1, <1>8 DEF Drops, PressInVain, Cancel, PressFirst
<1>9. ASSUME \/ \E u \in Undos : (\E a \in Admins : PickChange(u, a)) \/ LoadRow(u) \/ CommitUndo(u)
             \/ Tick \/ UNCHANGED vars
      PROVE  LockInv'
  BY <1>1, <1>9 DEF PickChange, LoadRow, CommitUndo, Tick, vars
<1> QED BY <1>2, <1>3, <1>4, <1>5, <1>6, <1>7, <1>8, <1>9, NextSplit

\* The lock is held by the job at work and by no other, with and without undos
\* in between.
THEOREM OneJobAtATime == Spec => []JobsTakeTurns
<1>1. Init => LockInv
  BY ConsoleAssumption DEF Init, LockInv, AtWork
<1>2. TypeInv /\ PressInv /\ LockInv /\ [Next]_vars => LockInv'
  BY LockStep
<1>3. LockInv => JobsTakeTurns
  BY DEF LockInv, JobsTakeTurns, AtWork
<1> QED BY <1>1, <1>2, <1>3, PressAlways, PTL DEF Spec

\* A step in the chat keeps the issued tokens; a fresh one is about what its
\* admin sees now, or about the same as the token it follows.
LEMMA ChatKeeps ==
    ASSUME TypeInv, PressInv,
           \/ Asks
           \/ \E t \in Tokens : \/ Drops(t)
                                \/ \E user \in Users : PressFirst(t, user) \/ PressFinal(t, user)
    PROVE  /\ UNCHANGED <<rows, log, loaded, undo>>
           /\ \A s \in Tokens : Issued(s) => token'[s] = token[s]
           /\ \A s \in Tokens : Issued(s)' =>
                \/ \E r \in Tokens : Issued(r) /\ token'[s].action = token[r].action
                \/ LET action == token'[s].action
                   IN  action.kind = "setting" =>
                         action.shown = rows[action.key].value
                           /\ action.version = rows[action.key].version
<1>1. CASE Asks
  <2>1. PICK t \in Tokens, a \in Admins, action \in Action :
          /\ Issue(t, a, action, None)
          /\ action.kind = "setting" =>
               action.shown = rows[action.key].value /\ action.version = rows[action.key].version
          /\ UNCHANGED <<rows, log, loaded, undo>>
    BY <1>1, AskEffect DEF tables
  <2>2. token[t].issued = FALSE
    BY <2>1 DEF Issue, TypeInv, TokenRecord, NoToken
  <2>3. /\ token'[t].action = action /\ ~Issued(t)
        /\ \A s \in Tokens \ {t} : token'[s] = token[s]
    BY <2>1, <2>2, NewToken DEF Issue, Issued
  <2>4. ASSUME NEW s \in Tokens \ {t}, Issued(s)'
        PROVE  Issued(s) /\ token'[s].action = token[s].action
    BY <2>3, <2>4 DEF Issued
  <2> QED BY <2>1, <2>3, <2>4
<1>2. ASSUME NEW t \in Tokens, Drops(t) \/ \E user \in Users : PressFinal(t, user)
      PROVE  UNCHANGED <<rows, log, loaded, undo, token>>
  BY <1>2 DEF Drops, PressInVain, Cancel, PressFinal, tables
<1>3. ASSUME NEW t \in Tokens, NEW user \in Users, PressFirst(t, user)
      PROVE  /\ UNCHANGED <<rows, log, loaded, undo>>
             /\ \A s \in Tokens : Issued(s) => token'[s] = token[s]
             /\ \A s \in Tokens : Issued(s)' =>
                  \E r \in Tokens : Issued(r) /\ token'[s].action = token[r].action
  <2>1. Issued(t) /\ UNCHANGED <<rows, log, loaded, undo>>
    BY <1>3 DEF PressFirst, TypeInv, Issued, tables
  <2>2. PICK second \in Tokens :
          /\ ~token[second].issued
          /\ token' = [token EXCEPT ![second] =
                         [issued |-> TRUE, admin |-> user, action |-> token[t].action,
                          first |-> t, expires |-> clock + Lifetime]]
    BY <1>3 DEF PressFirst
  <2>3. user \in Admins /\ token[t].action \in Action
    BY <1>3, <2>1 DEF PressFirst, Mine, Issued, TokenRecord
  <2>4. token[second].issued = FALSE
    BY <2>2 DEF TypeInv, TokenRecord, NoToken
  <2>5. /\ token'[second].action = token[t].action /\ ~Issued(second)
        /\ \A s \in Tokens \ {second} : token'[s] = token[s]
    BY <2>2, <2>3, <2>4, NewToken DEF Issued
  <2>6. ASSUME NEW s \in Tokens \ {second}, Issued(s)'
        PROVE  Issued(s) /\ token'[s].action = token[s].action
    BY <2>5, <2>6 DEF Issued
  <2> QED BY <2>1, <2>5, <2>6
<1>4. ASSUME UNCHANGED token, NEW s \in Tokens, Issued(s)'
      PROVE  Issued(s) /\ token'[s].action = token[s].action
  BY <1>4 DEF Issued
<1> QED BY <1>1, <1>2, <1>3, <1>4

LEMMA AloneStep ==
    ASSUME ~Overlap, TypeInv, PressInv, LockInv, Alone, [Next]_vars
    PROVE  Alone'
<1> DEFINE NoUndoing == \A u \in Undos : ~Undoing(u)
           NoWork == \A t \in Tokens : ~Working(t)
\* Nobody is at an undo before or after, and no job comes to have loaded rows.
<1>1. ASSUME \A u \in Undos : ~Undoing(u)',
             \A t \in Tokens : job'[t] = "loaded" => loaded'[t] = rows' /\ VersionAsShown(t)'
      PROVE  Alone'
  BY <1>1 DEF Alone, Undoing
<1>2. ASSUME UNCHANGED <<rows, log, loaded, undo>>,
             \A t \in Tokens : job'[t] = "loaded" => job[t] = "loaded",
             \A t \in Tokens : Issued(t) => token'[t] = token[t],
             NoUndoing \/ \A t \in Tokens : Working(t)' => Working(t)
      PROVE  Alone'
  <2>1. \A t \in Tokens : job'[t] = "loaded" => loaded'[t] = rows' /\ VersionAsShown(t)'
    BY <1>2, JobIsIssued DEF Alone, VersionAsShown
  <2>2. \A u \in Undos : Undoing(u)' <=> Undoing(u)
    BY <1>2 DEF Undoing
  <2>3. CASE NoUndoing
    BY <1>1, <2>1, <2>2, <2>3
  <2>4. CASE \A t \in Tokens : Working(t)' => Working(t)
    BY <1>2, <2>1, <2>2, <2>4 DEF Alone, NewerExists
  <2> QED BY <1>2, <2>3, <2>4
<1>3. CASE Asks \/ \E t \in Tokens : Drops(t) \/ \E user \in Users : PressFirst(t, user)
  <2>1. job' = job
    BY <1>3, AskEffect DEF Drops, PressInVain, Cancel, PressFirst
  <2>2. UNCHANGED <<rows, log, loaded, undo>> /\ \A s \in Tokens : Issued(s) => token'[s] = token[s]
    BY <1>3, ChatKeeps
  <2>3. \A t \in Tokens : Working(t)' => Working(t)
    BY <2>1 DEF Working
  <2> QED BY <1>2, <2>1, <2>2, <2>3
<1>4. ASSUME NEW t \in Tokens, NEW user \in Users, PressFinal(t, user) PROVE Alone'
  <2>1. NoUndoing
    BY <1>4 DEF PressFinal, Quiet, Undoing
  <2>2. UNCHANGED <<rows, log, loaded, undo, token>> /\ job' = [job EXCEPT ![t] = "waiting"]
    BY <1>4 DEF PressFinal, tables
  <2>3. \A s \in Tokens : job'[s] = "loaded" => job[s] = "loaded"
    BY <2>2 DEF TypeInv
  <2> QED BY <1>2, <2>1, <2>2, <2>3
<1>5. ASSUME NEW t \in Tokens, TakeActionLock(t) \/ RefuseVersion(t) \/ Answer(t) PROVE Alone'
  <2>1. PICK place \in JobState \ {"loaded"} :
          Working(t) /\ job' = [job EXCEPT ![t] = place] /\ UNCHANGED <<rows, log, loaded, undo, token>>
    BY <1>5 DEF TakeActionLock, RefuseVersion, Answer, Working, JobState, chat, tables
  <2>2. \A s \in Tokens : /\ job'[s] = "loaded" => job[s] = "loaded"
                          /\ Working(s)' => Working(s)
    BY <2>1 DEF TypeInv, Working
  <2> QED BY <1>2, <2>1, <2>2
<1>6. ASSUME NEW t \in Tokens, LoadRows(t) PROVE Alone'
  <2>1. /\ Working(t) /\ VersionAsShown(t)
        /\ loaded' = [loaded EXCEPT ![t] = rows] /\ job' = [job EXCEPT ![t] = "loaded"]
        /\ UNCHANGED <<rows, log, undo, token>>
    BY <1>6 DEF LoadRows, Working, chat, tables
  <2>2. \A u \in Undos : ~Undoing(u)'
    BY <2>1 DEF Alone, Undoing
  <2>3. ASSUME NEW s \in Tokens, job'[s] = "loaded"
        PROVE  loaded'[s] = rows' /\ VersionAsShown(s)'
    BY <2>1, <2>3 DEF TypeInv, Alone, VersionAsShown
  <2> QED BY <1>1, <2>2, <2>3
<1>7. ASSUME NEW t \in Tokens, CommitChange(t) PROVE Alone'
  <2>1. /\ Working(t) /\ job[t] = "loaded" /\ undo' = undo
        /\ job' = [job EXCEPT ![t] = "committed"]
    BY <1>7 DEF CommitChange, Working
  <2>2. \A u \in Undos : ~Undoing(u)'
    BY <2>1 DEF Alone, Undoing
  <2>3. \A s \in Tokens : job'[s] # "loaded"
    BY <2>1 DEF TypeInv, LockInv, AtWork
  <2> QED BY <1>1, <2>2, <2>3
<1>8. ASSUME NEW u \in Undos, NEW a \in Admins, PickChange(u, a) PROVE Alone'
  <2>1. PICK i \in DOMAIN log :
          /\ log[i].status = "applied" /\ ~NewerExists(i)
          /\ undo' = [undo EXCEPT ![u] = [pc |-> "picked", change |-> i]]
          /\ NoWork /\ NoUndoing
          /\ UNCHANGED <<rows, log, job, loaded>>
    BY <1>8 DEF PickChange, Newest, Candidates, Undoing, tables
  <2>2. /\ undo'[u].pc = "picked" /\ undo'[u].change = i
        /\ \A w \in Undos \ {u} : undo'[w] = undo[w]
    BY <2>1 DEF TypeInv
  <2>3. \A t \in Tokens : ~Working(t)' /\ job'[t] # "loaded"
    BY <2>1 DEF Working
  <2>4. \A w \in Undos : /\ Undoing(w)' => w = u
                         /\ undo'[w].pc # "loaded"
    BY <2>1, <2>2 DEF Undoing
  <2>5. ~NewerExists(i)'
    BY <2>1 DEF NewerExists
  <2>6. i \in DOMAIN log' /\ log'[i].status = "applied"
    BY <2>1
  <2> QED BY <2>2, <2>3, <2>4, <2>5, <2>6 DEF Alone, NewerExists
<1>9. ASSUME NEW u \in Undos, LoadRow(u) PROVE Alone'
  <2>1. /\ undo[u].pc = "picked" /\ undo' = [undo EXCEPT ![u].pc = "loaded"]
        /\ loaded' = [loaded EXCEPT ![u] = rows]
        /\ UNCHANGED <<rows, log, job>>
    BY <1>9 DEF LoadRow, tables
  <2>2. /\ undo'[u].pc = "loaded" /\ undo'[u].change = undo[u].change /\ loaded'[u] = rows
        /\ \A w \in Undos \ {u} : undo'[w] = undo[w]
    BY <2>1 DEF TypeInv
  <2>3. Undoing(u) /\ NoWork /\ \A w \in Undos \ {u} : ~Undoing(w)
    BY <2>1 DEF Alone, Undoing
  <2>4. \A t \in Tokens : ~Working(t)' /\ job'[t] # "loaded"
    BY <2>1, <2>3 DEF Working
  <2>5. \A w \in Undos : Undoing(w)' => w = u
    BY <2>2, <2>3 DEF Undoing
  <2>6. /\ undo[u].change \in DOMAIN log /\ log[undo[u].change].status = "applied"
        /\ ~NewerExists(undo[u].change)
    BY <2>3 DEF Alone
  <2> QED BY <2>1, <2>2, <2>4, <2>5, <2>6 DEF Alone, NewerExists, Undoing
<1>10. ASSUME NEW u \in Undos, CommitUndo(u) PROVE Alone'
  <2>1. Undoing(u) /\ undo' = [undo EXCEPT ![u].pc = "done"] /\ job' = job
    BY <1>10 DEF CommitUndo, Undoing
  <2>2. NoWork /\ \A w \in Undos \ {u} : ~Undoing(w)
    BY <2>1 DEF Alone
  <2>3. \A w \in Undos : ~Undoing(w)'
    BY <2>1, <2>2 DEF TypeInv, Undoing
  <2>4. \A t \in Tokens : job'[t] # "loaded"
    BY <2>1, <2>2 DEF Working
  <2> QED BY <1>1, <2>3, <2>4
<1>11. CASE Restart
  <2>1. \A t \in Tokens : job'[t] # "loaded"
    BY <1>11 DEF Restart, Working
  <2>2. \A u \in Undos : ~Undoing(u)'
    BY <1>11 DEF Restart, Undoing, NoUndo, TypeInv
  <2> QED BY <1>1, <2>1, <2>2
<1>12. CASE Tick \/ UNCHANGED vars
  <2>1. UNCHANGED <<rows, log, loaded, undo, job, token>>
    BY <1>12 DEF Tick, vars, chat, tables
  <2>2. \A t \in Tokens : Working(t)' => Working(t)
    BY <2>1 DEF Working
  <2> QED BY <1>2, <2>1, <2>2
<1> QED BY <1>3, <1>4, <1>5, <1>6, <1>7, <1>8, <1>9, <1>10, <1>11, <1>12, NextSplit

-----------------------------------------------------------------------------
(* The book: rows, versions and change records agree *)

\* What leaves rows and records alone leaves the book alone.
LEMMA BookQuiet ==
    ASSUME TypeInv, PressInv, BookInv, UNCHANGED <<rows, log>>,
           \A s \in Tokens : Issued(s) => token'[s] = token[s],
           \A s \in Tokens : Issued(s)' =>
             \/ \E r \in Tokens : Issued(r) /\ token'[s].action = token[r].action
             \/ LET action == token'[s].action
                IN  action.kind = "setting" =>
                      action.shown = rows[action.key].value
                        /\ action.version = rows[action.key].version
    PROVE  BookInv'
<1>1. InOrder' /\ LogTellsValue' /\ EveryChangeHasItsVersion'
  BY DEF BookInv, InOrder, LogTellsValue, EveryChangeHasItsVersion, ChangesOf, RolledBack
<1>2. ShownStands'
  <2> SUFFICES ASSUME NEW s \in Tokens, Issued(s)', token'[s].action.kind = "setting"
               PROVE  /\ token'[s].action.version <= rows[token'[s].action.key].version
                      /\ token'[s].action.version = rows[token'[s].action.key].version
                           => rows[token'[s].action.key].value = token'[s].action.shown
    BY DEF ShownStands
  <2>1. CASE \E r \in Tokens : Issued(r) /\ token'[s].action = token[r].action
    BY <2>1 DEF BookInv, ShownStands
  <2>2. CASE /\ token'[s].action.shown = rows[token'[s].action.key].value
             /\ token'[s].action.version = rows[token'[s].action.key].version
    <3>1. token'[s].action \in SettingAction
      BY ActionShape DEF Issued, TokenRecord
    <3>2. rows[token'[s].action.key].version \in Nat
      BY <3>1 DEF TypeInv, Table, SettingAction
    <3> QED BY <2>2, <3>2
  <2> QED BY <2>1, <2>2
<1>3. AppliedAsShown'
  <2>1. \A i \in DOMAIN log : log[i].token \in Tokens /\ Issued(log[i].token)
    BY LogEntries, LoadedJob DEF ChangeRecord, PressInv, Recorded, Issued
  <2> QED BY <2>1 DEF BookInv, AppliedAsShown
<1> QED BY <1>1, <1>2, <1>3 DEF BookInv

\* With the rows still as loaded, a commit sets each value, takes the next
\* version and writes down the value it replaces.
LEMMA CommitAlone ==
    ASSUME TypeInv, PressInv, Alone, NEW t \in Tokens, CommitChange(t)
    PROVE  /\ \A k \in KeysOf(token[t].action) :
                /\ rows'[k].value = NewValue(token[t].action, k)
                /\ rows'[k].version = rows[k].version + 1
           /\ \A k \in Keys \ KeysOf(token[t].action) : rows'[k] = rows[k]
           /\ \A i \in (Len(log) + 1)..Len(log') :
                /\ log'[i].key \in KeysOf(token[t].action)
                /\ log'[i].old = rows[log'[i].key].value
                /\ log'[i].new = NewValue(token[t].action, log'[i].key)
                /\ log'[i].token = t /\ log'[i].status = "applied" /\ log'[i].at = Len(log) + 1
<1>1. loaded[t] = rows
  BY DEF CommitChange, Alone
<1>2. ASSUME NEW k \in KeysOf(token[t].action)
      PROVE  /\ rows'[k].value = NewValue(token[t].action, k)
             /\ rows'[k].version = rows[k].version + 1
  <2>1. k \in Keys /\ rows'[k] = Upsert(t, k, NewValue(token[t].action, k))
    BY CommitRows
  <2> QED BY <1>1, <2>1 DEF Upsert, Written
<1>3. \A k \in Keys \ KeysOf(token[t].action) : rows'[k] = rows[k]
  BY CommitRows
<1>4. \A k, v, at : /\ Change(t, k, v, at).old = rows[k].value /\ Change(t, k, v, at).new = v
                    /\ Change(t, k, v, at).token = t /\ Change(t, k, v, at).at = at
                    /\ Change(t, k, v, at).status = "applied"
  BY <1>1 DEF Change
<1>5. ASSUME NEW i \in (Len(log) + 1)..Len(log')
      PROVE  /\ log'[i].key \in KeysOf(token[t].action)
             /\ log'[i].old = rows[log'[i].key].value
             /\ log'[i].new = NewValue(token[t].action, log'[i].key)
             /\ log'[i].token = t /\ log'[i].status = "applied" /\ log'[i].at = Len(log) + 1
  <2>1. PICK k : k = log'[i].key
    OBVIOUS
  <2>2. k \in KeysOf(token[t].action)
        /\ log'[i] = Change(t, k, NewValue(token[t].action, k), Len(log) + 1)
    BY <2>1, CommitLog
  <2> QED BY <1>4, <2>1, <2>2
<1> QED BY <1>2, <1>3, <1>5

LEMMA ChangesAreFinite ==
    ASSUME TypeInv, NEW k
    PROVE  /\ IsFiniteSet(ChangesOf(k)) /\ Cardinality(ChangesOf(k)) \in Nat
           /\ IsFiniteSet({i \in ChangesOf(k) : RolledBack(i)})
           /\ Cardinality({i \in ChangesOf(k) : RolledBack(i)}) \in Nat
<1>1. IsFiniteSet(DOMAIN log)
  <2>1. Len(log) \in Int /\ DOMAIN log = 1..Len(log)
    BY LogEntries
  <2>2. IsFiniteSet(1..Len(log))
    BY <2>1, FS_Interval
  <2> QED BY <2>1, <2>2
<1>2. ChangesOf(k) \in SUBSET DOMAIN log
      /\ {i \in ChangesOf(k) : RolledBack(i)} \in SUBSET DOMAIN log
  BY DEF ChangesOf
<1>3. IsFiniteSet(ChangesOf(k)) /\ IsFiniteSet({i \in ChangesOf(k) : RolledBack(i)})
  BY <1>1, <1>2, FS_Subset
<1> QED BY <1>3, FS_CardinalityType

LEMMA CommitBook ==
    ASSUME TypeInv, PressInv, Alone, BookInv, NEW t \in Tokens, CommitChange(t)
    PROVE  BookInv'
<1> DEFINE keys == KeysOf(token[t].action)
           n == Len(log)
<1>1. /\ n \in Nat /\ Len(log') \in Nat /\ n <= Len(log')
      /\ DOMAIN log = 1..n /\ DOMAIN log' = 1..Len(log')
      /\ \A i \in 1..n : log'[i] = log[i]
      /\ \A i, j \in (n + 1)..Len(log') : log'[i].key = log'[j].key => i = j
      /\ \A k \in keys : \E i \in (n + 1)..Len(log') : log'[i].key = k
  BY CommitLog
<1>2. /\ \A k \in keys : /\ rows'[k].value = NewValue(token[t].action, k)
                         /\ rows'[k].version = rows[k].version + 1
      /\ \A k \in Keys \ keys : rows'[k] = rows[k]
  BY CommitAlone
<1>3. \A i \in (n + 1)..Len(log') :
        /\ log'[i].key \in keys
        /\ log'[i].old = rows[log'[i].key].value
        /\ log'[i].new = NewValue(token[t].action, log'[i].key)
        /\ log'[i].token = t /\ log'[i].status = "applied" /\ log'[i].at = n + 1
  BY CommitAlone
<1>4. keys \subseteq Keys /\ token' = token
  BY CommitRows DEF CommitChange, chat
<1>5. \A i \in 1..n : log[i].at \in Nat /\ log[i].at <= n
  BY <1>1, LogEntries
<1>6. Issued(t) /\ token[t].action \in Action
  BY LoadedJob DEF CommitChange, Issued
<1>7. \A k \in Keys : rows[k].version \in Nat
  BY DEF TypeInv, Table
<1>8. token[t].action.kind = "setting" => VersionAsShown(t)
  BY DEF Alone, CommitChange
<1>9. \A i \in 1..Len(log') : i \in 1..n \/ i \in (n + 1)..Len(log')
  BY <1>1
<1> HIDE DEF keys, n
<1>10. InOrder'
  <2> SUFFICES ASSUME NEW i \in 1..Len(log'), NEW j \in 1..Len(log'),
                      log'[i].key = log'[j].key, log'[i].at = log'[j].at
               PROVE  i = j
    BY <1>1 DEF InOrder
  <2>1. CASE i \in 1..n /\ j \in 1..n
    BY <1>1, <2>1 DEF BookInv, InOrder
  <2>2. CASE i \in (n + 1)..Len(log') /\ j \in (n + 1)..Len(log')
    BY <1>1, <2>2
  <2>3. CASE i \in 1..n /\ j \in (n + 1)..Len(log')
    BY <1>1, <1>3, <1>5, <2>3
  <2>4. CASE i \in (n + 1)..Len(log') /\ j \in 1..n
    BY <1>1, <1>3, <1>5, <2>4
  <2> QED BY <1>9, <2>1, <2>2, <2>3, <2>4
<1>11. ASSUME NEW k \in Keys \ keys
       PROVE  /\ ChangesOf(k)' = ChangesOf(k)
              /\ \A i \in ChangesOf(k) : i \in 1..n /\ log'[i] = log[i]
  <2>1. \A i \in 1..Len(log') : log'[i].key = k => i \in 1..n
    BY <1>3, <1>9
  <2> QED BY <1>1, <2>1 DEF ChangesOf
<1>12. ASSUME NEW k \in keys
       PROVE  \E i \in (n + 1)..Len(log') :
                /\ log'[i].key = k /\ i \notin ChangesOf(k)
                /\ ChangesOf(k)' = ChangesOf(k) \cup {i}
                /\ \A j \in ChangesOf(k) : j \in 1..n /\ log'[j] = log[j]
  <2>1. PICK i \in (n + 1)..Len(log') : log'[i].key = k
    BY <1>1
  <2>2. \A j \in (n + 1)..Len(log') : log'[j].key = k => j = i
    BY <1>1, <2>1
  <2>3. ChangesOf(k)' = {j \in 1..Len(log') : log'[j].key = k}
        /\ ChangesOf(k) = {j \in 1..n : log[j].key = k}
    BY <1>1 DEF ChangesOf
  <2>4. ChangesOf(k)' = ChangesOf(k) \cup {i}
    BY <1>1, <1>9, <2>1, <2>2, <2>3
  <2> QED BY <1>1, <2>1, <2>3, <2>4
<1>13. LogTellsValue'
  <2>1. ASSUME NEW k \in Keys \ keys
        PROVE  LET newest == {i \in ChangesOf(k)' : \A j \in ChangesOf(k)' : log'[j].at <= log'[i].at}
               IN  /\ newest = {} => rows'[k].value = Setting(k).default
                   /\ \A i \in newest :
                        rows'[k].value = IF log'[i].status = "rolled_back" THEN log'[i].old ELSE log'[i].new
    BY <1>2, <1>11 DEF BookInv, LogTellsValue, RolledBack
  <2>2. ASSUME NEW k \in keys
        PROVE  LET newest == {i \in ChangesOf(k)' : \A j \in ChangesOf(k)' : log'[j].at <= log'[i].at}
               IN  /\ newest = {} => rows'[k].value = Setting(k).default
                   /\ \A i \in newest :
                        rows'[k].value = IF log'[i].status = "rolled_back" THEN log'[i].old ELSE log'[i].new
    <3>1. PICK i \in (n + 1)..Len(log') :
            /\ log'[i].key = k
            /\ ChangesOf(k)' = ChangesOf(k) \cup {i}
            /\ \A j \in ChangesOf(k) : j \in 1..n /\ log'[j] = log[j]
      BY <1>12
    <3>2. log'[i].at = n + 1 /\ rows'[k].value = log'[i].new /\ log'[i].status = "applied"
      BY <1>2, <1>3, <3>1
    <3>3. \A j \in ChangesOf(k) : log'[j].at \in Nat /\ log'[j].at <= n
      BY <1>5, <3>1
    <3>4. {j \in ChangesOf(k)' : \A m \in ChangesOf(k)' : log'[m].at <= log'[j].at} = {i}
      BY <1>1, <3>1, <3>2, <3>3
    <3> QED BY <3>2, <3>4
  <2> QED BY <2>1, <2>2 DEF LogTellsValue, RolledBack
<1>14. EveryChangeHasItsVersion'
  <2>1. ASSUME NEW k \in Keys \ keys
        PROVE  rows'[k].version = Cardinality(ChangesOf(k)')
                 + Cardinality({i \in ChangesOf(k)' : log'[i].status = "rolled_back"})
    <3>1. {i \in ChangesOf(k)' : log'[i].status = "rolled_back"} = {i \in ChangesOf(k) : RolledBack(i)}
      BY <1>11 DEF RolledBack
    <3>2. rows[k].version = Cardinality(ChangesOf(k)) + Cardinality({i \in ChangesOf(k) : RolledBack(i)})
      BY DEF BookInv, EveryChangeHasItsVersion
    <3>3. rows'[k] = rows[k] /\ ChangesOf(k)' = ChangesOf(k)
      BY <1>2, <1>11
    <3>4. rows'[k].version = rows[k].version
      BY <3>3
    <3> QED BY <3>1, <3>2, <3>3, <3>4, Zenon
  <2>2. ASSUME NEW k \in keys
        PROVE  rows'[k].version = Cardinality(ChangesOf(k)')
                 + Cardinality({i \in ChangesOf(k)' : log'[i].status = "rolled_back"})
    <3>1. PICK i \in (n + 1)..Len(log') :
            /\ log'[i].key = k /\ i \notin ChangesOf(k)
            /\ ChangesOf(k)' = ChangesOf(k) \cup {i}
            /\ \A j \in ChangesOf(k) : j \in 1..n /\ log'[j] = log[j]
      BY <1>12
    <3>2. log'[i].status = "applied" /\ rows'[k].version = rows[k].version + 1
      BY <1>2, <1>3, <3>1
    <3>3. PICK rolled : rolled = {j \in ChangesOf(k) : RolledBack(j)}
      OBVIOUS
    <3>4. {j \in ChangesOf(k)' : log'[j].status = "rolled_back"} = rolled
      BY <3>1, <3>2, <3>3 DEF RolledBack
    <3>5. /\ IsFiniteSet(ChangesOf(k)) /\ Cardinality(ChangesOf(k)) \in Nat
          /\ Cardinality(rolled) \in Nat
      BY <3>3, ChangesAreFinite
    <3>6. Cardinality(ChangesOf(k)') = Cardinality(ChangesOf(k)) + 1
      BY <3>1, <3>5, FS_AddElement
    <3>7. rows[k].version = Cardinality(ChangesOf(k)) + Cardinality(rolled)
      BY <1>4, <3>3 DEF BookInv, EveryChangeHasItsVersion
    <3>8. rows'[k].version = Cardinality(ChangesOf(k)') + Cardinality(rolled)
      BY <3>2, <3>5, <3>6, <3>7
    <3> QED BY <3>4, <3>8, Zenon
  <2> QED BY <2>1, <2>2 DEF EveryChangeHasItsVersion, RolledBack
<1>15. ShownStands'
  <2> SUFFICES ASSUME NEW s \in Tokens, Issued(s), token[s].action.kind = "setting"
               PROVE  /\ token[s].action.version <= rows'[token[s].action.key].version
                      /\ token[s].action.version = rows'[token[s].action.key].version
                           => rows'[token[s].action.key].value = token[s].action.shown
    BY <1>4 DEF ShownStands, Issued
  <2>1. PICK k : k = token[s].action.key
    OBVIOUS
  <2>2. k \in Keys /\ token[s].action.version \in Nat
    BY <2>1, ActionShape DEF Issued, TokenRecord, SettingAction
  <2>3. /\ token[s].action.version <= rows[k].version
        /\ token[s].action.version = rows[k].version => rows[k].value = token[s].action.shown
    BY <2>1 DEF BookInv, ShownStands
  <2>4. CASE k \in keys
    BY <1>2, <1>7, <2>1, <2>2, <2>3, <2>4
  <2>5. CASE k \notin keys
    BY <1>2, <2>1, <2>2, <2>3, <2>5
  <2> QED BY <2>4, <2>5
<1>16. AppliedAsShown'
  <2> SUFFICES ASSUME NEW i \in 1..Len(log'), token[log'[i].token].action.kind = "setting"
               PROVE  /\ log'[i].old = token[log'[i].token].action.shown
                      /\ log'[i].new = token[log'[i].token].action.value
    BY <1>1, <1>4 DEF AppliedAsShown
  <2>1. CASE i \in 1..n
    BY <1>1, <2>1 DEF BookInv, AppliedAsShown
  <2>2. CASE i \in (n + 1)..Len(log')
    <3>1. /\ log'[i].token = t /\ log'[i].key \in keys
          /\ log'[i].old = rows[log'[i].key].value
          /\ log'[i].new = NewValue(token[t].action, log'[i].key)
      BY <1>3, <2>2
    <3>2. log'[i].key = token[t].action.key /\ log'[i].new = token[t].action.value
      BY <3>1 DEF keys, KeysOf, NewValue
    <3>3. rows[token[t].action.key].version = token[t].action.version
      BY <1>8, <3>1 DEF VersionAsShown
    <3>4. rows[token[t].action.key].value = token[t].action.shown
      BY <1>6, <3>1, <3>3 DEF BookInv, ShownStands
    <3> QED BY <3>1, <3>2, <3>4
  <2> QED BY <1>9, <2>1, <2>2
<1> QED BY <1>10, <1>13, <1>14, <1>15, <1>16 DEF BookInv

\* An undo takes back the newest change of its setting.
LEMMA UndoAlone ==
    ASSUME TypeInv, Alone, BookInv, NEW u \in Undos, CommitUndo(u),
           NEW i, i = undo[u].change, NEW k, k = log[i].key
    PROVE  /\ i \in ChangesOf(k) /\ k \in Keys /\ ~RolledBack(i)
           /\ \A j \in ChangesOf(k) : log[j].at <= log[i].at
           /\ \A j \in ChangesOf(k) : log[i].at <= log[j].at => j = i
           /\ rows'[k].value = log[i].old /\ rows'[k].version = rows[k].version + 1
           /\ \A c \in Keys \ {k} : rows'[c] = rows[c]
<1>1. loaded[u] = rows /\ Undoing(u)
  BY DEF CommitUndo, Alone, Undoing
<1>2. i \in DOMAIN log /\ log[i].status = "applied" /\ ~NewerExists(i)
  BY <1>1 DEF Alone
<1>3. \A j \in DOMAIN log : log[j].at \in Int
  BY LogEntries
<1>4. i \in ChangesOf(k) /\ k \in Keys /\ ~RolledBack(i)
  BY <1>2, UndoEffect DEF ChangesOf, RolledBack
<1>5. \A j \in ChangesOf(k) : log[j].at <= log[i].at
  BY <1>2, <1>3 DEF NewerExists, ChangesOf
<1>6. ASSUME NEW j \in ChangesOf(k), log[i].at <= log[j].at PROVE j = i
  <2>1. log[j].at = log[i].at
    BY <1>2, <1>3, <1>5, <1>6 DEF ChangesOf
  <2> QED BY <1>2, <2>1 DEF BookInv, InOrder, ChangesOf
<1>7. rows' = [rows EXCEPT ![k] = Restored(u, k)]
  BY UndoEffect
<1>8. Restored(u, k).value = log[i].old /\ Restored(u, k).version = rows[k].version + 1
  BY <1>1 DEF Restored, Written
<1> QED BY <1>4, <1>5, <1>6, <1>7, <1>8 DEF TypeInv, Table

LEMMA UndoBook ==
    ASSUME TypeInv, PressInv, Alone, BookInv, NEW u \in Undos, CommitUndo(u)
    PROVE  BookInv'
<1>1. PICK i : i = undo[u].change
  OBVIOUS
<1>2. PICK k : k = log[i].key
  OBVIOUS
<1>3. /\ i \in ChangesOf(k) /\ k \in Keys /\ ~RolledBack(i)
      /\ \A j \in ChangesOf(k) : log[j].at <= log[i].at
      /\ \A j \in ChangesOf(k) : log[i].at <= log[j].at => j = i
      /\ rows'[k].value = log[i].old /\ rows'[k].version = rows[k].version + 1
      /\ \A c \in Keys \ {k} : rows'[c] = rows[c]
  BY <1>1, <1>2, UndoAlone
<1>4. /\ DOMAIN log' = DOMAIN log
      /\ \A j \in DOMAIN log :
           /\ log'[j].key = log[j].key /\ log'[j].at = log[j].at /\ log'[j].token = log[j].token
           /\ log'[j].old = log[j].old /\ log'[j].new = log[j].new
           /\ log'[j].status = IF j = i THEN "rolled_back" ELSE log[j].status
  BY <1>1, UndoEffect
<1>5. token' = token
  BY DEF CommitUndo, chat
<1>6. \A c \in Keys : rows[c].version \in Nat
  BY DEF TypeInv, Table
<1>7. InOrder'
  BY <1>4 DEF BookInv, InOrder
<1>8. \A c \in Keys : /\ ChangesOf(c)' = ChangesOf(c)
                      /\ ChangesOf(c) \subseteq DOMAIN log
                      /\ c # k => i \notin ChangesOf(c)
  BY <1>2, <1>4 DEF ChangesOf
<1>9. LogTellsValue'
  <2> SUFFICES ASSUME NEW c \in Keys
               PROVE  LET newest == {j \in ChangesOf(c) : \A m \in ChangesOf(c) : log[m].at <= log[j].at}
                      IN  /\ newest = {} => rows'[c].value = Setting(c).default
                          /\ \A j \in newest :
                               rows'[c].value = IF log'[j].status = "rolled_back"
                                                THEN log'[j].old ELSE log'[j].new
    <3>1. \A c \in Keys :
            {j \in ChangesOf(c)' : \A m \in ChangesOf(c)' : log'[m].at <= log'[j].at}
              = {j \in ChangesOf(c) : \A m \in ChangesOf(c) : log[m].at <= log[j].at}
      BY <1>4, <1>8
    <3> QED BY <3>1 DEF LogTellsValue, RolledBack
  <2>1. CASE c = k
    <3>1. {j \in ChangesOf(c) : \A m \in ChangesOf(c) : log[m].at <= log[j].at} = {i}
      BY <1>3, <2>1
    <3>2. log'[i].status = "rolled_back" /\ log'[i].old = log[i].old
      BY <1>3, <1>4, <1>8
    <3> QED BY <1>3, <2>1, <3>1, <3>2
  <2>2. CASE c # k
    <3>1. \A j \in ChangesOf(c) : log'[j].status = log[j].status
                                    /\ log'[j].old = log[j].old /\ log'[j].new = log[j].new
      BY <1>4, <1>8, <2>2
    <3>2. rows'[c] = rows[c]
      BY <1>3, <2>2
    <3> QED BY <3>1, <3>2 DEF BookInv, LogTellsValue, RolledBack
  <2> QED BY <2>1, <2>2
<1>10. EveryChangeHasItsVersion'
  <2> SUFFICES ASSUME NEW c \in Keys
               PROVE  rows'[c].version = Cardinality(ChangesOf(c))
                        + Cardinality({j \in ChangesOf(c) : log'[j].status = "rolled_back"})
    BY <1>8 DEF EveryChangeHasItsVersion, RolledBack
  <2>1. rows[c].version
          = Cardinality(ChangesOf(c)) + Cardinality({j \in ChangesOf(c) : RolledBack(j)})
    BY DEF BookInv, EveryChangeHasItsVersion
  <2>2. CASE c = k
    <3>1. PICK old : old = {j \in ChangesOf(c) : RolledBack(j)}
      OBVIOUS
    <3>2. PICK new : new = {j \in ChangesOf(c) : log'[j].status = "rolled_back"}
      OBVIOUS
    <3>3. new = old \cup {i} /\ i \notin old
      BY <1>3, <1>4, <1>8, <2>2, <3>1, <3>2 DEF RolledBack
    <3>4. IsFiniteSet(old) /\ Cardinality(old) \in Nat /\ Cardinality(ChangesOf(c)) \in Nat
      BY <3>1, ChangesAreFinite
    <3>5. Cardinality(new) = Cardinality(old) + 1
      BY <3>3, <3>4, FS_AddElement
    <3>6. rows[c].version = Cardinality(ChangesOf(c)) + Cardinality(old)
      BY <2>1, <3>1
    <3>7. rows'[c].version = Cardinality(ChangesOf(c)) + Cardinality(new)
      BY <1>3, <2>2, <3>4, <3>5, <3>6
    <3> QED BY <3>2, <3>7, Zenon
  <2>3. CASE c # k
    <3>1. {j \in ChangesOf(c) : log'[j].status = "rolled_back"} = {j \in ChangesOf(c) : RolledBack(j)}
      BY <1>4, <1>8, <2>3 DEF RolledBack
    <3>2. rows'[c].version = rows[c].version
      BY <1>3, <2>3
    <3> QED BY <2>1, <3>1, <3>2, Zenon
  <2> QED BY <2>2, <2>3
<1>11. ShownStands'
  <2> SUFFICES ASSUME NEW s \in Tokens, Issued(s), token[s].action.kind = "setting"
               PROVE  /\ token[s].action.version <= rows'[token[s].action.key].version
                      /\ token[s].action.version = rows'[token[s].action.key].version
                           => rows'[token[s].action.key].value = token[s].action.shown
    BY <1>5 DEF ShownStands, Issued
  <2>1. PICK c : c = token[s].action.key
    OBVIOUS
  <2>2. c \in Keys /\ token[s].action.version \in Nat
    BY <2>1, ActionShape DEF Issued, TokenRecord, SettingAction
  <2>3. /\ token[s].action.version <= rows[c].version
        /\ token[s].action.version = rows[c].version => rows[c].value = token[s].action.shown
    BY <2>1 DEF BookInv, ShownStands
  <2>4. CASE c = k
    BY <1>3, <1>6, <2>1, <2>2, <2>3, <2>4
  <2>5. CASE c # k
    BY <1>3, <2>1, <2>2, <2>3, <2>5
  <2> QED BY <2>4, <2>5
<1>12. AppliedAsShown'
  BY <1>4, <1>5 DEF BookInv, AppliedAsShown
<1> QED BY <1>7, <1>9, <1>10, <1>11, <1>12 DEF BookInv

LEMMA BookStep ==
    ASSUME ~Overlap, TypeInv, PressInv, LockInv, Alone, BookInv, [Next]_vars
    PROVE  BookInv'
<1>1. CASE \/ Asks
           \/ \E t \in Tokens : \/ Drops(t)
                                \/ \E user \in Users : PressFirst(t, user) \/ PressFinal(t, user)
  BY <1>1, ChatKeeps, BookQuiet
<1>2. ASSUME UNCHANGED <<rows, log, token>> PROVE BookInv'
  BY <1>2, BookQuiet DEF Issued
<1>3. ASSUME NEW t \in Tokens,
             TakeActionLock(t) \/ LoadRows(t) \/ RefuseVersion(t) \/ Answer(t)
      PROVE  UNCHANGED <<rows, log, token>>
  BY <1>3 DEF TakeActionLock, LoadRows, RefuseVersion, Answer, chat, tables
<1>4. ASSUME NEW u \in Undos, (\E a \in Admins : PickChange(u, a)) \/ LoadRow(u)
      PROVE  UNCHANGED <<rows, log, token>>
  BY <1>4 DEF PickChange, LoadRow, chat, tables
<1>5. CASE Restart \/ Tick \/ UNCHANGED vars
  BY <1>2, <1>5 DEF Restart, Tick, vars, chat, tables
<1> QED BY <1>1, <1>2, <1>3, <1>4, <1>5, CommitBook, UndoBook, NextSplit

LEMMA SerialInit == Init => SerialInv
<1> SUFFICES ASSUME Init PROVE SerialInv
  OBVIOUS
<1>1. LockInv
  BY ConsoleAssumption DEF Init, LockInv, AtWork
<1>2. Alone
  BY DEF Init, Alone, NoUndo, Undoing
<1>3. /\ DOMAIN log = {} /\ \A t \in Tokens : ~Issued(t)
      /\ \A k \in Keys : ChangesOf(k) = {} /\ rows[k].value = Setting(k).default
                           /\ rows[k].version = 0
  <2>1. DOMAIN log = {}
    BY DEF Init
  <2>2. \A t \in Tokens : ~Issued(t)
    BY DEF Init, NoToken, Issued, TokenRecord
  <2>3. \A k \in Keys : ChangesOf(k) = {}
    BY <2>1 DEF ChangesOf
  <2>4. \A k \in Keys : rows[k].value = Setting(k).default /\ rows[k].version = 0
    BY DEF Init, Empty
  <2> QED BY <2>1, <2>2, <2>3, <2>4
<1>4. InOrder /\ ShownStands /\ AppliedAsShown
  BY <1>3 DEF InOrder, ShownStands, AppliedAsShown
<1>5. LogTellsValue
  BY <1>3 DEF LogTellsValue
<1>6. EveryChangeHasItsVersion
  <2> SUFFICES ASSUME NEW k \in Keys
               PROVE  0 = Cardinality(ChangesOf(k))
                            + Cardinality({i \in ChangesOf(k) : RolledBack(i)})
    BY <1>3 DEF EveryChangeHasItsVersion
  <2>1. ChangesOf(k) = {} /\ {i \in ChangesOf(k) : RolledBack(i)} = {}
    BY <1>3
  <2> QED BY <2>1, FS_EmptySet
<1> QED BY <1>1, <1>2, <1>4, <1>5, <1>6 DEF SerialInv, BookInv

LEMMA SerialAlways ==
    ASSUME ~Overlap
    PROVE  Spec => []SerialInv
<1>1. Init => SerialInv
  BY SerialInit
<1>2. TypeInv /\ PressInv /\ SerialInv /\ [Next]_vars => SerialInv'
  BY LockStep, AloneStep, BookStep DEF SerialInv
<1> QED BY <1>1, <1>2, PressAlways, PTL DEF Spec

\* While undos and jobs take turns, the newest change of a setting tells its
\* value: the new one while it is applied, the old one once it is undone.
THEOREM HistoryIsTheTruth ==
    ASSUME ~Overlap
    PROVE  Spec => []LogTellsValue
<1>1. SerialInv => LogTellsValue
  BY DEF SerialInv, BookInv
<1> QED BY <1>1, SerialAlways, PTL

\* While undos and jobs take turns, every change and every undo takes a version
\* of its own, so a version shown to an admin stands for one value.
THEOREM VersionsAreNotReused ==
    ASSUME ~Overlap
    PROVE  Spec => []EveryChangeHasItsVersion
<1>1. SerialInv => EveryChangeHasItsVersion
  BY DEF SerialInv, BookInv
<1> QED BY <1>1, SerialAlways, PTL

\* While undos and jobs take turns, what an admin confirmed is what happens: a
\* change replaces the very value its confirmation showed.
THEOREM ConfirmedIsApplied ==
    ASSUME ~Overlap
    PROVE  Spec => []AppliedAsShown
<1>1. SerialInv => AppliedAsShown
  BY DEF SerialInv, BookInv
<1> QED BY <1>1, SerialAlways, PTL
=============================================================================
