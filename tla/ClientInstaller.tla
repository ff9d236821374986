--------------------------- MODULE ClientInstaller ---------------------------
(***************************************************************************)
(* "onecent install --apply" (buyer_cli.py, install_client): the bridge is *)
(* entered into the MCP configuration of a client, a JSON file that the    *)
(* user and the client write as well.  The file is copied, read, emptied   *)
(* and written, and the process may be killed after each of these.         *)
(*                                                                         *)
(* The content of a file is the set of its entries, a top-level key with a *)
(* server; a file that was emptied and not written is "torn", and so is    *)
(* one that was half written: neither is JSON.  JSON that is no object is  *)
(* taken for an empty one; an "mcpServers" that is none is an error.       *)
(***************************************************************************)
EXTENDS Naturals, FiniteSets

CONSTANTS
    Keys,      \* top-level keys: "mcpServers", "servers", ...
    ClientKey, \* the one the client reads
    Servers,   \* the user's own, besides "1cent-buyer"
    UserWaits, \* nobody else saves the file from its copy to its rewriting
    Installs   \* bound of the model

ASSUME InstallerAssumption ==
    /\ {"mcpServers", ClientKey} \subseteq Keys
    /\ "1cent-buyer" \notin Servers
    /\ UserWaits \in BOOLEAN
    /\ Installs \in Nat

VARIABLES
    file,
    backup, \* the file beside it, suffix .onecent-backup
    step,
    raw,    \* what was read
    installs,
    mine    \* history: the entries the user last saved

installerVars == <<file, backup, step, raw, installs, mine>>

Entry == Keys \X (Servers \cup {"1cent-buyer"})
Readable == {[entries |-> entries] : entries \in SUBSET Entry}
Absent == [missing |-> TRUE]
Torn == [torn |-> TRUE]
NoObject == [scalar |-> TRUE]
OddServers == [odd |-> TRUE]
Of(entries) == [entries |-> entries]

Ours == <<"mcpServers", "1cent-buyer">>

InstallerInit ==
    /\ mine \in SUBSET (Keys \X Servers)
    /\ file = IF mine = {} THEN Absent ELSE Of(mine)
    /\ backup = Absent
    /\ step = "idle" /\ raw = {} /\ installs = 0

Apply ==
    /\ step = "idle" /\ installs < Installs
    /\ installs' = installs + 1
    /\ step' = IF file = Absent THEN "empty" ELSE "copy"
    /\ raw' = {}
    /\ UNCHANGED <<file, backup, mine>>

\* Mutant: an older backup is kept.
CopyOnce ==
    /\ step = "copy"
    /\ backup' = IF backup = Absent THEN file ELSE backup
    /\ step' = "read"
    /\ UNCHANGED <<file, raw, installs, mine>>

Copy ==
    /\ step = "copy"
    /\ backup' = file
    /\ step' = "read"
    /\ UNCHANGED <<file, raw, installs, mine>>

Read ==
    /\ step = "read"
    /\ \/ file \in {Torn, OddServers} /\ step' = "idle" /\ UNCHANGED raw
       \/ file = NoObject /\ step' = "empty" /\ raw' = {}
       \/ file \in Readable /\ step' = "empty" /\ raw' = file.entries
    /\ UNCHANGED <<file, backup, installs, mine>>

\* write_text opens the file, which empties it, ...
Empty ==
    /\ step = "empty"
    /\ file' = Torn
    /\ step' = "write"
    /\ UNCHANGED <<backup, raw, installs, mine>>

\* Mutant: the key is set, not updated.
Replaced == {entry \in raw : entry[1] # "mcpServers"} \cup {Ours}

Merged == raw \cup {Ours}

\* ... and fills it.
Write ==
    /\ step = "write"
    /\ file' = Of(Merged)
    /\ step' = "applied"
    /\ UNCHANGED <<backup, raw, installs, mine>>

Exit ==
    /\ step = "applied"
    /\ step' = "idle"
    /\ UNCHANGED <<file, backup, raw, installs, mine>>

InstallKilled ==
    /\ step \in {"copy", "read", "empty", "write"}
    /\ step' = "idle"
    /\ backup' \in IF step = "copy" THEN {backup, Torn} ELSE {backup}
    /\ UNCHANGED <<file, raw, installs, mine>>

MaySave == UserWaits => step \in {"idle", "copy", "applied"}

\* The user saves the configuration; what he keeps of a torn file is his own.
UserSaves(entries) ==
    /\ MaySave
    /\ mine' = entries
    /\ file' = Of(entries \cup (IF file \in Readable THEN file.entries \cap {Ours} ELSE {}))
    /\ UNCHANGED <<backup, step, raw, installs>>

\* Something else than servers
UserSavesOther(content) ==
    /\ step = "idle"
    /\ mine' = {}
    /\ file' = content
    /\ UNCHANGED <<backup, step, raw, installs>>

InstallerNext ==
    \/ Apply \/ Copy \/ Read \/ Empty \/ Write \/ Exit \/ InstallKilled
    \/ \E entries \in SUBSET (Keys \X Servers) : UserSaves(entries)
    \/ \E content \in {NoObject, OddServers} : UserSavesOther(content)

InstallerSpec == InstallerInit /\ [][InstallerNext]_installerVars

-----------------------------------------------------------------------------
(* Properties *)

Has(content, entries) == content \in Readable /\ entries \subseteq content.entries

InstallerTypeOK ==
    /\ {file, backup} \subseteq Readable \cup {Absent, Torn, NoObject, OddServers}
    /\ step \in {"idle", "copy", "read", "empty", "write", "applied"}
    /\ raw \subseteq Entry
    /\ step \in {"empty", "write"} => mine \subseteq raw

\* An installation that says "applied" leaves every entry of the user where it
\* was, also after one that was killed half-way.
KeepsTheUsers == step = "applied" => Has(file, mine \cup {Ours})

\* While the installer has the file empty, the user's entries are in the backup.
BackedUp == step = "write" => mine = {} \/ Has(backup, mine)

\* MCP.md, "the installer creates a backup before modifying an existing JSON
\* file": what the user saved is in the one or in the other.
Recoverable == mine = {} \/ Has(file, mine) \/ Has(backup, mine)

\* BUYER_BRIDGE.md, "VS Code uses the same command and arguments under the
\* top-level servers object": the client finds what was applied.
ClientFindsBridge == step = "applied" => Has(file, {<<ClientKey, "1cent-buyer">>})
=============================================================================
