------------------------- MODULE BuyerMachineProofs -------------------------
(***************************************************************************)
(* The two programs on the buyer's machine.                                *)
(*                                                                         *)
(* The watch, for any page, any prices, any number of runs and any         *)
(* interval: as long as no other client moves the seller's snapshot,       *)
(* WatchInv ties that snapshot to the watch's own last answer whenever the *)
(* ledger has no payment in doubt but the one in progress; and work the    *)
(* seller may still do belongs to a payment in doubt.                      *)
(*                                                                         *)
(* The installer keeps the user's entries, for any keys and servers and    *)
(* any number of installations and kills.  InstallInv is inductive because *)
(* nobody else writes the file from its copy on (UserWaits, which the code *)
(* does not see to): what it read is what the user last saved, and the     *)
(* backup taken before is of the same content.                             *)
(***************************************************************************)
EXTENDS BuyerWatch, ClientInstaller, TLAPS

-----------------------------------------------------------------------------
(* onecent watch *)

\* The payment in progress
Current == IF pc = "paying" THEN {quote} ELSE {}

Due ==
    /\ late \subseteq inDoubt \ Current
    /\ Current \subseteq inDoubt

Baseline ==
    /\ inDoubt \subseteq Current => newest = report.at
    /\ newest \in Contents \cup {None}
    /\ page \in Contents

WatchInv == Due /\ Baseline /\ ReportsChanges

LEMMA WatchInitially == Init => WatchInv
  BY WatchAssumption DEF Init, WatchInv, Current, Due, Baseline, ReportsChanges, NoReport

LEMMA WatchStep ==
    ASSUME ~Others, WatchInv, [Next]_vars
    PROVE  WatchInv'
  <1> USE WatchAssumption DEF WatchInv, Current, Due, Baseline, ReportsChanges, ledger
  <1>1. CASE Start
    BY <1>1 DEF Start
  <1>2. CASE Submit
    BY <1>2 DEF Submit
  <1>3. CASE Blocked
    BY <1>3 DEF Blocked
  <1>4. CASE Settled
    <2>1. newest' = page /\ page' = page /\ late' = late /\ pc' # "paying"
      BY <1>4 DEF Settled, AddSnapshot, Continue
    <2>2. report' = [before |-> report.at, at |-> page, changed |-> Changed,
                     clear |-> inDoubt = {quote}]
      BY <1>4 DEF Settled
    <2>3. report'.before = report.at /\ report'.at = page /\ report'.changed = Changed
          /\ report'.clear = (inDoubt = {quote})
      BY <2>2
    <2>4. ReportsChanges'
      <3> SUFFICES ASSUME inDoubt = {quote}, report.at # None
                   PROVE  Changed <=> report.at # page
        BY <2>3
      <3>1. newest = report.at
        BY <1>4 DEF Settled
      <3> QED BY <3>1 DEF Changed
    <2>5. inDoubt' = inDoubt \ {quote} /\ late \subseteq inDoubt \ {quote}
      BY <1>4 DEF Settled
    <2> QED BY <2>1, <2>3, <2>4, <2>5
  <1>5. CASE Doubt
    <2>1. UNCHANGED <<inDoubt, page, report>> /\ pc = "paying" /\ pc' = "off"
          /\ newest' \in {newest, page} /\ late' \subseteq late \cup {quote}
      BY <1>5 DEF Doubt, WorkDoneOrDue, AddSnapshot
    <2> QED BY <2>1
  <1>6. CASE Notified
    BY <1>6 DEF Notified, Continue
  <1>7. CASE WebhookFails
    BY <1>7 DEF WebhookFails
  <1>8. CASE Wake
    BY <1>8 DEF Wake
  <1>9. CASE Tick
    BY <1>9 DEF Tick
  <1>10. CASE Killed
    <2>1. CASE pc = "paying"
      <3>1. UNCHANGED <<inDoubt, page, report>> /\ pc' = "off"
            /\ newest' \in {newest, page} /\ late' \subseteq late \cup {quote}
        BY <1>10, <2>1 DEF Killed, WorkDoneOrDue, AddSnapshot
      <3> QED BY <2>1, <3>1
    <2>2. CASE pc # "paying"
      BY <1>10, <2>2 DEF Killed
    <2> QED BY <2>1, <2>2
  <1>11. CASE PageChanges
    BY <1>11 DEF PageChanges
  <1>12. CASE OtherLooks
    BY <1>12 DEF OtherLooks
  <1>13. CASE PriceChanges
    BY <1>13 DEF PriceChanges
  <1>14. ASSUME NEW due \in late, LateWork(due) PROVE WatchInv'
    BY <1>14 DEF LateWork, AddSnapshot
  <1>15. CASE UNCHANGED vars
    BY <1>15 DEF vars
  <1> QED
    BY <1>1, <1>2, <1>3, <1>4, <1>5, <1>6, <1>7, <1>8, <1>9, <1>10, <1>11, <1>12, <1>13, <1>14,
       <1>15 DEF Next, Answer

\* With the page to itself, and no payment in doubt at another price, the watch
\* reports exactly the changes there are.
THEOREM ChangesReported == ASSUME ~Others PROVE Spec => []ReportsChanges
  <1>1. WatchInv /\ [Next]_vars => WatchInv'
    BY WatchStep
  <1>2. WatchInv => ReportsChanges
    BY DEF WatchInv
  <1> QED BY WatchInitially, <1>1, <1>2, PTL DEF Spec

-----------------------------------------------------------------------------
(* onecent install *)

Content == Readable \cup {Absent, Torn, NoObject, OddServers}

\* While an installation runs the file, the backup and what was read agree
\* with what the user saved.
Copied == step \in {"read", "empty"} /\ mine # {} => backup = file
Emptied == step = "empty" => (mine = {} \/ Has(file, mine))
\* What is copied and read is there.
ReadsAFile == step \in {"copy", "read"} => file # Absent
Saved ==
    /\ file \in Readable => Has(file, mine)
    /\ file \in {Absent, NoObject, OddServers} => mine = {}

InstallInv ==
    /\ file \in Content
    /\ backup \in Content
    /\ step \in {"idle", "copy", "read", "empty", "write", "applied"}
    /\ raw \subseteq Entry /\ mine \subseteq Keys \X Servers
    /\ step \in {"empty", "write"} => mine \subseteq raw
    /\ ReadsAFile
    /\ Saved /\ Copied /\ Emptied /\ BackedUp /\ KeepsTheUsers

Odd == {Absent, Torn, NoObject, OddServers}

LEMMA Shapes ==
    /\ \A content \in Odd : content \notin Readable
    /\ Absent # Torn /\ Absent # NoObject /\ Absent # OddServers
    /\ Torn # NoObject /\ Torn # OddServers /\ NoObject # OddServers
    /\ \A entries \in SUBSET Entry : Of(entries) \in Readable
    /\ \A content \in Readable :
         content.entries \subseteq Entry /\ content = Of(content.entries)
    /\ \A entries : Of(entries).entries = entries
    /\ Ours \in Entry
    /\ Keys \X Servers \subseteq Entry
  <1>1. \A entries : DOMAIN Of(entries) = {"entries"} /\ Of(entries).entries = entries
    BY DEF Of
  <1>2. /\ DOMAIN Absent = {"missing"} /\ DOMAIN Torn = {"torn"}
        /\ DOMAIN NoObject = {"scalar"} /\ DOMAIN OddServers = {"odd"}
    BY DEF Absent, Torn, NoObject, OddServers
  <1>3. /\ {"entries"} # {"missing"} /\ {"entries"} # {"torn"} /\ {"entries"} # {"scalar"}
        /\ {"entries"} # {"odd"} /\ {"missing"} # {"torn"} /\ {"missing"} # {"scalar"}
        /\ {"missing"} # {"odd"} /\ {"torn"} # {"scalar"} /\ {"torn"} # {"odd"}
        /\ {"scalar"} # {"odd"}
    OBVIOUS
  <1>4. \A content \in Readable : \E entries \in SUBSET Entry : content = Of(entries)
    BY DEF Readable, Of
  <1>5. \A entries \in SUBSET Entry : Of(entries) \in Readable
    BY DEF Readable, Of
  <1>6. Ours \in Entry /\ Keys \X Servers \subseteq Entry
    BY InstallerAssumption DEF Ours, Entry
  <1>7. /\ Absent # Torn /\ Absent # NoObject /\ Absent # OddServers
        /\ Torn # NoObject /\ Torn # OddServers /\ NoObject # OddServers
    BY <1>2, <1>3
  <1>8. \A content \in Readable : DOMAIN content = {"entries"}
    BY <1>1, <1>4
  <1>9. \A content \in Odd : content \notin Readable
    BY <1>2, <1>3, <1>8 DEF Odd
  <1>10. \A content \in Readable :
          content.entries \subseteq Entry /\ content = Of(content.entries)
    BY <1>1, <1>4
  <1> QED BY <1>1, <1>5, <1>6, <1>7, <1>9, <1>10

\* What the definitions above come to when the file is read as a set of entries.
LEMMA InstallFrom ==
    ASSUME UNCHANGED <<file, mine>>, InstallInv,
           step' \in {"idle", "copy", "read", "empty", "applied"},
           step' # "applied" \/ step = "applied",
           backup' \in Readable \cup Odd, raw' \subseteq Entry,
           step' = "empty" => mine \subseteq raw',
           step' \in {"copy", "read"} => file # Absent,
           step' \in {"read", "empty"} /\ mine # {} => backup' = file,
           step' = "empty" => mine = {} \/ Has(file, mine)
    PROVE  InstallInv'
  <1>1. Saved' /\ Emptied' /\ ReadsAFile' /\ Copied' /\ BackedUp' /\ KeepsTheUsers'
    BY DEF InstallInv, Saved, Emptied, ReadsAFile, Copied, BackedUp, KeepsTheUsers, Has
  <1> QED BY <1>1 DEF InstallInv, Content, Odd

LEMMA InstallInitially == InstallerInit => InstallInv
  <1> SUFFICES ASSUME InstallerInit PROVE InstallInv
    OBVIOUS
  <1> USE DEF Odd
  <1>1. mine \subseteq Keys \X Servers /\ mine \subseteq Entry /\ raw = {}
    BY Shapes DEF InstallerInit
  <1>2. backup = Absent /\ step = "idle"
    BY DEF InstallerInit
  <1>3. CASE mine = {}
    <2>1. file = Absent
      BY <1>3 DEF InstallerInit
    <2> QED BY <1>1, <1>2, <1>3, <2>1, Shapes
        DEF InstallInv, Content, ReadsAFile, Saved, Copied, Emptied, BackedUp, KeepsTheUsers
  <1>4. CASE mine # {}
    <2>1. file = Of(mine)
      BY <1>4 DEF InstallerInit
    <2>2. file \in Readable /\ file.entries = mine /\ file \notin Odd
      BY <1>1, <2>1, Shapes
    <2> QED BY <1>1, <1>2, <2>2
        DEF InstallInv, Content, ReadsAFile, Saved, Copied, Emptied, BackedUp, KeepsTheUsers, Has
  <1> QED BY <1>3, <1>4

LEMMA InstallStep ==
    ASSUME UserWaits, InstallInv, [InstallerNext]_installerVars
    PROVE  InstallInv'
  <1>1. /\ backup \in Readable \cup Odd /\ file \in Readable \cup Odd
        /\ raw \subseteq Entry /\ mine \subseteq Entry
        /\ step \in {"idle", "copy", "read", "empty", "write", "applied"}
    BY Shapes DEF InstallInv, Content, Odd
  <1>2. /\ file \in Readable => Has(file, mine) /\ mine \subseteq file.entries
        /\ file \in {Absent, NoObject, OddServers} => mine = {}
    BY DEF InstallInv, Saved, Has
  <1>3. CASE Apply
    <2>1. UNCHANGED <<file, backup, mine>> /\ raw' = {} /\ step = "idle"
          /\ step' = IF file = Absent THEN "empty" ELSE "copy"
      BY <1>3 DEF Apply
    <2> QED BY <1>1, <1>2, <2>1, InstallFrom
  <1>4. CASE Copy
    <2>1. UNCHANGED <<file, raw, mine>> /\ backup' = file /\ step = "copy" /\ step' = "read"
      BY <1>4 DEF Copy
    <2>2. file # Absent
      BY <2>1 DEF InstallInv, ReadsAFile
    <2> QED BY <1>1, <2>1, <2>2, InstallFrom
  <1>5. CASE Read
    <2>1. UNCHANGED <<file, backup, mine>> /\ step = "read"
          /\ (mine # {} => backup = file)
      BY <1>5 DEF Read, InstallInv, Copied
    <2>2. CASE step' = "idle" /\ UNCHANGED raw
      BY <1>1, <2>1, <2>2, InstallFrom
    <2>3. CASE file = NoObject /\ step' = "empty" /\ raw' = {}
      BY <1>1, <1>2, <2>1, <2>3, InstallFrom
    <2>4. CASE file \in Readable /\ step' = "empty" /\ raw' = file.entries
      <3>1. raw' \subseteq Entry /\ mine \subseteq raw'
        BY <1>2, <2>4, Shapes
      <3> QED BY <1>1, <1>2, <2>1, <2>4, <3>1, InstallFrom
    <2> QED BY <1>5, <2>2, <2>3, <2>4 DEF Read
  <1>6. CASE Exit
    <2>1. UNCHANGED <<file, backup, raw, mine>> /\ step' = "idle"
      BY <1>6 DEF Exit
    <2> QED BY <1>1, <2>1, InstallFrom
  <1>7. CASE InstallKilled
    <2>1. UNCHANGED <<file, raw, mine>> /\ step' = "idle" /\ backup' \in {backup, Torn}
      BY <1>7 DEF InstallKilled
    <2> QED BY <1>1, <2>1, InstallFrom DEF Odd
  <1>8. CASE Empty
    <2>1. file' = Torn /\ step = "empty" /\ step' = "write" /\ UNCHANGED <<backup, raw, mine>>
      BY <1>8 DEF Empty
    <2>2. BackedUp'
      BY <2>1 DEF InstallInv, Copied, Emptied, BackedUp, Has
    <2>3. mine \subseteq raw /\ Torn \notin Readable /\ Torn \notin {Absent, NoObject, OddServers}
      BY <2>1, Shapes DEF InstallInv, Odd
    <2> QED BY <1>1, <2>1, <2>2, <2>3
        DEF InstallInv, Content, ReadsAFile, Saved, Copied, Emptied, KeepsTheUsers, Odd
  <1>9. CASE Write
    <2>1. /\ file' = Of(raw \cup {Ours}) /\ step = "write" /\ step' = "applied"
          /\ UNCHANGED <<backup, raw, mine>>
      BY <1>9 DEF Write, Merged
    <2>2. /\ file' \in Readable /\ file'.entries = raw \cup {Ours} /\ file' \notin Odd
          /\ mine \subseteq raw
      BY <1>1, <2>1, Shapes DEF InstallInv
    <2> QED BY <1>1, <2>1, <2>2
        DEF InstallInv, Content, ReadsAFile, Saved, Copied, Emptied, BackedUp, KeepsTheUsers, Has,
            Odd
  <1>10. ASSUME NEW entries \in SUBSET (Keys \X Servers), UserSaves(entries)
         PROVE  InstallInv'
    <2> DEFINE kept == IF file \in Readable THEN file.entries \cap {Ours} ELSE {}
    <2>1. /\ mine' = entries /\ file' = Of(entries \cup kept)
          /\ UNCHANGED <<backup, step, raw>> /\ step \in {"idle", "copy", "applied"}
      BY <1>10 DEF UserSaves, MaySave
    <2>2. entries \cup kept \in SUBSET Entry
      BY Shapes
    <2>3. file' \in Readable /\ file'.entries = entries \cup kept /\ file' \notin Odd
      BY <2>1, <2>2, Shapes
    <2>4. step = "applied" => Ours \in kept
      BY DEF InstallInv, KeepsTheUsers, Has
    <2> HIDE DEF kept
    <2> QED BY <1>1, <2>1, <2>3, <2>4
        DEF InstallInv, Content, ReadsAFile, Saved, Copied, Emptied, BackedUp, KeepsTheUsers, Has,
            Odd
  <1>11. ASSUME NEW content \in {NoObject, OddServers}, UserSavesOther(content)
         PROVE  InstallInv'
    <2>1. /\ mine' = {} /\ file' = content /\ step = "idle" /\ UNCHANGED <<backup, step, raw>>
      BY <1>11 DEF UserSavesOther
    <2>2. file' \notin Readable /\ file' \in Content
      BY <2>1, Shapes DEF Odd, Content
    <2> QED BY <1>1, <2>1, <2>2
        DEF InstallInv, Content, ReadsAFile, Saved, Copied, Emptied, BackedUp, KeepsTheUsers, Odd
  <1>12. CASE UNCHANGED installerVars
    BY <1>12 DEF installerVars, InstallInv, Content, ReadsAFile, Saved, Copied, Emptied, BackedUp,
       KeepsTheUsers, Has
  <1> QED BY <1>3, <1>4, <1>5, <1>6, <1>7, <1>8, <1>9, <1>10, <1>11, <1>12 DEF InstallerNext

LEMMA InstallAlways == ASSUME UserWaits PROVE InstallerSpec => []InstallInv
  <1>1. InstallInv /\ [InstallerNext]_installerVars => InstallInv'
    BY InstallStep
  <1> QED BY InstallInitially, <1>1, PTL DEF InstallerSpec

\* An installation during which nobody else saves the file, and that ends, has kept
\* what the user had.
THEOREM UsersEntriesKept == ASSUME UserWaits PROVE InstallerSpec => []KeepsTheUsers
  <1>1. InstallInv => KeepsTheUsers
    BY DEF InstallInv
  <1> QED BY <1>1, InstallAlways, PTL

\* While such an installation has the file empty the backup has it.
THEOREM EmptiedIsBackedUp == ASSUME UserWaits PROVE InstallerSpec => []BackedUp
  <1>1. InstallInv => BackedUp
    BY DEF InstallInv
  <1> QED BY <1>1, InstallAlways, PTL
=============================================================================
