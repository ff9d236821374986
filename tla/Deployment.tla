----------------------------- MODULE Deployment -----------------------------
(***************************************************************************)
(* A release: scripts/deploy_buyer_activation_070.sh pauses the service,   *)
(* migrates the database, replaces the API and rolls all of it back when a *)
(* step fails, while buyers pay and the owner works.  A command of the     *)
(* rollback may fail as well: most of them end in "|| true", and the next  *)
(* one runs.  A command that fails may have taken effect.  The API         *)
(* container migrates when it starts, and is restarted whenever it has     *)
(* stopped (docker-compose.yml).  What the migrations do is module Schema. *)
(***************************************************************************)
EXTENDS Schema

CONSTANTS
    From,        \* the revision of the database before, and head of its release
    Promos,      \* whether the owner uses price promotions
    MaxPayments  \* bound of the model

HeadRevision == 9

ASSUME DeploymentAssumption ==
    /\ From \in 0..HeadRevision - 1
    /\ IsFiniteSet(Tools) /\ OldTools \cap NewTools = {}
    /\ Promos \in BOOLEAN
    /\ MaxPayments \in Nat

VARIABLES
    db,
    enabled,   \* service_settings, service_enabled
    promo,     \* the snapshot of an active promotion
    api,       \* the container: its image and state
    latest,    \* the image that has the tag
    scriptPc,        \* of the script
    built, paused, switched,
    paymentsBefore,   \* before_payments
    \* history:
    failures,  \* the commands of the rollback that have failed
    paid,      \* payments made
    wanted,    \* prices by the owner's last word
    ownerPaused

script == <<scriptPc, built, paused, switched, paymentsBefore, failures>>
releaseVars == <<db, enabled, promo, api, latest, script, paid, wanted, ownerPaused>>

NoPromo == [tool \in {} |-> "catalog"]

HeadOf(image) == IF image = "new" THEN HeadRevision ELSE From
ToolsOf(image) == IF image = "new" THEN Tools ELSE OldTools

\* What the release before made of its database.
Before == Upgraded(Empty, From, ToolsOf("old"))

ReleaseInit ==
    /\ db = Before
    /\ enabled = TRUE
    /\ promo = NoPromo
    /\ api = [image |-> IF From = 0 THEN "new" ELSE "old", state |-> "starting"]
    /\ latest = api.image
    /\ scriptPc = "idle"
    /\ built = FALSE /\ paused = FALSE /\ switched = FALSE
    /\ paymentsBefore = 0 /\ failures = {}
    /\ paid = 0 /\ wanted = Before.tools /\ ownerPaused = FALSE

-----------------------------------------------------------------------------
(* The container: alembic upgrade head && uvicorn *)

Migrate(image) == Upgraded(db, HeadOf(image), ToolsOf(image))

ContainerStarts ==
    /\ api.state = "starting"
    /\ IF Migrate(api.image) = Failed
       THEN api' = [api EXCEPT !.state = "crashed"] /\ UNCHANGED db
       ELSE api' = [api EXCEPT !.state = "up"] /\ db' = Migrate(api.image)
    /\ UNCHANGED <<enabled, promo, latest, script, paid, wanted, ownerPaused>>

ContainerRestarts ==
    /\ api.state \in {"up", "crashed"}
    /\ api' = [api EXCEPT !.state = "starting"]
    /\ UNCHANGED <<db, enabled, promo, latest, script, paid, wanted, ownerPaused>>

-----------------------------------------------------------------------------
(* Buyers and the owner *)

BuyerPays ==
    /\ api.state = "up" /\ enabled
    /\ paid < MaxPayments
    /\ db' = [db EXCEPT !.payments = @ + 1]
    /\ paid' = paid + 1
    /\ UNCHANGED <<enabled, promo, api, latest, script, wanted, ownerPaused>>

\* The bot is stopped and started with the API, each of which may fail; the owner
\* is held to neither.
OwnerPauses ==
    /\ ~ownerPaused
    /\ enabled' = FALSE /\ ownerPaused' = TRUE
    /\ UNCHANGED <<db, promo, api, latest, script, paid, wanted>>

OwnerResumes ==
    /\ ownerPaused
    /\ enabled' = TRUE /\ ownerPaused' = FALSE
    /\ UNCHANGED <<db, promo, api, latest, script, paid, wanted>>

OwnerPrices(tool) ==
    /\ promo = NoPromo
    /\ db' = [db EXCEPT !.tools[tool] = "owner"]
    /\ wanted' = [wanted EXCEPT ![tool] = "owner"]
    /\ UNCHANGED <<enabled, promo, api, latest, script, paid, ownerPaused>>

\* activate_uniform_price_promo
StartPromo ==
    /\ Promos /\ api.state = "up" /\ promo = NoPromo
    /\ DOMAIN db.tools # {}
    /\ Cardinality(DOMAIN db.tools) = Cardinality(ToolsOf(api.image))
    /\ promo' = db.tools
    /\ db' = [db EXCEPT !.tools = [tool \in DOMAIN @ |-> "promo"]]
    /\ UNCHANGED <<enabled, api, latest, script, paid, wanted, ownerPaused>>

\* restore_price_promo_if_expired raises when either comparison fails.
Restorable ==
    /\ Cardinality(DOMAIN promo) = Cardinality(ToolsOf(api.image))
    /\ Cardinality(DOMAIN promo) = Cardinality(DOMAIN db.tools)

EndPromo ==
    /\ api.state = "up" /\ promo # NoPromo
    /\ Restorable
    /\ db' = [db EXCEPT !.tools = promo]
    /\ promo' = NoPromo
    /\ UNCHANGED <<enabled, api, latest, script, paid, wanted, ownerPaused>>

-----------------------------------------------------------------------------
(* The script *)

ScriptGoto(label) == scriptPc' = label

BeginRelease ==
    /\ scriptPc = "idle" /\ From > 0
    /\ api.state = "up"
    /\ paymentsBefore' = db.payments
    /\ ScriptGoto("build")
    /\ UNCHANGED <<db, enabled, promo, api, latest, built, paused, switched, failures,
                   paid, wanted, ownerPaused>>

Build ==
    /\ scriptPc = "build"
    /\ latest' = "new"
    /\ \/ built' = TRUE /\ ScriptGoto("pause")
       \/ UNCHANGED built /\ ScriptGoto("trap")  \* interrupted before line 101
    /\ UNCHANGED <<db, enabled, promo, api, paused, switched, paymentsBefore, failures,
                   paid, wanted, ownerPaused>>

Pause ==
    /\ scriptPc = "pause"
    /\ enabled' = FALSE
    /\ \/ paused' = TRUE /\ ScriptGoto("upgrade")
       \/ UNCHANGED paused /\ ScriptGoto("trap")
    /\ UNCHANGED <<db, promo, api, latest, built, switched, paymentsBefore, failures,
                   paid, wanted, ownerPaused>>

\* An interrupt between lines 130 and 131 leaves a migrated database unnoted.
Upgrade ==
    /\ scriptPc = "upgrade"
    /\ Migrate(latest) # Failed
    /\ db' = Migrate(latest)
    /\ wanted' = wanted @@ db'.tools
    /\ \/ switched' = TRUE /\ ScriptGoto("replace")
       \/ UNCHANGED switched /\ ScriptGoto("trap")
    /\ UNCHANGED <<enabled, promo, api, latest, built, paused, paymentsBefore, failures,
                   paid, ownerPaused>>

Created == [image |-> latest, state |-> "starting"]

\* What is left of a "compose up --force-recreate" that has failed.
PartlyCreated ==
    {api, [image |-> api.image, state |-> "stopped"],
     [image |-> latest, state |-> "stopped"], Created}

Replace ==
    /\ scriptPc = "replace"
    /\ \/ api' = Created /\ ScriptGoto("await")
       \/ api' \in PartlyCreated /\ ScriptGoto("trap")
    /\ UNCHANGED <<db, enabled, promo, latest, built, paused, switched, paymentsBefore, failures,
                   paid, wanted, ownerPaused>>

\* Healthy: the service is resumed, then the bot replaced.
ResumeService ==
    /\ scriptPc = "await" /\ api.state = "up"
    /\ enabled' = TRUE
    /\ \/ paused' = FALSE /\ ScriptGoto("check")
       \/ UNCHANGED paused /\ ScriptGoto("trap")
    /\ UNCHANGED <<db, promo, api, latest, built, switched, paymentsBefore, failures,
                   paid, wanted, ownerPaused>>

\* The smoke tests and after_payments = before_payments
Complete ==
    /\ scriptPc = "check" /\ db.payments = paymentsBefore
    /\ ScriptGoto("done")
    /\ UNCHANGED <<db, enabled, promo, api, latest, built, paused, switched, paymentsBefore,
                   failures, paid, wanted, ownerPaused>>

\* set -e and the trap: any command may fail, or the script be interrupted.
Fail ==
    /\ scriptPc \in {"build", "pause", "upgrade", "replace", "await", "check"}
    /\ ScriptGoto("trap")
    /\ UNCHANGED <<db, enabled, promo, api, latest, built, paused, switched, paymentsBefore,
                   failures, paid, wanted, ownerPaused>>

-----------------------------------------------------------------------------
(* The rollback *)

Failing(command) == failures' = failures \cup {command}

\* Mutant: as in the scripts of earlier releases, nothing is stopped.
StopsNothing == IF switched THEN "downgrade" ELSE IF built THEN "files" ELSE
                IF paused THEN "resume" ELSE "exit"

TrapBranch == IF switched THEN "stop" ELSE IF built THEN "files" ELSE
              IF paused THEN "resume" ELSE "exit"

\* rm -f of the maintenance file: set -e ends the trap when it fails, as it does
\* at the files below.
Trap ==
    /\ scriptPc = "trap"
    /\ \/ ScriptGoto(TrapBranch) /\ UNCHANGED failures
       \/ ScriptGoto("exit") /\ Failing("files")
    /\ UNCHANGED <<db, enabled, promo, api, latest, built, paused, switched, paymentsBefore,
                   paid, wanted, ownerPaused>>

Stop ==
    /\ scriptPc = "stop"
    /\ \/ api' = [image |-> api.image, state |-> "stopped"] /\ UNCHANGED failures
       \/ api' \in {api, [image |-> api.image, state |-> "stopped"]} /\ Failing("stop")
    /\ ScriptGoto("downgrade")
    /\ UNCHANGED <<db, enabled, promo, latest, built, paused, switched, paymentsBefore,
                   paid, wanted, ownerPaused>>

\* An image runs it that knows the revision of the database, or it fails.
Downgrade ==
    /\ scriptPc = "downgrade"
    /\ \/ db.rev <= HeadOf(latest) /\ db' = Downgraded(db, From)
          /\ (UNCHANGED failures \/ Failing("downgrade"))
       \/ UNCHANGED db /\ Failing("downgrade")
    /\ ScriptGoto("files")
    /\ UNCHANGED <<enabled, promo, api, latest, built, paused, switched, paymentsBefore,
                   paid, wanted, ownerPaused>>

\* cp and chmod of .env
RestoreFiles ==
    /\ scriptPc = "files"
    /\ \/ ScriptGoto("retag") /\ UNCHANGED failures
       \/ ScriptGoto("exit") /\ Failing("files")
    /\ UNCHANGED <<db, enabled, promo, api, latest, built, paused, switched, paymentsBefore,
                   paid, wanted, ownerPaused>>

Retag ==
    /\ scriptPc = "retag"
    /\ \/ latest' = "old" /\ (UNCHANGED failures \/ Failing("retag"))
       \/ UNCHANGED latest /\ Failing("retag")
    /\ ScriptGoto(IF switched THEN "recreate" ELSE "exit")
    /\ UNCHANGED <<db, enabled, promo, api, built, paused, switched, paymentsBefore,
                   paid, wanted, ownerPaused>>

\* Mutant: the command lacks "--force-recreate", and the stopped container starts.
RestartsOnly ==
    /\ scriptPc = "recreate"
    /\ \/ api' = [image |-> api.image, state |-> "starting"] /\ UNCHANGED failures
       \/ api' \in PartlyCreated /\ Failing("recreate")
    /\ ScriptGoto("resume")
    /\ UNCHANGED <<db, enabled, promo, latest, built, paused, switched, paymentsBefore,
                   paid, wanted, ownerPaused>>

\* Mutant: the command lacks "|| true", and its failure ends the trap.
RecreateOrExit ==
    /\ scriptPc = "recreate"
    /\ \/ api' = Created /\ UNCHANGED failures /\ ScriptGoto("resume")
       \/ api' \in PartlyCreated /\ Failing("recreate") /\ ScriptGoto("exit")
    /\ UNCHANGED <<db, enabled, promo, latest, built, paused, switched, paymentsBefore,
                   paid, wanted, ownerPaused>>

Recreate ==
    /\ scriptPc = "recreate"
    /\ \/ api' = Created /\ UNCHANGED failures
       \/ api' \in PartlyCreated /\ Failing("recreate")
    /\ ScriptGoto("resume")
    /\ UNCHANGED <<db, enabled, promo, latest, built, paused, switched, paymentsBefore,
                   paid, wanted, ownerPaused>>

\* resume_service || true: set -e is off in it, and paused=false always runs.
Resume ==
    /\ scriptPc = "resume"
    /\ \/ enabled' = TRUE /\ (UNCHANGED failures \/ Failing("resume"))
       \/ UNCHANGED enabled /\ Failing("resume")
    /\ paused' = FALSE
    /\ ScriptGoto("exit")
    /\ UNCHANGED <<db, promo, api, latest, built, switched, paymentsBefore,
                   paid, wanted, ownerPaused>>

Exit ==
    /\ scriptPc = "exit"
    /\ ScriptGoto("ended")
    /\ UNCHANGED <<db, enabled, promo, api, latest, built, paused, switched, paymentsBefore,
                   failures, paid, wanted, ownerPaused>>

\* trap rollback EXIT INT TERM: the exit of a trap for a signal, and a signal
\* during the trap, run it again.
TrapAgain ==
    /\ scriptPc \in {"stop", "downgrade", "files", "retag", "recreate", "resume", "exit"}
    /\ ScriptGoto("trap")
    /\ UNCHANGED <<db, enabled, promo, api, latest, built, paused, switched, paymentsBefore,
                   failures, paid, wanted, ownerPaused>>

\* Power loss: the trap does not run.
Killed ==
    /\ scriptPc \notin {"idle", "done", "ended", "dead"}
    /\ ScriptGoto("dead")
    /\ UNCHANGED <<db, enabled, promo, api, latest, built, paused, switched, paymentsBefore,
                   failures, paid, wanted, ownerPaused>>

Script ==
    \/ BeginRelease \/ Build \/ Pause \/ Upgrade \/ Replace \/ ResumeService \/ Complete
    \/ Fail \/ Trap \/ Stop \/ Downgrade \/ RestoreFiles \/ Retag \/ Recreate \/ Resume
    \/ Exit

Others ==
    \/ ContainerRestarts \/ BuyerPays \/ OwnerPauses \/ OwnerResumes
    \/ StartPromo \/ EndPromo
    \/ \E tool \in DOMAIN db.tools : OwnerPrices(tool)

ReleaseNext == Script \/ TrapAgain \/ Killed \/ ContainerStarts \/ Others

ReleaseSpec == ReleaseInit /\ [][ReleaseNext]_releaseVars

\* A failed container is started again; commands of the script return.
FairReleaseSpec == ReleaseSpec /\ WF_releaseVars(Script) /\ WF_releaseVars(ContainerStarts)
                 /\ WF_releaseVars(ContainerRestarts /\ api.state = "crashed")

-----------------------------------------------------------------------------
(* Properties *)

ReleaseTypeOK ==
    /\ db # Failed /\ db.rev \in 0..HeadRevision
    /\ db.tables = Upgraded(Empty, db.rev, DOMAIN db.tools \ NewTools).tables
    /\ {enabled, built, paused, switched, ownerPaused} \subseteq BOOLEAN
    /\ failures \subseteq {"stop", "downgrade", "files", "retag", "recreate", "resume"}
    /\ DOMAIN promo \subseteq Tools /\ DOMAIN db.tools \subseteq DOMAIN wanted
    /\ api.image \in {"old", "new"} /\ latest \in {"old", "new"}
    /\ api.state \in {"starting", "up", "crashed", "stopped"}
    /\ switched => built

Needs(image) == Upgraded(Empty, HeadOf(image), {})

\* The API that answers finds the tables and columns of its own release at every
\* moment of a release and of its rollback, whatever else fails, unless it was the
\* stop of the API that failed.
ServesItsSchema ==
    api.state = "up" /\ "stop" \notin failures =>
      /\ Needs(api.image).tables \subseteq db.tables
      /\ Needs(api.image).columns \subseteq db.columns

\* A rollback each of whose commands went through, however often it was begun
\* again, leaves the release before: its image, its tables and columns and its
\* catalog.
RollbackRestores ==
    scriptPc = "ended" /\ switched /\ failures \subseteq {"resume"} =>
      api.image = "old" /\ Layout(db) = Layout(Before)

\* STAGE_12_QUALITY_AND_CONVERSION_REPORT.md, "resumes service on any post-switch
\* failure": whatever else of the release and of its rollback fails, at the end
\* only the owner's own word keeps the service paused.
SalesResume ==
    scriptPc \in {"done", "ended"} /\ switched /\ failures \cap {"files", "resume"} = {} =>
      enabled \/ ownerPaused

\* The same report, and the maintenance of the rollback, without the exceptions:
\* the script's "|| true" lets each of these commands fail.
AlwaysResumes == scriptPc \in {"done", "ended"} /\ switched => enabled \/ ownerPaused
AlwaysServes ==
    api.state = "up" => /\ Needs(api.image).tables \subseteq db.tables
                        /\ Needs(api.image).columns \subseteq db.columns

\* A database that was migrated is noted as switched when the script ends.
SwitchIsNoted == scriptPc = "ended" /\ db.rev > From => switched

\* Payments made while the release went on outlive it and its rollback, and unless
\* a command of the rollback fails so do the prices set.
RowsKept ==
    /\ db.payments = paid
    /\ promo = NoPromo /\ failures = {} => \A tool \in DOMAIN db.tools : db.tools[tool] = wanted[tool]

\* After a rollback that went through, the API is up again sooner or later.
ServesAgain == scriptPc = "ended" /\ switched /\ failures = {} ~> api.state = "up"

\* README.md, "docker compose up -d --build": the migrations of the present image
\* build its database, and the API starts.
InstallServes == api.state # "crashed"

\* INCIDENT_RESPONSE.md, "Mainnet resume requires root cause, owner approval":
\* what the owner paused only he resumes.
OwnersPauseHolds == ownerPaused => ~enabled

\* PRICE_PROMO_7_DAY_REPORT.md, "the first catalog, discovery or paid-route price
\* lookup restores all original prices": the lookup can do so.
PromoEnds == promo # NoPromo /\ api.state = "up" => Restorable
=============================================================================
