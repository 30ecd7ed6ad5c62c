----------------------------- MODULE HealthCheck -----------------------------
(***************************************************************************)
(* The health check of the deployment tools: the RPC node, the programs one  *)
(* by one, the API, then a report.  What it looks at changes meanwhile, and  *)
(* with --continuous it starts over after each report.                      *)
(***************************************************************************)
CONSTANT ProgramIds     \* the programs that the environment may give an id

VARIABLES
    world,      \* the RPC node, the API, the executable programs, the configured ids
    health,     \* the check in progress
    saved,      \* the last report saved
    shifted     \* history: the world changed since the check in progress, and since
                \* that of the report, began

healthVars == <<world, health, saved, shifted>>

\* A node may answer everything, in time or not, all but getBlockTime, or nothing.
Nodes == {"up", "slow", "stale", "no block time", "down"}

Failing == {"no block time", "down"}

Worlds == [rpc : Nodes, api : {"ok", "other", "down"},
           executable : SUBSET ProgramIds, configured : SUBSET ProgramIds]

NoResult == [rpc |-> FALSE, programs |-> {}, api |-> "unknown", issues |-> {}]

HealthInit ==
    /\ world \in Worlds
    /\ health = [at |-> "idle", todo |-> {}, result |-> NoResult]
    /\ saved = NoResult
    /\ shifted = [check |-> FALSE, report |-> TRUE]

WorldChanges ==
    /\ \/ \E up \in Nodes : world' = [world EXCEPT !.rpc = up]
       \/ \E api \in {"ok", "other", "down"} : world' = [world EXCEPT !.api = api]
       \/ \E p \in ProgramIds :
             world' = [world EXCEPT !.executable = IF p \in @ THEN @ \ {p} ELSE @ \union {p}]
    /\ shifted' = [check |-> TRUE, report |-> TRUE]
    /\ UNCHANGED <<health, saved>>

RunFullCheck ==
    /\ health.at = "idle"
    /\ health' = [at |-> "rpc", todo |-> {}, result |-> NoResult]
    /\ shifted' = [shifted EXCEPT !.check = FALSE]
    /\ UNCHANGED <<world, saved>>

\* An issue of its own for a slow node or an old slot, and two for a request that fails.
CheckRPC ==
    /\ health.at = "rpc"
    /\ health' = [health EXCEPT
          !.at = "programs",
          !.todo = ProgramIds,
          !.result.rpc = world.rpc \notin Failing,
          !.result.issues = CASE world.rpc = "up"    -> {}
                              [] world.rpc = "slow"  -> {"High RPC latency"}
                              [] world.rpc = "stale" -> {"Stale slot"}
                              [] OTHER -> {"RPC Connection", "RPC Connection failed"}]
    /\ UNCHANGED <<world, saved, shifted>>

\* Mutant: an account at the id is enough.
CheckProgramsExist(p) ==
    /\ health.at = "programs" /\ p \in health.todo
    /\ health' = [health EXCEPT
          !.todo = @ \ {p},
          !.result.programs = IF p \in world.configured /\ world.rpc # "down"
                              THEN @ \union {p} ELSE @]
    /\ UNCHANGED <<world, saved, shifted>>

\* No id, no account, an account that is not executable, or a request that fails:
\* the program is not healthy, and that is no issue of the report.
CheckPrograms(p) ==
    /\ health.at = "programs" /\ p \in health.todo
    /\ health' = [health EXCEPT
          !.todo = @ \ {p},
          !.result.programs =
              IF p \in world.configured \intersect world.executable /\ world.rpc # "down"
              THEN @ \union {p} ELSE @]
    /\ UNCHANGED <<world, saved, shifted>>

\* Only 200 is healthy; no answer, and what axios throws for, is skipped.
CheckAPI ==
    /\ health.at = "programs" /\ health.todo = {}
    /\ health' = [health EXCEPT
          !.at = "save",
          !.result.api = CASE world.api = "ok" -> "healthy" [] world.api = "other" -> "failing"
                           [] OTHER -> "unknown",
          !.result.issues = @ \union (CASE world.api = "ok" -> {}
                                        [] world.api = "other" -> {"API returned status"}
                                        [] OTHER -> {"API check skipped"})]
    /\ UNCHANGED <<world, saved, shifted>>

\* A database and a Redis URL are always configured, by default, and never checked.
Unchecked == {"Database check not implemented", "Redis check not implemented"}

\* The report is saved, and --continuous goes round again; or the file system ends it.
SaveReport ==
    /\ health.at = "save"
    /\ \/ /\ saved' = [health.result EXCEPT !.issues = @ \union Unchecked]
          /\ shifted' = [shifted EXCEPT !.report = shifted.check]
       \/ UNCHANGED <<saved, shifted>>
    /\ health' = [at |-> "idle", todo |-> {}, result |-> NoResult]
    /\ UNCHANGED world

Health ==
    \/ WorldChanges
    \/ RunFullCheck
    \/ CheckRPC
    \/ \E p \in ProgramIds : CheckPrograms(p)
    \/ CheckAPI
    \/ SaveReport
=============================================================================
