------------------------------- MODULE Tooling -------------------------------
(***************************************************************************)
(* The command line tools of the repository.  Each is a process of its own,  *)
(* so that a behaviour is one of them.                                      *)
(***************************************************************************)
EXTENDS DeployPrograms, HealthCheck, ChecklistTracker

VARIABLE tool       \* the tool that runs, if any

toolVars == <<deployVars, healthVars, trackerVars, tool>>

\* The variables of a tool that does not run.
NoDeployment == deployed = [c \in Clusters |-> {}] /\ binaries = {} /\ info = NoInfo /\ deploy = NoDeploy
NoHealth     == world = "none" /\ health = "none" /\ saved = NoResult /\ shifted = "none"
NoTracker    == files = "none" /\ tracker = "none" /\ summary = NoSummary

NoTool == tool = "none" /\ NoDeployment /\ NoHealth /\ NoTracker

ToolingInit ==
    \/ tool = "deploy" /\ DeployInit /\ NoHealth /\ NoTracker
    \/ tool = "health" /\ HealthInit /\ NoDeployment /\ NoTracker
    \/ tool = "checklist" /\ TrackerInit /\ NoDeployment /\ NoHealth

ToolingNext ==
    \/ tool = "deploy" /\ Deploy /\ UNCHANGED <<healthVars, trackerVars, tool>>
    \/ tool = "health" /\ Health /\ UNCHANGED <<deployVars, trackerVars, tool>>
    \/ tool = "checklist" /\ Track /\ UNCHANGED <<deployVars, healthVars, tool>>

------------------------------------------------------------------------------
\* deployment-info.json is written only when every program was handled, by this run or an
\* earlier one that failed later. If the cluster it names is one of CLUSTER_CONFIGS, all it
\* lists are there; and a run that exits with 0 has written it, and the programs are where
\* the run sent them, on the cluster of the config file if the name was unknown.
DeploymentInfoIsTrue ==
    tool = "deploy" =>
        /\ info # NoInfo => info.results = ProgramSet
        /\ info.cluster \in Clusters => info.results \subseteq deployed[info.cluster]
        /\ deploy.at = "exit 0" =>
              /\ info = [cluster |-> deploy.cluster, results |-> deploy.results]
              /\ info.results \subseteq deployed[deploy.target]

\* The checks of a health report are made one after the other: when nothing changed since
\* they began, the report says what is the case, and names an issue for a node that fails.
QuietReportIsTrue ==
    tool = "health" /\ ~shifted.report =>
        /\ saved.rpc <=> world.rpc \notin Failing
        /\ saved.programs = IF world.rpc = "down" THEN {}
                             ELSE world.configured \intersect world.executable
        /\ saved.api = "healthy" <=> world.api = "ok"
        /\ {"RPC Connection", "RPC Connection failed"} \subseteq saved.issues <=> ~saved.rpc

\* However often the tracker analyzes, its totals are those of the files it could load, the
\* phases add up to them, and none counts as both done and pending. A report names items
\* to go on with unless a file is done, and a phase to focus on where one blocks; the rates
\* of phases and owners lie on either side of the overall one; and a tracker that has
\* analyzed exits with 0 only where the report does not ask for more progress.
ChecklistAddsUp ==
    tool = "checklist" /\ summary # NoSummary =>
        LET loaded == tracker.checklists
            report == GenerateReport("text", summary, loaded)
            pending == [c \in DOMAIN loaded |->
                           loaded[c].stats.inProgress + loaded[c].stats.notStarted]
            phases == Elements(summary.byPhase, InOrder(DOMAIN summary.byPhase,
                                                        Ascending(DOMAIN summary.byPhase)))
        IN /\ summary.totalItems = Sum([k \in DOMAIN phases |-> phases[k].total])
           /\ summary.completedItems = Sum([k \in DOMAIN phases |-> phases[k].completed])
           /\ summary.totalItems = summary.completedItems + Sum(pending)
           /\ \A o \in DOMAIN summary.byOwner :
                 summary.byOwner[o].overdue + summary.byOwner[o].completed
                     <= summary.byOwner[o].total
           /\ \A c \in DOMAIN loaded : report.next[c] = {} <=> pending[c] = 0
           /\ (\E n \in DOMAIN summary.byPhase : <<"blocker", n>> \in report.recommendations)
                 => \E n \in DOMAIN summary.byPhase : <<"focus", n>> \in report.steps
           /\ summary.totalItems > 0 =>
                 /\ \E n \in DOMAIN report.phases : report.phases[n] >= summary.overallPercentage
                 /\ \E n \in DOMAIN report.phases :
                       summary.byPhase[n].total > 0 /\ report.phases[n] <= summary.overallPercentage
           /\ tracker.at = "exit" /\ tracker.exit = 0 =>
                 <<"progress", summary.overallPercentage>> \notin report.recommendations
=============================================================================
