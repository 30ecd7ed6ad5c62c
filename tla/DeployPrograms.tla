---------------------------- MODULE DeployPrograms ----------------------------
(***************************************************************************)
(* The deployment script, deploy-programs.ts: it deploys the configured      *)
(* programs one after the other, exits at the first failure, and is run      *)
(* again.  Other operators deploy to the same clusters meanwhile.           *)
(***************************************************************************)
EXTENDS Naturals, Sequences

CONSTANTS
    Clusters,   \* the clusters of CLUSTER_CONFIGS
    Programs    \* config.programs, in order

VARIABLES
    deployed,   \* for each cluster, the programs that have an account there
    binaries,   \* the programs whose binary is on disk
    info,       \* deployment-info.json
    deploy      \* the process: where it is, the cluster it names and the one of its rpcUrl,
                \* and the programs in results

deployVars == <<deployed, binaries, info, deploy>>

ProgramSet == {Programs[i] : i \in DOMAIN Programs}

NoDeploy == [at |-> "idle", cluster |-> "none", target |-> "none", results |-> {}]
NoInfo   == [cluster |-> "none", results |-> {}]

DeployInit ==
    /\ deployed = [c \in Clusters |-> {}]
    /\ binaries \in SUBSET ProgramSet
    /\ info = NoInfo
    /\ deploy = NoDeploy

\* The program of the loop's current pass.
Current == CHOOSE p \in ProgramSet : p = Programs[Len(SelectSeq(Programs,
                LAMBDA q : q \in deploy.results)) + 1]

Finished == deploy.results = ProgramSet

Goto(label) == deploy' = [deploy EXCEPT !.at = label]

\* The cluster an rpcUrl is of, given that of deploy-config.yaml or "none": what is known of
\* the named cluster overrides the file.
TargetOf(c, file) == IF c \in Clusters THEN c ELSE file

\* The argument, SOLANA_CLUSTER or localnet. Without an rpcUrl the process ends.
LoadConfig(c, file) ==
    /\ deploy.at \in {"idle", "exit 0", "exit 1"}
    /\ deploy' = [at |-> IF TargetOf(c, file) = "none" THEN "exit 1" ELSE "program",
                  cluster |-> c, target |-> TargetOf(c, file), results |-> {}]
    /\ UNCHANGED <<deployed, binaries, info>>

\* So does a keypair file that is not there, or a balance that cannot be fetched.
NoKeypair(c, file) ==
    /\ deploy.at \in {"idle", "exit 0", "exit 1"}
    /\ deploy' = [at |-> "exit 1", cluster |-> c, target |-> TargetOf(c, file), results |-> {}]
    /\ UNCHANGED <<deployed, binaries, info>>

\* A build makes every binary, or the process ends.
Build ==
    /\ deploy.at = "program" /\ ~Finished
    /\ Current \notin binaries
    /\ \/ binaries' = ProgramSet /\ UNCHANGED deploy
       \/ UNCHANGED binaries /\ Goto("exit 1")
    /\ UNCHANGED <<deployed, info>>

Pushed == deploy' = [deploy EXCEPT !.at = "program", !.results = @ \union {Current}]

\* An account at the id is taken for the program; a request that fails, for none.
CheckDeployed ==
    /\ deploy.at = "program" /\ ~Finished
    /\ Current \in binaries
    /\ \/ Current \in deployed[deploy.target] /\ Pushed
       \/ Goto("cli")
    /\ UNCHANGED <<deployed, binaries, info>>

\* Mutant: a program that cannot be deployed is reported, and the loop goes on.
DeployProgramOrSkip ==
    /\ deploy.at = "cli"
    /\ Pushed
    /\ \/ deployed' = [deployed EXCEPT ![deploy.target] = @ \union {Current}]
       \/ UNCHANGED deployed
    /\ UNCHANGED <<binaries, info>>

\* The solana CLI deploys or upgrades; it may fail though the program is there.
DeployProgram ==
    /\ deploy.at = "cli"
    /\ \/ Pushed /\ deployed' = [deployed EXCEPT ![deploy.target] = @ \union {Current}]
       \/ Goto("exit 1") /\ deployed' = [deployed EXCEPT ![deploy.target] = @ \union {Current}]
       \/ Goto("exit 1") /\ UNCHANGED deployed
    /\ UNCHANGED <<binaries, info>>

SaveDeploymentInfo ==
    /\ deploy.at = "program" /\ Finished
    /\ \/ info' = [cluster |-> deploy.cluster, results |-> deploy.results] /\ Goto("exit 0")
       \/ UNCHANGED info /\ Goto("exit 1")
    /\ UNCHANGED <<deployed, binaries>>

OtherOperator(c, p) ==
    /\ deployed' = [deployed EXCEPT ![c] = @ \union {p}]
    /\ UNCHANGED <<binaries, info, deploy>>

\* main, any number of times, and what other operators do.
Deploy ==
    \/ \E c \in Clusters \union {"unknown"}, file \in Clusters \union {"none"} :
          LoadConfig(c, file) \/ NoKeypair(c, file)
    \/ Build
    \/ CheckDeployed
    \/ DeployProgram
    \/ SaveDeploymentInfo
    \/ \E c \in Clusters, p \in ProgramSet : OtherOperator(c, p)
=============================================================================
