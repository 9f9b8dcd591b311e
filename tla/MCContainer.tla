----------------------------- MODULE MCContainer ----------------------------
(***************************************************************************)
(* The container for TLC: the tasks and processes of the server, the Slurm *)
(* configuration and what jobs ask of it, the uploads, the periodic        *)
(* registration of models, and the engine that runs in the server's own    *)
(* process.  The five share no variable, so a property of one of them can  *)
(* be told from the behaviours in which only it moves.                     *)
(***************************************************************************)
EXTENDS ServerLifecycle, SlurmJobs, Upload, ModelRegistry, AsyncEngine

MCMachines ==
    {[host |-> h, cpus |-> c, gpus |-> g, devices |-> 0..(g - 1)] :
        h \in {"a", "b"}, c \in {3, 8}, g \in 0..2}

MCIdle == CHOOSE m \in MCMachines : TRUE

VARIABLE moves      \* the part that moves

MCVars == <<moves, serverVars, slurmVars, uploadVars, registryVars, asyncVars>>

MCInit ==
    /\ moves \in {"server", "slurm", "upload", "registry", "async"}
    /\ ServerInit /\ (moves # "server" => vllm = "none")
    /\ SlurmInit /\ (moves # "slurm" => machine = MCIdle)
    /\ UploadInit /\ RegistryInit /\ AsyncInit

MCNext ==
    \/ /\ moves = "server" /\ ServerNext
       /\ UNCHANGED <<moves, slurmVars, uploadVars, registryVars, asyncVars>>
    \/ /\ moves = "slurm" /\ SlurmNext
       /\ UNCHANGED <<moves, serverVars, uploadVars, registryVars, asyncVars>>
    \/ /\ moves = "upload" /\ UploadNext
       /\ UNCHANGED <<moves, serverVars, slurmVars, registryVars, asyncVars>>
    \/ /\ moves = "registry" /\ RegistryNext
       /\ UNCHANGED <<moves, serverVars, slurmVars, uploadVars, asyncVars>>
    \/ /\ moves = "async" /\ AsyncNext
       /\ UNCHANGED <<moves, serverVars, slurmVars, uploadVars, registryVars>>

MCSpec ==
    /\ MCInit /\ [][MCNext]_MCVars
    /\ \/ moves = "server" /\ ServerFairness
       \/ moves = "registry" /\ RegistryFairness
       \/ moves = "async" /\ AsyncFairness
       \/ moves \in {"slurm", "upload"}

\* Two files that fit, one that does not.
MCSizeOf == [a |-> 1, b |-> 2, c |-> 3]

MCShippedOn == [host |-> "s", cpus |-> 8, gpus |-> 0, devices |-> {}]

MCShipped == [k \in {"SlurmctldHost", "SlurmctldPort"} |->
                 IF k = "SlurmctldHost" THEN "s" ELSE "6817"]

MCRequests ==
    {[gpus |-> g, max_gpus |-> m, nodes |-> n, timeout |-> t] :
        g \in {1, 2, 4}, m \in {None, 1, 4}, n \in {1, 2},
        t \in {None, 61, 86400, 100000}}
=============================================================================
