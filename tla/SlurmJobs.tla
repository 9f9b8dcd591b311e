---------------------------- MODULE SlurmJobs ----------------------------
(***************************************************************************)
(* What a training job asks Slurm for, and the cluster it asks.  At every  *)
(* start of the container discover_clusters rewrites slurm.conf and        *)
(* gres.conf for the machine it finds itself on, reading back what an      *)
(* earlier start left in the same file; launch_training_job asks scontrol  *)
(* about the nodes and computes the arguments of sbatch.                   *)
(*                                                                         *)
(* A line of slurm.conf is its first key, the number of "=" in it and what *)
(* it says.  Times are in seconds, as in the code; Slurm itself counts     *)
(* minutes.                                                                *)
(***************************************************************************)
EXTENDS Integers, Sequences, SequencesExt, FiniteSets, FiniteSetsExt

CONSTANTS
    Machines,       \* [host, cpus, gpus, devices]: what a start may find
    Shipped,        \* the settings of slurm.conf as shipped: key -> value
    ShippedOn,      \* the machine whose lines are in the shipped file
    Requests,       \* [gpus, max_gpus, nodes, timeout] of a train request
    MaxTrainTime,   \* config["max_train_time"]
    ExtraSeconds,   \* config["extra_training_seconds"]
    MaxJobs         \* bound on the jobs submitted

None == -1          \* an argument that the request leaves out

ASSUME SlurmOK ==
    /\ \A m \in Machines : m.cpus \in Nat \ {0} /\ m.gpus \in Nat
    /\ \A r \in Requests : /\ r.gpus \in Nat \ {0} /\ r.nodes \in Nat \ {0}
                           /\ r.max_gpus \in {None} \cup (Nat \ {0})
                           /\ r.timeout \in {None} \cup Nat
    /\ MaxTrainTime \in Nat /\ ExtraSeconds \in Nat
    /\ IsFiniteSet(DOMAIN Shipped)
    /\ "NodeName" \notin DOMAIN Shipped /\ "PartitionName" \notin DOMAIN Shipped

(* What the arguments of sbatch rest on and nothing in the code ensures: a *)
(* machine has a CPU for every GPU, and the configured times make whole    *)
(* minutes, as the defaults do; the limit of the partition is rounded      *)
(* down, and Slurm rounds that of a job up.                                *)
ASSUME SlurmSizes ==
    /\ \A m \in Machines : m.gpus <= m.cpus
    /\ (MaxTrainTime + ExtraSeconds) % 60 = 0

VARIABLES
    machine,        \* where the container runs
    slurm_conf,     \* the lines of slurm.conf
    gres_conf,      \* the lines of gres.conf
    booted,         \* slurmctld and slurmd run
    jobs            \* jobs submitted since: arguments of sbatch and the request

slurmVars == <<machine, slurm_conf, gres_conf, booted, jobs>>

-----------------------------------------------------------------------------
(* discover_clusters *)

Setting(key, value) == [key |-> key, eq |-> 1, value |-> value]

\* write_node_config: Gres is named only when there is a GPU.
NodeLine(m) == [key |-> "NodeName", eq |-> IF m.gpus > 0 THEN 4 ELSE 3, value |-> m]

\* The mutant forgets the extra seconds in the partition's limit.
MutPartitionLine(m) ==
    [key |-> "PartitionName", eq |-> 5,
     value |-> [node |-> m.host, MaxTime |-> MaxTrainTime \div 60]]

\* write_partition_config: MaxTime is in minutes.
PartitionLine(m) ==
    [key |-> "PartitionName", eq |-> 5,
     value |-> [node |-> m.host, MaxTime |-> (MaxTrainTime + ExtraSeconds) \div 60]]

\* load_slurm_conf_values: lines with exactly one "=", the last of a key wins.
load_slurm_conf_values(lines) ==
    LET Values == {i \in DOMAIN lines : lines[i].eq = 1}
        Keys   == {lines[i].key : i \in Values}
        Latest(k) == CHOOSE i \in Values :
                      /\ lines[i].key = k
                      /\ \A j \in Values : lines[j].key = k => j <= i
    IN  [k \in Keys |-> lines[Latest(k)].value]

\* save_slurm_conf_values.
Lines(values) ==
    LET keys == SetToSeq(DOMAIN values)
    IN  [i \in DOMAIN keys |-> Setting(keys[i], values[keys[i]])]

\* write_slurm_config.
write_slurm_config(m, lines) ==
    LET old    == load_slurm_conf_values(lines)
        keys   == ((DOMAIN old \cup {"SlurmctldHost"}) \ {"GresTypes"})
                  \cup (IF m.gpus > 0 THEN {"GresTypes"} ELSE {})
        values == [k \in keys |-> IF k = "SlurmctldHost" THEN m.host
                                  ELSE IF k = "GresTypes" THEN "gpu" ELSE old[k]]
    IN  Lines(values) \o <<NodeLine(m), PartitionLine(m)>>

\* write_gres_config clears the file first.
write_gres_config(m) == {[host |-> m.host, device |-> d] : d \in m.devices}

\* start_slurm.sh at a start of the container, on whatever machine it is:
\* discovery, then slurmctld and slurmd.  Slurm's state goes with the container.
ContainerStarts ==
    /\ ~booted
    /\ \E m \in Machines :
          /\ machine' = m
          /\ slurm_conf' = write_slurm_config(m, slurm_conf)
          /\ gres_conf' = write_gres_config(m)
    /\ booted' = TRUE
    /\ jobs' = <<>>

ContainerStops ==
    /\ booted
    /\ booted' = FALSE
    /\ UNCHANGED <<machine, slurm_conf, gres_conf, jobs>>

-----------------------------------------------------------------------------
(* launch_training_job: the arguments of sbatch *)

LesserOf(a, b)  == IF a <= b THEN a ELSE b
GreaterOf(a, b) == IF a <= b THEN b ELSE a

\* What scontrol show nodes lists: the nodes of the configuration in force.
Having(key) == {i \in DOMAIN slurm_conf : slurm_conf[i].key = key}

Nodes == Having("NodeName")

get_max_gpu_count_from_slurm ==
    Max({1} \cup {slurm_conf[i].value.gpus : i \in Nodes})

get_total_cpu_count_from_slurm ==
    Max({1} \cup {slurm_conf[i].value.cpus : i \in Nodes})

get_max_node_count_from_slurm == Cardinality(Nodes)

is_gpu_job == \E i \in Nodes : slurm_conf[i].value.gpus > 0

get_tasks_per_node(r) ==
    LesserOf(r.gpus, IF r.max_gpus = None THEN get_max_gpu_count_from_slurm
                     ELSE r.max_gpus)

get_node_count(r) == LesserOf(r.nodes, get_max_node_count_from_slurm)

get_cpu_per_task(r) ==
    get_total_cpu_count_from_slurm
        \div GreaterOf(get_tasks_per_node(r), get_max_gpu_count_from_slurm)

\* A timedelta keeps days and the seconds of the last day apart.
format_timedelta(seconds) ==
    LET rest == seconds % 86400
    IN  [days |-> seconds \div 86400,
         hours |-> rest \div 3600,
         minutes |-> (rest % 3600) \div 60,
         seconds |-> (rest % 3600) % 60]

get_train_time_limit(r) ==
    LET train_time == IF r.timeout = None THEN MaxTrainTime
                      ELSE LesserOf(r.timeout, MaxTrainTime)
    IN  format_timedelta(train_time + ExtraSeconds)

\* create_slurm_run_command.
create_slurm_run_command(r) ==
    [ntasks_per_node |-> get_tasks_per_node(r),
     gres            |-> IF is_gpu_job THEN get_tasks_per_node(r) ELSE 0,
     nodes           |-> get_node_count(r),
     cpus_per_task   |-> get_cpu_per_task(r),
     time            |-> get_train_time_limit(r)]

\* start_slurm_job: the request's own arguments go to the job in config.yaml.
LaunchTrainingJob ==
    /\ booted /\ Len(jobs) < MaxJobs
    /\ \E r \in Requests :
          jobs' = Append(jobs, [sbatch |-> create_slurm_run_command(r), request |-> r])
    /\ UNCHANGED <<machine, slurm_conf, gres_conf, booted>>

-----------------------------------------------------------------------------

SlurmInit ==
    /\ machine \in Machines
    /\ slurm_conf = Lines(Shipped) \o <<NodeLine(ShippedOn), PartitionLine(ShippedOn)>>
    /\ gres_conf = {}
    /\ booted = FALSE
    /\ jobs = <<>>

SlurmNext == ContainerStarts \/ ContainerStops \/ LaunchTrainingJob

SlurmSpec == SlurmInit /\ [][SlurmNext]_slurmVars

\* How Slurm reads the time limit: in minutes, a started one counted whole.
SlurmMinutes(t) ==
    LET seconds == t.days * 86400 + t.hours * 3600 + t.minutes * 60 + t.seconds
    IN  (seconds + 59) \div 60

-----------------------------------------------------------------------------

TimeLimits == [days : Nat, hours : 0..23, minutes : 0..59, seconds : 0..59]

SbatchArguments ==
    [ntasks_per_node : Nat \ {0}, gres : Nat, nodes : Nat, cpus_per_task : Nat,
     time : TimeLimits]

SlurmTypeOK ==
    /\ machine \in Machines /\ booted \in BOOLEAN
    /\ \A i \in DOMAIN slurm_conf :
          /\ DOMAIN slurm_conf[i] = {"key", "eq", "value"}
          /\ slurm_conf[i].eq \in 1..5
    /\ jobs \in Seq([sbatch : SbatchArguments, request : Requests])

\* However often the container was started, and on however many machines with
\* and without GPUs, the files describe the machine it runs on and no other:
\* one node, one partition with that node, GPUs declared if there are any
\* (discover_clusters reads back the file it wrote).
ConfDescribesMachine ==
    booted =>
          /\ \E i \in Having("NodeName") : slurm_conf[i] = NodeLine(machine)
          /\ \E i \in Having("PartitionName") : slurm_conf[i].value.node = machine.host
          /\ \E i \in Having("SlurmctldHost") :
                 slurm_conf[i] = Setting("SlurmctldHost", machine.host)
          /\ \A key \in {"NodeName", "PartitionName", "SlurmctldHost"} :
                 Cardinality(Having(key)) = 1
          /\ (Having("GresTypes") # {}) = (machine.gpus > 0)
          /\ \A l \in gres_conf : l.host = machine.host

\* What a job asks for can be granted: on every node it gets, its tasks' CPUs
\* and GPUs are there, unless the request itself overruled the number of GPUs
\* (max_gpus) beyond what there is.
RequestFits ==
    \A i \in DOMAIN jobs :
        LET job == jobs[i].sbatch
            r   == jobs[i].request
        IN  booted /\ r.max_gpus <= machine.gpus =>
              /\ job.nodes = 1
              /\ job.ntasks_per_node * job.cpus_per_task <= machine.cpus
              /\ job.gres <= machine.gpus
              /\ job.cpus_per_task >= 1

\* The limit of a job is within the limit of its partition, to the minute, and
\* is no shorter than the time asked for within it: the conversions to days,
\* hours and minutes on the one side and to whole minutes on the other agree.
LimitWithinPartition ==
    \A i \in DOMAIN jobs :
        LET r     == jobs[i].request
            limit == SlurmMinutes(jobs[i].sbatch.time)
        IN  booted =>
              /\ \A l \in Having("PartitionName") : limit <= slurm_conf[l].value.MaxTime
              /\ (r.timeout # None /\ r.timeout <= MaxTrainTime)
                    => limit * 60 >= r.timeout + ExtraSeconds

\* However often and wherever the container was started, Slurm's files describe
\* its machine, and what a job asks of Slurm is within what they grant: nodes,
\* CPUs and GPUs, and a time limit that covers the job's own.
JobsFitMachine ==
    /\ SlurmTypeOK
    /\ ConfDescribesMachine
    /\ RequestFits
    /\ LimitWithinPartition
=============================================================================
