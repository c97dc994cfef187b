----------------------- MODULE FlowieClusterOwnership -----------------------
(* Who owns a shard.  Owner commands and publish descriptors are entries of one
   Raft log; each node applies the committed entries to its owner directory,
   takes snapshots, restarts and recovers.  Raft is external.              *)
EXTENDS Integers, Sequences, FiniteSets, SequencesExt

CONSTANTS
  Replicas,      \* nodes of the Raft group that are modelled
  Leaders,       \* nodes that may lead the group, others included
  Shards,        \* shard ids 0 .. ShardCount - 1
  MaxLog,        \* committed entries
  MaxRestarts    \* restarts and failed steps of a node

VARIABLES
  raftLog,   \* committed entries, in order
  replica,   \* the generation of each node
  disk,      \* what each node has on disk: a snapshot
  budget     \* restarts and faults left

ownerVars == <<raftLog, replica, disk, budget>>

----------------------------------------------------------------------------
(* The directory.                                                          *)

NoOwner == [epoch |-> 0, node |-> "none", boot |-> 0]
NoShard == -1

\* owner_directory_create
EmptyDirectory == [revision |-> 0, last |-> NoShard, entries |-> [s \in Shards |-> NoOwner]]

\* owner_command_encode and owner_command_decode: the same validity test
\* stands before the first and after the second; a shard the directory does
\* not have is found out only by the directory.
command_valid(c) ==
  IF c.kind = "REVOKE" THEN c.owner = NoOwner
  ELSE c.kind = "ASSIGN" /\ c.owner.epoch # 0 /\ c.owner.node # "none" /\ c.owner.boot # 0

\* owner_directory_apply: <<rc, directory>>
directory_apply_Any(d, shard, owner, revision) ==
  IF shard \notin Shards THEN <<"EINVAL", d>>
  ELSE <<"OK", [revision |-> revision, last |-> shard, entries |-> [d.entries EXCEPT ![shard] = owner]]>>

directory_apply(d, shard, owner, revision) ==
  IF shard \notin Shards THEN <<"EINVAL", d>>
  ELSE IF revision < d.revision THEN <<"EBUSY", d>>
  ELSE IF revision = d.revision
       THEN <<IF d.last = shard /\ d.entries[shard] = owner THEN "OK" ELSE "EPROTO", d>>
  ELSE <<"OK", [revision |-> revision, last |-> shard, entries |-> [d.entries EXCEPT ![shard] = owner]]>>

\* owner_directory_replace
directory_replace(d, entries, revision) ==
  IF revision < d.revision THEN <<"EBUSY", d>>
  ELSE IF revision = d.revision THEN <<IF d.entries = entries THEN "OK" ELSE "EPROTO", d>>
  ELSE <<"OK", [revision |-> revision, last |-> NoShard, entries |-> entries]>>

\* owner_directory_resolve: an assigned shard does not expire.
directory_resolve(d, shard) == d.entries[shard]

\* owner_projection_apply_batch, one entry.
projection_apply(d, c, index) ==
  IF ~command_valid(c) THEN <<"EPROTO", d>>
  ELSE directory_apply(d, c.shard, c.owner, index)

\* state_machine_apply_batch: the entries in turn, up to the first that fails;
\* `publishOk` is the answer of the publish callback.
state_machine_apply(acc, entry, index, publishOk) ==
  IF acc[1] # "OK" THEN acc
  ELSE IF entry.kind = "PUBLISH" THEN <<IF publishOk THEN "OK" ELSE "EIO", acc[2]>>
  ELSE projection_apply(acc[2], entry, index)

\* <<rc, directory>> after the entries from .. to of the log.
apply_batch(d, from, to, publishOk) ==
  FoldLeft(LAMBDA acc, i : state_machine_apply(acc, raftLog[i], i, publishOk),
           <<"OK", d>>, [k \in 1 .. to - from + 1 |-> from + k - 1])

----------------------------------------------------------------------------
(* A generation: owners, runtime and router, created, started, driven,
   stopped and destroyed.                                                  *)

NoGeneration == [state |-> "none", router |-> FALSE, runtime |-> FALSE, started |-> FALSE,
                 bound |-> FALSE, dir |-> EmptyDirectory, applied |-> 0]

OwnerInit ==
  /\ raftLog = <<>>
  /\ replica = [n \in Replicas |-> NoGeneration]
  /\ disk = [n \in Replicas |-> [index |-> 0, entries |-> [s \in Shards |-> NoOwner], commit |-> 0]]
  /\ budget = MaxRestarts

\* raft_generation_create: the directory, the runtime (its store restores the
\* snapshot and replays what was known committed) and the bound router.
store_open(n) ==
  LET restored == directory_replace(EmptyDirectory, disk[n].entries, disk[n].index)[2]
      start == IF disk[n].index = 0 THEN EmptyDirectory ELSE restored
  IN apply_batch(start, disk[n].index + 1, disk[n].commit, TRUE)

GenerationCreate(n) ==
  /\ replica[n].state = "none"
  /\ LET opened == store_open(n)
     IN /\ opened[1] = "OK"
        /\ replica' = [replica EXCEPT ![n] =
             [state |-> "CREATED", router |-> TRUE, runtime |-> TRUE, started |-> FALSE, bound |-> TRUE,
              dir |-> opened[2], applied |-> disk[n].commit]]
  /\ UNCHANGED <<raftLog, disk, budget>>

GenerationStart(n) ==
  /\ replica[n].state = "CREATED" /\ ~replica[n].started /\ replica[n].bound
  /\ replica' = [replica EXCEPT ![n].state = "RUNNING", ![n].started = TRUE]
  /\ UNCHANGED <<raftLog, disk, budget>>

\* raft_generation_propose_owner, and a publish descriptor: the entry is
\* encoded, proposed and, sooner or later, committed.
ProposeOwner(n) ==
  /\ n \in Replicas => replica[n].state = "RUNNING"
  /\ Len(raftLog) < MaxLog
  /\ \E s \in Shards, kind \in {"ASSIGN", "REVOKE"} :
       LET c == [kind |-> kind, shard |-> s,
                 owner |-> IF kind = "REVOKE" THEN NoOwner ELSE [epoch |-> Len(raftLog) + 1, node |-> n, boot |-> 1]]
       IN command_valid(c) /\ raftLog' = Append(raftLog, c)
  /\ UNCHANGED <<replica, disk, budget>>

ProposePublish(n) ==
  /\ n \in Replicas => replica[n].state = "RUNNING"
  /\ Len(raftLog) < MaxLog
  /\ raftLog' = Append(raftLog, [kind |-> "PUBLISH", shard |-> NoShard, owner |-> NoOwner])
  /\ UNCHANGED <<replica, disk, budget>>

\* raft_generation_drive: peers stepped, committed entries applied in batches.
\* A batch that fails stays to be applied; what it applied stays applied.
GenerationDrive(n) ==
  /\ replica[n].state = "RUNNING" /\ replica[n].applied < Len(raftLog)
  /\ \E to \in replica[n].applied + 1 .. Len(raftLog), ok \in BOOLEAN :
       LET result == apply_batch(replica[n].dir, replica[n].applied + 1, to, ok)
       IN /\ ok \/ (budget > 0 /\ result[1] = "EIO")
          /\ replica' = [replica EXCEPT ![n].dir = result[2],
                           ![n].applied = IF result[1] = "OK" THEN to ELSE @]
          /\ disk' = [disk EXCEPT ![n].commit = to]
          /\ budget' = IF ok THEN budget ELSE budget - 1
  /\ UNCHANGED raftLog

\* The snapshot policy stores what the directory holds.
SnapshotCreate(n) ==
  /\ replica[n].state = "RUNNING" /\ replica[n].applied > disk[n].index
  /\ disk' = [disk EXCEPT ![n].index = replica[n].applied, ![n].entries = replica[n].dir.entries]
  /\ UNCHANGED <<raftLog, replica, budget>>

\* raft_generation_stop, then destroy: router (unbound only while the runtime
\* is not started), runtime, owners.
GenerationStop(n) ==
  /\ replica[n].state = "RUNNING" /\ budget > 0
  /\ replica' = [replica EXCEPT ![n].state = "STOPPED", ![n].started = FALSE]
  /\ budget' = budget - 1
  /\ UNCHANGED <<raftLog, disk>>

router_destroy(g) == IF g.bound /\ g.started THEN g ELSE [g EXCEPT !.router = FALSE, !.bound = FALSE]

GenerationDestroy(n) ==
  /\ replica[n].state \in {"CREATED", "STOPPED"}
  /\ ~router_destroy(replica[n]).router
  /\ replica' = [replica EXCEPT ![n] = NoGeneration]
  /\ UNCHANGED <<raftLog, disk, budget>>

\* The process dies; the disk stays.
GenerationCrash(n) ==
  /\ replica[n].state # "none" /\ budget > 0
  /\ replica' = [replica EXCEPT ![n] = NoGeneration]
  /\ budget' = budget - 1
  /\ UNCHANGED <<raftLog, disk>>

OwnerNext ==
  \/ \E n \in Leaders : ProposeOwner(n) \/ ProposePublish(n)
  \/ \E n \in Replicas :
    \/ GenerationCreate(n) \/ GenerationStart(n)
    \/ GenerationDrive(n) \/ SnapshotCreate(n) \/ GenerationStop(n) \/ GenerationDestroy(n)
    \/ GenerationCrash(n)

----------------------------------------------------------------------------
(* The owner of every shard in a directory is what the committed entries up to
   its revision say, whatever snapshot it restarted from and however a batch
   failed; directories of the same revision are the same.                  *)
OwnersDerived ==
  \A n \in Replicas : replica[n].state # "none" =>
    \A s \in Shards :
      LET seen == Max({replica[n].dir.revision, replica[n].applied})
          about == {i \in 1 .. seen : raftLog[i].kind # "PUBLISH" /\ raftLog[i].shard = s}
      IN directory_resolve(replica[n].dir, s)
           = IF about = {} THEN NoOwner ELSE raftLog[Max(about)].owner
=============================================================================
