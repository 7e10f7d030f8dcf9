# A verification project for nx_system_tests

The repository holds the functional tests of Nx VMS and the infrastructure that
runs them. This directory models the infrastructure's own logic in TLA+: what
takes jobs from GitLab, distributes them over worker machines and reports their
results; the farm of physical ARM machines with its market of contracts, its
storage of snapshots and its iSCSI and TFTP servers; and what the processes of one
host share: downloads, clean-up and virtual machines. The modules are checked with
TLC on small instances; the most important properties of the pipeline, of the task
services, of the ARM contractors, of the TFTP server, of the downloads and of the
virtual machines are proved with TLAPS for every value of the constants.

Contents: [Inventory](#inventory) - [Modules](#modules) - [Runs](#runs) -
[Findings](#findings) - [Proofs](#proofs) - [What is not shown](#what-is-not-shown) -
[Plan](#plan)

## Inventory

Paths are relative to `src/`. The hazards of each part, with their lines and the
properties that stand against them, are listed in `PROJECT.json`.

### The task pipeline (`infrastructure/`)

| Part | State it keeps | Operations | Hard behaviours | What makes it correct |
|---|---|---|---|---|
| Message broker client (`message_broker/`, `_message.py`, `_uri.py`) | in Redis: streams, groups, the last delivered entry, pending entries per consumer name; in the process: the current message | `write_message`, `read_message`, `acknowledge`; `DeleteConsumer`, `DeleteGroup`, `DeleteStream` | crash between reading and acknowledging, trimming, commands of an administrator while consumers work | nothing is forgotten, nothing finished is replayed, no hoarding, order with one consumer |
| Task ingress (`_task.py`, `gitlab_job_requester/`) | none that survives; the job in hand | `process_one_task`: ping the broker, request a job, write the first line of its trace, write the task, write the update "enqueued" | a crash, an outage or a lost reply between any two of the calls | a job is published once; a fault loses at most one job |
| Worker (`worker/`) | the unacknowledged task (in Redis); the output buffer | `run_single_task`: read, refuse or run, report "running", output, result; acknowledge | crash anywhere: the task is executed again; several workers on a stream; limits and timeouts of the output | a job is on one worker at a time and has a result before it is acknowledged; no output is missed silently |
| Update service (`_task_update.py`, `gitlab_job_updater/`) | the unacknowledged update; a cache of 20000 job states | `process_one_update`: up to 12 attempts, permanent and temporary errors, acknowledge | retries repeat what was done; eviction and restart lose the offset | the result is not forgotten, the first result decides |
| GitLab runner API (`gitlab_api/`) | the offset in the job's trace; one connection | `add_output` (PATCH, HTTP 416, once more), `set_success`, `set_failure` (PUT), resending on a broken connection | late, repeated and reordered requests | the trace is ordered and complete, the result comes last |
| FT View jobs (`ft_view_job_requester/`, `ft_view_job_updater/`) | the job table in PostgreSQL | `pop_job`, the update of progress and URL | late updates of an earlier run | a request is not hidden; a run that reached a worker shows a result |
| FT View batches (`ft_view/*.sql`, `run_updates.py`, `batches_api.py`) | tables `job`, `batch`, `batch_job`, `run` | `start_batch`, `job_update_status`, `batch_counters_update` | concurrent transactions that lock in different orders | the counters of a batch count its jobs |
| Elasticsearch logging (`elasticsearch_logging/`) | a bounded queue, a buffer, a thread | `emit`, `close`, the sending loop with retries | the thread dies; answers are lost; items are refused; closing meanwhile | accepted records are sent, and overtaken only within a batch; closing ends |
| GitLab job watcher | none | one pass: retries, notifications | a user's clicks between its calls | at most two attempts |
| Others: build registry, monitoring, manual tasks, TestRail service, Git mirror, distribution URL updater | databases, caches | web pages and scheduled scripts | | |

A job comes from GitLab through the ingress into a stream of tasks, and its
updates come back through one stream of updates to the updater:

    GitLab --request--> TaskIngress --task--> [tasks] --> Worker
    GitLab <--PATCH, PUT-- UpdateService <-- [updates] <-- TaskIngress, Worker

The jobs of FT View take the same way, with rows of a table in the place of
GitLab's jobs. The processes share nothing but the streams and are started again
by systemd (`Restart=on-failure` of the ingress and the updater, `Upholds=` of the
workers, each of which runs one task and exits). A process reads under a consumer
name that it has again after a restart (`get_process_uri()`).

### Physical machines (`arms/`)

| Part | State it keeps | Operations | Hard behaviours | What makes it correct |
|---|---|---|---|---|
| Market of contracts (`market.py`) | sockets in a directory, one per open tender | offer, accept, reject, ignore, execute a command | timeouts of 1 and 10 seconds, a peer that disappears between any two messages | a contract has one contractor, no client waits for ever |
| Sessions (`arm_manager/`) | per session, the contracts in hand | get, commit, unlock | disconnection with contracts in hand | no machine stays locked |
| Snapshots (`snapshots.py`, `root_fs.py`) | the machine's disk | boot, commit, roll back | a failure between boot and commit | a snapshot appears only by a commit |
| Storage (`hierarchical_storage/`) | a tree of disks, locks on directories | create pending, rename, prune | concurrent contractors and pruning | no disk is removed in use, no snapshot is made twice |
| Machines and power (`machines/`, `mikrotik_power_control.py`, `ssh_remote_control.py`) | state of hardware | power on and off, shut down, wait for the session | a killed contractor leaves a running machine | a machine runs from the image of its contract |
| qcow2target (`qcow2target/pkg`, Go): images | an image file, caches of tables and counts | open, read, write, flush, close | a kill between any two writes, eviction, reuse of clusters | what was flushed is there; a cluster has one use |
| qcow2target: iSCSI target and control API | sessions, pending tasks, targets and units | login, commands, data, task management, pings; attach, detach | tags used again, data for a task that is gone, lost connections | an acknowledged write is stored |
| TFTP server (`ptftp/`) | sessions as threads; a transfer: the block and the attempts | requests, blocks and acknowledgements | loss, repetition, delay, two-byte numbers | the file arrives whole; everyone is served |
| USB emulation (`usb_emulation/`) | devices | USB/IP | | |

A test asks the manager for a machine; the manager puts out a tender, a contractor
(one process per machine) prepares a pending snapshot, attaches its image to the
machine's iSCSI target, powers the machine, which loads its kernel over TFTP and
mounts its root over iSCSI, and accepts:

    test -- session --> ARM manager -- tender --> contractor --> storage
                                                      |-- control API --> iSCSI target --> qcow2 image
                                                      |-- SSH, switch --> machine --> TFTP, iSCSI

### Hosts of tests (`directories/`, `vm/`)

| Part | State it keeps | Operations | Hard behaviours | What makes it correct |
|---|---|---|---|---|
| Prerequisites (`directories/prerequisites`, `filelocker`) | lock, temporary file and destination of each download | `fetch` with a lock, curl, checksum, rename | processes that wait, die and leave curl behind; the clean-up of files in use | what is returned is what the server has |
| Clean-up (`_cleanup.py`, `_rate_limit.py`) | a timestamp under a lock; the files | become leader, list, delete | processes that compete; files that are used meanwhile | one run per period, nothing below the target |
| Virtual machines (`vm/virtual_box`) | accounts and port ranges (locks), VirtualBox's machines, disks and media | claim, register, power, use, purge | a killed process leaves machines; nested machines | a test's machine is its own; nothing is left |

### The rest

`runner/` starts tests one after another and posts batches, `doubles/` are servers
used by tests, `long_tests/` compare performance. `tests/`, `gui/`, `cloud_api/`,
`mediaserver_api/`, `installation/`, `os_access/`, `browser/` and similar test the
product or are clients of its API: their correctness is that of another program,
and they are not modelled.

## Modules

| Module | Models | Of |
|---|---|---|
| `AtLeastOnce` | what a service may rely on when it reads and acknowledges | `_message.py`, as an abstract specification |
| `ConsumerGroup` | one stream with one group, its producer, its consumers and the administrator | `message_broker/` |
| `TaskPipeline` | the way of GitLab jobs through ingress, workers and updater | `_task.py`, `gitlab_job_requester/`, `worker/`, `_task_update.py` |
| `GitlabTrace` | the updates of one job on their way into the trace and the status | `_task_update.py`, `gitlab_job_updater/`, `gitlab_api/` |
| `TaskOutput` | the output of one task, from its process to the updates | `worker/_task.py`, `worker/_worker.py` |
| `FtViewJob` | the row of a job from the request to the result | `ft_view_job_requester/`, `ft_view_job_updater/`, `_task.py`, `_task_update.py` |
| `FtViewBatch` | concurrent transactions on the counters of batches | `ft_view/*.sql`, `batches_api.py` |
| `ElasticLog` | the handler's queue, buffer, retries and thread | `elasticsearch_logging/` |
| `ArmMarket` | tenders, contractors and sessions over streams that either end may close | `arms/market.py`, `arm_manager/server.py`, `snapshots.py` |
| `SnapshotStorage` | pending snapshots, their locks, and pruning | `arms/hierarchical_storage/` |
| `MachineDisk` | power, sessions and images of a machine through a contract | `arms/snapshots.py`, `machines/machine.py`, `qcow2target_api.py`, `qcow2target/pkg/api`, `pkg/scsi` |
| `QcowImage` | an image with cached tables and counts | `qcow2target/pkg/qcow2/` |
| `IscsiSession` | writes, task management and pings over a connection | `qcow2target/pkg/iscsi_target/` |
| `FileTransfer` | the promise of a transfer: the client gets the blocks in order, and all of them or is given up | abstract specification |
| `TftpTransfer` | one session of the TFTP server | `arms/ptftp/_server.py` |
| `TftpServer` | the loop of the TFTP server with its sessions | `arms/ptftp/_server.py` |
| `Download` | the cache of downloads of one host | `directories/prerequisites/`, `filelocker/` |
| `CleanUp` | the rate limit and the clean-up | `directories/_rate_limit.py`, `_cleanup.py` |
| `VirtualMachines` | accounts, port ranges and machines | `vm/virtual_box/` |
| `Services` | the parts of the task services that share no state: `FtViewBatch`, `FtViewJob`, `TaskOutput`, `ElasticLog` | suite |
| `Arms` | the contractors' parts that share no state: `SnapshotStorage`, `ArmMarket`, `MachineDisk` | suite |
| `Hosts` | what scripts and machines of a host share: `IscsiSession`, `Download`, `VirtualMachines` | suite |
| `MC...` | values and symmetry sets for TLC; `MCFiles` is the suite of `QcowImage`, `CleanUp` and the machines of `Hosts` | |
| `...Proofs` | the theorems about the module of the same name | |

How they fit together: `ConsumerGroup` implements `AtLeastOnce`, and its invariants
justify the streams of `TaskPipeline` and `FtViewJob`, where each consumer has one
unacknowledged entry and gets it again first. `TaskPipeline` takes a report to
GitLab as one step with an outcome, `GitlabTrace` opens it up into requests;
`TaskOutput` opens up the execution of a task. `ArmMarket` takes the disk of a
machine as one fact (pending or not); `SnapshotStorage` is what becomes of its
directory and `MachineDisk` what becomes of its image in the daemon; `IscsiSession`
and `QcowImage` are the session and the image that `MachineDisk` takes as whole.
`TftpTransfer` implements `FileTransfer`, and its liveness is the fairness of
`EndSession` in `TftpServer`.

In each module `Safety` is the conjunction of its type invariant and its safety
invariants, each of which is a definition of its own with a comment. Operators
called a *faulty variant* in their comment are not part of any specification: each
is an action as a plausible mistake would leave it, and the run named for it in
`PROJECT.json` finds the property violated when it takes the action's place.
Variables called *history* are read by properties only.

### ConsumerGroup

Entries are numbered in the order of `XADD`. `added`, `oldest`, `group`,
`delivered` and `pending` are the stream in Redis: how much was added, what was
trimmed, whether there is a group, its last delivered entry and what each
consumer has not acknowledged. `pc` and `current` are the consumer processes.
`handled` and `lost` are history.

| Action | Code |
|---|---|
| `Write` | `RedisProducer.write_message()`; trimming is approximate, as `XADD MAXLEN ~` is |
| `Start` | `RedisConsumer.__init__()`: `XGROUP CREATE ... $`, `BUSYGROUP` ignored |
| `ReadUnacknowledged`, `ReadNew` | the two `XREADGROUP` of `read_message()`; another process may act between them |
| `Handle` | the service's own work |
| `Acknowledge` | `acknowledge()`; no effect when the entry is not pending any more |
| `Crash` | the process ends between any two steps |
| `DeleteConsumer`, `DestroyGroup`, `DeleteStream` | `_redis_admin.py`; the commands that `DeleteGroup` and `DeleteStream` send first are steps of the smaller ones |

A consumer whose group is gone, or whose pending entry was trimmed, fails and is
started again, as the code does.

`AtLeastOnce` is the queue that the services believe in: a message stays
outstanding until somebody handled it to the end, unless something outside the
protocol gives it up. `ConsumerGroup` implements it with

    published   <- added
    outstanding <- AllPending \union Undelivered

### TaskPipeline

`status` is GitLab's; `tasks`, `given`, `held` and `updates`, `read`, `unacked`
are the two streams with their groups, in the form that `ConsumerGroup`
justifies: each consumer has at most one unacknowledged entry and gets it again
first (`AtMostOnePending`, `HandledByOne`, `HandledInOrder`, which says of any number
of consumers that nobody takes up an entry while an earlier one waits for him or for
nobody). `ingress`,
`worker`, `updater` and `attempt` are the positions of the processes. `lost`,
`dropped` and `faults` are history and bounds.

Every call to another system is one action, so that a crash (`IngressCrash`,
`WorkerCrash`, `UpdaterCrash`) or an outage (`BrokerDown`) can come between any
two. `RequestJobReplyLost` is `GitLabConnection.request()` sending the request
for a job again. `WriteJobTaken` is the first line of the trace, which GitLab
refuses with HTTP 403 when the job was cancelled meanwhile; nobody catches that,
and the process ends. `RefuseTask` is `make_local_task()` failing. A report is
accepted, refused for good (403, 400), or fails for now; a failing one may have
been carried out, and the last attempt gives up (`dropped`). A crash during an
outage is not counted as another fault. The rate limits of the loops (5 and
10 seconds, 0.01 second) are left out: any delay is possible.

### GitlabTrace

One job, `Updates` updates in the stream, those in `ResultsAt` with a result
(a job that was executed twice has two). A chunk of output is one unit long and
is named by its update; chunk 0 is the requester's line, unknown to the updater,
so that the first PATCH always meets HTTP 416. `trace`, `state` and `closedBy`
are GitLab's. `late` holds the requests that were sent and whose reply nobody
waits for any more: GitLab may carry them out later, or never. `offset` is the
cached `_offset` (0 in a new `_GitlabJobTrace`), `request` the request on the way
with the number of times it was sent and whether it follows a 416, `attempt` the
attempt of `process_one_update()`.

| Action | Code |
|---|---|
| `ReadUpdate` | `read_message()` and the start of `send_report()` |
| `PatchAccepted`, `PatchRefused`, `PatchMisplaced` | HTTP 202, 403 and 416 in `_send_trace()` and `add()` |
| `PutAccepted`, `PutRefused` | HTTP 200 and 400 in `_set()` |
| `RequestFailed` | any other error: `TemporaryReportError`, and the next attempt starts over with the output |
| `ReplyLost` | `GitLabConnection.request()` sends once more; the second exception ends the process |
| `PatchMisplaced` with `resynced` | a second 416 is not handled and ends the process (`exits`) |
| `Evict`, `Crash` | the cached offset is lost |
| `Acknowledge` | after success, a permanent error, or the last attempt |

GitLab is external: a PATCH is carried out for a running job when its offset is
the length of the trace, a PUT for a running job. This is what the client's
handling of 202, 403, 416, 200 and 400 supposes, and what the docstring of
`_GitlabJobTrace` says.

### TaskOutput

A byte is its position. `process`, `written` are the task's process and its file;
`read`, `exitCode`, `late`, `at` are where `LocalTask.run()` is; `buffer`, `total`,
`updates`, `result` are `TaskUpdate`. `Wait`, `ReadOutput`, `Kill` and `Finish` are
the loop of `run()` in its order: has the process ended, read, is the time over,
send. `SendOutput` and `SendFinished` are the updates with the limit of one
(truncated from the front) and of all. The interval of five seconds is left open,
except that the first update goes out at once. What a killed process wrote after
the last read is not sent (it is in the artifacts), so `NothingIsMissed` is about
processes that ended by themselves. The splitting of UTF-8 characters is left out.

### FtViewJob

`progress` is the column of the table, `jobOf` the runs in the order of
`pop_job()`, `ingress`, `tasks`, `held`, `step`, `updates`, `applied` are the
services and streams. `Schedule` is `start_batch()` and the button of the web UI,
`Pop` and `PopUnanswered` are `pop_job()` with and without an answer, `WriteTask`
and `WriteUpdate` the rest of `process_one_task()`, `Read` to `AcknowledgeTask` a
worker, `Report` and `AcknowledgeUpdate` the updater; each process may crash between
its steps. The update of a row goes to all rows with the run's command line, which
is `RowsOf`. The order in which queued jobs are popped is left open.
`clean` marks requests that were made while no run of the job was under way: a late
update of an earlier run may hide another request, which the code does not
prevent. `late` marks runs whose "enqueued" was written after their result, because
`process_one_task()` writes the task first. A run that is lost between `pop_job()`
and the task stays "taken" until somebody asks again.

### FtViewBatch

`status`, `members`, `created`, `count` are committed rows; `draft` holds the rows
as their writers see them, `writer` the row locks, `tx` the open transactions. A
call is one transaction (connections are in autocommit mode), and each statement
that takes a lock or reads a row is one step: `ChangeJob`, `FindBatches`,
`ChangeBatch`, `EndUpdateStatus` are `job_update_status()`; `CallStartBatch`,
`CountJobs`, `ChooseJobs`, `Reschedule` are `start_batch()`;
`batch_counters_update()` is also called by itself (`CallRecalculate`).
PostgreSQL is external, modelled from what the code relies on: read committed, rows
that an open transaction has changed are locked, an update that waited sees the new
row (EvalPlanQual), and a circle of waiting is broken by ending one (`Deadlock`).
`raced` collects batches with a job on which two transactions were at work at once.

### ElasticLog

`Emit` is a logging call (serialised by the handler's lock), `Close` and `Join` are
`close()`, and `Get`, `GetTimeout`, `InsertSucceeds`, `Retry`, `InsertFails` are the
sending loop with `Buffer.read_out()` and `_bulk_insert()`. `InsertSucceeds` is an
answer: Elasticsearch takes any part of the batch, in its order (`Parts`), and
`_perform_request()` prints the items that it refuses and returns as for any other
answer, so that they are gone (`dropped`, a history variable). `AnswerLost` is a request
of which any part was taken and whose answer does not arrive, so the whole batch is
sent again. `InsertFails` takes one of the attempts, and without one left the exception
ends the thread; `ThreadFails` is an exception that is not tried again, such as an
answer that cannot be parsed. There is no logging call after `close()`.

### ArmMarket

A stream is a connection of a contractor to a tender's socket with both its ends
and the messages on their way; a message sent before a close can still be read.
Sessions: `GetSnapshot` puts out the tender, `OfferContract` takes a contractor from
the backlog, `ContractSigned`, `ContractRejected`, `OfferIgnored` are its answers
and the timeout of 10 seconds, `RequestTimeout` that of the request, `CommitSnapshot`
and `CommitAnswered` a command, `CloseSession` and `EndSession` the end with
contracts in hand. `ClientLeaves` may happen at any step and is seen only between
requests. Contractors: `Connect`, `ReadDescription`, `PassBy` (ignore), `Reject`,
`MakeSnapshot`, `Boot`, `Accept`, `ReadCommand`, `Commit`, `CommitFails`,
`ReportSuccess`, `Rollback`; `Crash` ends a contractor with what it has. Streams that
nobody refers to are closed by the garbage collector. The number of streams, of
crashes and of sessions is bounded; the three levels of priority and the files of
the sockets are left out.

### SnapshotStorage

`dirs` says which of the directories `tmp_<name>` and `<name>` of each snapshot is
there and has a disk; `locker` and `root` are flocks, which belong to inodes: a
descriptor follows a renamed directory (`Follow`) and means nothing once the
directory is removed. `CollectLeafs` to `EndPrune` are `prune()`: the list is made
once and each leaf handled later; which leafs do not fit is left open. `MakeDir`,
`OpenDir`, `LockDir`, `WriteDisk` are `create()` under the lock of the root,
`ChildExists` and `ChildNotExist` the test for the target without it, and `Commit`,
`Rollback`, `Unlock` the end. The format and the sizes of disks are left out.

### MachineDisk

`pc`, `goal`, `current`, `met` are contractors (`met`: the parts of
`asyncio.gather()` that have ended), `port`, `power`, `root`, `dirty` machines and
their switch, `target`, `luns`, `nexus`, `inuse`, `hung` the daemon; `torn` and
`lost` are history. A contract goes through `Take`, `SwitchOff`, `SeeDown`,
`SeeDisconnected`, `Detach`, `Attach` (with `AddTarget`), `SwitchOn`, serving, then
`TellShutdown`, `ShutDown`, `Detach`, `Commit` or `Rollback`, with `DetachRefused`
(CLEARTARGET while there is a session), `DetachFails`, `AttachFails`, `SwitchFails`,
`TellFails` and `WaitTimeout` as the failures. Requests to the API are atomic under
its lock. An exception outside of serving and committing ends the process, which
is started again (`Restart`); a failed commit is rolled back. Machines are external:
they boot from their target, write, halt, lose the session and restore it. A machine
that has shut down is recognised by its lost session: `lost` exempts images whose
machine lost its session while it ran, or whose daemon was started again.

### QcowImage

`file` is the contents on disk, `image` the open image: L1, the cached L2 tables and
blocks of counts with their dirty flags, the lists of available and dropped
clusters. An operation works on the caches at once and leaves its writes in `queue`
in the order of the code; `FileWrite` takes them to the file one by one and `Crash`
may come between any two (the page cache survives: a kill, not a power cut).
`WriteAt` is `fileOffsetWrite()` with its parts: `TableFor`, `GetNewCluster`,
`Attach`, `UpdateClusterAddress` with `CopyTable` (copy on write), `CountTables`,
`SetClusterRefcount` with the clusters that counts themselves take. `SyncCache` is
`syncCache()`: tables, blocks, then the two roots; `OpenImage` includes the rebuild of
counts. A cluster of data has a head and a tail, to tell a reused cluster that was
not cleared. The header, L1 and the table of counts are one cluster; the write of a
table is atomic. `torn` remembers a kill between the writes of the two roots in
`syncCache()`; `L1PointsToValidData` is what the comments claim of every kill, and
`SurvivesCrash`, like the rest of `Safety`, claims it only of files with no such kill in their
past: the run `QcowImage_torn` shows what that one does (see Findings). In the
passing run all blocks of counts fit into the cache. Not modelled: the mode without
caches (the daemon does not use it), lazy counts, a full image, commands from two
connections at once. Clusters of old blocks of counts leak when an image is opened
again, which no property forbids.

### IscsiSession

`state`, `nexus`, `reads`, `tasks`, `running`, `exp`, `ping`, `disk` are the target;
`up`, `down` the connection, in order; the rest the initiator, which is external
and keeps to the protocol: tags in use are not given again, commands come in
the order of their numbers. `HandleLongWrite` and `HandleShortWrite` are a WRITE with
and without data to follow (the first part is immediate), `HandleData` a burst,
`Execute` the execution by the goroutine that stopped reading, `HandleAbort` and
`HandleReset` task management, `Ping` and `PingTimeout` the ping worker, `Close` the
end. Login is one step. A command under execution goes on after the connection is
unbound. Reads and other SCSI commands, login negotiation, discovery and the pool of
session identifiers are not modelled.

### TftpTransfer and TftpServer

`TftpTransfer`: `Start` opens the session with the request's options, `Send`,
`Acknowledged`, `NotAcknowledged` are `send_acknowledged()` with its attempts,
`Interrupted` the end by another message of the client; `ReceiveOptions`, `ReceiveBlock`, `ClientStops`
are the client, which keeps to RFC 1350 with its blocks. Datagrams are not consumed: any that was
sent may arrive late, again, or never, if it is not more than `Lag` blocks old, and
numbers are taken modulo `Wrap`. `notice` is another datagram of the client: an ERROR, or
one that is no acknowledgement; either ends the session (`Interrupted`).
`TftpServer`: `Receive`, `Ignored`, `Pop`, `Decided`, `NoSlots`, `Refuse`,
`StartSession`, `NothingReceived`, `WaitRequestDone`, `Closed` are `serve_forever()`
and the end of the daemon; `StopServing` is an `OSError` of `open()`, which leaves the
loop. `max_sessions` lets one session more in than it says.

### Download

A path leads to an inode; what a process has open is the inode, so an unlinked lock
stays locked and a renamed file is still written to. `Touch`, `LockFile`, `GiveUp`
are `wait_locked_exclusively()`; `StartCurl`, `CurlExited`, `Check`, `Replace` the
download; `CurlOpens`, `CurlWrites`, `CurlEnds`, `CurlFails` curl, which is external: it
asks for what follows the size it finds, and HTTP 416 counts as success. Faults
(`FaultKinds`): failures, a reboot, a script that leaves its curl behind, the clean-up
of destinations, the clean-up of any file. At most one curl is left behind. That curl
ends is assumed by fairness, and the `TimeoutError` of a long transfer (`_download.py:101`)
is the fault that leaves it behind: `CallEnds` is about the attempts at the lock and
would hold without that limit.
`file://` sources, which are moved, are not modelled.

### CleanUp

`Spawn` is a process that read the timestamp without the lock, `TryLock`,
`CheckLastRun`, `BecomeLeader` are `become_leader()` with the truncated timestamp
between two steps, `List` and `Delete` the clean-up, `WriteFile` and `ReadFile` tests
at work. Time is a counter. With `Slow = FALSE` a run ends within the period.
`torn` exempts a kill while the timestamp is written. Directories are not entries, and
nobody but the leader deletes files.

### VirtualMachines

`AcquireUser` to `CleanUpFolder` are `_UserPool.acquire()` and `prepare()`,
`RegisterMedium`, `ClaimPortRange`, `PowerOff`, `Unregister`, `StaysRegistered`,
`DeleteDisk`, `Register`, `CreateDisk`, `PowerOn`, `Close`, `Release` the life of one
machine, the innermost of those its process has open. What VirtualBox does by itself
is external: its machines exit when the service of their account is terminated, and
unregistering a machine takes parents of its disk out of the media registry
(`MediaWithout`). `left` marks claims whose purge failed or whose process was killed.
The order of accounts is left open; ranges of accounts may overlap. `ClaimPortRange`
takes the first range that is free in one step, where the code tries the locks of the
ranges one after the other: a range that is given back behind the scan is found by
the model and missed by the code. The range that is taken is free in both. Networks between
machines, additional disks and snapshots made from machines are not modelled.

## Runs

| Run | Instance | Shows |
|---|---|---|
| `ConsumerGroup` | 2 consumers, 3 entries, `MaxLen` 2, 2 crashes, 2 commands | `Safety` (`NothingForgotten`, `AtMostOnePending`, `HandledByOne`), `HandledInOrder`, `NoReplay`, `ImplementsQueue`, `EventuallyFinished` |
| `TaskPipeline` | one job on 2 workers with 2 faults; or 2 jobs, one refused or foreign, on 1 worker with 1 fault; 2 attempts, cancellations | `Safety` (`TaskNotForgotten`, `ResultNotForgotten`, `OneWorkerPerJob`, `LossesAreFaults`), `FirstResultWins`, `RepetitionsAreFaults`, `PublishedJobFinishes` |
| `GitlabTrace` | 3 updates, 2 of them results, 2 attempts, 4 faults | `Safety` (`OutputInOrder`, `OutputNotForgotten`, `OutputBeforeResult`), `HarmIsBounded` (`RepeatedOutputIsFault`, `ExitsAreFaults`), `EverythingReported` |
| `TftpTransfer` | 6 blocks, 4 block numbers, datagrams up to 2 blocks late, 3 attempts | `Safety` (`ReceivedInOrder`, `DoneIsComplete`, `SentWithinRetries`), `TransferSpec`, `SessionEnds` |
| `TftpServer` | 3 clients, 1 place (and the one more that is let in) | `Safety` (`OneSessionPerClient`, `SlotsBound`, `ClosedIsIdle`), `EveryoneIsAnswered` |
| `Services` | suite: `FtViewBatch`, `FtViewJob`, `TaskOutput`, `ElasticLog` | `BatchSafety`, `EveryCallEnds`, `JobSafety`, `RequestsComeToAnEnd`, `OutputSafety`, `TaskEnds`, `LogSafety`, `CloseReturns` |
| `Arms` | suite: `SnapshotStorage`, `ArmMarket`, `MachineDisk` | `StorageSafety`, `RootReleased`, `MarketSafety`, `MachineComesBack`, `DiskSafety`, `ContractEnds` |
| `Hosts` | suite: `IscsiSession`, `Download`; `VirtualMachines` in the run `Files` | `SessionSafety`, `AbortedIsNotWritten`, `EverythingEnds`, `DownloadSafety`, `NothingIsFetchedTwice`, `CallEnds` |
| `Files` | suite: `QcowImage`, `CleanUp`, and the machines of `Hosts` | `ImageSafety`, `HostSafety`, `RunsAreMeasured` |
| `QcowImage_dropped` | one block of counts in the cache | a violation of `DroppedCanBeReused`, see Findings |
| `QcowImage_torn` | 16 clusters, 3 writes and a kill | a violation of `L1PointsToValidData`, see Findings |
| `IscsiSession_reset` | resets | a violation of `AbortedIsNotWritten`, see Findings |

A suite holds parts that share no state. A behaviour chooses one part at its start
(`subject`) and only that part moves, so that the states of the parts are added and
not multiplied; a property of a part is about the behaviours in which it moves. In
`Services`, `Arms` and `Hosts` a part is one instance of its module, with constants
that have any values the parts' assumptions allow; what would have too many states
with all bounds at once is checked as two or three behaviours of it, whose steps leave
a bound out (a second worker or client, a third contractor, crashes or faults, another
connection: the conjuncts of their disjuncts of `Next`). A theorem about such a suite
is about all of them. `Subjects` says which behaviours a run of `Hosts` looks at: the
machines of three processes are checked in the run `Files`, with the symmetry of the
processes, which a run with liveness does without (`Hosts` has two, with one claim).
In `MCFiles` the image comes in two instances.


| Part | Instances and behaviours |
|---|---|
| `FtViewBatch` | 1 job in 2 batches, two updaters and the API, 4 calls, 1 rerun, 1 lost connection |
| `FtViewJob` | 2 requests, 1 fault; *job*: 2 jobs, 1 of 2 workers; *two runs*: both workers, at runs of one job (safety) |
| `TaskOutput` | limits of 4 and 2, 7 bytes of output |
| `ElasticLog` | 5 events, a queue and a batch of 2, 2 attempts, 2 lost answers |
| `SnapshotStorage` | a snapshot on a snapshot; *storage*: 2 of 3 contractors and a crash; *three contractors*: without (safety) |
| `ArmMarket` | 2 machines; *market*: one session, 3 streams and a crash; *two sessions*: with 2 streams, without crashes (safety) |
| `MachineDisk` | *disk*: 2 machines, 2 images, 1 kill; *one machine*: 3 contracts in a row, 2 kills, a lost session or restart, images that cannot be closed (safety) |
| `IscsiSession` | 2 writes; *writes*: of up to 3 parts, in bursts of up to 2, on a connection with aborts; *logins*: of up to 2 parts with one tag, 2 connections; *resets*: the same on a connection with resets (liveness and numbers only) |
| `Download` | *downloads*: 2 scripts, a file with and one without a checksum, failures, reboots, deleted destinations; *one file*: every fault (liveness) |
| `QcowImage` | *image*: 2 L2 tables with a cache of 1; *one table*: 3 writes, which use freed clusters again; 16 clusters, a kill |
| `CleanUp` | 2 processes, files of sizes 1 and 2 for a target of 1, period 2, time to 4, a kill |
| `VirtualMachines` | 3 processes (symmetric), 2 accounts with overlapping ranges, 3 claims, 2 nested, a fault |

Why the bounds are enough to be of use. In `ConsumerGroup` an entry can be
pending and trimmed, a group can be destroyed while an entry is handled and made
again before it is acknowledged, and a consumer can crash twice on the same
entry. In `TaskPipeline` two faults let a job be executed three times with
different results while the updater retries and gives up one of them. In
`GitlabTrace` four faults suffice for two late requests of the same chunk together
with a crash, and for a result that is set by a late request while a later update
is being reported. In `TftpTransfer` the numbers wrap, so that a block and an
acknowledgement have the numbers of others, and `Lag` is the largest allowed. In
`TftpServer` a repeated request can be read when the session has run and was popped,
with the other place taken. `TaskOutput` can pass both limits with a rest in the
buffer; `ElasticLog` can fill its queue while a batch is repeated, and twice take one half of a
batch without an answer before it takes the other or refuses it. In
`SnapshotStorage` a leaf can be listed, become a parent, lose its child and be
removed while a third contractor makes it again. In `QcowImage` each write may copy
a table, which may take a cluster whose count is in another block; the same cluster
can be freed and used again before a kill. In `VirtualMachines` the second process
of an account meets what a killed one has left under the name of its own machine.
The proofs below do not depend on the bounds.

Deadlock is checked in all passing runs except `TftpTransfer` (a session ends),
`TftpServer` (the daemon closes) and `Files` (time, writes and claims run out). The
suites `Services`, `Arms` and `Hosts` stutter where a part has come to its end.

Fairness.

- `ConsumerGroup`: each process is started again and keeps reading, because
  systemd restarts it and the services loop; crashes and commands are not fair.
  `EventuallyFinished` exempts an entry that is trimmed while it is pending, and
  what comes after it when no consumer is left: its consumer fails on it at every
  start (`_consumer.py:76`). The limit of 1,000,000 entries makes it remote.
- `TaskPipeline`, `FtViewJob`: the ingress, each worker and the updater go on, and
  an outage ends; crashes, cancellations and lost replies are not fair.
- `GitlabTrace`: the updater goes on and GitLab answers; errors are not fair and are
  bounded. No fairness is assumed of GitLab's late requests.
- `FtViewBatch`: an open transaction goes on unless it waits for a row.
- `TaskOutput`: the worker and the clock; the process need not end.
- `ElasticLog`: the thread, while it lives, and `join()`.
- `ArmMarket`, `SnapshotStorage`: the code's own steps and timers; clients need not do
  anything. `MachineDisk`: contractors go on, and machines lose power when they are
  switched off, boot and halt.
- `TftpTransfer`: the thread and its timeouts; nothing of the client or the network.
  `TftpServer`: the loop, its timer and the end of sessions; strong fairness of
  receiving from a client that goes on asking (a datagram is lost now and then).
- `IscsiSession`: goroutines run, and a machine that runs takes what it is sent.
- `Download`: scripts and transfers go on; the timeout of waiting is strongly fair,
  because others may take the lock each time it is free.

## Findings

Three runs show that the code does not do what one of its comments says. They are
listed in `PROJECT.json`.

- `QcowImage_dropped`: when a block of counts was read again because it was not in
  the cache, `setClusterRefcount()` returns the cluster of that very block as
  dropped (`referenceCount.go:127`). It takes more blocks than the cache holds: files
  of more than 100 GB with the default sizes.
- `QcowImage_torn`: `syncCache()` writes the table of counts (`qcow2.go:685`), by which
  replaced L2 tables have count 0, before L1 (`qcow2.go:690`), which still leads to them.
  When the process is killed in between, the next one takes the clusters of these
  tables for available, and its first writes put other data there: clusters that were
  flushed long before are read as something else. `pointer_table_caches.go:169-171` calls
  writing transactional, and by `:196-198` L1 "will always be pointing to valid data".
  With a kill at any other moment this is so (`SurvivesCrash`).
- `IscsiSession_reset`: ABORT TASK SET and LOGICAL UNIT RESET are answered
  "function complete" and leave the pending tasks in place (`iscsid.go:771`). When a
  tag is used again, its data goes to the old task.

Modelling brought up further behaviours which the models contain, and which the
checked properties exempt by a named condition or by the instance:

- `MachineDisk`: `DetachLun()` returns the error of `Close()` with the lock still held
  (`target.go:106-114`); later requests to the API wait for ever (`hung`,
  `CloseFails`). A machine that loses its session while it runs is taken for one
  that has shut down, its power is cut and the image committed (`lost`).
- `IscsiSession`: a login looks its old session up under key 0, which none has
  (`session.go:244`), so that an old session goes on after a new login (`Overlap`).
- `SnapshotStorage`: after a crash, the directory `tmp_<name>` with its disk makes each
  contract for that snapshot be rejected with "is being created" (`storage.py:101`)
  until it is pruned.
- `FtViewJob`: `process_one_task()` writes the task before "enqueued" (`_task.py:52`),
  so a job may show "enqueued" after its result (`late`).
- `FtViewBatch`: a job that is put into a batch, or updated, by two transactions at once
  leaves wrong counters behind, with the right total, until "recalculate" (`raced`).
- `ElasticLog`: records that Elasticsearch refuses in the answer to a batch are written to
  stderr and lost (`__init__.py:168-172`, `dropped`), while the thread and the handler go on
  as if they were sent. When the thread is gone and the queue is full, `put_nowait()` raises out
  of the logging call of a test (`__init__.py:63`).
- `Download`: the clean-up unlinks lock files in use (`_directories.py:161`); a curl
  that outlives its script writes on into what the next script resumes
  (`_download.py:102`); names that differ in the suffix share a temporary file
  (`_download.py:44`). These are `FaultKinds` "any" and "leave", and `SameStem`.
- `CleanUp`: the lock is given back before the clean-up begins, so one that takes longer
  than the period runs beside the next (`_rate_limit.py:30`, `Slow`). A leader that is
  killed while it writes the timestamp lets the next one in early (`torn`).
- `TftpTransfer`: a timeout above 255 is announced as ignored and used
  (`_server.py:229`). `TftpServer`: an `OSError` of `open()` other than
  `FileNotFoundError` ends the loop (`_server.py:371`).

## Proofs

Each `...Proofs` module proves one inductive invariant (`IInv`, or one per part of a
suite), then the properties from it. The only assumptions are the named ones on the
constants (`ConstantsAssumption`, `SizesAssumption`; `PartsAssumption` of a suite is
their conjunction): finite sets of consumers, jobs, clients and machines, natural
bounds, at least one attempt, a tree of snapshots with something based on its root,
and for the TFTP transfer that no datagram is as late as the block numbers wrap
(`Lag + 1 < Wrap`). What stands for "none" is no member of what it is not (for
`IscsiSession`, no set of writes). That the tree of snapshots has no circles is not needed.

| Theorem | Statement |
|---|---|
| `ConsumerGroupProofs`: `SafetyHolds`, `HandledInOrderHolds`, `NoReplayHolds` | the invariants and the action property of the runs, for any number of consumers and entries, any trimming limit |
| `ConsumerGroupProofs`: `QueueImplemented` | `Spec => ImplementsQueue`: initial states map to initial states, every step to a step or a stutter of `AtLeastOnce` |
| `TaskPipelineProofs`: `SafetyHolds`, `FirstResultWinsHolds`, `RepetitionsAreFaultsHold` | for any jobs, workers, attempts and faults |
| `GitlabTraceProofs`: `SafetyHolds`, `HarmIsBoundedHolds` | for any number of updates, attempts and faults |
| `TftpTransferProofs`: `SafetyHolds` | for files of any length, any number of block numbers, attempts and timeouts |
| `TftpTransferProofs`: `Implements` | `Spec => TransferSpec`: a session implements `FileTransfer` |
| `TftpServerProofs`: `SafetyHolds` | for any set of clients and any number of places |
| `ServicesProofs`: `BatchSafetyHolds` | for any jobs, batches, processes and reruns, any lost connections and deadlocks |
| `ServicesProofs`: `JobSafetyHolds` | for any jobs, workers, requests and faults |
| `ServicesProofs`: `OutputSafetyHolds` | for any limits and any amount of output |
| `ServicesProofs`: `LogSafetyHolds` | for any sizes of queue and batch, any attempts, lost answers and refused items |
| `ArmsProofs`: `MarketSafetyHolds` | for any machines, sessions and streams, any crashes |
| `ArmsProofs`: `StorageSafetyHolds` | for any contractors, any tree of snapshots, any crashes |
| `ArmsProofs`: `DiskSafetyHolds` | for any machines and images, any kills, lost sessions and restarts |
| `HostsProofs`: `DownloadSafetyHolds`, `NothingIsFetchedTwiceHolds` | for any scripts and files of any size, with and without a checksum, any failures, reboots and deleted destinations |
| `HostsProofs`: `HostSafetyHolds` | for any processes, accounts, ranges of ports (which may overlap), snapshots and machines in machines, any kills and failed purges |
| `HostsProofs`: `SessionSafetyHolds`, `AbortedIsNotWrittenHolds` | for any number of logins and writes, any tags, places, lengths and bursts, aborts, and machines that end at any moment; in the behaviours with resets only the numbers |

Along which argument:

- *ConsumerGroup.* `NothingForgotten` alone is not inductive: that acknowledging
  loses nothing needs that the entry a process confirms was handled by it, and
  that an entry pending somewhere is pending nowhere else. `IInv` therefore ties
  `pc`, `current` and `pending` together: what a working process has is its only
  pending entry or was given up, pending entries are not beyond `delivered`, are
  not lost, and belong to one consumer; entries up to `delivered` are pending,
  handled or lost. `HandledInOrder` and `NoReplay` follow from the position of
  `delivered`: what is before it and not finished is pending, and a process looks
  at its own pending entries before it asks for a new one.
- *TaskPipeline.* A job is in one place: pending in GitLab, in the ingress's
  hand, in the stream (once), or lost; that gives `OneWorkerPerJob`. Results in
  the updates stream come only from tasks that were given out, and a worker that
  has reported has a result there: `TaskNotForgotten`. For `FirstResultWins` the
  invariant says that while a job is running, every result of it that was read
  was dropped or is the one being reported, so that the first one accepted has
  only dropped ones before it. For `LossesAreFaults`, lost jobs are counted
  against faults, with one to spare exactly while the broker is away and the
  ingress has nothing in its hand. For `RepetitionsAreFaults` a second invariant
  (`RunsInv`) counts the runs of a job together with the run that is about to begin
  (its task is in the stream, or at a worker that has not reported "running"): they
  exceed the faults by one at most, and only a crash of a worker, which takes a
  fault, puts a task back to where it can begin again.
- *GitlabTrace.* `OutputInOrder` needs that a late PATCH cannot be carried out
  behind a later chunk: its offset is at most the length of the trace, and when
  it is equal, its update is not older than the last chunk. For
  `RepeatedOutputIsFault` the invariant counts, for each update, the copies in
  the trace, the late PATCHes that could add one, and the one about to be sent:
  together they exceed the faults by at most one. `ExitsAreFaults` has one fault
  to spare whenever a resynchronised request can be misplaced again, because only
  a late PATCH, which cost a fault, moves the end of the trace in between.
- *TftpTransfer.* The server is never more than one message ahead of the client and
  never behind it (`InStep`), acknowledgements were sent only for blocks that the
  client has (`AcksAreTrue`), and messages beyond the current one were not sent
  (`Untouched`, `Counted`). An acknowledgement in flight is at most `Lag` older than the
  block it is compared with, so equal numbers modulo `Wrap` mean equal blocks (lemma
  `SameNumber`, which is about the remainders of any two numbers less than `Wrap`
  apart). Without the assumption on `Lag` the invariant is not inductive: an old
  acknowledgement would confirm a block that has its number.
- *TftpServer.* A live thread belongs to a client that the loop takes for active
  (`Live` is a subset of `active`), and a request that passed `_get_request()` is of
  a client that is not (`RequestIsNew`). `SlotsBound` follows from the number of active
  sessions, `ClosedIsIdle` from what the loop has waited for.

- *FT View jobs* (`JobIInv`). `RequestIsKept` and `ResultIsShown` need that whatever
  a row or an update says of a run before its end is going to be overtaken: an update
  of that run's end follows in the stream, or its task is still carried by somebody
  who will write one (`Followed`, in `RowInv` and `UpdatesFollowed`). A task is carried
  by its ingress until it is in the stream (`TaskInv`, which knows that a run may end
  before its "enqueued" is written), and a request that was made while no run was
  under way stays queued until it is popped (`CleanInv`).
- *The counters of batches* (`BatchIInv`). `TotalKept` follows from the same equation for
  the drafts, which every addition keeps (`AddKeepsTotal`) and every count makes true
  (`ExactTotal`). `WrongOnlyIfRaced` needs to know what each open transaction is going to
  commit (`RightFor`): the counters in its draft are exact for the statuses as it sees
  them, where a job that it has changed still counts as it did before in the batches that
  have not been added to (`Counted`, `Lacking`); and for a batch it has not changed, it
  sees the statuses that are committed. A commit makes this false for another transaction
  only about a job that both have read, changed or put into a batch, and then the batches
  of that job are in `raced` from that step on (`RacedCommit`). That no transaction deletes
  rows, and that only the batches API adds jobs (`BatchRows`, `JobRows`), keeps what was
  read before a lock true after it.
- *The output of a task* (`OutputIInv`). The updates sent so far and the buffer cover
  what was read, without a gap, up to the first truncation (`SentInv`, `BufferInv`);
  that a process which ended by itself was read to its end is tied to the order of
  polling and reading in `run()` (`ExitInv`).
- *The log handler* (`LogIInv`). What was accepted is in the queue, in the buffer, in
  the batch under way, inserted or refused by Elasticsearch, in this order (`OrderInv`). What
  was done with earlier batches is earlier than the batch under way (`BatchInv`), so only
  a record of the batch itself can be inserted behind a later one, and these are within
  the interval that the batch spans, which has no more accepted records than the batch has
  places (lemma `BatchInterval`). A record of the batch is in the index at most once for each
  lost answer (`CountInv`). That gives `InsertedInOrder`, and `AcceptedIsKept` and
  `ClosedIsSent` follow from where the records are when the thread ends (`EndInv`).
- *The market* (`MarketIInv`). Who works with a stream has its own end of it open, and
  no stream serves two of them (`OwnEnds`, `Held`). A contractor and its stream say
  the same about the contract (`Contracts`): no answer "executing" and no signed end
  before the disk is there, and `done` only when the disk is committed and gone.
- *The storage* (`StorageIInv`). What a process believes of the directories it works
  with, although it looked at them without the lock on the root, is `Fits`: its
  descriptor belongs to the directory by that name or to a removed one, the leafs on
  its list have no children, and from "check" on the pending directory has a disk and
  is locked by it. Leafs stay leafs while they are pruned, because children are made
  only by who holds the root (`RootInv`); commits and rollbacks, which go on without it,
  can only take a leaf's path away. An empty directory is locked only by a process that
  is about to write its disk (`EmptyInv`).
- *The disks* (`DiskIInv`). Each image that a contractor works with is "pending" and its
  own, and what else a target or a running machine has is "left" behind by a killed one
  (`Owned`). From the time at which it was seen down to the start, a machine has no
  power (`Still`); while it runs, its only unit is the image it has booted from
  (`Runs`); `Stage` relates the contractor's steps to power and root, so that an old
  image is neither served nor torn in the name of a new contract. `Written` is what
  makes a commit safe: while a machine with unwritten data runs, it has its session,
  unless it lost it, and the contractor cuts the power only after it saw none.

- *Downloads* (`DownIInv`). Paths have inodes of their own (`OwnInodes`), and while locks
  are not deleted, an open lock is the one that its path leads to (`OwnLock`), so that
  scripts past the lock are after different files. What a temporary file holds is the
  file's beginning (`Prefixes`), because the one transfer that writes to it goes on
  where it ends: that is `Proceeds`, which says for each step of a script what it knows
  of its curl and of its temporary file: that the curl has ended well, that the file is
  whole. A destination is whole because only a whole file is renamed, and nobody writes
  to what a destination leads to. In the behaviours of *one file* none of this is true,
  and of them the theorem says only that the state is well-formed.
- *Virtual machines* (`VmIInv`). `Fine` says of each process what it has, step by step:
  its account and the port ranges of the machines it has open, each its own
  (`HasLocks`); that all of them but the innermost, which is being made or purged, run
  with their disks (`HasMachines`); what there is under the name of the innermost one,
  which may be of an earlier machine of the account (`Staged`); and that an account
  holds what its own process made, from the time at which it is prepared (`Prepared`).
  A machine or a disk of a claim is under the name of its port range, in the account of
  the process that has the claim open, or was left behind (`Places`), which makes
  `NothingIsLeft` inductive. `ParentStays` follows from `HasParent`: between the
  registration of the snapshot and the creation of the child disk only machines that
  were left behind can be unregistered, and those take parents away.

- *Sessions of the iSCSI target* (`BaseInv`, `SessionInv`). `BaseInv` holds whatever is
  asked for: what is on the way on a connection is of the writes that were issued on it
  (`FitsUp`, `FitsTasks`, `FitsRunning`), a request of task management and its answer are
  there once (`ManagedOnce`), and the commands on the way have, in order, the numbers from
  the expected one to the last that was sent (`Numbers`), which is what
  `NumberIsExpected` needs. `SessionInv` holds where no reset is asked for. A write is in
  the pipe of its connection (`Pipe`) from the time at which it is issued until it was
  executed or aborted: as a command, then as a task that is pending, executed or both,
  in the order of issue (`Ordered`). What is in the pipe was neither
  acknowledged nor confirmed as aborted, no two writes there have one tag, and no later
  write is to the same place (`PipeInv`). So data finds the task of its own write
  (`DataInv`), a task holds its data as far as its offset (`TaskInv`), a response is for a
  write that is stored and waited for (`ResponseInv`), and the confirmation of an abortion
  for one that has left the pipe without a response (`ManagedInv`, `ConfirmedInv`). With
  resets the pipe is not what the initiator waits for, and that is the finding of
  `IscsiSession_reset`. One session is alive at a time (`OneSession`), because a machine
  logs in again when the old session has drained (`Overlap` is FALSE in `Hosts`).

Action properties and refinements are proved from the same invariants. What changes in
a model for a proof stays within what the code does: the type invariants of
`ArmMarket` and `MachineDisk` give every variable its set, `OwnEnds` is a promise of
its own in `ArmMarket`, and `Bounded` in `TaskOutput` is stated without a sum over the
updates, `TotalKept` in `FtViewBatch` without a sum over the statuses. `Download` and
`VirtualMachines` have types for every variable, and a new file needs an inode that is
free (`Room`; the run has more than can be in use).

What stays with TLC: liveness (`EventuallyFinished`, `PublishedJobFinishes`,
`EverythingReported`, `SessionEnds`, `EveryoneIsAnswered` and those of the suites),
which the prover does not do under fairness; and `ImageSafety` and `RunsAreMeasured`,
because `QcowImage` and `CleanUp` compute with folds over sets and sequences, whose
values for every input would need an induction over an operator that the installed
provers cannot instantiate.

## What is not shown

- Contents of tasks and updates: scripts, environments, wording and sizes. The
  refusal of messages over 1 MB is not modelled.
- Messages that are no JSON or lack keys: only ingresses and workers write to the
  streams.
- `ft:worker_state_updates` and the monitoring that reads it.
- The composition of the parts of the ARM farm in one state space: the modules meet
  at the interfaces named above, each checked with its neighbour as an abstraction.
- Redis, GitLab, PostgreSQL, Elasticsearch, VirtualBox, curl, TCP, the initiator and
  the machines themselves: they are modelled from what the code relies on. Redis is
  taken to keep what it acknowledged.
- Power cuts: a crash is the end of a process; what it gave to the system stays.
- Not modelled, and why: USB emulation (its modules import each other under two package
  names and its entry point imports a module that is not in the repository, so there
  is no program to be faithful to); the GitLab job watcher (one pass without state);
  build registry, monitoring, manual tasks, FT View's web UI (views and forms over
  what others keep); TestRail service, Git mirror and URL updater (scripts that copy
  between external services); the display of machine states; the runner (sequential);
  test doubles, long tests, provisioning and tools; the tests and the clients of the
  product's API, which are most of the repository's lines and whose correctness is
  that of another program.

## Plan

Done: the pipeline with its proofs; FT View's jobs and batches; output and logging;
the ARM farm with market, storage, disks, images, iSCSI and TFTP; downloads, clean-up
and virtual machines; the proofs of the TFTP server, of the task services, of market,
storage and disks, of downloads, virtual machines and sessions of the iSCSI target.

Left, in the order of use:

1. An abstract specification of a lent machine that `ArmMarket` implements, and of a
   disk that keeps what was flushed, which `QcowImage` implements.
2. The control API with DELETETARGET and the discovery of targets; login
   negotiation; commands of two connections to one unit.
3. Networks between virtual machines, and snapshots made from machines.
4. `file://` sources of downloads; directories as entries of the clean-up.
