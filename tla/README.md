# World: a TLA+ verification project

`world` is a Rust command-line program that gives coding agents *workspaces*: a
private address, a private `/tmp` and a network policy on the native host, or a
small Linux virtual machine run by Apple's `container` tool. There is no daemon.
Every `world` invocation is a separate process, and what the processes share is
on disk, in advisory file locks, in the kernel and in the VM provider. A process
may be killed between any two system calls, and the next one has to cope with
what it left behind. That is what this project is about.

Paths below are relative to the repository; `apple_vm.rs`, `silo.rs` and so on
are files of `crates/world-runtime/src/`, and `supervisor.py` is
`crates/world-runtime/guest/supervisor.py`.

## 1. Inventory

| Part | State it keeps | Operations | What is hard about it | Module |
|---|---|---|---|---|
| **VM lifecycle** (`apple_vm.rs`, called from `world-cli/src/main.rs`) | `registry.json`, `<instance>.runtime.json` (phase, generation), `<instance>.lock`, `registry.lock`, the host-wide `vm-admission.lock`, the provider's instances | create, get, show, setup, teardown, delete, exec, import | records read before a lock and used after it; a journal read once and written back several provider calls later; death at every await; provider calls that land after their caller gave up | `VmLifecycle` |
| **Guest execution** (`supervisor.py`, exec of `apple_vm.rs`) | `<token>.json` and `<token>.cancel` in `/var/lib/world/executions`, one cgroup per execution | run, cancel, status | the command's exit, a cancel file, the guest's deadline, the host's timer and a broken connection race; a launch may be delivered twice; detached children | `GuestExec` |
| **Import** (`import_stream.rs`, import of `apple_vm.rs` and `supervisor.py`) | the host tree while it is read, the stream, a staging directory, `/workspace` | walk, send, receive, publish | the source changes while it is read; publication between two emptiness checks; the client gives up while the guest goes on | `Import` |
| **State directories** (`silo.rs` 40-200) | three files in the old and the new default directory, two registry locks | migrate on first use, create, setup | up to three renames that are not one; a first look without a lock; two locks | `StateDirs` |
| **Native registry** (`silo.rs`) | `registry.json` per state directory; address directories and owner markers under `$HOME` | create, get, owned temp root | two registries share `$HOME` but no lock; entries and directories of older releases; empty markers left by a crash | `TempRoots` |
| **Linux namespace backend** (`linux.rs`, holders in `silo.rs`) | `holders.json`, the holder, its namespaces and mounts, its network monitor and pasta | start, record, verify, stop a holder; enter it | a pid may be reused; death between starting a holder and recording it; three processes and three pipes that must all let go of each other | `LinuxHolder`, `HolderStart` |
| **Command supervision** (`run.rs`, spawning in `linux.rs`) | the processes of one execution, its output tasks | run with deadline, cancellation and drain | exit, deadline and cancellation race; output after the exit; descendants that left the group | `Supervise` |
| **Proxy and policy** (`proxy.rs`, `policy.rs`) | the routes, listeners, connections and relays of one execution | prepare, serve, authorize, relay, close | a connection accepted while closing; a name that points elsewhere later | `Proxy` |
| **Port forwarding** (`forward.rs`) | one accept task per forwarded port, remembered socket owners | scan, own, bind, relay, stop | two executions share an address; a remembered owner; a replaced namespace | `Forward` |
| **Temporary-path rewriting** (`crates/world-tmp-path`) | none (pure) | map, map_at, unmap | decides from text what the kernel will resolve | `TmpPath` |
| **File-system reference model** (`crates/world-fsmodel`) | one tree read in two views, a current directory, descriptors | lookup, operations and observations on two kernels | long sequences of legal calls; links, `..`, removed and moved directories | `FsModel`, `FsOps` |
| **Fuzz driver** (`world-cli/examples/fuzz_driver`) | the run's own two directories | guard every call, compare | a call must not leave the run's directories | `FsDriver` |
| **macOS alias backend** (`silo.rs`) | loopback aliases | set up and tear down an alias | privileged external commands | - |
| **Command line** (`world-cli/src/main.rs`) | none | parse, dispatch | its get-then-operate order | in `Begin` of three modules |
| **silo-bind** (`vendor/`) | - | bind rewriting | vendored | - |

How the parts interact. `main.rs` loads a workspace record with no lock and
passes the value to an operation; the operation locks, re-reads and compares.
For a VM it then talks to the provider through the `container` command, with a
timeout on every call; exec and import start `supervisor.py` inside the guest
over `container exec`, and exec later asks it for the recorded result. For a
native workspace the first command migrates the default state directory;
every setup, and on macOS every run, begins with `owned_temp_root`; on Linux
setup starts a namespace holder (which forks a monitor, which runs pasta), and
exec starts the workload in its namespaces under `run.rs`, with the proxy when
the policy names destinations and with the port forwarder. Both kinds of
workspace use the registry lock of `silo.rs`. On macOS the interposers put every
path through the temp-path rewriting, whose tests and fuzz driver compare it
with the file-system reference model.

What makes each part correct:

- *VM lifecycle*: an operation works on the VM that is registered under its
  name; no journal update is lost; a VM that is in use is not stopped or deleted
  by World; a disappeared VM is never silently replaced by an empty one, nor
  shown as new by a `show` that could know better; a pending deletion is final; nothing remains at the provider that
  no workspace names; one VM runs at a time; nobody holds the registry lock for
  ever.
- *Guest execution*: the command runs at most once; an exit code is reported
  only when every process of it is gone and only if it is what happened; the
  deadline holds when the host is gone.
- *Import*: `/workspace` has the whole of one stream or none of it; what the
  client is told is true; nothing a command made is removed; the stream says what
  the source was.
- *State directories*: no registry, holder record or identity is lost or paired
  with the wrong one by concurrent commands or a crash between two renames.
- *Native registry*: no two workspaces, of any registry, run with the same
  `/tmp`; a workspace is not moved away from its own files; roots of older
  releases are taken over only by the workspace that records them.
- *Linux backend*: a signal only ever reaches the recorded holder; a holder that
  stays is recorded, an unrecorded one ends, and with it all it started; a holder
  and the commands that join it see the workspace's own temp root as `/tmp`.
- *Supervision and proxy*: the reported result is what happened; when close
  returns nothing of the proxy is left; relays go only where the policy allows;
  every execution ends and leaves no process behind.
- *Forwarding*: an execution forwards its own workload's ports; after any change
  the forwards become right again.
- *File systems*: the tree stays a tree whatever is renamed over what; the calls
  agree with each other; what the rewriting hands to the kernel is what the
  process meant.

The hazards of `PROJECT.json` list, at its line, each thing in this code that a
test would hardly reach, with the properties that cover it.

## 2. The modules

```
abstract             detailed                     proofs               runs
WorkspaceRegistry <- VmLifecycle               <- VmLifecycleProofs    vm_lifecycle, vm_operations,
                                                                       vm_import_race
Execution         <- GuestExec                 <- VmLifecycleProofs    guest_exec
                     Import                    <- ImportProofs         import
                     StateDirs                 <- DirProofs            state_dirs
                     TempRoots                 <- TempRootsProofs      temp_roots
                     LinuxHolder               <- LinuxHolderProofs    holder
                     HolderStart               <- LinuxHolderProofs    holder_start
                     Proxy <- Supervise        <- SuperviseProofs      supervise
                     Forward                   <- ForwardProofs        forward
FsTree            <- FsDriver (EXTENDS TmpPath, <- DirProofs, FsProofs  fs_driver
                        FsOps, FsModel)
```

In every module a step is the code between two points where another process,
thread or task can look: a lock, a file that is created or replaced, a call of
the provider, an await. Where the code can be killed it may be killed between
any two of its steps, which releases its file locks (they go with the file
descriptors) and forgets its memory. An operator whose comment begins with
*Mutant:* is a plausible bug of the definition below it; no specification uses
it. Two proof modules are about two parts that share nothing: `VmLifecycleProofs` about
`VmLifecycle` and `GuestExec`, `DirProofs` about `StateDirs` and the file systems
(`FsTree`, and `FsDriver` with what it extends). Hence `GuestInit`, `GuestNext`,
`GuestSpec` and `FsInit`, `FsNext`, `FsSpec`. `FsProofs` extends `DirProofs` and goes on
about the file systems.

### VmLifecycle

*State and code.* `registry` is `registry.json` seen as the owner (the random
id `create` draws, which names the instance, the journal and the lock file)
registered under each workspace name. `journal[o]` is the lifecycle journal; a
missing file reads as phase `legacy`, as `lifecycle()` does. `exclusive`,
`shared`, `admission`, `regLock` are the file locks. `instance`, `jobs` and
`late` are the provider: the state of each instance, what runs inside it, and
the calls whose client is gone but which may still be carried out. The rest is
the memory of each process: `handle` is the `Vm` value it loaded, `copy` its
`Lifecycle` value, `records` its registry, `saw` whether its last `inspect` found
an instance. `used`, `attempted` (a create may have been sent), `known` (one had
been sent when `show` read the journal) and `landed` (the late creates and starts
that instances are there, or run, by) are history, read by properties only,
except that `used` also keeps random ids from being drawn twice.

| Actions | Code |
|---|---|
| `Begin` | `main.rs` dispatch; `get` of the record without a lock |
| `OperationLock`, `Check` | `operation_lock` (shared for exec, exclusive otherwise, never waits), `check_registered`, the phase test of each operation |
| `CreateLock`, `CreateJournal`, `CreateRegister` | `create`: registry lock, first journal, registry write |
| `SetupAdmit` ... `SetupProbe` | `setup`: admission lock, inspect, list, create, generation, start, install and probe, each journal write where the code has it |
| `TeardownInspect` ... `TeardownSave` | `teardown` |
| `DeleteInspect` ... `DeleteRegister` | `delete` |
| `GuestInspect`, `GuestLaunch`, `GuestDone` | `exec` and `import` seen from the lifecycle; their insides are `GuestExec` and `Import` |
| `ShowRead`, `ShowInspect` | `show`: the journal, then the provider, without a lock around the two |
| `Fail`, `Kill` | any error return, timeout or signal; `Kill` ends a wait for the registry lock, which has no timeout |
| `LateLand`, `VmStops`, `VmLost`, `JobEnds` | the provider and the guest (external) |

`Status` is what `workspace show` prints, from the journal it read and the
inspection it made later; when the inspection fails it prints "unknown" (`Fail`).
The provider is external: it is modelled by the calls `apple_vm.rs` makes and by
the answers that code distinguishes. Its own consistency (an instance cannot start when absent) is
assumed; its promptness is not.

`WorkspaceRegistry` is what the processes promise together: names are bound to
fresh owners one at a time, an owner is unbound once and never bound again,
whatever the processes read, copy, rewrite and leave undone.

### GuestExec

One execution: the host process, up to two supervisor processes of the same
request (the provider may deliver a launch twice), the command `Main` and the
detached processes it forks (`Strays`). `result` and `cancel` are the two files
named after the execution's token, `tasks` the members of its cgroup, `doomed` those that
were sent SIGKILL, `status` how `Main` ended, `expired` whether the guest
deadline has passed, `up` the VM, `client` the host's `container exec`. The
supervisor's steps follow the run mode of `supervisor.py`: create the result
file (`Claim`), make the cgroup, look for an early cancel, start the command, poll,
reap, drain, write the outcome, and the except and finally clauses.
`Raise` is an exception in any of them with the handler the code has; the host's
steps follow `exec` in `apple_vm.rs`, with its timer, its cancel call and its
status call. One detail is left out: a write to `cgroup.kill` that itself
fails while an exception is being handled.

`Execution` is the promise: started at most once, concluded at most once, and
concluded only when nothing of it is alive.

### Import

Several client calls, one process in the VM for each, a source tree that others
edit, and a command in `/workspace`. `nodes` is the source: inodes with a kind,
data and a modification time in ticks of the file system's clock (two changes in
one tick leave one time, which `racy` remembers). `walk` is the walk of the
client that holds the VM's exclusive lock: a stack of directories being read,
the inode and time of the file being read, what was read so far.

| Actions | Code |
|---|---|
| `Sources` | others: write a chunk, truncate, unlink, replace a name |
| `Walker` (`List`, `Stat`, `ReadLink`, `Open`, `Read`, `EndFile`, `EndDir`, ...) | `import_stream::walk`, with `O_NOFOLLOW`, the inode comparison and the checks for change after each file and directory |
| `ClientStep` | `import` in `apple_vm.rs`: lock, snapshot, send, answer, the 600 s timeout, which gives the lock back |
| `GuestStep` | `import_workspace` in `supervisor.py`: first emptiness check, staging, each record with its checks, the final check, rename, sync, the removal of the staging directory |
| `Workload`, `Crash` | a command makes files in `/workspace`; the VM crashes |

The encoding of records, names, modes and size limits are left out. Two
assumptions: the process in the VM dies only with its VM (killed alone it would
leave its staging directory, of which `StagingRemoved` says nothing), and `Sync`,
the `fsync` of `/` after those of the files, makes the whole published tree
durable, the directories inside it included, as journaling file systems do. *Bound:* the
source changes only while it is read and no stream is being received, with which
it shares nothing.

### StateDirs

`registry`, `ident` and `holders` are the three files in the old and the new
directory, each described by the registry (or identity) it belongs to; `trusted`
says whether the old directory passes the ownership test. A command looks
(`Look`, `LookId`, without a lock), takes both locks in the order new, old
(`LockNew`, `LockOld`), looks again (`Decide`), renames identity, registry and
holder records (`MoveId`, `MoveRegistry`, `MoveHolders`), and then works
(`Use`, `Record`, `Relock`, `Holders`) in its directory, which `--state-dir` may
have named. `Crash` is a death between two steps; `torn` remembers one between
the first two renames. `owners` is history: under which identities each registry
has recorded temp roots.

### TempRoots

Any number of registries (`States`) of one user. `reg` is the registry of each,
`lock` its lock, `dir` the address directories under `$HOME`, `marker` the owner
file of each directory (`Blank`: created and not yet written). `create_in`,
`get_in` and `owned_temp_root` are followed from their first look at the registry
through `claim_root` and `mark_root` to the save; `Scan` is `allocate` and the
loop over the remaining addresses. `task` remembers which function is at work,
`aim` whether it tries to keep the recorded address or to move.

Assumptions of the module: the random identity of a registry is its state
directory (identities collide with probability zero; that two registries never
share one is the subject of `StateDirs`); the user deletes a root only while no
command works on it; `Scan` may take any later free address (Linux takes the least, macOS
skips those that answer as aliases; both are among the choices); the checks of
the workspace directory, which change nothing, are left out; in Linux setup the
lock is taken again after `owned_temp_root`, which belongs to `LinuxHolder`.

### LinuxHolder

`holders` is `holders.json`; a record is a member of `Births`, which stands for
what its start time and namespace inodes tell apart, and `pid` remembers the pid
in it. `at` is what each pid names now, `stage` how far a holder is: *born* (it
has reported its pid and waits for the first byte), *waiting* (it has entered its
namespaces, mounted its root, reported, and waits for the second), *holding*,
*zombie*, *gone*. `sent` counts the bytes its client has sent, `killed` holds the
targets of a SIGKILL that have not died yet. `inode` numbers the directories that
were made at a temp root's path, so that a root that was deleted and made again
is told apart, and `foreign` are those another registry made. A client's `path`
is the temp root of its `World` value, `map` its copy of the records, `pin` what
its pidfd names, `started` the holder it is starting.

| Actions | Code |
|---|---|
| `Begin`, `OwnRoot`, `Lock` | `get`; `owned_temp_root`; `lock` and `read_map` of `setup` and `teardown` |
| `Verify`, `Judge` | `Holder::verify`; `legacy`, `temp_is` and the network tests of `setup` |
| `Pin`, `Recheck`, `Signal` | `stop_holder`: `open_pidfd`, `open`, `pidfd_send_signal` (or `kill`) |
| `Forget` | the end of `teardown` |
| `Fork`, `Acknowledge`, `Observe` | `start_holder` |
| `Persist`, `Commit`, `HolderLost` | `setup` after `start_holder`; a send or read that fails because the holder died |
| `Find`, `CheckTemp`, `Join`, `Done` | `linux_exec` up to the namespaces it joins |
| `Enter`, `Hold`, `Leave` | `holder_process` and `hold` |
| `Fail`, `Dies`, `Reap`, `OtherRuns`, `RemoveRoot`, `ForeignClaim` | errors and kills; the kernel, the user, another registry |

Initially there may be holders of the release that had no private `/tmp`.
Left out: the tests in `setup` that restart a holder for the sake of pasta are
the free choice of `Judge`; init reaps; the intermediate process of the double
fork; `/var/tmp`, which is mounted and compared together with `/tmp`. Errors of
`verify` other than "gone" are `Fail`, which keeps the record, as in the code.
Assumption: the user deletes no temp root while a setup is at work on it. Without
it a root may disappear, and be claimed by another registry, between the claim
and the mount; the code does not guard against that.

### HolderStart

The inside of `Fork` ... `Commit` and of the stop, for one holder: the caller,
the holder, the monitor the holder forks and the pasta process the monitor runs.
`report`, `ack` and `life` are the three pipes, with the bytes under way;
`lifeOpen` is the holder's end of the third. `subreaper` says whether the caller
adopts orphans (`PR_SET_CHILD_SUBREAPER`), `wants` whether pasta is installed,
`egress` what setup has recorded. A write to a pipe nobody reads kills the
writer, because the child restored `SIGPIPE` to its default. The caller, the
holder and the monitor may be killed between any two of their steps (`KillCaller`,
`KillHolder`, `KillMonitor`) and fail where the code can; pasta may hang or end at
any time. Nothing ties pasta to its monitor but the monitor's own `kill`
(`linux.rs:740-760`), so a monitor killed while it watches leaves pasta running;
`orphaned` remembers that, and is read by properties only.

### Proxy and Supervise

`Proxy` has the resolution of the policy's destinations (`Resolved`), the accept
loops, the tracked tasks that serve a connection and those that relay, and
close. The environment changes the DNS (`Rebind`) at any moment. A connection is
accepted in one step and tracked in the next; its requests go on after the token
is cancelled, because the tasks' `select` is not biased.

`Supervise` EXTENDS it with one execution, on one of four backends: `network`
(Linux, with a policy), `silo` (Linux, in a holder's namespaces), `seatbelt` and
`inject` (macOS). `pc` follows the supervisor: prepare and spawn, serve, the
biased `select` over cancellation, deadline and exit, close of the proxy, the
kill and reaping of the process group, the drain of the output, the injected
library's acknowledgment. `alive` are the processes (on Linux a wrapper outside
and an init inside a new PID namespace; strays that left the group), `doomed`
those that were sent SIGKILL, `fwd` the two output tasks. `Abandon` drops the
future at any await. An error of `child.wait` (`ECHILD`: somebody else reaped the
child) and a recycled process-group ID are left out; on seatbelt the proxy
serves from before the spawn, as in the code.

### Forward

Any number of executions of one workspace, each with its scanning task, on the
workspace's one host address. `socks` are the listening sockets in the
namespaces, `table` what a scan has read of them, `ours` the owners it remembers
by inode, `tasks` the accept tasks, of which an aborted one keeps the address
until it is dropped (`Freed`). `Setup` and `Teardown` replace the namespace under
running executions, `Listen` and `Unlisten` are the workloads. `blind` is an
execution that could not find its workload's PID namespace and forwards every
listener. What a relay copies is left out. Bounds: the number of sockets and of
namespaces made in a behaviour; a socket's inode is never used twice.

### FsTree, FsModel, FsOps, TmpPath and FsDriver

`FsTree` says what the reference model's nodes are to the rest of it, without
paths, links, descriptors or platforms. A tree is one value: nodes that are made
one after the other, the directories among them, names, parents, and three
relations between a tree and the next. `NodeMade` puts a node under a free name
into a live directory, `NameRemoved` takes the name of a node without names in it,
`NodeMoved` gives a node one name for another, in place of a file or an empty
directory, never below itself. `FsDriver` implements it (`EditsOfATree`): `TreeOf`
reads `count`, `dirs`, `up`, `entries` and `dead` off `Model.nodes`, and `above`,
the ancestors of each node, off the parents, which is what `is_descendant` and
`is_detached` compute when they are asked. Which directory and which name a call
means, and whether it may, is `FsModel`'s.

`FsModel` is `Model` of `world-fsmodel`: nodes, and lookup in the physical and the
virtual view with links, final slashes, `..`, removed directories and the
different error orders of macOS and Linux. `FsOps` is `Model::apply`: every
operation that changes the model (mkdir, symlink, bind, mkstemp, open, opendir,
write, read, close, unlink and rmdir, rename, chdir) and the observations (stat,
readlink, list, realpath, getcwd, connect). What the code computes by a loop or by
calling itself is a recursive function on where the computation is, so that the
modules can be proved about: a walk (`Walks`: the node it is at, the names that are
left, the links it has followed), a chase of a last link or a guard's (`Chases`),
the scan of a text (`Scans`), the parents of a node, a name from the root. A component is
a member of the constant `Component`.
`TmpPath` is `map`, `map_at` and `unmap`: the scan of the components (`Scanned`),
the `..` that may cross a link and is put to the kernel, and the rewriting.
`FsDriver` drives them: any sequence of calls that passes the guards of `exec.rs`
(`Guarded`, `Permitted`), on either platform, with what the interposers would hand
to the kernel next to what the model answers. Files are their length, names their
length class; case folding, whole-path limits and the printing and parsing of
operations are left out.

## 3. What the runs check

| Run | Instance | States | What it shows |
|---|---|---|---|
| `vm_lifecycle` | 2 names, 2 owners, 2 clients; create, setup, delete; generations up to 1; 1 late call; symmetry | 1,125,000 | `InstancesTracked`: every instance belongs to a registered workspace and at most one runs, but for those that a late create made or a late start runs. `RegistrySpec`: the processes implement `WorkspaceRegistry` |
| `vm_operations` | 1 name, 1 owner, 2 clients, all seven operations, generations up to 2, 1 late call, fair | 434,000 | `HandlesStayValid`, `LossIsVisible`, `NoSilentReplacement`, `JournalMovesForward`, `OperationsEnd` (an operation ends, or waits for the registry lock, which always comes back) |
| `vm_import_race` | 1 name, 1 owner, 2 clients; create, setup, exec, import | - | `CommandsNeverRaceImport` is **violated** (see the finding) |
| `guest_exec` | 2 launches, 2 strays, exit codes 0 and 7, supervisors may be killed, fair | 69,000 | `AnswerMeansGone`, `ReportsAreTrue`, the refinement `ExecSpec`, `DeadlineEndsCommand`, `HostEnds` |
| `temp_roots` | 2 registries with 1 workspace id each, 2 addresses, 2 clients, fair | 464,000 | `NoSharedRoot`, `RootsStay`, `SearchEnds` |
| `state_dirs` | 2 clients, 2 registries, 3 identities, fair | 276,000 | `SharedOnlyIfTorn`, `MovedTogether`, `CommandsEnd` |
| `holder` | 1 workspace, 2 clients, 2 holders on 1 pid, 2 roots, 2 directories; all operations; pidfds; symmetry | 459,000 | `HoldersAreRecorded`, `TempIsPrivate`, `KillsOnlyTheRecorded` |
| `holder_start` | the module has no parameters: every behaviour of one start and stop, fair | 3,085 | `ProcessesAreRecorded`, `CallerReturns`, `NothingIsLeft` |
| `supervise` | 4 backends, 1 name, a public and a private address, 1 listener, 1 connection, 1 chunk for each stream, fair | 488,000 | `ResultIsTrue`, `QuietAfterClose`, `RelaysAuthorized`, `SupervisionEnds` |
| `forward` | 2 executions, 1 port in both families, 2 sockets, 2 namespaces, fair | 1,060,000 | `ForwardsAreOwn`, `ForwardingSettles` |
| `import` | 2 imports, 1 edit with 1 new inode, a directory with a file of two chunks, fair | 488,000 | `ImportIsAtomic`, `SnapshotIsTrue`, `NothingOverwritten`, `ImportEnds` |
| `fs_driver` | both platforms; 6 operand paths, 5 link targets, 13 probes; 2 nodes made, 1 descriptor, 4 links to a lookup | 11,010 | `TreeSound`, `NamesLead`, `HostKept`, `CallsAgree`, `MapsAgree`. `EditsOfATree`: the calls implement `FsTree` |

Each property of each passing run has a mutant of a mapped definition that
makes TLC find it violated under the run's own configuration.

*Why these bounds.* All interference in `VmLifecycle` is between two processes
over one VM, one name reused by a second VM (hence two owners for one name), or
two VMs over the registry file and the admission lock (hence two names). Two
generations, in `vm_operations`, let a setup follow a setup and reach the limit; the
properties of `vm_lifecycle` are not about generations, and one lets each VM be
created and started. One late call lets a call outlive its client and land in the
middle of the operation of another, or after it.
In `GuestExec` the second launch is the duplicated delivery, and two strays let
one die before and one after the main process. In `TempRoots` two registries with
one id each meet only in `$HOME`, and two addresses let a workspace find its
address taken and the other one free, or none; that two ids of one registry get
different addresses is proved (`AddressesAreDistinct`). In `StateDirs` two
registries are the one that moves and one that a command with an old look creates
in its place; the third identity is drawn after both. In `LinuxHolder` two holders
on one pid let a recorded holder die and its pid go to another holder or process;
two directories at two paths let a root be deleted, claimed by another registry
and replaced. Two workspaces meet only in the records file, which every writer
rewrites whole under the lock: one workspace with two clients has the same races,
and the theorem is for any number. In `Supervise` one connection can be accepted,
tracked and relaying in turn while another takes its slot later; one chunk for
each stream tells complete output from cut output. In `Forward` two executions
share the one address; the second socket is another execution's, the other
family's or the reopened one, and the second namespace is the replacement. In
`Import` one edit can hit any node at any step of the walk; two would only hide
the first (`racy`). In `FsDriver` two nodes make a link to a directory, a
directory in a directory, a chain of dangling links, a directory that is removed
or replaced while it is the current one; probes go up through `..` across each. A
link to the host's `/private` is there because a guard that took a path as it is
written would let it be used to move what is the host's.
Every initial state of an older release that fits the instance (entries without
roots, directories without markers, VMs without journals, holders without a
private `/tmp`) is an initial state.

*Late calls.* A `container start` that timed out on the host, or whose client was
killed, but that is carried out a minute later, starts a VM that no lock guards, and
a late `create` may come after delete has dropped the record. The code does not
claim otherwise. `InstancesTracked` therefore excepts an instance only as long as it
is there, or runs, by such a call (`landed`): a stop or a removal ends the exception
(`Undone`), and everything else that the clients do around a late call must leave
every instance registered and one running. All properties of the lifecycle are
checked with a late call, and proved for any number of them.

*Deadlock.* `guest_exec`, `holder_start`, `import`, `forward` and `fs_driver` switch
the deadlock check off: one execution, one holder, the bounded number of imports,
sockets and nodes come to an end and nothing further happens. All other runs
check it.

*Fairness.*

- `VmLifecycle`: a client that can step or fail does so, because every provider
  call and probe is wrapped in a timeout and the operation lock never waits;
  nothing is assumed of a client that waits for the registry lock, and no user or
  provider action is fair.
- `GuestExec`: the host steps (each of its waits has a timer), the deadline
  passes, supervisors that live are scheduled, and SIGKILL takes effect; no
  exception, cancellation or exit of the command is assumed. Only the kill of the
  very supervisor that polls the command excuses the guest's deadline, which nobody
  else enforces; a second launch that lost the claim, or a supervisor that came to
  its end, does not.
- `TempRoots`: a process that is not blocked on a lock goes on. `StateDirs`: the
  same, and the kernel grants a `flock` to one waiting process after the other
  (strong fairness of the four steps that wait), since other commands may take
  the lock again and again.
- `HolderStart`: the caller, the holder and the monitor are scheduled as long as
  they are not killed; no kill is assumed; pasta owes nothing, and the caller's
  wait for it has a 5 s limit in the code.
- `Supervise`: the runtime polls its tasks, timers fire, SIGKILL is delivered;
  the workload, its strays, the reader of its output and the proxy's peers owe
  nothing.
- `Forward`: the executor polls every task, aborted tasks are dropped, and
  `run::wait` ends (which `SupervisionEnds` shows); workloads and setups owe
  nothing.
- `Import`: the client's walk, sending and timer go on; the VM need not.

`KillsOnlyTheRecorded` is claimed for kernels with pidfds. Before Linux 5.3 the
code signals by pid and says itself that a pid reused between its last check and
the signal could be hit (`linux.rs:2663`).

*Finding.* The comment at `apple_vm.rs:643-644` says: "The exclusive
lifecycle lock prevents commands from racing extraction/publication." The lock is the host
process's: when `exec` gives up (its cancel or status call failed, or it was
killed) its shared lock goes, while the command may go on in the guest until the
guest's deadline. The next import then passes its lock, the journal still says
ready, and it streams into `/workspace` beside the old command.
`vm_import_race` shows the shortest such behaviour. `ImportIsAtomic` and
`NothingOverwritten` therefore let a command work in `/workspace` throughout: what
the lock does not exclude, the second emptiness check and the rename handle.

*Observations.* Modelling also met the following; the properties above
state what does hold.

- A process that dies between renaming `registry-id` and renaming
  `registry.json` may leave two registries that record temp roots under one
  identity, although an identity "is never inherited by a new registry": a command
  whose unlocked first look is older can create a registry in the new directory
  and find the identity there (`silo.rs:98-104`). Hence `SharedOnlyIfTorn`.
- The temp-path mapping counts the `..` of the text. When a link inside the
  private root leads upward, the count is too low and a path is mapped, or left
  alone, although the kernel would resolve it elsewhere. `MapsAgree` is stated for
  links that lead to the same depth or down (`LinksDescend`).
- `forward.rs:9-13` says that a connection is always relayed by the exec that runs
  its server. When a server closes and another execution opens the same port, the
  first one's accept task stays until its next scan and relays to the new server.
  Hence `ForeignOnlyUnseen` and `ForwardingSettles`.
- If the network monitor is already gone when the holder writes the start byte
  (`start_pasta`, `linux.rs:829`), the holder has `SIGPIPE` at its default and
  dies, and setup fails instead of falling back to loopback (`StartPasta`).
- `show` reads the journal before it asks the provider, without a lock. If a first
  setup creates the VM in between and the VM is then lost, `show` answers "created"
  for it (`apple_vm.rs:329-351`); the next `show` says "missing". Hence `known` in
  `ShowNeverHidesLoss`: it speaks of creates sent before the journal was read.
- The monitor runs pasta with `--no-netns-quit` (`linux.rs:545`) and ends it itself
  (`linux.rs:740-760`). A monitor killed by SIGKILL leaves pasta running: if the
  holder is then in `start_pasta`, it reaps the monitor and reports no egress, and
  setup records loopback only while pasta may connect; later, teardown returns and
  pasta remains. Hence `orphaned` in `LoopbackHasNoPasta`, `StopIsComplete` and
  `NothingIsLeft`.
- An import of an empty directory leaves `/workspace` empty; an import that gave
  up earlier and was still in the guest may then put its tree in place.
  `AnswersAreTrue` allows for it.

- `open(O_CREAT)` through a link whose target ends in a slash makes the file that the
  target names without its slash (`resolve_for_create` drops it), and the link then
  does not lead to it; so does `x/.` with a final slash. Hence `CreatedIsFound`
  speaks of operands without a final slash, while no link's target has one.
- `connect` refuses a name that does not fit a socket address before it looks, so
  `CallsAgree` leaves such names, and a last `.`, to the other calls.

## 4. What is proved

TLAPS checks the proofs in the eight `*Proofs` modules for every value of the
constants. For each specification there is one inductive invariant, a conjunction
of named parts, shown to hold initially and to be kept by every action; the
theorems follow from it.

**VmLifecycleProofs** (assumptions: the operations used are among the seven; the
generation limit and the late-call bound are naturals; `None` is not an owner,
client or name). `TypeCorrect`, `RegistrationIsHeld`, `CopiesAreCurrent`,
`ReadinessIsHeld` (together `HandlesAreValid`), `JournalComesFirst`, `LossIsShown`
(together `LossesAreVisible`), `ReplacementNeedsConsent`, `JournalsMoveForward`,
`RegistryRefined` and `InstancesAreTracked`. None of the
invariants is inductive by itself; the inductive invariant adds

- `ClientShape`, `LocksHeld`: where a process is determines what it loaded and
  which locks it holds, so two exclusive holders are the same process;
- `RegistryIsInjective`, `OwnersAreDrawn`, `UndrawnIsBlank`: owners are fresh
  when drawn, and one that was not drawn has no journal, lock or instance;
- `EditorsAreCurrent`, `FreshIsPrivate`: the registry copy of the process that
  holds the registry lock is the file; the owner it is creating is known to
  nobody else;
- `DeletionMarked`: delete drops the record of a VM only after the journal says
  deleting, and so a dropped owner stays retired (needed for the refinement);
- `CreatedMeansUntouched`: phase `created` means that no provider create was
  ever sent. This carries `NoSilentReplacement`;
- `ShowRemembers`: what `show` read of a VM that a create had been sent for is not
  `created`, whatever becomes of the file afterwards. This carries
  `ShowNeverHidesLoss`.

`RegistrationIsHeld` rests on the exclusion of the operation lock:
only delete unbinds a name, and only while it holds the exclusive lock of the
owner; `CopiesAreCurrent` rests on the same exclusion for the journal.
`InstancesAreTracked` adds `Admitted` (between the empty list and the start no VM
runs but by a late start, because the one setup that is past admission is this one)
and `GoneBeforeDropped` (an instance that delete found gone comes back before its
record goes only by a late create).

**VmLifecycleProofs**, `GuestExec` (assumptions: `Main` is not a stray, exit codes are below
124, `SupervisorsDie` is a Boolean). `GuestTypeCorrect`, `AnswerIsFinal` (for
`AnswerMeansGone`), `ReportsHold` and `ExecutionRefined`, from `OneClaimant` (at
most one launch gets past the claim, because creating the result file fails for
the second), `Progress` (what the place of the claimant says of the command, its
tasks and the result), `AnswerShape`, and for the reports `Reported` (what is in
the result file is the status of the reaped command, or a cancellation that was
asked for).

**ImportProofs** (assumptions: the bound on edits is a natural, new inodes are
not those of the tree, `0` is no import). `ImportsAreAtomic`, `NeverOverwrites`,
from `Tree` and `WalkOK` (the source, and what the walk holds of it), `Shape`,
and for each import `Stream` (its records are well formed and a finish
is the last), `Receiving` (what is staged is what the records
received so far say), `Published` (what is in `/workspace` came whole) and `Told`
(what the client knows). The argument of `AllOrNothing` is that the guest renames
only after a finish record whose count is right, on an empty `/workspace`, a tree
that is equal to the contents of the stream.

`SnapshotsAreTrue` (for `SnapshotIsTrue`) adds `Snap`, about a source that
changes between any two reads of the walk. The source is not any tree: it starts as
that of the run, a directory with one directory that holds one file, and becomes
what `MaxEdits` changes, any number of them, make of it; the shape is a definition
of `Import` and not a parameter. `Clock` says that no inode is newer
than the clock. While an inode shows the time that was read first (`Still`),
what was `Recorded` of a directory is in it and what is in it is recorded or
still to come (`Listed`), the entry at work leads to the frame or file above it
(`Under`), and what was read of a file is its beginning (`Reading`). A change
gives its inode a later time, unless it meets another in one tick (`racy`), so a
final look at the time that finds the first one makes all of it true.

**DirProofs**, `StateDirs` (assumptions: the two bounds are positive, `None` is no
client). `TypeCorrect`, `IdentitiesAreOwn`, `FilesMoveTogether`, from `Locked`
(who works on a directory holds its lock), `Decided` (what was decided under the
locks stays true until the renames are done), `Known` and `Kept` (where each
registry is), `Holding` (which records are whose), `Drawn` and `Unshared`
(identities belong to one registry, but between two renames, and unless a process
died there).

**DirProofs**, `FsTree` (no assumption). `TreeTypeCorrect` and `NodesStayATree`
(`OneTree`): from every node the parents lead to the top and never back, `above`
is exactly what they lead to, a node has at most one name and that in its parent,
a directory is without a name just when it was removed, and a removed one is
empty. The tree with its types is inductive. The step that needs an argument is
`NodeMoved`: what is below the moved node exchanges its ancestors above it for
those of the new parent, and since that parent is not below the node, no cycle is
closed; what is replaced is empty, so nothing is left below a removed directory.

**DirProofs** and **FsProofs**, `FsDriver` (assumptions: the bounds are naturals and at
least one link may be followed; a name that is too long for a file is too long for
a socket, and the names of the first model are not; the temp root is one component,
none of the host's names at the top, `.` or `..`; operands, link targets and probes
are paths). For any paths, link targets and limit on links, and for sequences of calls
of any length (the bounds stop the run, not the proof), each safety property of the
run but `MapsAgree`:

- `ModelIsATree` (`TreeSound`) and `CallsEditATree` (the refinement, `EditsOfATree`);
- `NamesLeadWhereTheySay` (`NamesLead`), from `HostTempIsOutOfReach`: no lookup of a
  process ends on the host's temp directories; `CreatedFilesAreFound`: what
  `open(O_CREAT)` made is what its path leads to; `RealpathNamesTheNode`: the name
  realpath gives leads, through no link, to the node it was asked about;
- `CallsAgreeAlways` (`CallsAgree`), from `CallsGiveOneAccount`: connect, readlink,
  opendir and list agree with stat and lstat; `ViewsShowOneTree`: what is listed below
  `/tmp` in the process's view is what is listed below the root in the host's;
- `GuardsKeepTheHost` (`HostKept`): calls that pass `parent_allowed` and
  `guarded_chain` move and remove nothing that was the host's.

The inductive invariant is `Sound`: `ModelShape` (a model has its fields, a
node its own), `ModelOK` (kinds, lengths, positions; the current directory is a
directory; a descriptor is for a directory just when it says so), `OneTree` of
`TreeOf` the model, and `Plain` (a directory under which another is mounted is empty
and was there first; nothing is open on it and no process is in it, since a
lookup in the process's view never ends on it). `RealpathNamesTheNode`, `ViewsShowOneTree` and `GuardsKeepTheHost` add `Hosted`:
what stood first still stands, each node with its kind, link and mounts, and under
its name unless it is one of the run's own two directories.

*That the nodes stay a tree.*

1. `AncestorsAre`: where the parents lead to the top and never back, the recursive
   function that `is_descendant` and `is_detached` stand for exists, and its value
   is what the tree says is above.
2. `AddEdits`, `RemoveEdits`, `MoveEdits`: the three ways in which the code edits
   nodes are the three steps of the tree, given what each operation checks first.
3. `PlaceIs`, `CreateAtIsGood`, `TrailIs`, `OwnerIs`: what a lookup promises. A
   place where something is to be made is in a directory; an entry that is to be
   removed or moved is there, also when it was reached through a link and a slash.
4. One lemma for each operation (`MkdirKeeps` ... `RenameKeeps`): it `Keeps` a sound
   model, that is, the next model is sound and its tree is edited once or alike.
5. `MacSound` and `LinuxSound`: the first model is sound, one row for each node.

What the layers together say is that the checks are enough in every order and on
every path: no combination of a link, a slash, a removed current directory or a
descriptor leads `rename` to make a directory its own ancestor, or anything to be
made where it could not be found.

*Which node a lookup finds.* A lookup follows names, links and `..` for a number of
steps that depends on the data. The prover has no induction of its own for that;
it has sets, and a set of naturals has a least member. `RankInduction` says so of
anything that has a rank, and `RecursionExists` makes from it the function that a
recursive definition means, glued from functions that satisfy it up to a point. The
ranks are: links
left to follow, then names left (`WalkerIs`, `ChaserIs`, and `GuardIs` for the
guard's own walk); the number of nodes above (`NamerIs`, the name from the root);
the depth below (`BelowerIs`, the listing of a tree). With the functions come the
inductions over them (`WalkInduction`, `ChaseInduction`), and each theorem is one of
these:

- `WalkIsClear`: a walk in the process's view that starts on no covered directory
  ends on none (`HostTempIsOutOfReach`).
- `WalksStay`, `LastStepIs`, `ChainLeads`: adding one free name changes no walk that
  does not look for it; and where the chase of a chain of dangling links ends, there
  the walk of the same path arrives once the file is made (`CreatedFilesAreFound`).
- `LookupSplits`, `DirectoryFirst`: a lookup of a path is the lookup of its directory
  and then a step, also when the directory is reached through links that use up the
  limit (`CallsGiveOneAccount`).
- `GuardCovers`: the guard's chase passes every place that the call's own walk may
  stop at, so that what the operand leads to is inside the run's directories or is
  not there.
  `CallsSpare` takes it through each operation, `HostStands` through the first model
  (`GuardsKeepTheHost`).
- `LastLeads`, `NameLeads`: an induction up the parents. The name of the parent leads
  to the parent, and one more name to the node, because a covered directory has no
  name that realpath would give (`RealpathNamesTheNode`).
- `MacPrivate`, `LinuxPrivate`, `BelowAlike`: both views arrive at the same directory,
  through the host's links or its mounts, and below it no directory is covered,
  so that the two listings go the same way (`ViewsShowOneTree`).

**TempRootsProofs** (assumptions: the number of addresses is a natural, `None`
and `Blank` are not values of the other sets). `TypeCorrect`, `RootsAreNotShared`,
`AddressesAreDistinct`, `OwnRootIsKept`, `LegacyRootsAreKept` (together
`RootsAreKept`), from `LockHeld`
and `WorldsCurrent` (the copy of the lock's holder is the registry, but for the
entry `get` removes from it), `EntryThere`, `CandFree` and `CandRecorded` (what
is known of the address a process tries), `WriterAlone` (one process at most has
created a marker it has not written), `Marked` (a process that runs, or saves,
has its own name in the marker of its address), `Moving` and `LegacyClaims`. The
argument of `RootsAreNotShared` is that markers, unlike locks, are shared between
registries, that a marker once written is never changed while its directory
stays, and that it names one workspace.

**LinuxHolderProofs** (assumptions: the operations used are among the three, the
bound on directories is a natural, `PidFd` is a Boolean, `None` and `Other` are
not values of the other sets). `TypeCorrect`, `HoldersAreFound`, `KillsAreRight`
(for `PidFd = TRUE`), `NoForeignHeld` and `ExecIsPrivate` (together
`TempsArePrivate`). The steps are first split
at every `IF` and `CASE` (`StepCases`); then each conjunct of `Inv` has a lemma
with one step per case. `Shape` and `PidsAgree` say what a client has at each
place and that a process that is there has its pid; `LockHeld` that the copy of
the lock's holder is the file; `Entered` and `Starting` how far a holder is when
it is recorded; `Replaceable` that a client about to write another record has
killed the old holder or seen it gone; `Committed` that a holder told to hold is
the recorded one, which gives `HoldersAreRecorded`. `PinNamed` gives
`KillsOnlyTheRecorded`: the pidfd was opened before the holder was found alive,
so it names that holder. `RootKept`, `TempsAreOwn`, `PastIsPast` and
`TempChecked` carry the two properties about temp roots.

**LinuxHolderProofs**, `HolderStart` (no constants). `StartTypeCorrect` and
`ProcessesAreAllRecorded`. The three parts of `ProcessesAreRecorded` are not
inductive: `StartInv` adds `Bounded` (which messages can be in each pipe, given
where their senders are), `MonitorHeld` (a holder that runs keeps the pipe whose
end its monitor waits for, or has already waited for the monitor, and pasta runs
only while the monitor watches it, or was left by a monitor that was killed),
`Reports` (a report of no egress is sent only
when no monitor is left and none will be forked, so that what setup records as
loopback only is `Offline` from then on: nobody is left to start pasta) and `Stopped` (each place of a stop has
seen the holder end, reaped it or reaped the monitor). The run visits every
state already, since nothing in the module is a parameter; what the proof adds is
why the three parts hold.

**SuperviseProofs** (assumptions: `Public` are addresses, the policy allows names
and addresses, which differ; the backends are among the four). `TypeCorrect`,
`ResultsAreTrue`, `ClosesQuietly`, `RelaysAreAuthorized`, from `NotSpawned`,
`RoutesAuthorized` (what was resolved is authorized, so what is relayed is),
`QuietWhenClosed` (with no loop no connection comes, with no connection no relay,
which makes the order of `close` matter), `Decided` (what the choice of `select`
says of the child), `GivenUp` (an execution is given up for a reason),
`StreamsEnd` (the end of a stream is seen when nobody can write to it again) and
`NamespaceEnds` (the wrapper is reaped only after the init, which goes with
everything in its namespace).

**ForwardProofs** (assumptions: executions are numbered, the bounds are
naturals). `TypeCorrect` and `ForwardsOwn`, from `Joined`, `InodesAreOnce` and
`OneListener` (an inode names one socket, a port one listener, also among what a
scan remembers) and `Remembered` (what a scan remembers of an inode is true of
every socket that has it).

**Only model-checked.** The liveness properties: fairness and `ENABLED` are
beyond the prover. And one safety property, `MapsAgree`, which compares a lookup of a
path in the process's view with a lookup of the text that `map` makes of it in the
host's. It does not hold for every value of the constants: the first lookup may
follow the host's links at `/tmp` and `/var`, which the second does not, so near the
limit on links one of them gives up and the other does not. The run's limit is
above what its lookups need, as the system's is above what paths are made of; a
theorem would have to count the links of both.

## 5. What is left

Of the parts that are partly modelled:

- *Native registry*: the checks of a workspace's directory, `list`, and the macOS
  aliases, which are privileged external commands with no state of World's own.
- *Linux backend*: mounts, Landlock, seccomp and descriptor passing are a fixed
  sequence of system calls that succeeds or fails as a whole, and modelled so.
- *Proxy*: header syntax, credentials, timeouts of single peers and the parsing of
  policies.
- *File systems*: case folding, whole-path limits, the textual form of operations;
  the fuzz driver's generator and minimiser and the stress probe, which keep no
  state a property could be about.

Worth adding next: the composition of `LinuxHolder` with `HolderStart` (now joined
by the prose above: `Fork` ... `Commit` stand for the caller's steps, and
`HolderStart` shows that they end), and an identity in `TempRoots` that comes from
`StateDirs` instead of an assumption.

## 6. Not modelled

`vendor/silo-bind` is a vendored library. The command line's parsing and printing
carry no shared state; its one protocol, load a record and then operate, is part
of `VmLifecycle`, `TempRoots` and `LinuxHolder`. Tests and experiments are not
part of the program.

## 7. Running it

    cd tla
    tlc -workers 2 -config MCVmOperations.cfg MCVmLifecycle
    tlc -workers 2 -config MCHolderStart.cfg HolderStart
    tlapm VmLifecycleProofs.tla

`PROJECT.json` lists the module and the configuration of each run. With two
workers a run takes between three seconds (`holder_start`) and five minutes
(`temp_roots`); a proof module takes between a quarter of a minute and five minutes,
`DirProofs` and `FsProofs` twenty each.
