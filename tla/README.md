# lsandbox in TLA+

A model of the `lsandbox` program: a launcher that runs a command in a box made
of Linux namespaces, an overlay root file system, a cgroup and a seccomp filter.
The modules are translated from the C code (`src/src/*.c`, `src/include/*.h`);
the documents (`src/README.md`, `src/docs/project_structure.md`) are used only
as statements to compare the code with.

## Inventory

| Part | Code | State it keeps | Operations |
|---|---|---|---|
| command line | `main.c` | the `sandbox_config_t` of one run | `opts`, `cmdpos`, dispatch to `run`, `list`, `inspect`, `logs`, `clean`, `delete`, `clean-cgroups` |
| box directories | `sandbox.c`, `rootfs.c`, `overlay.c` | `sandboxes/<name>/...`, `/var/tmp/lsandbox/<name>` | `sandbox_run`: prepare, run, with `--rm` remove |
| launcher | `namespace.c` | the child pid, its wait status | `lsandbox_clone_run`: clone, log, apply, waitpid, cleanup, log |
| resource group | `cgroup.c` | `/sys/fs/cgroup/lsandbox_<name>` and its control files | `lsandbox_cgroup_apply`, `lsandbox_cgroup_cleanup` |
| child set-up | `namespace.c`, `rootfs.c` | mounts, root, working directory, credentials, filter of one process | `child1`: host name, private mounts, `lsandbox_enter_rootfs`, `touser`, filter, `execvp` |
| filter | `seccomp_filter.c` | the denied calls | `lsandbox_install_seccomp_filter` |
| limit arguments | `main.c`, `cgroup.c` | `memory_limit`, `pids_limit`, `cpu_percent` | `atoi` and range checks, `sizeto`, `limpids`, `limcpu` |
| box removal | `utils.c`, `manage.c`, `overlay.c` | a directory tree | `lsandbox_remove_recursive` from `delete` and from `--rm` |
| box management | `manage.c` | none of its own | `list`, `inspect`, `clean`, `delete`, `clean-cgroups` |
| log | `log.c` | `logs/lsandbox.log` | START, EXIT, SIGNAL lines |

How they interact. There is no daemon and no lock. Every `lsandbox` command is a
process of its own, and what they share is the file system: the directories
`sandboxes/<name>`, `/sys/fs/cgroup/lsandbox_<name>` and the log. Two commands on
one box name work on the same files. Within a run, the launcher and the process
it clones go on at the same time; nothing holds the child back until its limits
are in place. The launcher learns of the child through `waitpid` alone.

What is hard here:

- launcher and child in parallel: the box may start, fork and end at any point
  of `lsandbox_cgroup_apply`;
- several launchers on one name, `clean-cgroups` and `delete` at any time, each
  of them a sequence of look-then-act system calls;
- a launcher killed at any step, whose box and group live on;
- system calls that fail: each step of `child1` may be refused, and the code
  decides by hand which failure is fatal and which a warning; a removal may meet
  errors that no other command has caused; each line of the log is a file opened anew;
- a box that is not new: what an earlier command left there is what `child1` and
  the removal find;
- the directory of a box taken away or changed by `delete`, `clean` or another
  `--rm` while child1 still reaches everything through it;
- order: mounts private before mounting, `chdir` after `chroot`, groups before
  user, filter last;
- C arithmetic on the numbers of the command line.

What makes each part correct, by component:

- *launcher and group*: a box that nobody interferes with is in its group when
  apply succeeded, and never in a group without its limits; nobody inherits the
  limits of an earlier run; no group stays without a reason; the launcher
  returns, and only when the box is empty;
- *child set-up and filter*: it fails closed, shows the host no mount, leaves the
  host's resolver file alone in a box whose `/etc` is a directory, leaves nothing of
  root, always has its filter, and does not block itself;
- *limit arguments and command line*: settings and command are the ones the
  command line means; the number in the control file is the one asked for;
- *box removal*: success means the tree is gone, a race alone never leaves it half
  removed with nobody at work, and every remover ends;
- *a run as a whole*: its caller learns how the box ended, after it ended; the
  log says the same, or nothing; `--rm` comes after the box and its group, and then
  takes everything unless a call of its own fails.

The list of hazards with their lines is in `PROJECT.json`.

## Modules

| Module | Models | Proofs | TLC instance |
|---|---|---|---|
| `Cgroup` | launchers, boxes, groups, `clean-cgroups` | `CgroupProofs`, `CgroupLimitProofs`, `CgroupSerialProofs` | `MCCgroup` |
| `Child` | `child1` with any calls refused | `ChildProofs` | `MCChild` |
| `RmTree` | several `rmtree1` on one tree | `RmTreeProofs` | `MCRmTree` |
| `Contract` | what a caller of `lsandbox run` relies on (abstract) | (in `SandboxProofs`) | - |
| `Sandbox` | one run: `Cgroup`, `Child` and `RmTree` together, the log, `delete`, `clean` | `SandboxProofs`, `BoxDirProofs` | `MCSandbox` |
| `Limits` | C arithmetic of `--mem`, `--pids`, `--cpu` (operators) | - | - |
| `Options` | `main`, `opts`, `cmdpos`, the three limits (on `Limits`) | `OptionsProofs` | `MCOptions` |

    Options --EXTENDS--> Limits

    Sandbox --INSTANCE--> Cgroup   (L: the launcher and the group)
            --INSTANCE--> Child    (B: child1)
            --INSTANCE--> RmTree   (T: --rm and delete)
            --implements-> Contract (C, under a refinement mapping)

### Cgroup

`cfg[r]` is the part of `sandbox_config_t` that matters here, with the one thing
inherited from the caller that changes the control flow (`ignchld`: SIGCHLD
ignored, so that `waitpid` waits and then fails with ECHILD). `pc[r]` is where
the launcher is; each label is one system call.

| State or action | Code |
|---|---|
| `Clone`, `CloneFails` | `lsandbox_clone_run` up to `clone` |
| `CheckHost` | `iscgv2`, `rootctl` (one step: both only read) |
| `StatOld`, `RmOld`, `Mkdir`, `MkdirFails` | the first part of `lsandbox_cgroup_apply` |
| `StatFile`, `OpenFile`, `Flush` | one control file: `limmem` ... `putproc` and `cgw`; `step` says which |
| `Wait` | `waitpid`; the ECHILD return goes to `done` |
| `CleanStat`, `CleanProcs`, `CleanRmdir` | `lsandbox_cgroup_cleanup`, called from apply (`applied` still `pending`) or after `waitpid` |
| `ChildExec`, `InitExit`, `Fork`, `ProcExit` | the box; pid 0 is the cloned process |
| `Killed` | a signal ends the launcher |
| `Sweep` | one `rmdir` of `lsandbox_manage_clean_cgroups` |

`dirs` and `lim` are the cgroup file system: which group directories exist and
whose setting each control file holds. `hnd` is the open `FILE` of `cgw`: a
directory removed between `fopen` and `fclose` makes it stale, and the write is
lost without notice. Kernel behaviour (what `rmdir`, `fork`, `exit` and a write
do) is modelled as far as the code relies on it and marked external in the map.

### Child

`refused` is the set of calls the host refuses, fixed for a behaviour, so one
run of TLC covers every single and double failure. `left` is what earlier runs left
in the box: `mkdir_p` takes EEXIST for success, so a directory of `child1` may be an
absolute symbolic link to the host's directory of that name (`links`), and resolv.conf
may be another kind of file than the host's (`resolv`). A mount made through a link is
not in the box (`Mounted`), and `dns1` through a link at `/etc` works on the file of the
host (`HostResolv`). Each action is one step of
`child1`; `MountStep` is the shape that five of them share (make a directory,
mount, stop or warn). `peer` is the propagation of the mounts, `cred` what
`touser` changes, `denied` what the filter kills for; three names stand for the
calls of `basic` and three for those of `strict`. `dns1` is one action
(`SetupResolv`): only its outcome matters to others, and nobody else can see its
intermediate states. Its `copy1` and its fallback end the same way for the file that is
opened: `HostResolv` if that is the host's, `BoxResolv` if it is in the box.

Left out: links to other directories of the host than the one of the same name, of
which the `chmod` in `mkdirat1` would change the mode; and a regular file or a
dangling link in place of a directory, which is a refused call (`mkproc` ... `mketc`,
or the mount after it).

### RmTree

`cur`, `open` and `todo` are the recursion of `rmtree1`: the node it was last
called for, the directories being listed, the entries each listing has yet to
return. Since the tree tells the caller of each call, no stack is needed.
`Create` is a command still running in the box.

A call fails because another remover was faster, or for a reason of its own
(`Trouble`): a path over 4096 bytes, `opendir` without a descriptor left (each level
holds one), an entry that is mounted on or immutable, an I/O error; and `readdir` may
end early, which nobody notices. `Prone` are the removers to which that may happen and
`troubled` those to which it did. The command decides how deep its tree is, so it can
build one that neither `--rm` nor `delete` can ever remove; the code then warns (`--rm`)
or returns 1 (`delete`), and the box stays.

### Sandbox

`Sandbox` is the program for one `lsandbox run` (`self`), together with one
`lsandbox delete` (`del`) and one `lsandbox clean` of the same box. It does not
repeat the three modules it is made of: its variables are theirs plus a few, and
its actions conjoin theirs with what ties them together.

| State or action | Code |
|---|---|
| `phase` | where `sandbox_run` is: prepare, clone, log, supervise, rm, returned (or killed) |
| `Prepare`, `PrepareFails` | `lsandbox_prepare_rootfs_dirs`, one `mkdir` of `mkdir_p` per step; a failure (of `getcwd` or `setpaths` too) returns past the `--rm` part |
| `Clone`, `CloneFails`, `Supervise` | the launcher of `Cgroup` |
| `LogStart`, `Report`, `ReportNothing` | `lsandbox_log_start`, `_exit`, `_signal` and the exit code; `ReportNothing` is the ECHILD return; `Logged` opens the log for each line, and may fail for each (`missed`) |
| `Remove` | `lsandbox_cleanup_overlay_dirs`: the remover of `RmTree`; its failure is a warning |
| `SetUp`, `Exec`, `SetUpEnds` | `child1`, as in `Child`; `execvp` is also where the box of `Cgroup` starts to run the command |
| `Anew`, `AnewFails` | `mkdir_p` in a set-up step when merged_root is no longer there |
| `CommandEnd`, `Shot`, `Write`, `Processes` | the command |
| `Delete`, `Clean` | the other two commands |

`exists` is the tree below `sandboxes/<name>`: the box, `upper_root`,
`work_root`, `merged_root`; "file" is what the command writes; "index" is the
directory overlayfs makes in its work directory, which makes removal deeper than
preparation; "points" stands for the mount points that set-up makes in a
`merged_root` without overlay; "tmp" for the three directories of `clean`, which
are always treated alike and always empty.

What ties the parts together is that `child1` works through
`sandboxes/<name>/merged_root` until `chroot`. `delete` may remove that directory:
the kernel then detaches the overlay, which is mounted in the box's namespace
only (`lost`). From there on `Child` runs with more refusals: `Vanished` is the set
of calls that fail because of what is missing. But not all fail, since the next
`mkdir_p` makes box, `merged_root` and the mount point anew as plain directories,
component by component (`walk`), possibly while `delete` is still at work. Then
`chroot` works, into an almost empty directory, and `execvp` is what fails, with
exit code 127.

If `delete` takes `upper_root` or the work directory from under the overlay while
`merged_root` is still there, the overlay stays mounted and readable, but nothing in it
can be unlinked or written any more (`lost` without "merged"): `unlink` and `open` fail,
the rest of the set-up goes on. A link that an earlier run left in place of resolv.conf
is then followed, as in `HostFilesUntouched`.

`Clean` makes its directories anew whether their removal worked or not, and gives up
when a `mkdir` fails.

The module is for one run. For it, `--rm` of a second run of the name is another
remover, as `del` is; what two runs do to each other's group is in `Cgroup`; two
overlays on one upper layer are a matter of the kernel and not modelled.

### Contract

What whoever calls `lsandbox run` may rely on, with nothing about how: at most
one box; at most one start of the command; the call returns 1 without a box, or
after the box is over with its code (128 + n for a signal), or 1 when SIGCHLD is
ignored and so nothing can be known; a launcher that is killed leaves the box to
itself. `Sandbox` implements it (`KeepsContract`) under the mapping `RunOf` (from
`phase`), `BoxOf` (from the state of the child), `out` (the wait status) and `rc`
(once returned). Everything else (preparing, log, group, removal, delete, clean)
maps to stuttering: none of it may change what the caller sees. What may end a box
before the command has started is narrower in the contract (`SetupOutcomes`: 1,
127, the filter's signal, a kill), so a set-up that went wrong cannot look like a
command that succeeded.

### Options and Limits

A word of the command line is a record: the text, for the comparisons of `opts`,
and what it is when read as a number (sign, digits or none, value, what follows).
`opts` is a loop with one action per kind of option; `cmdpos` starts over on all
arguments; `LimMem`, `LimPids` and `LimCpu` are what becomes of the numbers in
`lsandbox_cgroup_apply` on a host that takes them. `Limits` is the arithmetic:
`--mem` goes through `sizeto`, `--pids` and `--cpu` through `atoi`. The largest int
and long (INT_MAX, LONG_MAX) are constants, so that wrapping is real on a machine
small enough to enumerate.

`Meant` is the reference: what a command line means, from positions alone, without
the loop. A word is an option's argument (`Argument`) if an odd number of words that
want one stand right before it; `Heads` are the positions where options can stand, and
the last use of an option counts (`Value`). It has its own table of defaults, from the
help text, and its own arithmetic (`Asked`).

Seen on the way: `--name -- -- ls` makes `opts` and `cmdpos` disagree (`opts` takes
the first `--` as the name, `cmdpos` as the separator), and so the command becomes
`-- ls`; `CommandAfterOptions` therefore excludes an option given `--` as its
argument. `--overlay-tmp` (`src/README.md:71`) is an unknown option to `opts`, and
`--overlay-workdir` is accepted and has no effect.

## Runs

| Run | Question | Bounds |
|---|---|---|
| `shared` | two launchers of one name and `clean-cgroups`: `NoLeak`, `ReturnsAfterBox` | 2 runs, 1 name, 6 configurations each, 2 processes per box |
| `sole` | a launcher that shares its name with nobody: `LimitsBeforeMembers`, `MembersWithinLimit`, `AppliedConfines` | 2 runs, 2 names, 5 configurations each, 5 hosts |
| `restart` | a run after one that was killed or kept its group: `OwnLimitsOnly`, `RestartConfines` | 2 runs one after the other (`SerialSpec`), 1 name |
| `fair` | `LauncherReturns` under `FairSpec` | 2 runs of one name, ordinary or with a `--mem` text that does not parse (so that cleanup is called from apply too), `clean-cgroups`, r1 may be killed |
| `faults` | `child1` on a host that refuses at most two kinds of call | 6 configurations, 3 callers, 4 kinds of resolv.conf, 352 sets of refusals, 3 boxes (new, and two with links) |
| `race` | three removers of one tree and a command that adds to it: `BoxGoes`, `SuccessMeansGone`, `RemoverEnds` under `FairSpec` | 2 `--rm`, 1 `delete`, 3 directories (one of them late), 2 files; one `--rm` may meet errors of its own |
| `options` | from command line to control file: `OptionsAsGiven`, `CommandAfterOptions`, `MemExact`, `PidsExact`, `CpuExact` | about 17000 command lines (below); `LongMax` 511, `IntMax` 255, unit 4 |
| `sandbox` | a whole run: `KeepsContract`, `RemovedAfterBox`, `RmClean`, `JournalTrue`, `RunReturns` | 1 run, 1 forked process, scenes below |
| `forkbomb`, `lostwrite`, `fulldisk`, `rmrace` | what a document says and the code does not do | as above |

Why the bounds are enough. Interference on a group is between a launcher and
one other actor at a time (another launcher of that name, the sweeper, a
leftover), so two runs show every pair; a third could only repeat a part. One
process besides init is the least that makes "busy", "fork before the move" and
"one over the limit" happen with `--pids 1`. The configurations are chosen to
reach every branch: an ordinary one, `--keep-cgroup`, a `--mem` text that does
not parse or is empty, a `--pids` the kernel refuses, SIGCHLD ignored. The hosts
are a complete one, one without swap accounting, one with `cpuset` in place of
`cpu`, one without the controllers, one without cgroups v2. For `Child` two
refusals are enough to combine a failure with the failure of its fallback
(`chdir`, resolv.conf). One `--rm` of `race` is prone to errors of its own; with all three TLC needs more than
five minutes, and what one of them does for its own reasons the others see as a remover
that stopped. The proofs do away with the bounds where there are proofs.

`options` has command lines of four kinds: every sequence of at most five of the
six words that matter to the grammar (an option with a free argument, one with a
checked one, a flag, `--`, a number, another word); every sequence of at most three
of all options and values, before a command, which pairs every option with every
value and lets one option override another; each limit with each of 50 numbers
around the boundaries (2^7, 2^8, 2^9, 2^10, the suffixes, 100 percent, the
kernel's maximum), each with each sign and suffix; the other commands with up to two arguments.
Boundaries stay apart at this scale because all of them differ.

`sandbox` composes parts that were explored in full by the runs above, so it
varies what matters to the composition. A scene says what may come in between: a kill
of the launcher at any step, a `delete`, a `clean`, or a log that may fail for any of
its lines; what happens undisturbed is part of each. The scenes are not combined: each
is compared with the box on its own. Killed or without its log, a run has two hosts
(one where apply works, one where it fails), `--rm` or not, SIGCHLD ignored or not, and
no directory yet or one left by an earlier run; when it may be killed, also set-up that
loses the overlay or has nothing to execute; disturbed by `delete` or `clean`, it is a run with `--rm` and
nothing else wrong, in a new box, on a host where apply returns at once, since the group
and the files have no step in common (`MCInit`). The removal of the run may meet errors
of its own (`Prone`), that of `delete` stops only where `--rm` is in its way or was.
The command ends with the signal of the filter or with the exit code 128 + 31 that looks
like it to the caller: two ends that `waitpid` and the log must tell apart. No box has
links from earlier runs here (`OnlyNew`), which only `child1` would see; `faults` has
them, and `BoxGuarantees` is about any box.

Symmetry between runs (they differ only in their configuration) is used in the
runs with invariants alone; the liveness runs have none.

`AppliedConfines`, `LimitsBeforeMembers` and `MembersWithinLimit` speak of a run
that shares its name with nobody (`Sole`), because two runs on one name do
undo each other's groups; `NoLeak` and `ReturnsAfterBox` hold in all cases.
`BoxGoes` is about a box to which nobody has added files and `RmClean` about one that
no other command touches, and both about removers that lose races but meet no error of
their own; `HostUntouched` speaks of the resolver file only if `unlink` works and `/etc`
of the box is not a link. `RemovedAfterBox` says where the group may still be there:
`--keep-cgroup`, and SIGCHLD ignored, when nothing is cleaned up.
`KeepsContract`, `JournalTrue` and `RunReturns` hold whatever the others do.

Fairness. `FairSpec` of `Cgroup` is weak fairness of each launcher: it is an
ordinary process and is scheduled. A box is never assumed to make progress or to
end. `FairSpec` of `Child` is weak fairness of `child1`, none of whose calls
waits for another process; that of `RmTree` holds for a remover once it was
started. `Sandbox` assumes it of the launcher alone, which includes the removal it
does itself; nothing is assumed of the box, of `delete` or of `clean`, so
`RunReturns` begins with a box that is over.

Deadlock is checked in every run; a system whose commands have all ended
stutters in an action of its own (`AllOver`, `Over`).

## What the violated properties show

- `WholeBoxConfined`: the child runs from `clone` on, and `putproc` moves one
  pid. What the command forked before that is outside `pids.max` for good.
- `ApplyReportsTruth`: `cgw` writes in `fclose` and ignores its result, so a
  value that the kernel refuses goes unnoticed.
- `HostFilesUntouched`: `copy1` ignores a failed `unlink` and opens its
  target, which may be an absolute link to the file of the host, for writing.
- `RmLeavesNothing`: `delete` lists the box while it is being prepared, and so
  knows only some of its entries. Much later, when the run removes the box too,
  `delete` takes one of those away under it: the run gives up with a warning. Then
  `delete` fails at the final `rmdir`, because of the entries it never saw. Both
  commands are over and the box is still there. (`BoxGoes` of `RmTree`
  says that this cannot happen when nothing is added after the listing.)

More disagreements are plain from a line or two and have no run of their own: `/etc` of a
box that an earlier command, as root in it, made an absolute link leads `copy1` to the
host's resolver file, though `unlink` works (`rootfs.c:310`, where EEXIST is success);
the strict filter allows what it does not name (`seccomp_filter.c:153`), where
`docs/project_structure.md:42` calls it a whitelist; `sizeto` takes negative texts
and lets products wrap modulo 2^64 (`cgroup.c:105`), which is why `MemExact` is about
sizes that fit.

## Proofs

All theorems are for every value of the constants, under the named assumptions of
the modules, which TLC evaluates in every run. `CgroupAssumption`, `ChildAssumption`
and `OptionsAssumption` only say what kind of values the constants are, and
`LimitsAssumption` that an int holds 128, the default of `--pids`, and fits a long. `TreeAssumption` says in
addition that `Parent` makes a tree (every nonempty set of nodes that has the parent
of each of its members has the root), and `SandboxAssumption` that `delete` is not the
run itself and that a command ends as `waitpid` can tell (any exit code from 0 to 255, any
signal from 1 to 64).
`PartsAssumption` repeats for `Sandbox` what `Cgroup` and `Child` assume of their
constants; `RmTree` gets a fixed tree there, for which its assumption is proved.

**CgroupProofs.** `ReturnsAfterBox`, `NoLeak` and `AppliedConfines` are not
inductive by themselves. The invariant `IInv` adds

- `Phases`: for each run, how the position of the launcher, the state of the
  child and the processes of the box go together. From it follows
  `ReturnsAfterBox`: a launcher that is done has reaped its child, a box with a
  live process has a live init. `InitExit` is where the pid namespace enters:
  without `CLONE_NEWPID` descendants would survive their init.
- `NoLeak` then is preserved: the only steps that take the responsibility for a
  group from a launcher are the ends of its cleanup. If that left the group
  because it was busy, some run has a process in it (`BusyHasOwner`), so its
  init lives, so its launcher is not done, and is responsible in its turn.
- `InHand`: a launcher whose name is its own, with no `clean-cgroups` about, has
  from `mkdir` to its last write the directory it made, and a live file open in
  it. So the write of the pid cannot get lost, which gives `AppliedConfines`.

| Theorem | States |
|---|---|
| `TypeCorrect` | `[]TypeOK` |
| `BoxGoneOnReturn` | `[]ReturnsAfterBox` |
| `GroupsAccountedFor` | `[]NoLeak` |
| `AppliedMeansConfined` | `[]AppliedConfines` |

**CgroupLimitProofs.** With a name of its own, a run's directory can only be taken
away by `clean-cgroups`, and that while it has no member. `Own` says that a
directory with a member is there, that the file open for the next write is one of
a directory that is there, and that nobody is in the group before the last write;
`Settled`, that a file whose turn has passed holds its value as long as the
directory exists. A sweep between two writes takes the directory for good: the
launcher never makes it again, and so the move of the child fails. `Within` counts
the members: the first one is the child itself, and every further one is a fork
under `pids.max`, which by `Settled` is that of the run.

| Theorem | States |
|---|---|
| `LimitsFirst` | `[]LimitsBeforeMembers` |
| `PidsHold` | `[]MembersWithinLimit` |

**CgroupSerialProofs.** About `SerialSpec`, where a run starts only when the others
are over (but may have left a directory): at any time all runs but one are idle
(`Turns`), so the old directory has no member and its `rmdir` works (`OldIsEmpty`);
from there on the files hold nothing or what the run wrote (`Fresh`).

| Theorem | States |
|---|---|
| `NoOldLimits` | `SerialSpec => []OwnLimitsOnly` |
| `ConfinedAgain` | `SerialSpec => []RestartConfines` |

**ChildProofs.** `child1` is a pipeline; its invariant says for each step what
holds once that step is reached: `Built` (calls that worked, root, working
directory), `Furnished` (the mounts, but for the places that are links), `Mountless`
(the host), `Dropped` (credentials, filter). They are
stated of a set `R` of refused calls, so that it can be used for a run as a whole,
where further calls fail when something is removed. `Boxes` is any set of boxes, so the
theorems hold for any links an earlier run left.

| Theorem | States |
|---|---|
| `HostSafe` | `[]HostUntouched` |
| `FailsClosed` | `[]CommandConfined` |
| `NoRootLeft` | `[]CommandUnprivileged` |
| `FilterInstalled` | `[]FilterInForce` |
| `TypeCorrect` | `[]TypeOK` |

**RmTreeProofs.** For any tree and any number of removers. What is on disk is always a
tree (`UpClosed`), hence `SuccessMeansGone`: without its root nothing is left. The
open directories of a remover are those above the node it is at (`OnPath`), and an
entry it has passed is gone (`Seen`). `BoxGoes` rests on `Fresh`: among the removers
that have started there is always one to which nothing has happened, namely whoever
removed something last, or else started last. All it still has to deal with is as it
has seen it, so it cannot lose a race; if nobody is at work any more and nobody met an error
of its own, it has succeeded.

| Theorem | States |
|---|---|
| `TypeCorrect` | `[]TypeOK` |
| `SuccessIsReal` | `[]SuccessMeansGone` |
| `SomebodyFinishes` | `[]BoxGoes` |

**SandboxProofs.** The invariant relates `phase`, the launcher of `Cgroup` and its
child: `Supervision` (a launcher that is done has reaped), `Lives` (a box that is over
has a known end, the command starts once), `Leaving` (what `sandbox_run` is going to
return fits that end) and `Removal` (`--rm` comes after the box). With it every
action maps to an action of `Contract` or to stuttering, and the log is in each phase
one that should be there (`Pages`: a line, or nothing when it was missed) and has no
line too few (`Complete`). None of this depends on what is in the directory of
the box, so it holds whatever `delete` and `clean` do, and whatever calls of `child1`
fail for it.

| Theorem | States |
|---|---|
| `Implements` | `Spec => KeepsContract`: the refinement of `Contract` |
| `LogTrue` | `[]JournalTrue` |

**BoxDirProofs.** `Sandbox` conjoins the actions of its parts, and so do the proofs:
every step of `Sandbox` is for the group a step of `Cgroup` or none (`GroupStep`), for
child1 a step of `Child` with more refusals, a directory it could not make, or none
(`ChildStep`), for the directory a `mkdir`, a step of a remover, whatever `clean` did, or
none (`DirChanges`). The module instantiates `CgroupLimitProofs`, `ChildProofs` and
`RmTreeProofs` with the variables of `Sandbox` and applies their lemmas; the lemmas
called `Same...` only say that the operators of an instance are those of `Sandbox`'s own.

- The group: it follows at once that a run implements `Cgroup`, and all its guarantees.
  With `NoLeak` follows `RemovesAfterBox`: when `--rm` begins the launcher is done, so
  nobody answers for a group any more, except for one that was to stay.
- child1: other than in `Child`, what fails changes on the way. But the calls that the
  host refused from the start never worked (`Given`), and who cannot make a directory
  anew goes on to `chroot` at most; without the overlay there is nothing to execute.
  The host (`HostSpared`) sees no mount in any case. Its resolver file is left alone as
  long as no `delete` has begun: until then nothing is lost (`Standing`), so `unlink`
  works if the host lets it.
- The directory: the invariant of `RmTree` is about a tree that only shrinks, or grows
  where nobody has looked yet. Nothing like it holds when `delete` has listed the box
  while it was being built, which is what `RmLeavesNothing` shows. As long as neither
  `delete` nor `clean` has begun (`Quiet`, which never comes back once it is lost), the
  box grows only before the run's own removal (`Removal` of `SandboxProofs`: the box is
  over by then, and so is child1), so no remover is at work when it does, and shrinks
  only after. Hence `Undisturbed`: the invariant of `RmTree` at all times. With it the
  only remover, if it meets no error of its own, cannot fail unless the root is gone, and
  in either case nothing is left;
  `Removed` says that `sandbox_run` does not return before its remover has ended.

| Theorem | States |
|---|---|
| `TypeCorrect` | `[]TypeOK` |
| `FollowsCgroup` | `Spec => L!Spec`: a run does to its group only what `Cgroup` allows |
| `GroupGuarantees` | so `NoLeak`, `ReturnsAfterBox`, `AppliedConfines`, `LimitsBeforeMembers`, `MembersWithinLimit` hold of it |
| `RemovesAfterBox` | `[]RemovedAfterBox` |
| `BoxGuarantees` | `CommandConfined`, `CommandUnprivileged`, `FilterInForce` hold of it, whatever is removed under child1, and `HostSpared` does |
| `RmLeavesNone` | `[]RmClean` |

**OptionsProofs.** For command lines of any length, any numbers and any INT_MAX and
LONG_MAX. The settings `opts` checks are in their ranges whatever `atoi` made of the
text, and then the quota of `limcpu` is exact. That the loop computes `Meant` is an
induction over the command line, but one that the program does itself: the loop
invariant says that the settings are those meant by the options the loop has passed
(`Taken`), which are the positions in `Heads` before `i`. Each turn adds one position,
greater than all before, so it is the last use of its option and changes the one
setting it should. What remains is that after the loop nothing of `Heads` is left except
a `--`, and that `cmdpos` finds that same one if none is an argument. `MemExact` and
`PidsExact` then relate the number in the control file to the text: a product that fits
an unsigned long does not wrap, and a number that fits an int comes through `strtol` and
the conversion unchanged.

| Theorem | States |
|---|---|
| `TypeCorrect` | `[]TypeOK` |
| `SettingsAreMeant` | `[]OptionsAsGiven` |
| `CommandIsMeant` | `[]CommandAfterOptions` |
| `MemoryIsExact` | `[]MemExact` |
| `PidsAreExact` | `[]PidsExact` |
| `QuotaIsExact` | `[]CpuExact` |

Only model-checked: liveness (`LauncherReturns`, `CommandReached`, `RemoverEnds`,
`RunReturns`), which is beyond the prover. Every invariant that a passing run checks,
and the refinement of `Contract`, is a theorem as well. The theorems that have no
property of a run (`FollowsCgroup`, `GroupGuarantees`, `BoxGuarantees`) are about
properties that the runs of `Cgroup` and `Child` check for these parts alone.

## Not modelled

- The tmp and workdir overlays: `enable_root_overlay` is always 1, so the
  branches of `mounts` and `sandbox_run` that use them are never taken. For the same
  reason nothing ever makes `/var/tmp/lsandbox/<name>`, and its removal
  (`system("rm -rf -- ...")`) is left out.
- `list`, `inspect`, `logs`: they only read.
- `enable_cgroup`: set to 1 at the start and never cleared.
- Names. A box name is taken to be a single path component, as `badbox`
  requires for `delete` and `clean`; `run` itself does not check. Nor does a word have a
  length: `--name` is cut at 127 bytes and `--mem` at 63 without a message.
- Two runs in one box at the same time, as far as their files are concerned: two
  overlays on one upper layer behave as the kernel decides.
- A line of the log that is written in part (one that is not written at all counts as
  missed), and the order of lines of different runs in it.
- `getpwuid`, the environment, texts of messages and of help.
- The network namespace, which adds nothing to the control flow.
- Tracing, swapping, OOM kills as such: a box process may exit at any time
  (`ProcExit`, `InitExit`, `Shot`), which includes them.

## Plan

1. *Done*: `Cgroup`, `Child`, `RmTree`, `Limits`, `Options`, `Contract`, `Sandbox`.
2. *Done*: theorems about all state machines, and the refinement of `Contract`.
3. *Done*: every invariant of a passing run is a theorem; the guarantees of `Cgroup` and
   `Child` hold of `Sandbox`.
4. The steps towards the liveness properties that need no fairness: that a launcher
   which has not returned always has a step to take or waits for a living box, and that
   each step of a remover brings it nearer to its end.
