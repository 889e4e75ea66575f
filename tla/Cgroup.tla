------------------------------- MODULE Cgroup -------------------------------
(***************************************************************************)
(* The life of `lsandbox run` around its resource group: the launcher's    *)
(* clone / apply / wait / cleanup sequence (lsandbox_clone_run), the steps *)
(* of lsandbox_cgroup_apply and lsandbox_cgroup_cleanup, one system call   *)
(* each, the processes of the box, and `lsandbox clean-cgroups`.           *)
(*                                                                         *)
(* Several launchers run at once and may use the same box name, hence the  *)
(* same directory /sys/fs/cgroup/lsandbox_<name>.  The kernel's side (what *)
(* rmdir, fork, exit and a write to a control file do) is modelled only as *)
(* far as the launcher relies on it.                                       *)
(***************************************************************************)
EXTENDS Naturals, FiniteSets, Sequences

CONSTANTS
  Runs,      \* invocations of `lsandbox run`
  NoRun,     \* "written by nobody": the kernel's default in a control file
  Names,     \* box names
  Configs,   \* what a run may be asked to do (subset of Config)
  Hosts,     \* the hosts it may find (subset of Host)
  MaxPid,    \* bound: a box has at most MaxPid processes besides its init
  PidsMax,   \* largest value the kernel takes in pids.max
  Killable,  \* the runs whose launcher may be killed
  Sweeping   \* whether `lsandbox clean-cgroups` may run

(***************************************************************************)
(* cgroup related part of sandbox_config_t: --name, --keep-cgroup, whether *)
(* the --mem text parses (it is only parsed by limmem) or is empty, and    *)
(* --pids.  ignchld is inherited, not configured: the launcher was started *)
(* with SIGCHLD ignored, so that its waitpid fails with ECHILD.            *)
(***************************************************************************)
Config == [name: Names, keep: BOOLEAN, mem: {"valid", "invalid", "empty"},
           pids: Nat \ {0}, ignchld: BOOLEAN]

Controllers == {"memory", "pids", "cpu", "cpuset"}

\* cgroup.controllers present, root cgroup.subtree_control, swap accounting
Host == [v2: BOOLEAN, ctl: SUBSET Controllers, swap: BOOLEAN]

ASSUME CgroupAssumption ==
  /\ NoRun \notin Runs
  /\ Configs \subseteq Config
  /\ Hosts \subseteq Host
  /\ MaxPid \in Nat
  /\ PidsMax \in Nat
  /\ Killable \subseteq Runs
  /\ Sweeping \in BOOLEAN

Pid == 0 .. MaxPid      \* pids inside a box; 0 stands for its init, child1

LimitFiles == {"memory.max", "memory.swap.max", "memory.oom.group",
               "pids.max", "cpu.max"}

\* mutants of Writes: the child moved first, or before its process limit is set
WritesProcsFirst == <<"cgroup.procs", "memory.max", "memory.swap.max",
                      "memory.oom.group", "pids.max", "cpu.max">>
WritesPidsLast == <<"memory.max", "memory.swap.max", "memory.oom.group",
                    "cpu.max", "cgroup.procs", "pids.max">>

(***************************************************************************)
(* limmem, noswap, oomgrp, limpids, limcpu, putproc: the control files in  *)
(* the order lsandbox_cgroup_apply writes them.                            *)
(***************************************************************************)
Writes == <<"memory.max", "memory.swap.max", "memory.oom.group",
            "pids.max", "cpu.max", "cgroup.procs">>

VARIABLES
  cfg,      \* [Runs -> Configs]
  host,     \* the host, in Hosts
  dirs,     \* the names n for which /sys/fs/cgroup/lsandbox_n exists
  lim,      \* lim[n][f]: the run whose setting control file f of n holds
  pc,       \* where each launcher is
  step,     \* index in Writes of the file it is writing
  hnd,      \* its open FILE: none, or on a live or a removed directory
  applied,  \* what lsandbox_cgroup_apply returned
  child,    \* the state of the process clone() created
  alive,    \* the live processes of each run's box
  incg      \* those of them that sit in the cgroup named after the box

vars == <<cfg, host, dirs, lim, pc, step, hnd, applied, child, alive, incg>>

InApply   == {"check", "exists", "rmold", "mkdir", "stat", "open", "flush"}
InCleanup == {"cstat", "cprocs", "crmdir"}
PCs == {"start", "wait", "done", "killed"} \cup InApply \cup InCleanup

TypeOK ==
  /\ cfg \in [Runs -> Configs]
  /\ host \in Hosts
  /\ dirs \subseteq Names
  /\ lim \in [Names -> [LimitFiles -> Runs \cup {NoRun}]]
  /\ pc \in [Runs -> PCs]
  /\ step \in [Runs -> DOMAIN Writes]
  /\ hnd \in [Runs -> {"none", "live", "stale"}]
  /\ applied \in [Runs -> {"pending", "ok", "failed"}]
  /\ child \in [Runs -> {"none", "setup", "running", "zombie", "reaped"}]
  /\ alive \in [Runs -> SUBSET Pid]
  /\ incg \in [Runs -> SUBSET Pid]

-----------------------------------------------------------------------------
(* Helpers *)

Name(r) == cfg[r].name

NoLimits == [f \in LimitFiles |-> NoRun]

Members(n) == {q \in Runs \X Pid : Name(q[1]) = n /\ q[2] \in incg[q[1]]}

\* the control files the kernel puts in a new directory under the root
ControlFiles ==
  {"cgroup.procs"}
    \cup (IF "memory" \in host.ctl THEN {"memory.max", "memory.oom.group"} ELSE {})
    \cup (IF "memory" \in host.ctl /\ host.swap THEN {"memory.swap.max"} ELSE {})
    \cup (IF "pids" \in host.ctl THEN {"pids.max"} ELSE {})
    \cup (IF "cpu" \in host.ctl THEN {"cpu.max"} ELSE {})

File(r) == Writes[step[r]]

\* with an empty --mem text limmem, noswap and oomgrp return 0 at once
Requested(r, f) ==
  \/ f \in {"pids.max", "cpu.max", "cgroup.procs"}
  \/ cfg[r].mem # "empty"

\* noswap and oomgrp only warn when their file is missing
Optional(f) == f \in {"memory.swap.max", "memory.oom.group"}

\* the kernel refuses a pids.max beyond its own maximum
Accepted(r, f) == f = "pids.max" => cfg[r].pids <= PidsMax

\* rmdir of a cgroup succeeds when it has no process and no child group
CanRmdir(n) == n \in dirs /\ Members(n) = {}

\* files open in the directory go stale, its settings are gone
RemoveDir(n) ==
  /\ dirs' = dirs \ {n}
  /\ lim' = [lim EXCEPT ![n] = NoLimits]
  /\ hnd' = [q \in Runs |-> IF Name(q) = n /\ hnd[q] = "live"
                            THEN "stale" ELSE hnd[q]]

Goto(r, label) == pc' = [pc EXCEPT ![r] = label]

procVars == <<child, alive, incg>>
cgVars   == <<dirs, lim>>
-----------------------------------------------------------------------------
(* The launcher: lsandbox_clone_run up to the return of apply *)

\* mutant: no pid namespace
FlagsNoPid == {"NEWNS", "NEWUTS", "NEWIPC"}

CloneFlags == {"NEWNS", "NEWPID", "NEWUTS", "NEWIPC"}

Clone(r) ==
  /\ pc[r] = "start"
  /\ Goto(r, "check")
  /\ child' = [child EXCEPT ![r] = "setup"]
  /\ alive' = [alive EXCEPT ![r] = {0}]
  /\ UNCHANGED <<cfg, host, cgVars, step, hnd, applied, incg>>

\* malloc or clone fails (for instance without root): nothing was created
CloneFails(r) ==
  /\ pc[r] = "start"
  /\ Goto(r, "done")
  /\ UNCHANGED <<cfg, host, cgVars, step, hnd, applied, procVars>>

\* mutant: the -1 of apply gets lost
GiveUpQuietly(r) ==
  /\ Goto(r, "wait")
  /\ applied' = [applied EXCEPT ![r] = "ok"]

\* apply failed before it touched the directory: a warning, and on to waitpid
GiveUp(r) ==
  /\ Goto(r, "wait")
  /\ applied' = [applied EXCEPT ![r] = "failed"]

\* apply fails with the directory made: it calls lsandbox_cgroup_cleanup first
Undo(r) == Goto(r, "cstat") /\ UNCHANGED <<step, applied>>

\* iscgv2 and rootctl: strstr(buf, "cpu") also finds "cpuset"
HostReady ==
  /\ host.v2
  /\ {"memory", "pids"} \subseteq host.ctl
  /\ {"cpu", "cpuset"} \cap host.ctl # {}

CheckHost(r) ==
  /\ pc[r] = "check"
  /\ \/ HostReady  /\ Goto(r, "exists") /\ UNCHANGED applied
     \/ ~HostReady /\ GiveUp(r)
  /\ UNCHANGED <<cfg, host, cgVars, step, hnd, procVars>>

\* mutant: an old directory is used as it is
StatOldReuses(r) ==
  /\ pc[r] = "exists"
  /\ Goto(r, IF Name(r) \in dirs THEN "stat" ELSE "mkdir")
  /\ UNCHANGED <<cfg, host, cgVars, step, hnd, applied, procVars>>

\* lsandbox_path_exists(cfg->cgroup_dir)
StatOld(r) ==
  /\ pc[r] = "exists"
  /\ Goto(r, IF Name(r) \in dirs THEN "rmold" ELSE "mkdir")
  /\ UNCHANGED <<cfg, host, cgVars, step, hnd, applied, procVars>>

\* rmdir of an old group; if it is busy or gone by now, only a warning
RmOld(r) ==
  /\ pc[r] = "rmold"
  /\ IF CanRmdir(Name(r)) THEN RemoveDir(Name(r)) ELSE UNCHANGED <<cgVars, hnd>>
  /\ Goto(r, "mkdir")
  /\ UNCHANGED <<cfg, host, step, applied, procVars>>

\* lsandbox_mkdir_p: a directory that is there is as good as a new one
Mkdir(r) ==
  /\ pc[r] = "mkdir"
  /\ dirs' = dirs \cup {Name(r)}
  /\ Goto(r, "stat")
  /\ UNCHANGED <<cfg, host, lim, step, hnd, applied, procVars>>

MkdirFails(r) ==
  /\ pc[r] = "mkdir"
  /\ Name(r) \notin dirs
  /\ GiveUp(r)
  /\ UNCHANGED <<cfg, host, cgVars, step, hnd, procVars>>

\* mutants: one file too many, one too few
NextFileLate(r) ==
  IF step[r] > Len(Writes)
  THEN Goto(r, "wait") /\ applied' = [applied EXCEPT ![r] = "ok"] /\ UNCHANGED step
  ELSE Goto(r, "stat") /\ step' = [step EXCEPT ![r] = @ + 1] /\ UNCHANGED applied

NextFileEarly(r) ==
  IF step[r] = Len(Writes) - 1
  THEN Goto(r, "wait") /\ applied' = [applied EXCEPT ![r] = "ok"] /\ UNCHANGED step
  ELSE Goto(r, "stat") /\ step' = [step EXCEPT ![r] = @ + 1] /\ UNCHANGED applied

\* after the last file apply returns 0
NextFile(r) ==
  IF step[r] = Len(Writes)
  THEN /\ Goto(r, "wait")
       /\ applied' = [applied EXCEPT ![r] = "ok"]
       /\ UNCHANGED step
  ELSE /\ Goto(r, "stat")
       /\ step' = [step EXCEPT ![r] = @ + 1]
       /\ UNCHANGED applied

(***************************************************************************)
(* The part of limmem .. putproc before cgw: the empty-text return, sizeto *)
(* (in limmem only), and lsandbox_path_exists (not in putproc).            *)
(***************************************************************************)
StatFile(r) ==
  LET f       == File(r)
      present == f = "cgroup.procs" \/ (Name(r) \in dirs /\ f \in ControlFiles)
      invalid == f = "memory.max" /\ cfg[r].mem = "invalid"
  IN
  /\ pc[r] = "stat"
  /\ \/ ~Requested(r, f) /\ NextFile(r)
     \/ Requested(r, f) /\ invalid /\ Undo(r)
     \/ Requested(r, f) /\ ~invalid /\ present
          /\ Goto(r, "open") /\ UNCHANGED <<step, applied>>
     \/ Requested(r, f) /\ ~invalid /\ ~present /\ Optional(f) /\ NextFile(r)
     \/ Requested(r, f) /\ ~invalid /\ ~present /\ ~Optional(f) /\ Undo(r)
  /\ UNCHANGED <<cfg, host, cgVars, hnd, procVars>>

\* cgw: fopen
OpenFile(r) ==
  LET present == Name(r) \in dirs /\ File(r) \in ControlFiles IN
  /\ pc[r] = "open"
  /\ \/ present /\ hnd' = [hnd EXCEPT ![r] = "live"]
          /\ Goto(r, "flush") /\ UNCHANGED <<step, applied>>
     \/ ~present /\ Undo(r) /\ UNCHANGED hnd
  /\ UNCHANGED <<cfg, host, cgVars, procVars>>

(***************************************************************************)
(* cgw: fputs and fclose.  The text stays in the stdio buffer, so the      *)
(* write(2) happens in fclose, whose result is not looked at: a stale file *)
(* or a refused value changes nothing and cgw still returns 0.  Writing a  *)
(* pid moves that one process; the kernel ignores a process that is dying. *)
(***************************************************************************)
Flush(r) ==
  LET f      == File(r)
      works  == hnd[r] = "live" /\ Accepted(r, f)
  IN
  /\ pc[r] = "flush"
  /\ lim' = IF works /\ f \in LimitFiles
            THEN [lim EXCEPT ![Name(r)] = [@ EXCEPT ![f] = r]] ELSE lim
  /\ incg' = IF works /\ f = "cgroup.procs"
             THEN [incg EXCEPT ![r] = @ \cup ({0} \cap alive[r])] ELSE incg
  /\ hnd' = [hnd EXCEPT ![r] = "none"]
  /\ NextFile(r)
  /\ UNCHANGED <<cfg, host, dirs, child, alive>>

-----------------------------------------------------------------------------
(* The launcher: waitpid and lsandbox_cgroup_cleanup *)

\* mutant: waitpid with WNOHANG
WaitNoHang(r) ==
  /\ pc[r] = "wait"
  /\ child' = [child EXCEPT ![r] = IF @ = "zombie" THEN "reaped" ELSE @]
  /\ Goto(r, IF cfg[r].ignchld THEN "done" ELSE "cstat")
  /\ UNCHANGED <<cfg, host, cgVars, step, hnd, applied, alive, incg>>

\* waitpid returns: the child is reaped, or ECHILD makes the launcher return 1
Wait(r) ==
  /\ pc[r] = "wait"
  /\ child[r] = "zombie"
  /\ child' = [child EXCEPT ![r] = "reaped"]
  /\ Goto(r, IF cfg[r].ignchld THEN "done" ELSE "cstat")
  /\ UNCHANGED <<cfg, host, cgVars, step, hnd, applied, alive, incg>>

\* cleanup returns: into apply, which fails, or to the end of clone_run
CleanupReturns(r) ==
  IF applied[r] = "pending" THEN GiveUp(r) ELSE Goto(r, "done") /\ UNCHANGED applied

\* a directory that is gone, or that --keep-cgroup keeps, is left alone
CleanStat(r) ==
  LET leave == Name(r) \notin dirs \/ cfg[r].keep IN
  /\ pc[r] = "cstat"
  /\ \/ leave  /\ CleanupReturns(r)
     \/ ~leave /\ Goto(r, "cprocs") /\ UNCHANGED applied
  /\ UNCHANGED <<cfg, host, cgVars, step, hnd, procVars>>

\* mutant: cleanup polls until the group is empty
CleanProcsPolls(r) ==
  /\ pc[r] = "cprocs"
  /\ IF Members(Name(r)) # {} THEN UNCHANGED pc ELSE Goto(r, "crmdir")
  /\ UNCHANGED <<cfg, host, cgVars, step, hnd, applied, procVars>>

\* haspid: any process in the group, of whatever run, stops the cleanup
CleanProcs(r) ==
  LET busy == Members(Name(r)) # {} IN
  /\ pc[r] = "cprocs"
  /\ \/ busy  /\ CleanupReturns(r)
     \/ ~busy /\ Goto(r, "crmdir") /\ UNCHANGED applied
  /\ UNCHANGED <<cfg, host, cgVars, step, hnd, procVars>>

CleanRmdir(r) ==
  /\ pc[r] = "crmdir"
  /\ IF CanRmdir(Name(r)) THEN RemoveDir(Name(r)) ELSE UNCHANGED <<cgVars, hnd>>
  /\ CleanupReturns(r)
  /\ UNCHANGED <<cfg, host, step, procVars>>

-----------------------------------------------------------------------------
(* The box: child1 until execvp, then the command and its descendants *)

ChildExec(r) ==
  /\ child[r] = "setup"
  /\ child' = [child EXCEPT ![r] = "running"]
  /\ UNCHANGED <<cfg, host, cgVars, pc, step, hnd, applied, alive, incg>>

(***************************************************************************)
(* child1 returns (1 or 127), or the command exits or is killed.  It is    *)
(* the init of a pid namespace: its end takes every descendant with it,    *)
(* and only then can it be waited for.                                     *)
(***************************************************************************)
InitExit(r) ==
  LET survivors == IF "NEWPID" \in CloneFlags THEN {} ELSE alive[r] \ {0} IN
  /\ child[r] \in {"setup", "running"}
  /\ child' = [child EXCEPT ![r] = "zombie"]
  /\ alive' = [alive EXCEPT ![r] = survivors]
  /\ incg' = [incg EXCEPT ![r] = @ \cap survivors]
  /\ UNCHANGED <<cfg, host, cgVars, pc, step, hnd, applied>>

\* a new process is in its parent's cgroup, whose pids.max may forbid it
Fork(r) ==
  \E parent \in alive[r], k \in Pid \ alive[r] :
    LET inside == parent \in incg[r]
        setter == lim[Name(r)]["pids.max"]
    IN
    /\ child[r] = "running"
    /\ inside /\ setter # NoRun => Cardinality(Members(Name(r))) < cfg[setter].pids
    /\ alive' = [alive EXCEPT ![r] = @ \cup {k}]
    /\ incg' = IF inside THEN [incg EXCEPT ![r] = @ \cup {k}] ELSE incg
    /\ UNCHANGED <<cfg, host, cgVars, pc, step, hnd, applied, child>>

ProcExit(r) ==
  \E k \in alive[r] \ {0} :
    /\ alive' = [alive EXCEPT ![r] = @ \ {k}]
    /\ incg' = [incg EXCEPT ![r] = @ \ {k}]
    /\ UNCHANGED <<cfg, host, cgVars, pc, step, hnd, applied, child>>

-----------------------------------------------------------------------------
(* Outside events *)

\* the launcher dies (SIGINT, SIGKILL); the box lives on, as it has no
\* parent-death signal
Killed(r) ==
  /\ r \in Killable
  /\ pc[r] \notin {"start", "done", "killed"}
  /\ Goto(r, "killed")
  /\ hnd' = [hnd EXCEPT ![r] = "none"]
  /\ UNCHANGED <<cfg, host, cgVars, step, applied, procVars>>

\* one rmdir of the loop of lsandbox_manage_clean_cgroups
Sweep(n) ==
  /\ Sweeping
  /\ CanRmdir(n)
  /\ RemoveDir(n)
  /\ UNCHANGED <<cfg, host, pc, step, applied, procVars>>

-----------------------------------------------------------------------------

Init ==
  /\ cfg \in [Runs -> Configs]
  /\ host \in Hosts
  /\ dirs = {}
  /\ lim = [n \in Names |-> NoLimits]
  /\ pc = [r \in Runs |-> "start"]
  /\ step = [r \in Runs |-> 1]
  /\ hnd = [r \in Runs |-> "none"]
  /\ applied = [r \in Runs |-> "pending"]
  /\ child = [r \in Runs |-> "none"]
  /\ alive = [r \in Runs |-> {}]
  /\ incg = [r \in Runs |-> {}]

Apply(r) == \/ CheckHost(r) \/ StatOld(r) \/ RmOld(r) \/ Mkdir(r)
            \/ MkdirFails(r) \/ StatFile(r) \/ OpenFile(r) \/ Flush(r)

Cleanup(r) == CleanStat(r) \/ CleanProcs(r) \/ CleanRmdir(r)

Launcher(r) == Clone(r) \/ CloneFails(r) \/ Apply(r) \/ Wait(r) \/ Cleanup(r)

Box(r) == ChildExec(r) \/ InitExit(r) \/ Fork(r) \/ ProcExit(r)

\* every command has returned or was killed and no box is left
AllOver ==
  /\ \A r \in Runs : pc[r] \in {"done", "killed"} /\ alive[r] = {}
  /\ UNCHANGED vars

Next ==
  \/ \E r \in Runs : Launcher(r) \/ Box(r) \/ Killed(r)
  \/ \E n \in Names : Sweep(n)
  \/ AllOver

Spec == Init /\ [][Next]_vars

(***************************************************************************)
(* The launcher is an ordinary process: the scheduler does not starve it.  *)
(* The box is not assumed to make progress or to end.                      *)
(***************************************************************************)
FairSpec == Spec /\ \A r \in Runs : WF_vars(Launcher(r))
-----------------------------------------------------------------------------
(* Properties *)

\* no other run uses this box name
Sole(r) == \A q \in Runs \ {r} : Name(q) # Name(r)

Finished(r) == pc[r] = "done" /\ child[r] = "reaped"

\* r still looks after the directory named after its box, or has a reason not to
Answerable(r) ==
  /\ pc[r] # "start"
  /\ pc[r] = "done" => Finished(r) /\ (cfg[r].keep \/ cfg[r].ignchld)

(***************************************************************************)
(* Every group directory is accounted for: some launcher of that name is   *)
(* still at work and will clean up, or was killed, or was told to keep the *)
(* group, or could not wait for its child.  So once all runs of a name     *)
(* have ended normally the group is gone, however their apply and cleanup  *)
(* steps interleaved (lsandbox_cgroup_cleanup leaves a busy group alone,   *)
(* trusting that its other user removes it).                               *)
(***************************************************************************)
NoLeak == \A n \in dirs : \E r \in Runs : Name(r) = n /\ Answerable(r)

(***************************************************************************)
(* lsandbox_clone_run returns only after every process of the box is gone, *)
(* though it waits for the child alone.                                    *)
(***************************************************************************)
ReturnsAfterBox == \A r \in Runs : pc[r] = "done" => alive[r] = {}

(***************************************************************************)
(* No process is ever in a group whose limits are not all in force: apply  *)
(* writes the limits first and moves the child last, and nothing undoes    *)
(* them while the box is there.                                            *)
(***************************************************************************)
LimitsBeforeMembers ==
  \A r \in Runs : Sole(r) /\ incg[r] # {} =>
    \A f \in LimitFiles \cap ControlFiles :
      Requested(r, f) /\ Accepted(r, f) => lim[Name(r)][f] = r

\* the group of a box that shares its name with no other never holds more
\* processes than --pids allows
MembersWithinLimit ==
  \A r \in Runs : Sole(r) /\ Accepted(r, "pids.max") /\ incg[r] # {} =>
    Cardinality(incg[r]) <= cfg[r].pids

(***************************************************************************)
(* When lsandbox_cgroup_apply returned 0, and neither a run of the same    *)
(* name nor clean-cgroups interfered, a child that still lives is in the   *)
(* group.                                                                  *)
(***************************************************************************)
AppliedConfines ==
  \A r \in Runs : ~Sweeping /\ Sole(r) /\ applied[r] = "ok" /\ 0 \in alive[r]
    => 0 \in incg[r]

(***************************************************************************)
(* Once the child is dead the launcher, unless killed, comes back: no step *)
(* of apply or cleanup waits for another process.                          *)
(***************************************************************************)
LauncherReturns ==
  \A r \in Runs : child[r] = "zombie" ~> pc[r] \in {"done", "killed"}

-----------------------------------------------------------------------------
(* What the documents say and the code does not keep *)

(***************************************************************************)
(* "pids.max stops a fork bomb": once the limits are applied to a box that *)
(* nobody interferes with, all its processes are under them.  The child is *)
(* not held back until apply has run, and putproc moves one process only.  *)
(***************************************************************************)
WholeBoxConfined ==
  \A r \in Runs : ~Sweeping /\ Sole(r) /\ applied[r] = "ok"
    => alive[r] \subseteq incg[r]

(***************************************************************************)
(* When apply returns 0 the requested limits are in force.  cgw does not   *)
(* look at what fclose returns, which is where the write happens.          *)
(***************************************************************************)
ApplyReportsTruth ==
  \A r \in Runs : ~Sweeping /\ Sole(r) /\ applied[r] = "ok" /\ incg[r] # {}
    => \A f \in LimitFiles \cap ControlFiles :
         Requested(r, f) => lim[Name(r)][f] = r

-----------------------------------------------------------------------------
(* Runs one after the other: what an earlier run leaves behind *)

Idle(r) == pc[r] \in {"start", "done", "killed"} /\ alive[r] = {}

\* a run starts only when no other launcher is at work and no box is left
SerialNext ==
  /\ Next
  /\ \A r \in Runs : pc[r] = "start" /\ pc'[r] # "start" =>
       \A q \in Runs \ {r} : Idle(q)

SerialSpec == Init /\ [][SerialNext]_vars

(***************************************************************************)
(* A box is never held to the limits of an earlier run of its name, though *)
(* that run's launcher was killed halfway or kept its group: apply removes *)
(* the old directory before it makes its own.                              *)
(***************************************************************************)
OwnLimitsOnly ==
  \A r \in Runs : incg[r] # {} =>
    \A f \in LimitFiles : lim[Name(r)][f] \in {r, NoRun}

\* and it ends up in its group like a box whose name was never used before
RestartConfines ==
  \A r \in Runs : ~Sweeping /\ applied[r] = "ok" /\ 0 \in alive[r] => 0 \in incg[r]
=============================================================================
