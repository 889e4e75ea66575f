------------------------------- MODULE Child -------------------------------
(***************************************************************************)
(* child1: what the process created by clone() does before it becomes the  *)
(* boxed command.  It sets the host name, makes the mounts private, builds *)
(* the root file system and enters it (lsandbox_enter_rootfs), gives up    *)
(* root (touser), installs the system call filter and calls execvp.  The   *)
(* order matters to the kernel: mounting needs privilege and is refused by *)
(* the filter, a group can be changed only while still root, a working     *)
(* directory outside the new root is not moved by chroot.                  *)
(*                                                                         *)
(* The host may refuse any call: `refused' is the set of calls that fail.  *)
(* The box need not be new: the command of an earlier run, as root in its  *)
(* own tree, may have put links where child1 makes directories (`left').   *)
(***************************************************************************)
EXTENDS Naturals, FiniteSets

CONSTANTS
  Configs,   \* the configurations considered (subset of Config)
  Callers,   \* who may have started the launcher (subset of CallerKinds)
  Resolvs,   \* what the host's /etc/resolv.conf may be (subset of ResolvKinds)
  Refusals,  \* the sets of calls a host may refuse (subset of SUBSET Calls)
  Boxes      \* what earlier runs may have left in the box (subset of Remains)

\* enable_drop_privs and seccomp_mode
Config == [drop: BOOLEAN, mode: {"off", "basic", "strict"}]

(***************************************************************************)
(* sudo: effective user root, SUDO_UID names an ordinary user.  root: run  *)
(* by root itself, so that run_uid is root.  caps: not root, but with the  *)
(* capabilities clone() asks for.                                          *)
(***************************************************************************)
CallerKinds == {"sudo", "root", "caps"}

ResolvKinds == {"file", "relative link", "absolute link", "none"}

(***************************************************************************)
(* What the upper layer of the box has from earlier runs: the directories  *)
(* of child1 that are absolute links to the host's directory of that name, *)
(* for which mkdir says EEXIST and mkdir_p success; and its resolv.conf,   *)
(* which is the host's, seen through the overlay, if no run changed it.    *)
(***************************************************************************)
Linkable == {"/proc", "/dev", "/run", "/etc"}
Remains  == [links: SUBSET Linkable, resolv: ResolvKinds \cup {"host's"}]
NewBox   == [links |-> {}, resolv |-> "host's"]

\* the calls that can fail, in the order of their first use; "mketc" to "write"
\* are those of dns1, "open" being the creation of a new file
Calls == {"sethostname", "private", "overlay", "mkproc", "proc", "mkdev", "dev",
          "nodes", "mkshm", "shm", "mkpts", "pts", "mkrun", "run", "mketc",
          "unlink", "open", "write", "chroot", "workdir", "rootdir",
          "setgroups", "setgid", "setuid", "filter", "execvp"}

ASSUME ChildAssumption ==
  /\ Configs \subseteq Config
  /\ Callers \subseteq CallerKinds
  /\ Resolvs \subseteq ResolvKinds
  /\ Refusals \subseteq SUBSET Calls
  /\ Boxes \subseteq Remains

VARIABLES
  cfg, caller, resolv, refused, left,   \* fixed from the start
  pc,          \* the step to do next, or how it ended
  peer,        \* whether mounts still propagate to the host
  mounts,      \* mount points made so far in the box
  hostMounts,  \* mount points made that the host sees
  root,        \* the root directory, "host" or "merged"
  cwd,         \* "outside" the merged root, its "workdir" or its "top"
  cred,        \* user, group, supplementary groups, capabilities
  denied,      \* system calls the filter kills for
  hostResolv,  \* the host's resolver file, "intact" or what became of it
  boxResolv    \* the box's: "none", "host", "fallback" or "empty"

fixed == <<cfg, caller, resolv, refused, left>>
fs    == <<peer, mounts, hostMounts, root, cwd>>
dns   == <<hostResolv, boxResolv>>
vars  == <<fixed, pc, fs, cred, denied, dns>>

Ended == {"exec", "exit1", "exit127", "killed"}
Steps == {"sethostname", "private", "overlay", "proc", "dev", "nodes", "shm",
          "pts", "run", "dns", "chroot", "chdir", "setgroups", "setgid",
          "setuid", "filter", "execvp"}

Cred == [uid: {"root", "user"}, gid: {"root", "user"},
         groups: {"caller's", "none"}, caps: BOOLEAN]

\* what seccomp_filter.c denies; three names stand for the dozen of each list
Basic      == {"mount", "ptrace", "reboot"}
StrictOnly == {"unshare", "setns", "pivot_root"}

Points == {"/", "/proc", "/dev", "/dev/shm", "/dev/pts", "/run"}

TypeOK ==
  /\ cfg \in Configs /\ caller \in Callers
  /\ resolv \in Resolvs /\ refused \in Refusals /\ left \in Boxes
  /\ pc \in Steps \cup Ended
  /\ peer \in {"shared", "private"}
  /\ mounts \subseteq Points /\ hostMounts \subseteq Points
  /\ root \in {"host", "merged"}
  /\ cwd \in {"outside", "workdir", "top"}
  /\ cred \in Cred
  /\ denied \subseteq Basic \cup StrictOnly
  /\ hostResolv \in {"intact", "emptied", "replaced", "removed"}
  /\ boxResolv \in {"none", "host", "fallback", "empty"}

-----------------------------------------------------------------------------
(* Helpers *)

Works(call) == call \notin refused

At(step) == pc = step
Goto(step) == pc' = step

\* run_uid and run_gid, from SUDO_UID and SUDO_GID or the real ids
RunId == IF caller = "root" THEN "root" ELSE "user"

\* touser does something only when asked to and when effective user is root
Drops == cfg.drop /\ caller # "caps"

\* mutant: touser forgets the supplementary groups
AfterChdirNoGroups == IF Drops THEN "setgid" ELSE "filter"

AfterChdir == IF Drops THEN "setgroups" ELSE "filter"

\* the kernel lets a process mount, chroot and make device nodes
MayMount == cred.caps /\ "mount" \notin denied

\* a link in the box leads out of it
Outside(point) ==
  point \in left.links \/ (point \in {"/dev/shm", "/dev/pts"} /\ "/dev" \in left.links)

\* a mount made while / is still shared appears on the host too; one made
\* through a link is not in the box
Mounted(point) ==
  /\ mounts' = IF Outside(point) THEN mounts ELSE mounts \cup {point}
  /\ hostMounts' = IF peer = "shared" THEN hostMounts \cup {point} ELSE hostMounts

NotMounted == UNCHANGED <<mounts, hostMounts>>

\* a denied call ends the process, a refused one makes child1 return 1
Stops == Goto(IF "mount" \in denied THEN "killed" ELSE "exit1")

\* mutant: every failed mount is a warning only
MountStepLax(step, mkdir, point, must, next) ==
  LET ok == MayMount /\ Works(step) IN
  /\ At(step)
  /\ \/ ~Works(mkdir) /\ Goto("exit1") /\ NotMounted
     \/ Works(mkdir) /\ ok /\ Mounted(point) /\ Goto(next)
     \/ Works(mkdir) /\ ~ok /\ NotMounted /\ Goto(next)
  /\ UNCHANGED <<fixed, peer, root, cwd, cred, denied, dns>>

(***************************************************************************)
(* A step that child1 cannot do without: the mkdir_p before it, if any,    *)
(* and the mount.  With `must' FALSE a failed mount is a warning only.     *)
(***************************************************************************)
MountStep(step, mkdir, point, must, next) ==
  LET ok == MayMount /\ Works(step) IN
  /\ At(step)
  /\ \/ ~Works(mkdir) /\ Goto("exit1") /\ NotMounted
     \/ Works(mkdir) /\ ok /\ Mounted(point) /\ Goto(next)
     \/ Works(mkdir) /\ ~ok /\ must /\ Stops /\ NotMounted
     \/ Works(mkdir) /\ ~ok /\ ~must /\ NotMounted
          /\ Goto(IF "mount" \in denied THEN "killed" ELSE next)
  /\ UNCHANGED <<fixed, peer, root, cwd, cred, denied, dns>>

\* a call that succeeds and has its effect, or makes child1 return 1
OrExit1(ok, next) == IF ok THEN Goto(next) ELSE Goto("exit1")

-----------------------------------------------------------------------------
(* child1, mounts and lsandbox_enter_rootfs *)

\* mutant: the filter is installed before the mounts
SetHostnameFiltered ==
  /\ At("sethostname")
  /\ OrExit1(cred.caps /\ Works("sethostname"), "private")
  /\ denied' = IF cfg.mode = "off" THEN {} ELSE Basic
  /\ UNCHANGED <<fixed, fs, cred, dns>>

SetHostname ==
  /\ At("sethostname")
  /\ OrExit1(cred.caps /\ Works("sethostname"), "private")
  /\ UNCHANGED <<fixed, fs, cred, denied, dns>>

\* mutant: the mounts stay shared with the host
MakePrivateNot ==
  LET ok == MayMount /\ Works("private") IN
  /\ At("private")
  /\ IF ok THEN Goto("overlay") ELSE Stops
  /\ UNCHANGED <<fixed, fs, cred, denied, dns>>

\* mount(0, "/", 0, MS_REC | MS_PRIVATE, 0)
MakePrivate ==
  LET ok == MayMount /\ Works("private") IN
  /\ At("private")
  /\ \/ ok /\ Goto("overlay") /\ peer' = "private"
     \/ ~ok /\ Stops /\ UNCHANGED peer
  /\ UNCHANGED <<fixed, mounts, hostMounts, root, cwd, cred, denied, dns>>

\* ovroot: its directories were made by the launcher
MountOverlay == MountStep("overlay", "none", "/", TRUE, "proc")

\* bindsys and setup_private_dev
MountProc == MountStep("proc", "mkproc", "/proc", TRUE, "dev")
MountDev  == MountStep("dev", "mkdev", "/dev", TRUE, "nodes")
MountShm  == MountStep("shm", "mkshm", "/dev/shm", FALSE, "pts")
MountPts  == MountStep("pts", "mkpts", "/dev/pts", FALSE, "run")
MountRun  == MountStep("run", "mkrun", "/run", FALSE, "dns")

\* the six mkdev calls; the symbolic links after them may fail unnoticed
MakeNodes ==
  /\ At("nodes")
  /\ OrExit1(cred.caps /\ Works("nodes"), "shm")
  /\ UNCHANGED <<fixed, fs, cred, denied, dns>>

(***************************************************************************)
(* dns1.  copy1 opens the host's file, unlinks the box's and writes a new  *)
(* one; without the host's, the two public name servers are written.       *)
(* Where the box has a symbolic link that unlink did not remove, opening   *)
(* it for writing follows it: a relative link ends in the empty /run of    *)
(* the box and cannot be opened, an absolute one still means the host's    *)
(* file.  Where /etc itself is a link, unlink acts on the host's as well.  *)
(* Short texts leave the stdio buffer in fclose, whose failure is not      *)
(* noticed.                                                                *)
(***************************************************************************)
LinkLeft(kind) ==
  /\ ~Works("unlink")
  /\ kind = IF left.resolv = "host's" THEN resolv ELSE left.resolv

Written(text) == IF Works("write") THEN text ELSE "empty"

\* what is opened for writing is the host's file: emptied before it is read,
\* or made anew if there is none or unlink has removed it
HostResolv ==
  LET gone == resolv = "none" \/ (Outside("/etc") /\ Works("unlink")) IN
  /\ Outside("/etc") \/ LinkLeft("absolute link")
  /\ \/ ~gone /\ hostResolv' = "emptied"
     \/ gone /\ Works("open")
          /\ hostResolv' = IF Works("write") THEN "replaced" ELSE "emptied"
     \/ gone /\ ~Works("open")
          /\ hostResolv' = IF resolv = "none" THEN hostResolv ELSE "removed"
  /\ UNCHANGED boxResolv

\* the box's file is written, if it can be opened
BoxResolv ==
  /\ ~Outside("/etc") /\ ~LinkLeft("absolute link")
  /\ UNCHANGED hostResolv
  /\ boxResolv' = IF ~Works("open") \/ LinkLeft("relative link") THEN boxResolv
                  ELSE Written(IF resolv = "none" THEN "fallback" ELSE "host")

SetupResolv ==
  /\ At("dns")
  /\ \/ ~Works("mketc") /\ UNCHANGED dns
     \/ Works("mketc") /\ (HostResolv \/ BoxResolv)
  /\ Goto("chroot")
  /\ UNCHANGED <<fixed, fs, cred, denied>>

Chroot ==
  LET ok == cred.caps /\ Works("chroot") IN
  /\ At("chroot")
  /\ OrExit1(ok, "chdir")
  /\ root' = IF ok THEN "merged" ELSE root
  /\ UNCHANGED <<fixed, peer, mounts, hostMounts, cwd, cred, denied, dns>>

\* the caller's directory if the box has it, else its top
Chdir ==
  /\ At("chdir")
  /\ OrExit1(Works("workdir") \/ Works("rootdir"), AfterChdir)
  /\ cwd' = IF Works("workdir") THEN "workdir"
            ELSE IF Works("rootdir") THEN "top" ELSE cwd
  /\ UNCHANGED <<fixed, peer, mounts, hostMounts, root, cred, denied, dns>>

-----------------------------------------------------------------------------
(* touser, lsandbox_install_seccomp_filter, execvp *)

SetGroups ==
  LET ok == cred.caps /\ Works("setgroups") IN
  /\ At("setgroups")
  /\ OrExit1(ok, "setgid")
  /\ cred' = IF ok THEN [cred EXCEPT !.groups = "none"] ELSE cred
  /\ UNCHANGED <<fixed, fs, denied, dns>>

SetGid ==
  LET ok == (cred.caps \/ cred.gid = RunId) /\ Works("setgid") IN
  /\ At("setgid")
  /\ OrExit1(ok, "setuid")
  /\ cred' = IF ok THEN [cred EXCEPT !.gid = RunId] ELSE cred
  /\ UNCHANGED <<fixed, fs, denied, dns>>

\* all three user ids change; leaving user root gives up the capabilities
SetUid ==
  LET ok == (cred.caps \/ cred.uid = RunId) /\ Works("setuid") IN
  /\ At("setuid")
  /\ OrExit1(ok, "filter")
  /\ cred' = IF ok THEN [cred EXCEPT !.uid = RunId, !.caps = @ /\ RunId = "root"]
             ELSE cred
  /\ UNCHANGED <<fixed, fs, denied, dns>>

\* mutant: a call on neither list
FilterMore(mode) == IF mode = "off" THEN {} ELSE Basic \cup {"execve"}

\* allow by default, kill for the listed calls; libseccomp sets no_new_privs,
\* so no capability is needed
Filter(mode) ==
  CASE mode = "off"    -> {}
    [] mode = "basic"  -> Basic
    [] mode = "strict" -> Basic \cup StrictOnly

\* mutant: a filter that cannot be installed is a warning only
InstallFilterLax ==
  /\ At("filter")
  /\ Goto("execvp")
  /\ denied' = IF Works("filter") THEN denied \cup Filter(cfg.mode) ELSE denied
  /\ UNCHANGED <<fixed, fs, cred, dns>>

InstallFilter ==
  /\ At("filter")
  /\ \/ cfg.mode = "off" /\ Goto("execvp") /\ UNCHANGED denied
     \/ cfg.mode # "off" /\ Works("filter")
          /\ Goto("execvp") /\ denied' = denied \cup Filter(cfg.mode)
     \/ cfg.mode # "off" /\ ~Works("filter") /\ Goto("exit1") /\ UNCHANGED denied
  /\ UNCHANGED <<fixed, fs, cred, dns>>

Exec ==
  /\ At("execvp")
  /\ Goto(IF Works("execvp") THEN "exec" ELSE "exit127")
  /\ UNCHANGED <<fixed, fs, cred, denied, dns>>

-----------------------------------------------------------------------------

Init ==
  /\ cfg \in Configs /\ caller \in Callers
  /\ resolv \in Resolvs /\ refused \in Refusals /\ left \in Boxes
  /\ pc = "sethostname"
  /\ peer = "shared"
  /\ mounts = {} /\ hostMounts = {}
  /\ root = "host" /\ cwd = "outside"
  /\ cred = LET me == IF caller = "caps" THEN "user" ELSE "root"
            IN [uid |-> me, gid |-> me, groups |-> "caller's", caps |-> TRUE]
  /\ denied = {}
  /\ hostResolv = "intact" /\ boxResolv = "none"

\* the command, or nothing: child1's own code is over
Over == pc \in Ended /\ UNCHANGED vars

Next ==
  \/ SetHostname \/ MakePrivate \/ MountOverlay \/ MountProc \/ MountDev
  \/ MakeNodes \/ MountShm \/ MountPts \/ MountRun \/ SetupResolv
  \/ Chroot \/ Chdir \/ SetGroups \/ SetGid \/ SetUid \/ InstallFilter \/ Exec
  \/ Over

Spec == Init /\ [][Next]_vars

\* child1 is an ordinary process and none of its calls waits for another
FairSpec == Spec /\ WF_vars(Next)
-----------------------------------------------------------------------------
(* Properties *)

(***************************************************************************)
(* Whatever fails on the way and whatever earlier runs left in the box,    *)
(* nothing child1 mounts shows on the host; and the host's resolver file   *)
(* is left alone, though child1 works on the box's before chroot, as long  *)
(* as that can be unlinked and the box's /etc was not made a link.         *)
(***************************************************************************)
HostUntouched ==
  /\ hostMounts = {}
  /\ Works("unlink") /\ ~Outside("/etc") => hostResolv = "intact"

\* the calls whose failure must keep the command from running
Needed ==
  {"sethostname", "private", "overlay", "mkproc", "proc", "mkdev", "dev",
   "nodes", "mkshm", "mkpts", "mkrun", "chroot", "execvp"}
    \cup (IF Drops THEN {"setgroups", "setgid", "setuid"} ELSE {})
    \cup (IF cfg.mode # "off" THEN {"filter"} ELSE {})

(***************************************************************************)
(* child1 fails closed: the command runs only if every call it relies on   *)
(* worked, and then inside the merged root, with its own /proc and /dev    *)
(* (where an earlier run has not made them links), and with a working      *)
(* directory that is in that root as well.                                 *)
(***************************************************************************)
CommandConfined ==
  At("exec") =>
    /\ refused \cap Needed = {}
    /\ root = "merged" /\ cwd # "outside"
    /\ {"/", "/proc", "/dev"} \subseteq mounts \cup left.links

(***************************************************************************)
(* A box started through sudo, and not told otherwise, runs its command    *)
(* with nothing left of root: user, group, supplementary groups and        *)
(* capabilities.                                                           *)
(***************************************************************************)
CommandUnprivileged ==
  At("exec") /\ cfg.drop /\ caller = "sudo" =>
    cred = [uid |-> "user", gid |-> "user", groups |-> "none", caps |-> FALSE]

\* the command never runs without the filter that was asked for
FilterInForce == At("exec") => denied = Filter(cfg.mode)

(***************************************************************************)
(* child1 does not stand in its own way: when the host refuses nothing it  *)
(* needs, the command is reached.  Giving up root or installing the filter *)
(* too early would make a later step of child1 itself impossible.          *)
(***************************************************************************)
CommandReached ==
  (refused \cap (Needed \cup {"rootdir"}) = {}) ~> At("exec")

-----------------------------------------------------------------------------
(* What the documents say and the code does not keep *)

\* the host's files are never written to, whatever fails
HostFilesUntouched == hostResolv = "intact"
=============================================================================
