---------------------------- MODULE ChildProofs ----------------------------
(***************************************************************************)
(* Proofs about Child, for any set of configurations, callers, refusals    *)
(* and remains of earlier runs.  child1 is a pipeline, so the inductive    *)
(* invariant says, for each step, what holds once child1 has come as far   *)
(* as that step: which calls have worked, which mounts are there, what the *)
(* credentials are.                                                        *)
(***************************************************************************)
EXTENDS Child, TLAPS

\* the steps from the named one on, up to the command
ToExec      == {"execvp", "exec"}
ToFilter    == ToExec \cup {"filter"}
ToSetUid    == ToFilter \cup {"setuid"}
ToSetGid    == ToSetUid \cup {"setgid"}
ToSetGroups == ToSetGid \cup {"setgroups"}
ToChdir     == ToSetGroups \cup {"chdir"}
ToChroot    == ToChdir \cup {"chroot"}
ToDns       == ToChroot \cup {"dns"}
ToRun       == ToDns \cup {"run"}
ToPts       == ToRun \cup {"pts"}
ToShm       == ToPts \cup {"shm"}
ToNodes     == ToShm \cup {"nodes"}
ToDev       == ToNodes \cup {"dev"}
ToProc      == ToDev \cup {"proc"}
ToOverlay   == ToProc \cup {"overlay"}
ToPrivate   == ToOverlay \cup {"private"}

(***************************************************************************)
(* What has worked, been mounted and been entered by then; R are calls     *)
(* that the host refuses: here all of them, in a run as a whole those      *)
(* that fail from the start, while others fail once something is removed.  *)
(***************************************************************************)
Built(R) ==
  /\ pc \in ToPrivate => "sethostname" \notin R
  /\ pc \in ToOverlay => "private" \notin R /\ peer = "private"
  /\ pc \in ToProc    => "overlay" \notin R /\ "/" \in mounts
  /\ pc \in ToDev     => "mkproc" \notin R /\ "proc" \notin R
  /\ pc \in ToNodes   => "mkdev" \notin R /\ "dev" \notin R
  /\ pc \in ToShm     => "nodes" \notin R
  /\ pc \in ToPts     => "mkshm" \notin R
  /\ pc \in ToRun     => "mkpts" \notin R
  /\ pc \in ToDns     => "mkrun" \notin R
  /\ pc \in ToChdir   => "chroot" \notin R /\ root = "merged"
  /\ pc \in ToSetGroups => cwd # "outside"
  /\ pc = "exec"      => "execvp" \notin R

\* /proc and /dev are the box's own, or a link that was there before
Furnished ==
  /\ pc \in ToDev   => "/proc" \in mounts \cup left.links
  /\ pc \in ToNodes => "/dev" \in mounts \cup left.links

Mountless(R) ==
  /\ hostMounts = {}
  /\ "unlink" \notin R /\ ~Outside("/etc") => hostResolv = "intact"

\* what touser and the filter have done by then
Dropped(R) ==
  /\ pc \in {"setgroups", "setgid", "setuid"} => Drops
  /\ Drops /\ pc \in ToSetGid => "setgroups" \notin R /\ cred.groups = "none"
  /\ Drops /\ pc \in ToSetUid => "setgid" \notin R /\ cred.gid = RunId
  /\ Drops /\ pc \in ToFilter => "setuid" \notin R /\ cred.uid = RunId
  /\ Drops /\ pc \in ToFilter /\ RunId = "user" => ~cred.caps
  /\ cfg.mode # "off" /\ pc \in ToExec => "filter" \notin R
  /\ pc \in ToExec => denied = Filter(cfg.mode)
  /\ pc \notin ToExec \cup {"exit127"} => denied = {}

IInv ==
  TypeOK /\ Built(refused) /\ Furnished /\ Mountless(refused) /\ Dropped(refused)

-----------------------------------------------------------------------------

LEMMA InitInv == Init => IInv
BY ChildAssumption
DEF Init, IInv, TypeOK, Built, Furnished, Mountless, Dropped, Steps, Cred,
    ToPrivate, ToOverlay, ToProc, ToDev, ToNodes, ToShm, ToPts, ToRun, ToDns,
    ToChroot, ToChdir, ToSetGroups, ToSetGid, ToSetUid, ToFilter, ToExec

\* a MountStep keeps the types, whatever is mounted
LEMMA MountTypes ==
  ASSUME TypeOK, NEW step, NEW mkdir, NEW point \in Points, NEW must,
         NEW next \in Steps, MountStep(step, mkdir, point, must, next)
  PROVE  TypeOK'
<1>1. mounts' \subseteq Points /\ hostMounts' \subseteq Points
  BY DEF MountStep, Mounted, NotMounted, TypeOK, Points
<1>2. pc' \in Steps \cup Ended
  BY DEF MountStep, Stops, Goto, Steps, Ended
<1> QED BY <1>1, <1>2 DEF MountStep, TypeOK, fixed, dns, Points

LEMMA FilterTypes ==
  \A mode \in {"off", "basic", "strict"} : Filter(mode) \subseteq Basic \cup StrictOnly
BY DEF Filter

LEMMA TypeStep == TypeOK /\ [Next]_vars => TypeOK'
<1> SUFFICES ASSUME TypeOK, [Next]_vars PROVE TypeOK' OBVIOUS
<1> USE DEF TypeOK, Steps, Ended, Cred, At, Goto, fixed, fs, dns
<1>1. CASE SetHostname
  BY <1>1 DEF SetHostname, OrExit1
<1>2. CASE MakePrivate
  BY <1>2 DEF MakePrivate, MayMount, Stops
<1>3. CASE MountOverlay
  BY <1>3, MountTypes DEF MountOverlay, Points
<1>4. CASE MountProc
  BY <1>4, MountTypes DEF MountProc, Points
<1>5. CASE MountDev
  BY <1>5, MountTypes DEF MountDev, Points
<1>6. CASE MakeNodes
  BY <1>6 DEF MakeNodes, OrExit1
<1>7. CASE MountShm
  BY <1>7, MountTypes DEF MountShm, Points
<1>8. CASE MountPts
  BY <1>8, MountTypes DEF MountPts, Points
<1>9. CASE MountRun
  BY <1>9, MountTypes DEF MountRun, Points
<1>10. CASE SetupResolv
  <2>1. /\ hostResolv' \in {"intact", "emptied", "replaced", "removed"}
        /\ boxResolv' \in {"none", "host", "fallback", "empty"}
    BY <1>10 DEF SetupResolv, HostResolv, BoxResolv, Written
  <2> QED BY <1>10, <2>1 DEF SetupResolv
<1>11. CASE Chroot
  BY <1>11 DEF Chroot, OrExit1
<1>12. CASE Chdir
  BY <1>12 DEF Chdir, OrExit1, AfterChdir
<1>13. CASE SetGroups
  BY <1>13 DEF SetGroups, OrExit1
<1>14. CASE SetGid
  BY <1>14 DEF SetGid, OrExit1, RunId
<1>15. CASE SetUid
  BY <1>15 DEF SetUid, OrExit1, RunId
<1>16. CASE InstallFilter
  <2>1. cfg.mode \in {"off", "basic", "strict"}
    BY ChildAssumption DEF Config
  <2>2. denied' \subseteq Basic \cup StrictOnly
    BY <1>16, <2>1, FilterTypes DEF InstallFilter
  <2> QED BY <1>16, <2>2 DEF InstallFilter
<1>17. CASE Exec
  BY <1>17 DEF Exec
<1>18. CASE UNCHANGED vars
  BY <1>18 DEF vars
<1> QED
  BY <1>1, <1>2, <1>3, <1>4, <1>5, <1>6, <1>7, <1>8, <1>9, <1>10, <1>11,
     <1>12, <1>13, <1>14, <1>15, <1>16, <1>17, <1>18 DEF Next, Over

LEMMA BuiltStep ==
  ASSUME NEW R, R \subseteq refused, TypeOK, Built(R), [Next]_vars
  PROVE  Built(R)'
<1>0. "/" \notin left.links
  BY ChildAssumption DEF TypeOK, Remains, Linkable
<1> USE <1>0 DEF Built, Works, At, Goto, Outside, fixed, fs, dns,
          ToPrivate, ToOverlay, ToProc, ToDev, ToNodes, ToShm, ToPts, ToRun,
          ToDns, ToChroot, ToChdir, ToSetGroups, ToSetGid, ToSetUid, ToFilter, ToExec
<1>1. CASE SetHostname
  BY <1>1 DEF SetHostname, OrExit1
<1>2. CASE MakePrivate
  BY <1>2 DEF MakePrivate, MayMount, Stops
<1>3. CASE MountOverlay
  BY <1>3 DEF MountOverlay, MountStep, Mounted, NotMounted, MayMount, Stops
<1>4. CASE MountProc
  BY <1>4 DEF MountProc, MountStep, Mounted, NotMounted, MayMount, Stops
<1>5. CASE MountDev
  BY <1>5 DEF MountDev, MountStep, Mounted, NotMounted, MayMount, Stops
<1>6. CASE MakeNodes
  BY <1>6 DEF MakeNodes, OrExit1
<1>7. CASE MountShm
  BY <1>7 DEF MountShm, MountStep, Mounted, NotMounted, MayMount, Stops
<1>8. CASE MountPts
  BY <1>8 DEF MountPts, MountStep, Mounted, NotMounted, MayMount, Stops
<1>9. CASE MountRun
  BY <1>9 DEF MountRun, MountStep, Mounted, NotMounted, MayMount, Stops
<1>10. CASE SetupResolv
  BY <1>10 DEF SetupResolv, HostResolv, BoxResolv, LinkLeft, Written
<1>11. CASE Chroot
  BY <1>11 DEF Chroot, OrExit1
<1>12. CASE Chdir
  BY <1>12 DEF Chdir, OrExit1, AfterChdir
<1>13. CASE SetGroups
  BY <1>13 DEF SetGroups, OrExit1
<1>14. CASE SetGid
  BY <1>14 DEF SetGid, OrExit1, RunId
<1>15. CASE SetUid
  BY <1>15 DEF SetUid, OrExit1, RunId
<1>16. CASE InstallFilter
  BY <1>16 DEF InstallFilter, Filter, Basic, StrictOnly
<1>17. CASE Exec
  BY <1>17 DEF Exec
<1>18. CASE UNCHANGED vars
  BY <1>18 DEF vars
<1> QED
  BY <1>1, <1>2, <1>3, <1>4, <1>5, <1>6, <1>7, <1>8, <1>9, <1>10, <1>11,
     <1>12, <1>13, <1>14, <1>15, <1>16, <1>17, <1>18 DEF Next, Over

LEMMA FurnishedStep ==
  ASSUME Furnished, [Next]_vars
  PROVE  Furnished'
<1> USE DEF Furnished, At, Goto, Outside, fixed, fs, dns,
          ToPrivate, ToOverlay, ToProc, ToDev, ToNodes, ToShm, ToPts, ToRun,
          ToDns, ToChroot, ToChdir, ToSetGroups, ToSetGid, ToSetUid, ToFilter, ToExec
<1>1. CASE SetHostname
  BY <1>1 DEF SetHostname, OrExit1
<1>2. CASE MakePrivate
  BY <1>2 DEF MakePrivate, MayMount, Stops
<1>3. CASE MountOverlay
  BY <1>3 DEF MountOverlay, MountStep, Mounted, NotMounted, MayMount, Stops
<1>4. CASE MountProc
  BY <1>4 DEF MountProc, MountStep, Mounted, NotMounted, MayMount, Stops
<1>5. CASE MountDev
  BY <1>5 DEF MountDev, MountStep, Mounted, NotMounted, MayMount, Stops
<1>6. CASE MakeNodes
  BY <1>6 DEF MakeNodes, OrExit1
<1>7. CASE MountShm
  BY <1>7 DEF MountShm, MountStep, Mounted, NotMounted, MayMount, Stops
<1>8. CASE MountPts
  BY <1>8 DEF MountPts, MountStep, Mounted, NotMounted, MayMount, Stops
<1>9. CASE MountRun
  BY <1>9 DEF MountRun, MountStep, Mounted, NotMounted, MayMount, Stops
<1>10. CASE SetupResolv
  BY <1>10 DEF SetupResolv, HostResolv, BoxResolv, LinkLeft, Written
<1>11. CASE Chroot
  BY <1>11 DEF Chroot, OrExit1
<1>12. CASE Chdir
  BY <1>12 DEF Chdir, OrExit1, AfterChdir
<1>13. CASE SetGroups
  BY <1>13 DEF SetGroups, OrExit1
<1>14. CASE SetGid
  BY <1>14 DEF SetGid, OrExit1, RunId
<1>15. CASE SetUid
  BY <1>15 DEF SetUid, OrExit1, RunId
<1>16. CASE InstallFilter
  BY <1>16 DEF InstallFilter, Filter, Basic, StrictOnly
<1>17. CASE Exec
  BY <1>17 DEF Exec
<1>18. CASE UNCHANGED vars
  BY <1>18 DEF vars
<1> QED
  BY <1>1, <1>2, <1>3, <1>4, <1>5, <1>6, <1>7, <1>8, <1>9, <1>10, <1>11,
     <1>12, <1>13, <1>14, <1>15, <1>16, <1>17, <1>18 DEF Next, Over

LEMMA MountlessStep ==
  ASSUME NEW Q, Built(Q), NEW R, "unlink" \in refused => "unlink" \in R, Mountless(R),
         [Next]_vars
  PROVE  Mountless(R)'
<1> USE DEF Built, Mountless, Works, At, Goto, Outside, fixed, fs, dns,
          ToPrivate, ToOverlay, ToProc, ToDev, ToNodes, ToShm, ToPts, ToRun,
          ToDns, ToChroot, ToChdir, ToSetGroups, ToSetGid, ToSetUid, ToFilter, ToExec
<1>1. CASE SetHostname
  BY <1>1 DEF SetHostname, OrExit1
<1>2. CASE MakePrivate
  BY <1>2 DEF MakePrivate, MayMount, Stops
<1>3. CASE MountOverlay
  BY <1>3 DEF MountOverlay, MountStep, Mounted, NotMounted, MayMount, Stops
<1>4. CASE MountProc
  BY <1>4 DEF MountProc, MountStep, Mounted, NotMounted, MayMount, Stops
<1>5. CASE MountDev
  BY <1>5 DEF MountDev, MountStep, Mounted, NotMounted, MayMount, Stops
<1>6. CASE MakeNodes
  BY <1>6 DEF MakeNodes, OrExit1
<1>7. CASE MountShm
  BY <1>7 DEF MountShm, MountStep, Mounted, NotMounted, MayMount, Stops
<1>8. CASE MountPts
  BY <1>8 DEF MountPts, MountStep, Mounted, NotMounted, MayMount, Stops
<1>9. CASE MountRun
  BY <1>9 DEF MountRun, MountStep, Mounted, NotMounted, MayMount, Stops
<1>10. CASE SetupResolv
  BY <1>10 DEF SetupResolv, HostResolv, BoxResolv, LinkLeft, Written
<1>11. CASE Chroot
  BY <1>11 DEF Chroot, OrExit1
<1>12. CASE Chdir
  BY <1>12 DEF Chdir, OrExit1, AfterChdir
<1>13. CASE SetGroups
  BY <1>13 DEF SetGroups, OrExit1
<1>14. CASE SetGid
  BY <1>14 DEF SetGid, OrExit1, RunId
<1>15. CASE SetUid
  BY <1>15 DEF SetUid, OrExit1, RunId
<1>16. CASE InstallFilter
  BY <1>16 DEF InstallFilter, Filter, Basic, StrictOnly
<1>17. CASE Exec
  BY <1>17 DEF Exec
<1>18. CASE UNCHANGED vars
  BY <1>18 DEF vars
<1> QED
  BY <1>1, <1>2, <1>3, <1>4, <1>5, <1>6, <1>7, <1>8, <1>9, <1>10, <1>11,
     <1>12, <1>13, <1>14, <1>15, <1>16, <1>17, <1>18 DEF Next, Over

LEMMA DroppedStep ==
  ASSUME NEW R, R \subseteq refused, TypeOK, Dropped(R), [Next]_vars
  PROVE  Dropped(R)'
<1> USE DEF TypeOK, Cred, Dropped, Works, At, Goto, fixed, fs, dns, Drops, RunId, Filter,
          ToPrivate, ToOverlay, ToProc, ToDev, ToNodes, ToShm, ToPts, ToRun,
          ToDns, ToChroot, ToChdir, ToSetGroups, ToSetGid, ToSetUid, ToFilter, ToExec
<1>1. CASE SetHostname
  BY <1>1 DEF SetHostname, OrExit1
<1>2. CASE MakePrivate
  BY <1>2 DEF MakePrivate, MayMount, Stops
<1>3. CASE MountOverlay
  BY <1>3 DEF MountOverlay, MountStep, Mounted, NotMounted, MayMount, Stops
<1>4. CASE MountProc
  BY <1>4 DEF MountProc, MountStep, Mounted, NotMounted, MayMount, Stops
<1>5. CASE MountDev
  BY <1>5 DEF MountDev, MountStep, Mounted, NotMounted, MayMount, Stops
<1>6. CASE MakeNodes
  BY <1>6 DEF MakeNodes, OrExit1
<1>7. CASE MountShm
  BY <1>7 DEF MountShm, MountStep, Mounted, NotMounted, MayMount, Stops
<1>8. CASE MountPts
  BY <1>8 DEF MountPts, MountStep, Mounted, NotMounted, MayMount, Stops
<1>9. CASE MountRun
  BY <1>9 DEF MountRun, MountStep, Mounted, NotMounted, MayMount, Stops
<1>10. CASE SetupResolv
  BY <1>10 DEF SetupResolv, HostResolv, BoxResolv, LinkLeft, Written
<1>11. CASE Chroot
  BY <1>11 DEF Chroot, OrExit1
<1>12. CASE Chdir
  BY <1>12 DEF Chdir, OrExit1, AfterChdir
<1>13. CASE SetGroups
  BY <1>13 DEF SetGroups, OrExit1
<1>14. CASE SetGid
  BY <1>14 DEF SetGid, OrExit1, RunId
<1>15. CASE SetUid
  BY <1>15 DEF SetUid, OrExit1, RunId
<1>16. CASE InstallFilter
  BY <1>16 DEF InstallFilter, Filter, Basic, StrictOnly
<1>17. CASE Exec
  BY <1>17 DEF Exec
<1>18. CASE UNCHANGED vars
  BY <1>18 DEF vars
<1> QED
  BY <1>1, <1>2, <1>3, <1>4, <1>5, <1>6, <1>7, <1>8, <1>9, <1>10, <1>11,
     <1>12, <1>13, <1>14, <1>15, <1>16, <1>17, <1>18 DEF Next, Over

-----------------------------------------------------------------------------
(* What the invariant says of the command *)

LEMMA Confined ==
  ASSUME NEW R, Built(R), Furnished, Dropped(R), At("exec")
  PROVE  /\ R \cap Needed = {}
         /\ root = "merged" /\ cwd # "outside"
         /\ {"/", "/proc", "/dev"} \subseteq mounts \cup left.links
<1> USE DEF At, ToPrivate, ToOverlay, ToProc, ToDev, ToNodes, ToShm, ToPts, ToRun,
            ToDns, ToChroot, ToChdir, ToSetGroups, ToSetGid, ToSetUid, ToFilter,
            ToExec
<1>1. \A call \in Needed : call \notin R
  <2>1. \A call \in {"sethostname", "private", "overlay", "mkproc", "proc",
                     "mkdev", "dev", "nodes", "mkshm", "mkpts", "mkrun",
                     "chroot", "execvp"} : call \notin R
    BY DEF Built
  <2>2. Drops => \A call \in {"setgroups", "setgid", "setuid"} : call \notin R
    BY DEF Dropped
  <2>3. cfg.mode # "off" => "filter" \notin R
    BY DEF Dropped
  <2> QED BY <2>1, <2>2, <2>3 DEF Needed
<1>2. /\ root = "merged" /\ cwd # "outside"
      /\ {"/", "/proc", "/dev"} \subseteq mounts \cup left.links
  BY DEF Built, Furnished
<1> QED BY <1>1, <1>2

LEMMA Unprivileged ==
  ASSUME NEW R, TypeOK, Dropped(R)
  PROVE  CommandUnprivileged
<1> SUFFICES ASSUME pc = "exec", cfg.drop, caller = "sudo"
             PROVE  cred = [uid |-> "user", gid |-> "user", groups |-> "none",
                            caps |-> FALSE]
  BY DEF CommandUnprivileged, At
<1>1. Drops /\ RunId = "user"
  BY DEF Drops, RunId
<1>2. /\ cred.uid = "user" /\ cred.gid = "user" /\ cred.groups = "none"
      /\ ~cred.caps
  BY <1>1 DEF Dropped, ToSetGid, ToSetUid, ToFilter, ToExec
<1>3. cred \in Cred
  BY DEF TypeOK
<1> QED BY <1>2, <1>3 DEF Cred

LEMMA Filtered ==
  ASSUME NEW R, Dropped(R)
  PROVE  FilterInForce
BY DEF Dropped, FilterInForce, At, ToExec

-----------------------------------------------------------------------------
(* The theorems *)

LEMMA Inductive == Spec => []IInv
<1>1. ASSUME IInv, [Next]_vars PROVE IInv'
  <2>1. UNCHANGED refused
    BY <1>1 DEF Next, SetHostname, MakePrivate, MountOverlay, MountProc, MountDev,
      MakeNodes, MountShm, MountPts, MountRun, MountStep, SetupResolv, Chroot, Chdir,
      SetGroups, SetGid, SetUid, InstallFilter, Exec, Over, vars, fixed
  <2>2. PICK R : R = refused
    OBVIOUS
  <2>3. Built(R)' /\ Mountless(R)' /\ Dropped(R)'
    BY <1>1, <2>2, BuiltStep, MountlessStep, DroppedStep DEF IInv
  <2>4. Built(refused)' /\ Mountless(refused)' /\ Dropped(refused)'
    BY <2>1, <2>2, <2>3 DEF Built, Mountless, Dropped
  <2> QED BY <1>1, <2>4, TypeStep, FurnishedStep DEF IInv
<1> QED BY InitInv, <1>1, PTL DEF Spec

\* every variable of child1 keeps its type, whatever fails
THEOREM TypeCorrect == Spec => []TypeOK
BY Inductive, PTL DEF IInv

\* Whatever fails and whatever earlier runs have left in the box, nothing child1
\* mounts shows on the host; and the host's resolver file is left alone if the
\* box's can be unlinked and its /etc is not a link (mounts, ovroot, bindsys, dns1).
THEOREM HostSafe == Spec => []HostUntouched
<1>1. IInv => HostUntouched BY DEF IInv, Mountless, HostUntouched, Works
<1> QED BY <1>1, Inductive, PTL

\* child1 fails closed: no command without all the calls it relies on, and
\* none with its root or working directory outside the merged tree.
THEOREM FailsClosed == Spec => []CommandConfined
<1>1. IInv => CommandConfined
  BY Confined DEF IInv, CommandConfined
<1> QED BY <1>1, Inductive, PTL

\* Started through sudo, the command has nothing left of root (touser).
THEOREM NoRootLeft == Spec => []CommandUnprivileged
<1>1. IInv => CommandUnprivileged
  BY Unprivileged DEF IInv
<1> QED BY <1>1, Inductive, PTL

\* The command runs under exactly the filter that was asked for
\* (lsandbox_install_seccomp_filter).
THEOREM FilterInstalled == Spec => []FilterInForce
<1>1. IInv => FilterInForce
  BY Filtered DEF IInv
<1> QED BY <1>1, Inductive, PTL
=============================================================================
