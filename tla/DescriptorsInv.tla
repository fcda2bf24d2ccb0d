--------------------------- MODULE DescriptorsInv ---------------------------
(***************************************************************************)
(* The inductive invariant of Descriptors: who has the number of each open *)
(* file, and, until a finalizer strikes, which file each number is.        *)
(***************************************************************************)
EXTENDS Descriptors

(* Where mountFusermount has both sockets, and where it has the first.     *)
BothPcs == {"exec", "wait", "recv", "closeB"}
PairPcs == BothPcs \cup {"defer"}
DevPcs == {"direct", "closeB", "defer"}

(* An open file is one that the call that opened it has the number of.     *)
FileOK(n) ==
  LET f == tab[n] IN
  /\ f.kind = "sockA" =>
       f.by \in Mounters /\ pair[f.by].a = n /\ mpc[f.by] \in PairPcs
  /\ f.kind = "sockB" =>
       f.by \in Mounters /\ pair[f.by].b = n /\ mpc[f.by] \in BothPcs
  /\ f.kind = "fuse" =>
       /\ f.by \in Mounters
       /\ \/ dev[f.by] = n /\ mpc[f.by] \in DevPcs
          \/ sfd[f.by] = n /\ mpc[f.by] = "returned"
  /\ f.kind = "clone" =>
       /\ f.by \in Cloners
       /\ (fd[f.by] = n /\ cpc[f.by] = "ioctl") \/ n \in Range(fds[f.by])

(* Which numbers a Mount has.                                              *)
MountOK(m) ==
  /\ mpc[m] \in PairPcs => pair[m].a \in Fds /\ pair[m].b \in Fds
  /\ mpc[m] = "direct" => dev[m] # NoFd
  /\ dev[m] # NoFd => mpc[m] \in DevPcs
  /\ sfd[m] # NoFd => mpc[m] = "returned"

(* What the numbers that a Mount has are.                                  *)
MountHas(m) ==
  /\ mpc[m] \in PairPcs => tab[pair[m].a] = File("sockA", m, Nobody)
  /\ mpc[m] \in BothPcs => tab[pair[m].b] = File("sockB", m, Nobody)
  /\ dev[m] # NoFd => tab[dev[m]] = File("fuse", m, m)
  /\ sfd[m] # NoFd => tab[sfd[m]] = File("fuse", m, m)

(* The Server whose number a CloneMultiple has is not another one.         *)
MasterOK(x) ==
  cpc[x] \notin {"start", "returned"} =>
    /\ master[x].of \in Mounters /\ master[x].fd \in Fds
    /\ \/ mpc[master[x].of] = "unmounted"
       \/ mpc[master[x].of] = "returned" /\ sfd[master[x].of] = master[x].fd

(* Which numbers a CloneMultiple has.                                      *)
CloneOK(x) ==
  /\ cpc[x] \in {"open", "ioctl"} => Len(fds[x]) < MaxClones
  /\ cpc[x] \in {"start", "returned"} => fds[x] = <<>>
  /\ cpc[x] = "ioctl" => fd[x] # NoFd

(* What the numbers that a CloneMultiple has are, each one once.           *)
CloneHas(x) ==
  /\ cpc[x] = "ioctl" => tab[fd[x]] = File("clone", x, Nobody)
  /\ \A n \in Range(fds[x]) :
       /\ tab[n].kind = "clone" /\ tab[n].by = x /\ tab[n].conn # Nobody
       /\ tab[n].conn = master[x].of \/ mpc[master[x].of] = "unmounted"
  /\ IsInjective(fds[x])

(* What holds whatever the finalizers do.                                  *)
Safe ==
  /\ TypeOK
  /\ \A n \in Fds : FileOK(n)
  /\ \A m \in Mounters : MountOK(m)
  /\ \A x \in Cloners : CloneOK(x) /\ MasterOK(x)

(* What holds until a finalizer strikes.                                   *)
Right ==
  /\ ~stray
  /\ \A m \in Mounters : MountHas(m)
  /\ \A x \in Cloners : CloneHas(x)

(* No finalizer runs while cmd refers to the os.File.                      *)
Unstruck ==
  \A m \in Mounters :
    mpc[m] \in {"start", "exec", "wait"} => fin[m] \in {"none", "held"}

(* The inductive invariant.                                                *)
IInv == Safe /\ Unstruck /\ (Finalized \/ Right)

=============================================================================
