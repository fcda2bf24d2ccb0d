---------------------------- MODULE Descriptors ----------------------------
(***************************************************************************)
(* The file descriptors of a process that mounts file systems and clones   *)
(* their descriptors: mount, mountDirect and mountFusermount               *)
(* (src/mount.go), Mount and Unmount (src/server.go), CloneFuseFD,         *)
(* CloneMultiple and CloseAll (src/sharing/clone.go).                      *)
(*                                                                         *)
(* The code passes descriptors around as numbers.  A system call acts on   *)
(* whatever file has the number when it is made, and a number that was     *)
(* closed is given to the next file opened, by any goroutine.              *)
(*                                                                         *)
(* External to src/: the kernel, the fusermount helper, and the finalizer  *)
(* of an os.File, which closes its number when the garbage collector finds *)
(* that nothing refers to the os.File any more.                            *)
(***************************************************************************)
EXTENDS Naturals, FiniteSets, Sequences, Functions

CONSTANTS
  MaxFd,     \* bound: descriptor numbers are 1..MaxFd
  Mounters,  \* goroutines that call Mount once, and Unmount
  Cloners,   \* goroutines that call CloneMultiple once, and CloseAll
  MaxClones, \* bound: how many clones a call asks for
  MaxOther,  \* bound: other files open at a time
  Nobody

ASSUME BoundsAssumption == MaxFd \in Nat /\ MaxClones \in Nat \ {0}

Fds == 1..MaxFd

(* An open file: its kind, the call that opened it, and the Mount whose    *)
(* connection it serves (Nobody for a clone before the ioctl).             *)
Files == [kind : {"free", "sockA", "sockB", "fuse", "clone", "other"},
          by : Mounters \cup Cloners \cup {Nobody},
          conn : Mounters \cup {Nobody}]
File(kind, by, conn) == [kind |-> kind, by |-> by, conn |-> conn]
Free == File("free", Nobody, Nobody)
Other == File("other", Nobody, Nobody)

VARIABLES
  tab,      \* the file each number means
  mpc,      \* each Mount: where it is
  pair,     \* fds of mountFusermount
  dev,      \* the number of the device: fd of mountDirect, the fd received
  helper,   \* "none", "running", "sent" or "failed"
  file,     \* the number of the os.File made of fds[0]
  fin,      \* and its state: "none", "held", "garbage" or "done"
  sfd,      \* c.fd of the Server that Mount returned
  cpc,      \* each CloneMultiple: where it is
  master,   \* the Mount whose descriptor it was given, and the number
  fd,       \* cloneFd
  fds,      \* the clones it has
  stray     \* some close(2) hit a file it was not meant for

mountVars == <<mpc, pair, dev, helper, file, fin, sfd>>
cloneVars == <<cpc, master, fd, fds>>
vars == <<tab, mountVars, cloneVars, stray>>

NoFd == 0
None == [a |-> NoFd, b |-> NoFd]

(* The type invariant.                                                     *)
TypeOK ==
  /\ tab \in [Fds -> Files]
  /\ mpc \in [Mounters -> {"start", "direct", "exec", "wait", "recv", "closeB",
                           "defer", "returned", "unmounted"}]
  /\ pair \in [Mounters -> [a : Fds \cup {NoFd}, b : Fds \cup {NoFd}]]
  /\ dev \in [Mounters -> Fds \cup {NoFd}]
  /\ helper \in [Mounters -> {"none", "running", "sent", "failed"}]
  /\ file \in [Mounters -> Fds \cup {NoFd}]
  /\ fin \in [Mounters -> {"none", "held", "garbage", "done"}]
  /\ sfd \in [Mounters -> Fds \cup {NoFd}]
  /\ cpc \in [Cloners -> {"start", "open", "ioctl", "undo", "have", "closing",
                          "returned"}]
  /\ master \in [Cloners -> [of : Mounters \cup {Nobody},
                             fd : Fds \cup {NoFd}]]
  /\ fd \in [Cloners -> Fds \cup {NoFd}]
  /\ fds \in [Cloners -> Seq(Fds)]
  /\ \A x \in Cloners : Len(fds[x]) <= MaxClones
  /\ stray \in BOOLEAN

Init ==
  /\ tab = [n \in Fds |-> Free]
  /\ mpc = [m \in Mounters |-> "start"] /\ pair = [m \in Mounters |-> None]
  /\ dev = [m \in Mounters |-> NoFd] /\ helper = [m \in Mounters |-> "none"]
  /\ file = [m \in Mounters |-> NoFd]
  /\ fin = [m \in Mounters |-> "none"] /\ sfd = [m \in Mounters |-> NoFd]
  /\ cpc = [x \in Cloners |-> "start"]
  /\ master = [x \in Cloners |-> [of |-> Nobody, fd |-> NoFd]]
  /\ fd = [x \in Cloners |-> NoFd] /\ fds = [x \in Cloners |-> <<>>]
  /\ stray = FALSE

-----------------------------------------------------------------------------
(* The kernel's descriptor table: a new file gets the lowest free number,  *)
(* if there is one.                                                        *)
FreeFds == {n \in Fds : tab[n] = Free}
Lowest(S) == CHOOSE n \in S : \A k \in S : n <= k
NewFd == Lowest(FreeFds)

Is(n, kind, by) == tab[n].kind = kind /\ tab[n].by = by

(* close(2) of number n, meant for a file of the given kind that the given *)
(* call opened; EBADF when n is free.                                      *)
Closes(n, kind, by) ==
  /\ tab' = [tab EXCEPT ![n] = Free]
  /\ stray' = (stray \/ (tab[n] # Free /\ ~Is(n, kind, by)))

-----------------------------------------------------------------------------
(* Mount, called by goroutine m                                            *)

MountGoes(m, pc) == mpc' = [mpc EXCEPT ![m] = pc]

(* The call returns, and its variables go.                                 *)
MountReturn(m) ==
  /\ MountGoes(m, "returned")
  /\ pair' = [pair EXCEPT ![m] = None]
  /\ dev' = [dev EXCEPT ![m] = NoFd]
  /\ helper' = [helper EXCEPT ![m] = "none"]

(* An error before anything was opened: the mount point, open(2) of the    *)
(* device, or socketpair(2).                                               *)
mountFails(m) ==
  /\ mpc[m] = "start"
  /\ MountGoes(m, "returned")
  /\ UNCHANGED <<tab, pair, dev, helper, file, fin, sfd, cloneVars, stray>>

mountDirectOpen(m) ==
  /\ mpc[m] = "start" /\ FreeFds # {}
  /\ dev' = [dev EXCEPT ![m] = NewFd]
  /\ tab' = [tab EXCEPT ![NewFd] = File("fuse", m, m)]
  /\ MountGoes(m, "direct")
  /\ UNCHANGED <<pair, helper, file, fin, sfd, cloneVars, stray>>

(* Mutant: an error of mount(2) leaves the device open.                    *)
mountDirect_leaks(m) ==
  /\ mpc[m] = "direct"
  /\ \/ sfd' = [sfd EXCEPT ![m] = dev[m]] /\ UNCHANGED <<tab, stray>>
     \/ UNCHANGED <<tab, stray, sfd>>
  /\ MountReturn(m)
  /\ UNCHANGED <<file, fin, cloneVars>>

(* Mutant: the device is closed whatever mount(2) returned.                *)
mountDirect_closes(m) ==
  /\ mpc[m] = "direct"
  /\ Closes(dev[m], "fuse", m)
  /\ \/ sfd' = [sfd EXCEPT ![m] = dev[m]]
     \/ UNCHANGED sfd
  /\ MountReturn(m)
  /\ UNCHANGED <<file, fin, cloneVars>>

(* mount(2): Mount returns a Server for the descriptor, or closes it.      *)
mountDirect(m) ==
  /\ mpc[m] = "direct"
  /\ \/ sfd' = [sfd EXCEPT ![m] = dev[m]] /\ UNCHANGED <<tab, stray>>
     \/ Closes(dev[m], "fuse", m) /\ UNCHANGED sfd
  /\ MountReturn(m)
  /\ UNCHANGED <<file, fin, cloneVars>>

(* socketpair(2), and the os.File made of the first number.                *)
mountFusermount(m) ==
  /\ mpc[m] = "start" /\ Cardinality(FreeFds) > 1
  /\ LET a == NewFd b == Lowest(FreeFds \ {NewFd}) IN
       /\ pair' = [pair EXCEPT ![m] = [a |-> a, b |-> b]]
       /\ file' = [file EXCEPT ![m] = a]
       /\ tab' = [tab EXCEPT ![a] = File("sockA", m, Nobody),
                               ![b] = File("sockB", m, Nobody)]
  /\ fin' = [fin EXCEPT ![m] = "held"]
  /\ MountGoes(m, "exec")
  /\ UNCHANGED <<dev, helper, sfd, cloneVars, stray>>

(* cmd.Start: without a process the second number is closed.               *)
cmdStart(m) ==
  /\ mpc[m] = "exec"
  /\ \/ /\ helper' = [helper EXCEPT ![m] = "running"]
        /\ MountGoes(m, "wait")
        /\ UNCHANGED <<tab, fin, stray>>
     \/ /\ Closes(pair[m].b, "sockB", m)
        /\ fin' = [fin EXCEPT ![m] = "garbage"]
        /\ MountGoes(m, "defer")
        /\ UNCHANGED helper
  /\ UNCHANGED <<pair, dev, file, sfd, cloneVars>>

(* The helper mounts and sends the device over the first socket, or fails. *)
fusermount(m) ==
  /\ helper[m] = "running"
  /\ \E result \in {"sent", "failed"} : helper' = [helper EXCEPT ![m] = result]
  /\ UNCHANGED <<tab, mpc, pair, dev, file, fin, sfd, cloneVars, stray>>

(* Mutant: the return after the helper's failure is missing.               *)
cmdWait_goesOn(m) ==
  /\ mpc[m] = "wait"
  /\ \/ helper[m] = "sent" /\ MountGoes(m, "recv") /\ UNCHANGED <<tab, stray>>
     \/ /\ helper[m] = "failed" /\ MountGoes(m, "closeB")
        /\ Closes(pair[m].b, "sockB", m)
  /\ fin' = [fin EXCEPT ![m] = "garbage"]
  /\ UNCHANGED <<pair, dev, helper, file, sfd, cloneVars>>

(* Mutant: the helper's exit status is not looked at.                      *)
cmdWait_ignores(m) ==
  /\ mpc[m] = "wait" /\ helper[m] \in {"sent", "failed"}
  /\ MountGoes(m, "recv")
  /\ fin' = [fin EXCEPT ![m] = "garbage"]
  /\ UNCHANGED <<tab, stray, pair, dev, helper, file, sfd, cloneVars>>

(* cmd.Wait: from here on nothing refers to cmd or to its os.File.         *)
cmdWait(m) ==
  /\ mpc[m] = "wait"
  /\ \/ helper[m] = "sent" /\ MountGoes(m, "recv") /\ UNCHANGED <<tab, stray>>
     \/ /\ helper[m] = "failed" /\ MountGoes(m, "defer")
        /\ Closes(pair[m].b, "sockB", m)
  /\ fin' = [fin EXCEPT ![m] = "garbage"]
  /\ UNCHANGED <<pair, dev, helper, file, sfd, cloneVars>>

(* recvmsg(2) gives the device a number; it has none to give when the      *)
(* table is full, and fails when the socket is gone.  It waits for a       *)
(* message while fds[0], the other end, is open.                           *)
Recvmsg(m) ==
  /\ mpc[m] = "recv"
  /\ \/ helper[m] = "sent" \/ ~Is(pair[m].b, "sockB", m)
     \/ \A n \in Fds : ~Is(n, "sockA", m)
  /\ IF helper[m] = "sent" /\ Is(pair[m].b, "sockB", m) /\ FreeFds # {}
     THEN /\ dev' = [dev EXCEPT ![m] = NewFd]
          /\ tab' = [tab EXCEPT ![NewFd] = File("fuse", m, m)]
     ELSE UNCHANGED <<dev, tab>>
  /\ MountGoes(m, "closeB")
  /\ UNCHANGED <<pair, helper, file, fin, sfd, cloneVars, stray>>

closeB(m) ==
  /\ mpc[m] = "closeB"
  /\ Closes(pair[m].b, "sockB", m)
  /\ MountGoes(m, "defer")
  /\ UNCHANGED <<pair, dev, helper, file, fin, sfd, cloneVars>>

(* The deferred close of the first number; then Mount returns, with a      *)
(* Server if a descriptor was received.                                    *)
deferredClose(m) ==
  /\ mpc[m] = "defer"
  /\ Closes(pair[m].a, "sockA", m)
  /\ sfd' = [sfd EXCEPT ![m] = dev[m]]
  /\ MountReturn(m)
  /\ UNCHANGED <<file, fin, cloneVars>>

(* The finalizer of the os.File closes the first number as well.           *)
finalize(m) ==
  /\ fin[m] = "garbage"
  /\ Closes(file[m], "sockA", m)
  /\ file' = [file EXCEPT ![m] = NoFd]
  /\ fin' = [fin EXCEPT ![m] = "done"]
  /\ UNCHANGED <<mpc, pair, dev, helper, sfd, cloneVars>>

(* Server.Unmount closes c.fd, once.                                       *)
Unmount(m) ==
  /\ mpc[m] = "returned" /\ sfd[m] # NoFd
  /\ Closes(sfd[m], "fuse", m)
  /\ sfd' = [sfd EXCEPT ![m] = NoFd]
  /\ MountGoes(m, "unmounted")
  /\ UNCHANGED <<pair, dev, helper, file, fin, cloneVars>>

-----------------------------------------------------------------------------
(* CloneMultiple and CloseAll, called by goroutine x                       *)

CloneGoes(x, pc) == cpc' = [cpc EXCEPT ![x] = pc]

(* CloneMultiple is given Server.Fd() of some Server.                      *)
CloneMultiple(x, m) ==
  /\ cpc[x] = "start" /\ sfd[m] # NoFd
  /\ master' = [master EXCEPT ![x] = [of |-> m, fd |-> sfd[m]]]
  /\ CloneGoes(x, "open")
  /\ UNCHANGED <<tab, mountVars, fd, fds, stray>>

(* CloneFuseFD opens the device, or fails.                                 *)
CloneFuseFD(x) ==
  /\ cpc[x] = "open"
  /\ \/ /\ FreeFds # {}
        /\ fd' = [fd EXCEPT ![x] = NewFd]
        /\ tab' = [tab EXCEPT ![NewFd] = File("clone", x, Nobody)]
        /\ CloneGoes(x, "ioctl")
     \/ CloneGoes(x, "undo") /\ UNCHANGED <<fd, tab>>
  /\ UNCHANGED <<mountVars, master, fds, stray>>

(* Mutant: CloneFuseFD does not look at the ioctl's result.                *)
ioctlClone_unchecked(x) ==
  /\ cpc[x] = "ioctl"
  /\ \E m \in Mounters : tab' = [tab EXCEPT ![fd[x]].conn = m]
  /\ fds' = [fds EXCEPT ![x] = Append(@, fd[x])]
  /\ CloneGoes(x, IF Len(fds'[x]) = MaxClones THEN "have" ELSE "open")
  /\ fd' = [fd EXCEPT ![x] = NoFd]
  /\ UNCHANGED <<mountVars, master, stray>>

(* Mutant: the loop runs once too often.                                   *)
ioctlClone_oneMore(x) ==
  /\ cpc[x] = "ioctl"
  /\ tab' = [tab EXCEPT ![fd[x]].conn = tab[master[x].fd].conn]
  /\ fds' = [fds EXCEPT ![x] = Append(@, fd[x])]
  /\ CloneGoes(x, IF Len(fds'[x]) > MaxClones THEN "have" ELSE "open")
  /\ fd' = [fd EXCEPT ![x] = NoFd]
  /\ UNCHANGED <<mountVars, master, stray>>

(* FUSE_DEV_IOC_CLONE binds the new device to the connection that the      *)
(* master number means now; on an error CloneFuseFD closes it.             *)
ioctlClone(x) ==
  /\ cpc[x] = "ioctl"
  /\ \/ /\ tab[master[x].fd].conn # Nobody
        /\ tab[fd[x]].kind = "clone" /\ tab[fd[x]].conn = Nobody
        /\ tab' = [tab EXCEPT ![fd[x]].conn = tab[master[x].fd].conn]
        /\ fds' = [fds EXCEPT ![x] = Append(@, fd[x])]
        /\ CloneGoes(x, IF Len(fds'[x]) = MaxClones THEN "have" ELSE "open")
        /\ UNCHANGED stray
     \/ /\ Closes(fd[x], "clone", x)
        /\ CloneGoes(x, "undo")
        /\ UNCHANGED fds
  /\ fd' = [fd EXCEPT ![x] = NoFd]
  /\ UNCHANGED <<mountVars, master>>

(* The caller has done with the clones.                                    *)
CloseAll(x) ==
  /\ cpc[x] = "have"
  /\ CloneGoes(x, "closing")
  /\ UNCHANGED <<tab, mountVars, master, fd, fds, stray>>

(* The loops of CloneMultiple's clean-up and of CloseAll.                  *)
closeClone(x) ==
  /\ cpc[x] \in {"undo", "closing"}
  /\ IF fds[x] = <<>>
     THEN /\ CloneGoes(x, "returned")
          /\ master' = [master EXCEPT ![x] = [of |-> Nobody, fd |-> NoFd]]
          /\ UNCHANGED <<tab, stray, fds>>
     ELSE /\ Closes(Head(fds[x]), "clone", x)
          /\ fds' = [fds EXCEPT ![x] = Tail(@)]
          /\ UNCHANGED <<cpc, master>>
  /\ UNCHANGED <<mountVars, fd>>

-----------------------------------------------------------------------------
(* The rest of the process opens files, and closes its own.                *)
OtherFile ==
  /\ \/ /\ FreeFds # {}
        /\ Cardinality({n \in Fds : tab[n] = Other}) < MaxOther
        /\ tab' = [tab EXCEPT ![NewFd] = Other]
     \/ \E n \in Fds : /\ tab[n] = Other
                       /\ tab' = [tab EXCEPT ![n] = Free]
  /\ UNCHANGED <<mountVars, cloneVars, stray>>

mount(m) ==
  \/ mountFails(m) \/ mountDirectOpen(m) \/ mountDirect(m)
  \/ mountFusermount(m) \/ cmdStart(m) \/ fusermount(m) \/ cmdWait(m)
  \/ Recvmsg(m) \/ closeB(m) \/ deferredClose(m)

Next ==
  \/ \E m \in Mounters : mount(m) \/ finalize(m) \/ Unmount(m)
  \/ \E x \in Cloners :
       \/ \E m \in Mounters : CloneMultiple(x, m)
       \/ CloneFuseFD(x) \/ ioctlClone(x) \/ CloseAll(x) \/ closeClone(x)
  \/ OtherFile

Spec == Init /\ [][Next]_vars

(* A call of Mount goes on, and so does the helper.                        *)
FairSpec == Spec /\ \A m \in Mounters : WF_vars(mount(m))

-----------------------------------------------------------------------------
(* Properties *)

(* No error path of mountDirect, mountFusermount, CloneFuseFD or           *)
(* CloneMultiple loses a descriptor: an open socket, device or clone is    *)
(* one that a running call or its caller has the number of.                *)
NoLeak ==
  \A n \in Fds :
    \/ tab[n].kind \in {"free", "other"}
    \/ \E m \in Mounters :
         n \in {pair[m].a, pair[m].b, dev[m], sfd[m]}
    \/ \E x \in Cloners : n = fd[x] \/ n \in Range(fds[x])

Finalized == \E m \in Mounters : fin[m] = "done"

(* Every close(2) is of the file it is meant for: only the finalizer that  *)
(* closes fds[0] a second time can make a close hit another file.          *)
ClosesOwn == stray => Finalized

(* A clone serves the connection whose descriptor CloneMultiple was given, *)
(* unless that Server was unmounted meanwhile, or a finalizer struck.      *)
ClonesConnection ==
  \A x \in Cloners : \A n \in Range(fds[x]) :
    \/ tab[n] = File("clone", x, master[x].of)
    \/ mpc[master[x].of] = "unmounted" \/ Finalized

(* Mount returns, whether the helper sends the device or fails.            *)
MountReturns ==
  \A m \in Mounters :
    mpc[m] # "start" ~> mpc[m] \in {"returned", "unmounted"}

(* The number that a successful mount has just returned is the device that *)
(* it opened or received, unless a finalizer struck: one that closes       *)
(* fds[0] before recvmsg(2) gives the device that very number, which the   *)
(* deferred close then closes.                                             *)
ReturnsDevice ==
  [][\A m \in Mounters :
       mpc[m] # "returned" /\ mpc'[m] = "returned" /\ sfd'[m] # NoFd =>
         tab'[sfd'[m]] = File("fuse", m, m) \/ Finalized']_vars

=============================================================================
