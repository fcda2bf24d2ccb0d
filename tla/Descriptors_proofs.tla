------------------------- MODULE Descriptors_proofs -------------------------
(***************************************************************************)
(* What Descriptors guarantees for any number of Mounts, CloneMultiples    *)
(* and descriptors: what a step of one caller leaves to the others, the    *)
(* steps of Mount and Unmount, those of CloneMultiple and CloseAll, which  *)
(* all preserve DescriptorsInv's IInv, and what follows.                   *)
(***************************************************************************)
EXTENDS DescriptorsInv, TLAPS

(* 0 is no descriptor, throughout.                                         *)
USE DEF NoFd

MountKinds == {"sockA", "sockB", "fuse"}

(* A step leaves what a Mount, or a CloneMultiple, has.                    *)
MountSame(m) ==
  /\ mpc'[m] = mpc[m] /\ pair'[m] = pair[m]
  /\ dev'[m] = dev[m] /\ sfd'[m] = sfd[m]
CloneSame(x) ==
  /\ cpc'[x] = cpc[x] /\ master'[x] = master[x]
  /\ fd'[x] = fd[x] /\ fds'[x] = fds[x]

(* A step leaves the files that a Mount, or a CloneMultiple, opened.       *)
Spares(m) ==
  \A n \in Fds :
    tab[n].kind \in MountKinds /\ tab[n].by = m => tab'[n] = tab[n]
SparesClones(x) ==
  \A n \in Fds : tab[n].kind = "clone" /\ tab[n].by = x => tab'[n] = tab[n]

(* A Mount that has returned a Server is the same, or unmounted.           *)
Settled(m) ==
  mpc[m] \in {"returned", "unmounted"} =>
    MountSame(m) \/ (mpc[m] = "returned" /\ mpc'[m] = "unmounted")

(* Steps of one Mount, and of one CloneMultiple.                           *)
MountStep(m) ==
  /\ \A k \in Mounters \ {m} : MountSame(k)
  /\ \A x \in Cloners : CloneSame(x)
  /\ Settled(m)
CloneStep(x) ==
  /\ \A m \in Mounters : MountSame(m)
  /\ \A y \in Cloners \ {x} : CloneSame(y)

(* What a Mount that closes a file of this kind has left, it had before.   *)
HasLess(m, kind) ==
  /\ mpc'[m] \in PairPcs =>
       mpc[m] \in PairPcs /\ pair'[m] = pair[m] /\ kind # "sockA"
  /\ mpc'[m] \in BothPcs => mpc[m] \in BothPcs /\ kind # "sockB"
  /\ dev'[m] # NoFd => dev'[m] = dev[m] /\ kind # "fuse"
  /\ sfd'[m] # NoFd => sfd'[m] \in {dev[m], sfd[m]} /\ kind # "fuse"

(* A descriptor number the kernel gives is free: the one of open(2) and    *)
(* recvmsg(2), and the two of socketpair(2).                               *)
GivesFree ==
  /\ FreeFds # {} => NewFd \in Fds /\ tab[NewFd] = Free
  /\ Cardinality(FreeFds) > 1 =>
       \E a, b \in Fds :
         /\ a = NewFd /\ b = Lowest(FreeFds \ {NewFd}) /\ a # b
         /\ tab[a] = Free /\ tab[b] = Free

-----------------------------------------------------------------------------
(* The kernel's descriptor table *)

(* A new file takes no one's number.                                       *)
LEMMA OpenSpares ==
  ASSUME TypeOK, NEW c \in Fds, tab[c] = Free,
         \A n \in Fds \ {c} : tab'[n] = tab[n]
  PROVE  /\ \A m \in Mounters : Spares(m)
         /\ \A x \in Cloners : SparesClones(x)
BY DEF Spares, SparesClones, MountKinds, Free, File

(* close(2) of one's own file takes no one else's.                         *)
LEMMA CloseSpares ==
  ASSUME TypeOK, NEW c \in Fds, NEW kind, NEW by, Is(c, kind, by),
         Closes(c, kind, by)
  PROVE  /\ kind \in MountKinds =>
              /\ \A m \in Mounters \ {by} : Spares(m)
              /\ \A x \in Cloners : SparesClones(x)
         /\ kind = "clone" =>
              /\ \A m \in Mounters : Spares(m)
              /\ \A x \in Cloners \ {by} : SparesClones(x)
         /\ stray' = stray
<1>1. \A n \in Fds \ {c} : tab'[n] = tab[n]
  BY DEF Closes, TypeOK
<1>2. stray' = stray
  BY DEF Closes, TypeOK
<1> QED BY <1>1, <1>2 DEF Is, Spares, SparesClones, MountKinds

-----------------------------------------------------------------------------
(* What a step leaves alone *)

(* A file whose opener's numbers stay is still known.                      *)
LEMMA FileStays ==
  ASSUME NEW n \in Fds, FileOK(n), tab'[n] = tab[n],
         tab[n].kind \in MountKinds => MountSame(tab[n].by),
         tab[n].kind = "clone" => CloneSame(tab[n].by)
  PROVE  FileOK(n)'
BY DEF FileOK, MountSame, CloneSame, MountKinds

(* A Mount that a step leaves alone has what it had.                       *)
LEMMA MountStays ==
  ASSUME NEW m \in Mounters, MountOK(m), MountSame(m)
  PROVE  MountOK(m)'
BY DEF MountOK, MountSame

(* Its numbers are still those of its files.                               *)
LEMMA MountKeeps ==
  ASSUME TypeOK, NEW m \in Mounters, MountOK(m), MountHas(m), MountSame(m),
         Spares(m)
  PROVE  MountHas(m)'
<1>1. ASSUME NEW n \in Fds, NEW kind \in MountKinds, NEW conn,
             tab[n] = File(kind, m, conn)
      PROVE  tab'[n] = tab[n]
  BY <1>1 DEF Spares, File
<1>2. mpc[m] \in PairPcs => tab'[pair[m].a] = tab[pair[m].a]
  BY <1>1 DEF MountOK, MountHas, MountKinds
<1>3. mpc[m] \in BothPcs => tab'[pair[m].b] = tab[pair[m].b]
  BY <1>1 DEF MountOK, MountHas, MountKinds, PairPcs
<1>4. dev[m] # NoFd => tab'[dev[m]] = tab[dev[m]]
  BY <1>1 DEF MountHas, MountKinds, TypeOK
<1>5. sfd[m] # NoFd => tab'[sfd[m]] = tab[sfd[m]]
  BY <1>1 DEF MountHas, MountKinds, TypeOK
<1> QED BY <1>2, <1>3, <1>4, <1>5 DEF MountHas, MountSame

(* The members of a sequence.                                              *)
LEMMA Members ==
  ASSUME NEW S, NEW s \in Seq(S)
  PROVE  /\ Range(s) \subseteq S
         /\ s = <<>> => Range(s) = {} /\ IsInjective(s)
BY DEF Range, IsInjective

(* So with a CloneMultiple.                                                *)
LEMMA CloneStays ==
  ASSUME NEW x \in Cloners, CloneOK(x), CloneSame(x)
  PROVE  CloneOK(x)'
BY DEF CloneOK, CloneSame

(* The Server it clones is still one that a Mount returned.                *)
LEMMA MasterStays ==
  ASSUME NEW x \in Cloners, MasterOK(x), CloneSame(x),
         \A m \in Mounters : Settled(m)
  PROVE  MasterOK(x)'
BY DEF MasterOK, CloneSame, Settled, MountSame

(* Its numbers are still those of its clones.                              *)
LEMMA CloneKeeps ==
  ASSUME TypeOK, NEW x \in Cloners, CloneOK(x), MasterOK(x), CloneHas(x),
         CloneSame(x), SparesClones(x), \A m \in Mounters : Settled(m)
  PROVE  CloneHas(x)'
<1>1. ASSUME NEW n \in Fds, tab[n].kind = "clone", tab[n].by = x
      PROVE  tab'[n] = tab[n]
  BY <1>1 DEF SparesClones
<1>2. cpc[x] = "ioctl" => tab'[fd[x]] = tab[fd[x]]
  <2>1. fd[x] \in Fds \cup {NoFd}
    BY DEF TypeOK
  <2> QED BY <1>1, <2>1 DEF CloneOK, CloneHas, File
<1>3. \A n \in Range(fds[x]) : n \in Fds /\ tab'[n] = tab[n]
  BY <1>1, Members DEF CloneHas, TypeOK
<1>4. ASSUME NEW n \in Range(fds[x])
      PROVE  mpc[master[x].of] = "unmounted" =>
               mpc'[master[x].of] = "unmounted"
  <2>1. cpc[x] \notin {"start", "returned"}
    BY <1>4, Members DEF CloneOK, TypeOK
  <2> QED BY <2>1 DEF MasterOK, Settled, MountSame
<1> QED BY <1>2, <1>3, <1>4 DEF CloneHas, CloneSame

-----------------------------------------------------------------------------
(* What has to be shown of a step *)

(* A file that a step did not leave as it was is known, or was closed.     *)
Changed == \A n \in Fds : tab'[n] = tab[n] \/ FileOK(n)'

(* Of a step of a Mount: its own numbers and files.                        *)
LEMMA MountSafe ==
  ASSUME Safe, NEW m \in Mounters, MountStep(m), TypeOK', Changed, MountOK(m)',
         \A n \in Fds :
           /\ FileOK(n) /\ tab'[n] = tab[n]
           /\ tab[n].kind \in MountKinds /\ tab[n].by = m
           => FileOK(n)'
  PROVE  Safe'
<1>1. ASSUME NEW n \in Fds PROVE FileOK(n)'
  <2>1. FileOK(n)
    BY DEF Safe
  <2>2. CASE tab'[n] = tab[n] /\ ~(tab[n].kind \in MountKinds /\ tab[n].by = m)
    <3>1. tab[n].kind \in MountKinds => MountSame(tab[n].by)
      BY <2>1, <2>2 DEF FileOK, MountKinds, MountStep
    <3>2. tab[n].kind = "clone" => CloneSame(tab[n].by)
      BY <2>1 DEF FileOK, MountStep
    <3> QED BY <2>1, <2>2, <3>1, <3>2, FileStays
  <2> QED BY <2>1, <2>2 DEF Changed
<1>2. \A k \in Mounters : MountOK(k)'
  BY MountStays DEF Safe, MountStep
<1>3. \A k \in Mounters : Settled(k)
  BY DEF MountStep, Settled
<1>4. \A x \in Cloners : CloneOK(x)' /\ MasterOK(x)'
  BY <1>3, CloneStays, MasterStays DEF Safe, MountStep
<1> QED BY <1>1, <1>2, <1>4 DEF Safe

(* And, until a finalizer strikes, which files its numbers are.            *)
LEMMA MountRight ==
  ASSUME Safe, Right, NEW m \in Mounters, MountStep(m), MountHas(m)', ~stray',
         \A k \in Mounters \ {m} : Spares(k),
         \A x \in Cloners : SparesClones(x)
  PROVE  Right'
<1>1. \A k \in Mounters : Settled(k)
  BY DEF MountStep, Settled
<1>2. \A k \in Mounters : MountHas(k)'
  BY MountKeeps DEF Safe, Right, MountStep
<1>3. \A x \in Cloners : CloneHas(x)'
  BY <1>1, CloneKeeps DEF Safe, Right, MountStep
<1> QED BY <1>2, <1>3 DEF Right

(* Of a step of a CloneMultiple: its own numbers and files.                *)
LEMMA CloneSafe ==
  ASSUME Safe, NEW x \in Cloners, CloneStep(x), TypeOK', Changed,
         CloneOK(x)', MasterOK(x)',
         \A n \in Fds :
           /\ FileOK(n) /\ tab'[n] = tab[n]
           /\ tab[n].kind = "clone" /\ tab[n].by = x
           => FileOK(n)'
  PROVE  Safe'
<1>1. ASSUME NEW n \in Fds PROVE FileOK(n)'
  <2>1. FileOK(n)
    BY DEF Safe
  <2>2. CASE tab'[n] = tab[n] /\ ~(tab[n].kind = "clone" /\ tab[n].by = x)
    <3>1. tab[n].kind \in MountKinds => MountSame(tab[n].by)
      BY <2>1, <2>2 DEF FileOK, MountKinds, CloneStep
    <3>2. tab[n].kind = "clone" => CloneSame(tab[n].by)
      BY <2>1, <2>2 DEF FileOK, CloneStep
    <3> QED BY <2>1, <2>2, <3>1, <3>2, FileStays
  <2> QED BY <2>1, <2>2 DEF Changed
<1>2. \A m \in Mounters : MountOK(m)' /\ Settled(m)
  BY MountStays DEF Safe, CloneStep, Settled
<1>3. \A y \in Cloners : CloneOK(y)' /\ MasterOK(y)'
  BY <1>2, CloneStays, MasterStays DEF Safe, CloneStep
<1> QED BY <1>1, <1>2, <1>3 DEF Safe

(* And, until a finalizer strikes, which files its numbers are.            *)
LEMMA CloneRight ==
  ASSUME Safe, Right, NEW x \in Cloners, CloneStep(x), CloneHas(x)', ~stray',
         \A m \in Mounters : Spares(m),
         \A y \in Cloners \ {x} : SparesClones(y)
  PROVE  Right'
<1>1. \A m \in Mounters : Settled(m)
  BY DEF CloneStep, Settled
<1>2. \A m \in Mounters : MountHas(m)'
  BY MountKeeps DEF Safe, Right, CloneStep
<1>3. \A y \in Cloners : CloneHas(y)'
  BY <1>1, CloneKeeps DEF Safe, Right, CloneStep
<1> QED BY <1>2, <1>3 DEF Right

(* Of a step of neither.                                                   *)
LEMMA IdleSafe ==
  ASSUME Safe, TypeOK', Changed,
         \A m \in Mounters : MountSame(m), \A x \in Cloners : CloneSame(x)
  PROVE  Safe'
<1>1. ASSUME NEW n \in Fds PROVE FileOK(n)'
  <2>1. FileOK(n)
    BY DEF Safe
  <2>2. CASE tab'[n] = tab[n]
    <3>1. /\ tab[n].kind \in MountKinds => MountSame(tab[n].by)
          /\ tab[n].kind = "clone" => CloneSame(tab[n].by)
      BY <2>1 DEF FileOK, MountKinds
    <3> QED BY <2>1, <2>2, <3>1, FileStays
  <2> QED BY <2>2 DEF Changed
<1>2. \A m \in Mounters : MountOK(m)' /\ Settled(m)
  BY MountStays DEF Safe, Settled
<1>3. \A x \in Cloners : CloneOK(x)' /\ MasterOK(x)'
  BY <1>2, CloneStays, MasterStays DEF Safe
<1> QED BY <1>1, <1>2, <1>3 DEF Safe

(* And, until a finalizer strikes, that it left every file in use.         *)
LEMMA IdleRight ==
  ASSUME Safe, Right, stray' = stray,
         \A m \in Mounters : MountSame(m) /\ Spares(m),
         \A x \in Cloners : CloneSame(x) /\ SparesClones(x)
  PROVE  Right'
<1>1. \A m \in Mounters : MountHas(m)' /\ Settled(m)
  BY MountKeeps DEF Safe, Right, Settled
<1>2. \A x \in Cloners : CloneHas(x)'
  BY <1>1, CloneKeeps DEF Safe, Right
<1> QED BY <1>1, <1>2 DEF Right

-----------------------------------------------------------------------------
(* Steps of Mount *)

(* What open(2) and close(2) do to the table.                              *)
LEMMA OpenTyped ==
  ASSUME TypeOK, NEW c \in Fds, NEW f \in Files, tab' = [tab EXCEPT ![c] = f]
  PROVE  /\ tab' \in [Fds -> Files] /\ tab'[c] = f
         /\ \A n \in Fds \ {c} : tab'[n] = tab[n]
BY DEF TypeOK

(* close(2) frees its number and leaves the others.                        *)
LEMMA CloseTyped ==
  ASSUME TypeOK, NEW c, NEW kind, NEW by, Closes(c, kind, by)
  PROVE  /\ tab' \in [Fds -> Files] /\ stray' \in BOOLEAN
         /\ c \in Fds => tab'[c] = Free
         /\ \A n \in Fds \ {c} : tab'[n] = tab[n]
<1>1. Free \in Files
  BY DEF Free, File, Files
<1> QED BY <1>1, Zenon DEF Closes, TypeOK

(* A closed number is no file, and files of the rest of the process are    *)
(* not the code's.                                                         *)
LEMMA NoFile ==
  ASSUME NEW n \in Fds, tab'[n] \in {Free, Other}
  PROVE  FileOK(n)'
BY DEF FileOK, Free, Other, File

(* After close(2) every file that changed is accounted for.                *)
LEMMA Closed ==
  ASSUME TypeOK, NEW c, NEW kind, NEW by, Closes(c, kind, by)
  PROVE  Changed
BY CloseTyped, NoFile DEF Changed

(* A step that leaves the table spares every file.                         *)
LEMMA Kept ==
  ASSUME tab' = tab
  PROVE  /\ Changed /\ \A m \in Mounters : Spares(m)
         /\ \A x \in Cloners : SparesClones(x)
BY DEF Changed, Spares, SparesClones

(* The fields of a file.                                                   *)
LEMMA FileFields ==
  \A kind, by, conn :
    /\ File(kind, by, conn).kind = kind /\ File(kind, by, conn).by = by
    /\ File(kind, by, conn).conn = conn
BY DEF File

(* What a Mount has, in its own terms.                                     *)
LEMMA Own ==
  ASSUME Safe, NEW m \in Mounters
  PROVE  /\ MountOK(m) /\ (Right => MountHas(m))
         /\ pair[m] \in [a : Fds \cup {NoFd}, b : Fds \cup {NoFd}]
         /\ dev[m] \in Fds \cup {NoFd} /\ sfd[m] \in Fds \cup {NoFd}
BY DEF Safe, Right, TypeOK

(* Until a finalizer strikes, its numbers are its own files.               *)
LEMMA Mine ==
  ASSUME Safe, Right, NEW m \in Mounters
  PROVE  /\ mpc[m] \in PairPcs =>
              pair[m].a \in Fds /\ Is(pair[m].a, "sockA", m)
         /\ mpc[m] \in BothPcs =>
              pair[m].b \in Fds /\ Is(pair[m].b, "sockB", m)
         /\ dev[m] # NoFd => dev[m] \in Fds /\ Is(dev[m], "fuse", m)
         /\ sfd[m] # NoFd => sfd[m] \in Fds /\ Is(sfd[m], "fuse", m)
<1>1. /\ MountOK(m) /\ MountHas(m)
      /\ dev[m] \in Fds \cup {NoFd} /\ sfd[m] \in Fds \cup {NoFd}
  BY Own
<1>2. mpc[m] \in BothPcs => mpc[m] \in PairPcs
  BY DEF BothPcs, PairPcs
<1> QED BY <1>1, <1>2, FileFields DEF MountOK, MountHas, Is

(* A step of a Mount that opens and closes nothing.                        *)
LEMMA KeepStep ==
  ASSUME Safe, NEW m \in Mounters, MountStep(m), tab' = tab, stray' = stray,
         TypeOK', MountOK(m)', Right => MountHas(m)',
         \A n \in Fds :
           FileOK(n) /\ tab[n].kind \in MountKinds /\ tab[n].by = m
                         => FileOK(n)'
  PROVE  Safe' /\ (Right => Right')
<1>1. Safe'
  BY Kept, MountSafe
<1>2. ASSUME Right PROVE Right'
  BY <1>2, Kept, MountRight DEF Right
<1> QED BY <1>1, <1>2

(* One that closes a file of its own; after a finalizer it may be another. *)
LEMMA CloseStep ==
  ASSUME Safe, NEW m \in Mounters, MountStep(m), NEW c,
         NEW kind \in MountKinds,
         Closes(c, kind, m), TypeOK', MountOK(m)',
         Right => c \in Fds /\ Is(c, kind, m),
         HasLess(m, kind),
         \A n \in Fds :
           /\ FileOK(n) /\ tab[n].kind \in MountKinds /\ tab[n].by = m
           /\ n # c /\ tab'[n] = tab[n]
           => FileOK(n)'
  PROVE  Safe' /\ (Right => Right')
<1>1. ASSUME NEW n \in Fds, tab'[n] = tab[n], tab[n].kind \in MountKinds
      PROVE  n # c
  BY <1>1, CloseTyped DEF Safe, Free, File, MountKinds
<1>2. Safe'
  BY <1>1, Closed, MountSafe DEF Safe
<1>3. ASSUME Right PROVE Right'
  <2>1. \A n \in Fds : tab[n].kind # kind => tab'[n] = tab[n]
    BY <1>3, CloseTyped DEF Safe, Is
  <2>2. MountHas(m)
    BY <1>3, Own
  <2>3. /\ mpc'[m] \in PairPcs => tab'[pair'[m].a] = tab[pair[m].a]
        /\ mpc'[m] \in BothPcs => tab'[pair'[m].b] = tab[pair[m].b]
    <3>1. mpc'[m] \in BothPcs => mpc'[m] \in PairPcs
      BY DEF BothPcs, PairPcs
    <3> QED BY <1>3, <2>1, <3>1, Mine DEF HasLess, Is
  <2>4. /\ dev'[m] # NoFd => tab'[dev'[m]] = tab[dev[m]]
        /\ sfd'[m] # NoFd => tab'[sfd'[m]] = tab[sfd'[m]]
    BY <1>3, <2>1, Mine DEF HasLess, Is
  <2>5. MountHas(m)'
    BY <2>2, <2>3, <2>4 DEF HasLess, MountHas
  <2> QED BY <1>3, <2>1, <2>5, CloseSpares, MountRight DEF Safe, Right
<1> QED BY <1>2, <1>3

(* One that opens a file.                                                  *)
LEMMA OpenStep ==
  ASSUME Safe, NEW m \in Mounters, MountStep(m), NEW c \in Fds, tab[c] = Free,
         NEW f \in Files, tab' = [tab EXCEPT ![c] = f], stray' = stray,
         TypeOK', MountOK(m)', FileOK(c)', Right => MountHas(m)',
         \A n \in Fds :
           /\ FileOK(n) /\ tab[n].kind \in MountKinds /\ tab[n].by = m
           /\ tab'[n] = tab[n]
           => FileOK(n)'
  PROVE  Safe' /\ (Right => Right')
<1>1. \A n \in Fds \ {c} : tab'[n] = tab[n]
  BY OpenTyped DEF Safe
<1>2. Changed
  BY <1>1 DEF Changed
<1>3. Safe'
  BY <1>2, MountSafe
<1>4. ASSUME Right PROVE Right'
  BY <1>1, <1>4, OpenSpares, MountRight DEF Safe, Right
<1> QED BY <1>3, <1>4

(* A device of its own is a file.                                          *)
LEMMA DeviceFile == \A m \in Mounters : File("fuse", m, m) \in Files
BY DEF File, Files

(* An error before anything is opened.                                     *)
LEMMA Step_mountFails ==
  ASSUME Safe, NEW m \in Mounters, mountFails(m)
  PROVE  Safe' /\ (Right => Right')
<1> USE DEF cloneVars, PairPcs, BothPcs, DevPcs
<1>1. /\ mpc[m] = "start" /\ mpc'[m] = "returned"
       /\ pair'[m] = pair[m] /\ dev'[m] = dev[m] /\ sfd'[m] = sfd[m]
  BY DEF Safe, TypeOK, mountFails, MountGoes
<1>2. MountStep(m)
  BY DEF Safe, TypeOK, mountFails, MountGoes, MountStep, MountSame, CloneSame,
         Settled
<1>3. tab' = tab /\ stray' = stray
  BY DEF mountFails, MountGoes
<1>4. TypeOK'
  BY <1>3 DEF Safe, TypeOK, mountFails, MountGoes, None
<1>5. MountOK(m)' /\ (Right => MountHas(m)')
  BY <1>1, <1>3, Own DEF MountOK, MountHas
<1>6. \A n \in Fds : FileOK(n) /\ tab[n].kind \in MountKinds /\ tab[n].by = m
                       => FileOK(n)'
  BY <1>1, <1>3 DEF FileOK, MountKinds
<1> QED BY <1>2, <1>3, <1>4, <1>5, <1>6, KeepStep

(* mountDirect opens the device.                                           *)
LEMMA Step_mountDirectOpen ==
  ASSUME Safe, GivesFree, NEW m \in Mounters, mountDirectOpen(m)
  PROVE  Safe' /\ (Right => Right')
<1> USE DEF cloneVars, PairPcs, BothPcs, DevPcs
<1>1. /\ mpc[m] = "start" /\ mpc'[m] = "direct"
       /\ pair'[m] = pair[m] /\ dev'[m] = NewFd /\ sfd'[m] = sfd[m]
  BY DEF Safe, TypeOK, mountDirectOpen, MountGoes
<1>2. MountStep(m)
  BY DEF Safe, TypeOK, mountDirectOpen, MountGoes, MountStep, MountSame,
         CloneSame, Settled
<1>3. PICK c \in Fds : c = NewFd /\ tab[c] = Free
  BY DEF GivesFree, mountDirectOpen, MountGoes
<1>4. PICK f \in Files : /\ f = File("fuse", m, m) /\ stray' = stray
                      /\ tab' = [tab EXCEPT ![c] = f]
  BY <1>3, DeviceFile, Zenon DEF mountDirectOpen, MountGoes
<1>5. TypeOK'
  <2>1. tab' \in [Fds -> Files]
    BY <1>4, OpenTyped, Zenon DEF Safe
  <2>2. dev' = [dev EXCEPT ![m] = c]
    BY <1>3 DEF mountDirectOpen, MountGoes
  <2> QED BY <1>4, <2>1, <2>2 DEF Safe, TypeOK, mountDirectOpen, MountGoes
<1>6. /\ tab'[c] = f
      /\ \A n \in Fds : tab[n].kind # "free" => tab'[n] = tab[n]
  <2>1. tab'[c] = f /\ \A n \in Fds \ {c} : tab'[n] = tab[n]
    BY <1>3, <1>4, OpenTyped, Zenon DEF Safe
  <2> QED BY <1>3, <2>1 DEF Free, File
<1>7. MountOK(m)' /\ FileOK(c)'
  <2>1. MountOK(m)'
    BY <1>1, <1>3, <1>4, <1>6, Own DEF MountOK, Fds
  <2>2. FileOK(c)'
    BY <1>1, <1>3, <1>4, <1>6, FileFields DEF FileOK
  <2> QED BY <2>1, <2>2
<1>8. ASSUME Right PROVE MountHas(m)'
  <2>1. sfd[m] = NoFd
    BY <1>1, Own DEF MountOK
  <2> QED BY <1>1, <1>3, <1>4, <1>6, <2>1 DEF MountHas
<1>9. \A n \in Fds :
        /\ FileOK(n) /\ tab[n].kind \in MountKinds /\ tab[n].by = m
        /\ tab'[n] = tab[n]
        => FileOK(n)'
  BY <1>1, Zenon DEF FileOK, MountKinds
<1> QED BY <1>2, <1>3, <1>4, <1>5, <1>7, <1>8, <1>9, OpenStep, Zenon

(* mount(2) succeeds, or the device is closed.                             *)
LEMMA Step_mountDirect ==
  ASSUME Safe, NEW m \in Mounters, mountDirect(m)
  PROVE  Safe' /\ (Right => Right')
<1> USE DEF cloneVars, PairPcs, BothPcs, DevPcs
<1>1. CASE sfd' = [sfd EXCEPT ![m] = dev[m]] /\ UNCHANGED <<tab, stray>>
  <2>1. /\ mpc[m] = "direct" /\ mpc'[m] = "returned"
         /\ pair'[m] = None /\ dev'[m] = NoFd /\ sfd'[m] = dev[m]
    BY <1>1 DEF Safe, TypeOK, mountDirect, MountGoes, MountReturn
  <2>2. MountStep(m)
    BY <1>1
    DEF Safe, TypeOK, mountDirect, MountGoes, MountReturn, MountStep,
        MountSame, CloneSame, Settled
  <2>3. tab' = tab /\ stray' = stray
    BY <1>1 DEF mountDirect, MountGoes, MountReturn
  <2>4. TypeOK'
    BY <1>1, <2>3 DEF Safe, TypeOK, mountDirect, MountGoes, MountReturn, None
  <2>5. MountOK(m)' /\ (Right => MountHas(m)')
    BY <2>1, <2>3, Own DEF MountOK, MountHas
  <2>6. \A n \in Fds : FileOK(n) /\ tab[n].kind \in MountKinds /\ tab[n].by = m
                         => FileOK(n)'
    BY <2>1, <2>3 DEF FileOK, MountKinds
  <2> QED BY <2>2, <2>3, <2>4, <2>5, <2>6, KeepStep
<1>2. CASE Closes(dev[m], "fuse", m) /\ UNCHANGED sfd
  <2>1. /\ mpc[m] = "direct" /\ mpc'[m] = "returned"
         /\ pair'[m] = None /\ dev'[m] = NoFd /\ sfd'[m] = sfd[m]
    BY <1>2 DEF Safe, TypeOK, mountDirect, MountGoes, MountReturn
  <2>2. MountStep(m)
    BY <1>2
    DEF Safe, TypeOK, mountDirect, MountGoes, MountReturn, MountStep,
        MountSame, CloneSame, Settled
  <2>3. Closes(dev[m], "fuse", m)
    BY <1>2 DEF mountDirect, MountGoes, MountReturn
  <2>4. TypeOK'
    BY <1>2, <2>3, CloseTyped
    DEF Safe, TypeOK, mountDirect, MountGoes, MountReturn, None
  <2>5. MountOK(m)'
    BY <2>1, Own DEF MountOK
  <2>6. ASSUME Right PROVE dev[m] \in Fds /\ Is(dev[m], "fuse", m)
    BY <2>1, <2>6, Own, Mine DEF MountOK
  <2>7. HasLess(m, "fuse")
    BY <2>1, Own DEF MountOK, HasLess
  <2>8. \A n \in Fds :
          /\ FileOK(n) /\ tab[n].kind \in MountKinds /\ tab[n].by = m
          /\ n # dev[m] /\ tab'[n] = tab[n]
          => FileOK(n)'
    BY <2>1 DEF FileOK, MountKinds
  <2> QED BY <2>2, <2>3, <2>4, <2>5, <2>6, <2>7, <2>8, CloseStep DEF MountKinds
<1> QED BY <1>1, <1>2 DEF mountDirect, MountGoes, MountReturn

(* The helper starts, or the second socket is closed.                      *)
LEMMA Step_cmdStart ==
  ASSUME Safe, NEW m \in Mounters, cmdStart(m)
  PROVE  Safe' /\ (Right => Right')
<1> USE DEF cloneVars, PairPcs, BothPcs, DevPcs
<1>1. CASE /\ MountGoes(m, "wait") /\ UNCHANGED <<tab, fin, stray>>
           /\ helper' = [helper EXCEPT ![m] = "running"]
  <2>1. /\ mpc[m] = "exec" /\ mpc'[m] = "wait"
         /\ pair'[m] = pair[m] /\ dev'[m] = dev[m] /\ sfd'[m] = sfd[m]
    BY <1>1 DEF Safe, TypeOK, cmdStart, MountGoes
  <2>2. MountStep(m)
    BY <1>1
    DEF Safe, TypeOK, cmdStart, MountGoes, MountStep, MountSame, CloneSame,
        Settled
  <2>3. tab' = tab /\ stray' = stray
    BY <1>1 DEF cmdStart, MountGoes
  <2>4. TypeOK'
    BY <1>1, <2>3 DEF Safe, TypeOK, cmdStart, MountGoes, None
  <2>5. MountOK(m)' /\ (Right => MountHas(m)')
    BY <2>1, <2>3, Own DEF MountOK, MountHas
  <2>6. \A n \in Fds : FileOK(n) /\ tab[n].kind \in MountKinds /\ tab[n].by = m
                         => FileOK(n)'
    BY <2>1, <2>3 DEF FileOK, MountKinds
  <2> QED BY <2>2, <2>3, <2>4, <2>5, <2>6, KeepStep
<1>2. CASE /\ Closes(pair[m].b, "sockB", m)
           /\ fin' = [fin EXCEPT ![m] = "garbage"]
           /\ MountGoes(m, "defer") /\ UNCHANGED helper
  <2>1. /\ mpc[m] = "exec" /\ mpc'[m] = "defer"
         /\ pair'[m] = pair[m] /\ dev'[m] = dev[m] /\ sfd'[m] = sfd[m]
    BY <1>2 DEF Safe, TypeOK, cmdStart, MountGoes
  <2>2. MountStep(m)
    BY <1>2
    DEF Safe, TypeOK, cmdStart, MountGoes, MountStep, MountSame, CloneSame,
        Settled
  <2>3. Closes(pair[m].b, "sockB", m)
    BY <1>2 DEF cmdStart, MountGoes
  <2>4. TypeOK'
    BY <1>2, <2>3, CloseTyped DEF Safe, TypeOK, cmdStart, MountGoes, None
  <2>5. MountOK(m)'
    BY <2>1, Own DEF MountOK
  <2>6. ASSUME Right PROVE pair[m].b \in Fds /\ Is(pair[m].b, "sockB", m)
    BY <2>1, <2>6, Mine, Zenon
  <2>7. HasLess(m, "sockB")
    BY <2>1, Own, Zenon DEF MountOK, HasLess
  <2>8. \A n \in Fds :
          /\ FileOK(n) /\ tab[n].kind \in MountKinds /\ tab[n].by = m
          /\ n # pair[m].b /\ tab'[n] = tab[n]
          => FileOK(n)'
    BY <2>1 DEF FileOK, MountKinds
  <2> QED BY <2>2, <2>3, <2>4, <2>5, <2>6, <2>7, <2>8, CloseStep, Zenon
             DEF MountKinds
<1> QED BY <1>1, <1>2 DEF cmdStart, MountGoes

(* The helper sends the device, or fails.                                  *)
LEMMA Step_fusermount ==
  ASSUME Safe, NEW m \in Mounters, fusermount(m)
  PROVE  Safe' /\ (Right => Right')
<1> USE DEF cloneVars, PairPcs, BothPcs, DevPcs
<1>1. /\ mpc'[m] = mpc[m]
       /\ pair'[m] = pair[m] /\ dev'[m] = dev[m] /\ sfd'[m] = sfd[m]
  BY DEF Safe, TypeOK, fusermount
<1>2. MountStep(m)
  BY DEF Safe, TypeOK, fusermount, MountStep, MountSame, CloneSame, Settled
<1>3. tab' = tab /\ stray' = stray
  BY DEF fusermount
<1>4. TypeOK'
  BY <1>3 DEF Safe, TypeOK, fusermount, None
<1>5. MountOK(m)' /\ (Right => MountHas(m)')
  BY <1>1, <1>3, Own DEF MountOK, MountHas
<1>6. \A n \in Fds : FileOK(n) /\ tab[n].kind \in MountKinds /\ tab[n].by = m
                       => FileOK(n)'
  BY <1>1, <1>3 DEF FileOK, MountKinds
<1> QED BY <1>2, <1>3, <1>4, <1>5, <1>6, KeepStep

(* The helper has exited: mountFusermount goes on or gives up.             *)
LEMMA Step_cmdWait ==
  ASSUME Safe, NEW m \in Mounters, cmdWait(m)
  PROVE  Safe' /\ (Right => Right')
<1> USE DEF cloneVars, PairPcs, BothPcs, DevPcs
<1>1. CASE /\ helper[m] = "sent" /\ MountGoes(m, "recv")
           /\ UNCHANGED <<tab, stray>>
  <2>1. /\ mpc[m] = "wait" /\ mpc'[m] = "recv"
         /\ pair'[m] = pair[m] /\ dev'[m] = dev[m] /\ sfd'[m] = sfd[m]
    BY <1>1 DEF Safe, TypeOK, cmdWait, MountGoes
  <2>2. MountStep(m)
    BY <1>1
    DEF Safe, TypeOK, cmdWait, MountGoes, MountStep, MountSame, CloneSame,
        Settled
  <2>3. tab' = tab /\ stray' = stray
    BY <1>1 DEF cmdWait, MountGoes
  <2>4. TypeOK'
    BY <1>1, <2>3 DEF Safe, TypeOK, cmdWait, MountGoes, None
  <2>5. MountOK(m)' /\ (Right => MountHas(m)')
    BY <2>1, <2>3, Own DEF MountOK, MountHas
  <2>6. \A n \in Fds : FileOK(n) /\ tab[n].kind \in MountKinds /\ tab[n].by = m
                         => FileOK(n)'
    BY <2>1, <2>3 DEF FileOK, MountKinds
  <2> QED BY <2>2, <2>3, <2>4, <2>5, <2>6, KeepStep
<1>2. CASE MountGoes(m, "defer") /\ Closes(pair[m].b, "sockB", m)
  <2>1. /\ mpc[m] = "wait" /\ mpc'[m] = "defer"
         /\ pair'[m] = pair[m] /\ dev'[m] = dev[m] /\ sfd'[m] = sfd[m]
    BY <1>2 DEF Safe, TypeOK, cmdWait, MountGoes
  <2>2. MountStep(m)
    BY <1>2
    DEF Safe, TypeOK, cmdWait, MountGoes, MountStep, MountSame, CloneSame,
        Settled
  <2>3. Closes(pair[m].b, "sockB", m)
    BY <1>2 DEF cmdWait, MountGoes
  <2>4. TypeOK'
    BY <1>2, <2>3, CloseTyped DEF Safe, TypeOK, cmdWait, MountGoes, None
  <2>5. MountOK(m)'
    BY <2>1, Own DEF MountOK
  <2>6. ASSUME Right PROVE pair[m].b \in Fds /\ Is(pair[m].b, "sockB", m)
    BY <2>1, <2>6, Mine
  <2>7. HasLess(m, "sockB")
    BY <2>1, Own DEF MountOK, HasLess
  <2>8. \A n \in Fds :
          /\ FileOK(n) /\ tab[n].kind \in MountKinds /\ tab[n].by = m
          /\ n # pair[m].b /\ tab'[n] = tab[n]
          => FileOK(n)'
    BY <2>1 DEF FileOK, MountKinds
  <2> QED BY <2>2, <2>3, <2>4, <2>5, <2>6, <2>7, <2>8, CloseStep, Zenon
             DEF MountKinds
<1> QED BY <1>1, <1>2 DEF cmdWait, MountGoes

(* The device arrives, or does not.                                        *)
LEMMA Step_Recvmsg ==
  ASSUME Safe, GivesFree, NEW m \in Mounters, Recvmsg(m)
  PROVE  Safe' /\ (Right => Right')
<1> USE DEF cloneVars, PairPcs, BothPcs, DevPcs
<1>1. CASE helper[m] = "sent" /\ Is(pair[m].b, "sockB", m) /\ FreeFds # {}
  <2>1. /\ mpc[m] = "recv" /\ mpc'[m] = "closeB"
         /\ pair'[m] = pair[m] /\ dev'[m] = NewFd /\ sfd'[m] = sfd[m]
    BY <1>1 DEF Safe, TypeOK, Recvmsg, MountGoes
  <2>2. MountStep(m)
    BY <1>1
    DEF Safe, TypeOK, Recvmsg, MountGoes, MountStep, MountSame, CloneSame,
        Settled
  <2>3. PICK c \in Fds : c = NewFd /\ tab[c] = Free
    BY <1>1 DEF GivesFree, Recvmsg, MountGoes
  <2>4. PICK f \in Files : /\ f = File("fuse", m, m) /\ stray' = stray
                        /\ tab' = [tab EXCEPT ![c] = f]
    BY <1>1, <2>3, DeviceFile DEF Recvmsg, MountGoes
  <2>5. TypeOK'
    <3>1. tab' \in [Fds -> Files]
      BY <2>4, OpenTyped, Zenon DEF Safe
    <3>2. dev' = [dev EXCEPT ![m] = c]
      BY <1>1, <2>3 DEF Recvmsg, MountGoes
    <3> QED BY <1>1, <2>4, <3>1, <3>2 DEF Safe, TypeOK, Recvmsg, MountGoes
  <2>6. /\ tab'[c] = f
        /\ \A n \in Fds : tab[n].kind # "free" => tab'[n] = tab[n]
    <3>1. tab'[c] = f /\ \A n \in Fds \ {c} : tab'[n] = tab[n]
      BY <2>3, <2>4, OpenTyped, Zenon DEF Safe
    <3> QED BY <2>3, <3>1 DEF Free, File
  <2>7. MountOK(m)' /\ FileOK(c)'
    <3>1. MountOK(m)'
      BY <2>1, <2>3, <2>4, <2>6, Own DEF MountOK, Fds
    <3>2. FileOK(c)'
      BY <2>1, <2>3, <2>4, <2>6, FileFields DEF FileOK
    <3> QED BY <3>1, <3>2
  <2>8. ASSUME Right PROVE MountHas(m)'
    <3>1. MountHas(m) /\ sfd[m] = NoFd
      BY <2>1, <2>8, Own, Zenon DEF MountOK
    <3>2. /\ pair[m].a \in Fds /\ Is(pair[m].a, "sockA", m)
          /\ pair[m].b \in Fds /\ Is(pair[m].b, "sockB", m)
      BY <2>1, <2>8, Mine
    <3>3. tab'[pair[m].a] = tab[pair[m].a] /\ tab'[pair[m].b] = tab[pair[m].b]
      BY <2>6, <3>2 DEF Is
    <3> QED BY <2>1, <2>3, <2>4, <2>6, <3>1, <3>3 DEF MountHas
  <2>9. \A n \in Fds :
          /\ FileOK(n) /\ tab[n].kind \in MountKinds /\ tab[n].by = m
          /\ tab'[n] = tab[n]
          => FileOK(n)'
    BY <2>1, Zenon DEF FileOK, MountKinds
  <2> QED BY <2>2, <2>3, <2>4, <2>5, <2>7, <2>8, <2>9, OpenStep, Zenon
<1>2. CASE ~(helper[m] = "sent" /\ Is(pair[m].b, "sockB", m) /\ FreeFds # {})
  <2>1. /\ mpc[m] = "recv" /\ mpc'[m] = "closeB"
         /\ pair'[m] = pair[m] /\ dev'[m] = dev[m] /\ sfd'[m] = sfd[m]
    BY <1>2 DEF Safe, TypeOK, Recvmsg, MountGoes
  <2>2. MountStep(m)
    BY <1>2
    DEF Safe, TypeOK, Recvmsg, MountGoes, MountStep, MountSame, CloneSame,
        Settled
  <2>3. tab' = tab /\ stray' = stray
    BY <1>2, Zenon DEF Recvmsg, MountGoes
  <2>4. TypeOK'
    BY <1>2, <2>3 DEF Safe, TypeOK, Recvmsg, MountGoes, None
  <2>5. MountOK(m)' /\ (Right => MountHas(m)')
    BY <2>1, <2>3, Own, Zenon DEF MountOK, MountHas
  <2>6. \A n \in Fds : FileOK(n) /\ tab[n].kind \in MountKinds /\ tab[n].by = m
                         => FileOK(n)'
    BY <2>1, <2>3 DEF FileOK, MountKinds
  <2> QED BY <2>2, <2>3, <2>4, <2>5, <2>6, KeepStep
<1> QED BY <1>1, <1>2 DEF Recvmsg, MountGoes

(* mountFusermount closes its end of the socket.                           *)
LEMMA Step_closeB ==
  ASSUME Safe, NEW m \in Mounters, closeB(m)
  PROVE  Safe' /\ (Right => Right')
<1> USE DEF cloneVars, PairPcs, BothPcs, DevPcs
<1>1. /\ mpc[m] = "closeB" /\ mpc'[m] = "defer"
       /\ pair'[m] = pair[m] /\ dev'[m] = dev[m] /\ sfd'[m] = sfd[m]
  BY DEF Safe, TypeOK, closeB, MountGoes
<1>2. MountStep(m)
  BY DEF Safe, TypeOK, closeB, MountGoes, MountStep, MountSame, CloneSame,
         Settled
<1>3. Closes(pair[m].b, "sockB", m)
  BY DEF closeB, MountGoes
<1>4. TypeOK'
  BY <1>3, CloseTyped DEF Safe, TypeOK, closeB, MountGoes, None
<1>5. MountOK(m)'
  BY <1>1, Own DEF MountOK
<1>6. ASSUME Right PROVE pair[m].b \in Fds /\ Is(pair[m].b, "sockB", m)
  BY <1>1, <1>6, Mine
<1>7. HasLess(m, "sockB")
  BY <1>1, Own DEF MountOK, HasLess
<1>8. \A n \in Fds :
        /\ FileOK(n) /\ tab[n].kind \in MountKinds /\ tab[n].by = m
        /\ n # pair[m].b /\ tab'[n] = tab[n]
        => FileOK(n)'
  BY <1>1 DEF FileOK, MountKinds
<1> QED BY <1>2, <1>3, <1>4, <1>5, <1>6, <1>7, <1>8, CloseStep, Zenon
           DEF MountKinds

(* The deferred close, and the return.                                     *)
LEMMA Step_deferredClose ==
  ASSUME Safe, NEW m \in Mounters, deferredClose(m)
  PROVE  Safe' /\ (Right => Right')
<1> USE DEF cloneVars, PairPcs, BothPcs, DevPcs
<1>1. /\ mpc[m] = "defer" /\ mpc'[m] = "returned"
       /\ pair'[m] = None /\ dev'[m] = NoFd /\ sfd'[m] = dev[m]
  BY DEF Safe, TypeOK, deferredClose, MountGoes, MountReturn
<1>2. MountStep(m)
  BY DEF Safe, TypeOK, deferredClose, MountGoes, MountReturn, MountStep,
         MountSame, CloneSame, Settled
<1>3. Closes(pair[m].a, "sockA", m)
  BY DEF deferredClose, MountGoes, MountReturn
<1>4. TypeOK'
  BY <1>3, CloseTyped
  DEF Safe, TypeOK, deferredClose, MountGoes, MountReturn, None
<1>5. MountOK(m)'
  BY <1>1, Own DEF MountOK
<1>6. ASSUME Right PROVE pair[m].a \in Fds /\ Is(pair[m].a, "sockA", m)
  BY <1>1, <1>6, Mine
<1>7. HasLess(m, "sockA")
  BY <1>1, Own DEF MountOK, HasLess
<1>8. \A n \in Fds :
        /\ FileOK(n) /\ tab[n].kind \in MountKinds /\ tab[n].by = m
        /\ n # pair[m].a /\ tab'[n] = tab[n]
        => FileOK(n)'
  BY <1>1 DEF FileOK, MountKinds
<1> QED BY <1>2, <1>3, <1>4, <1>5, <1>6, <1>7, <1>8, CloseStep, Zenon
           DEF MountKinds

(* Unmount closes the device.                                              *)
LEMMA Step_Unmount ==
  ASSUME Safe, NEW m \in Mounters, Unmount(m)
  PROVE  Safe' /\ (Right => Right')
<1> USE DEF cloneVars, PairPcs, BothPcs, DevPcs
<1>1. /\ mpc[m] = "returned" /\ mpc'[m] = "unmounted"
       /\ pair'[m] = pair[m] /\ dev'[m] = dev[m]
       /\ sfd[m] # NoFd /\ sfd'[m] = NoFd
  BY DEF Safe, TypeOK, Unmount, MountGoes
<1>2. MountStep(m)
  BY DEF Safe, TypeOK, Unmount, MountGoes, MountStep, MountSame, CloneSame,
         Settled
<1>3. Closes(sfd[m], "fuse", m)
  BY DEF Unmount, MountGoes
<1>4. TypeOK'
  BY <1>3, CloseTyped DEF Safe, TypeOK, Unmount, MountGoes, None
<1>5. MountOK(m)'
  BY <1>1, Own DEF MountOK
<1>6. ASSUME Right PROVE sfd[m] \in Fds /\ Is(sfd[m], "fuse", m)
  BY <1>1, <1>6, Mine, Zenon
<1>7. HasLess(m, "fuse")
  BY <1>1, Own DEF MountOK, HasLess
<1>8. \A n \in Fds :
        /\ FileOK(n) /\ tab[n].kind \in MountKinds /\ tab[n].by = m
        /\ n # sfd[m] /\ tab'[n] = tab[n]
        => FileOK(n)'
  BY <1>1 DEF FileOK, MountKinds
<1> QED BY <1>2, <1>3, <1>4, <1>5, <1>6, <1>7, <1>8, CloseStep, Zenon
           DEF MountKinds

(* A finalizer closes whatever has the number.                             *)
LEMMA Step_finalize ==
  ASSUME Safe, NEW m \in Mounters, finalize(m)
  PROVE  Safe'
<1> USE DEF cloneVars, PairPcs, BothPcs, DevPcs
<1>1. Closes(file[m], "sockA", m)
  BY DEF finalize
<1>2. TypeOK'
  BY <1>1, CloseTyped DEF Safe, TypeOK, finalize
<1>3. /\ \A k \in Mounters : MountSame(k)
      /\ \A x \in Cloners : CloneSame(x)
  BY Zenon DEF finalize, MountSame, CloneSame
<1> QED BY <1>1, <1>2, <1>3, Closed, IdleSafe DEF Safe

(* socketpair(2): two new files.                                           *)
LEMMA Step_mountFusermount ==
  ASSUME Safe, GivesFree, NEW m \in Mounters, mountFusermount(m)
  PROVE  Safe' /\ (Right => Right')
<1> USE DEF cloneVars, PairPcs, BothPcs, DevPcs
<1>1. PICK a \in Fds, b \in Fds :
        /\ a = NewFd /\ b = Lowest(FreeFds \ {NewFd}) /\ a # b
        /\ tab[a] = Free /\ tab[b] = Free
  BY Zenon DEF GivesFree, mountFusermount
<1>2. /\ pair' = [pair EXCEPT ![m] = [a |-> a, b |-> b]]
      /\ file' = [file EXCEPT ![m] = a]
      /\ tab' = [tab EXCEPT ![a] = File("sockA", m, Nobody),
                              ![b] = File("sockB", m, Nobody)]
      /\ stray' = stray
  BY <1>1 DEF mountFusermount
<1>3. /\ mpc[m] = "start" /\ mpc'[m] = "exec"
      /\ pair'[m].a = a /\ pair'[m].b = b
      /\ dev'[m] = dev[m] /\ sfd'[m] = sfd[m]
  <2>1. pair'[m].a = a /\ pair'[m].b = b
    BY <1>2 DEF Safe, TypeOK
  <2>2. /\ mpc[m] = "start" /\ mpc'[m] = "exec"
        /\ dev'[m] = dev[m] /\ sfd'[m] = sfd[m]
    BY DEF Safe, TypeOK, mountFusermount, MountGoes
  <2> QED BY <2>1, <2>2
<1>4. MountStep(m)
  BY <1>2, Zenon
     DEF Safe, TypeOK, mountFusermount, MountGoes, MountStep, MountSame,
              CloneSame, Settled
<1>5. /\ tab' \in [Fds -> Files]
      /\ tab'[a] = File("sockA", m, Nobody)
      /\ tab'[b] = File("sockB", m, Nobody)
      /\ \A n \in Fds \ {a, b} : tab'[n] = tab[n]
  <2>1. /\ File("sockA", m, Nobody) \in Files
        /\ File("sockB", m, Nobody) \in Files
    BY DEF File, Files
  <2> QED BY <1>1, <1>2, <2>1 DEF Safe, TypeOK
<1>6. TypeOK'
  <2>1. /\ pair' \in [Mounters -> [a : Fds \cup {NoFd}, b : Fds \cup {NoFd}]]
        /\ file' \in [Mounters -> Fds \cup {NoFd}]
    BY <1>2 DEF Safe, TypeOK
  <2> QED BY <1>5, <2>1, Zenon DEF Safe, TypeOK, mountFusermount, MountGoes
<1>7. MountOK(m)'
  BY <1>3, Own DEF MountOK
<1>8. FileOK(a)' /\ FileOK(b)'
  <2>1. /\ tab'[a].kind = "sockA" /\ tab'[a].by = m
        /\ tab'[b].kind = "sockB" /\ tab'[b].by = m
    BY <1>5, FileFields
  <2>2. FileOK(a)'
    BY <1>3, <2>1 DEF FileOK
  <2>3. FileOK(b)'
    BY <1>3, <2>1 DEF FileOK
  <2> QED BY <2>2, <2>3
<1>9. Changed
  BY <1>5, <1>8 DEF Changed
<1>10. Safe'
  <2>1. ASSUME NEW n \in Fds, FileOK(n), tab[n].kind \in MountKinds,
               tab[n].by = m
        PROVE  FALSE
    BY <1>3, <2>1 DEF FileOK, MountKinds
  <2> QED BY <1>4, <1>6, <1>7, <1>9, <2>1, MountSafe
<1>11. ASSUME Right PROVE Right'
  <2>1. MountHas(m)'
    BY <1>3, <1>5, Own DEF MountOK, MountHas
  <2>2. /\ \A k \in Mounters : Spares(k)
        /\ \A x \in Cloners : SparesClones(x)
    <3>1. tab[a].kind = "free" /\ tab[b].kind = "free"
      BY <1>1, FileFields DEF Free
    <3>2. \A n \in Fds : tab[n].kind # "free" => tab'[n] = tab[n]
      BY <1>5, <3>1
    <3> QED BY <3>2 DEF Spares, SparesClones, MountKinds
  <2> QED BY <1>2, <1>4, <1>11, <2>1, <2>2, MountRight DEF Right
<1> QED BY <1>10, <1>11

-----------------------------------------------------------------------------
(* Steps of CloneMultiple and CloseAll *)

(* What a CloneMultiple has, in its own terms.                             *)
LEMMA OwnClones ==
  ASSUME Safe, NEW x \in Cloners
  PROVE  /\ CloneOK(x) /\ MasterOK(x) /\ (Right => CloneHas(x))
         /\ fd[x] \in Fds \cup {NoFd}
         /\ fds[x] \in Seq(Fds) /\ Range(fds[x]) \subseteq Fds
         /\ cpc[x] \in {"start", "open", "ioctl", "undo", "have", "closing",
                         "returned"}
BY Members DEF Safe, Right, TypeOK, CloneOK

(* It is given a Server's number.                                          *)
LEMMA Step_CloneMultiple ==
  ASSUME Safe, NEW x \in Cloners, NEW m \in Mounters, CloneMultiple(x, m)
  PROVE  Safe' /\ (Right => Right')
<1> USE DEF mountVars
<1>1. /\ cpc[x] = "start" /\ cpc'[x] = "open" /\ fds'[x] = fds[x]
      /\ fd'[x] = fd[x] /\ tab' = tab /\ stray' = stray
      /\ master'[x].of = m /\ master'[x].fd = sfd[m] /\ sfd[m] # NoFd
  BY DEF Safe, TypeOK, CloneMultiple, CloneGoes
<1>2. CloneStep(x)
  BY DEF Safe, TypeOK, CloneMultiple, CloneGoes, CloneStep, MountSame,
         CloneSame
<1>3. TypeOK'
  BY DEF Safe, TypeOK, CloneMultiple, CloneGoes
<1>4. fds[x] = <<>> /\ Range(fds[x]) = {} /\ IsInjective(fds[x])
  BY <1>1, OwnClones, Members DEF CloneOK
<1>5. CloneOK(x)'
  BY <1>1, <1>4, BoundsAssumption DEF CloneOK
<1>6. MasterOK(x)'
  BY <1>1, Own DEF MasterOK, MountOK, CloneMultiple
<1>7. ASSUME NEW n \in Fds, FileOK(n), tab[n].kind = "clone", tab[n].by = x
      PROVE  FALSE
  BY <1>1, <1>4, <1>7 DEF FileOK
<1>8. Safe'
  BY <1>1, <1>2, <1>3, <1>5, <1>6, <1>7, Kept, CloneSafe
<1>9. ASSUME Right PROVE Right'
  <2>1. CloneHas(x)'
    BY <1>1, <1>4 DEF CloneHas
  <2> QED BY <1>1, <1>2, <1>9, <2>1, Kept, CloneRight DEF Right
<1> QED BY <1>8, <1>9

(* CloneFuseFD opens the device, or the clones are given up.               *)
LEMMA Step_CloneFuseFD ==
  ASSUME Safe, GivesFree, NEW x \in Cloners, CloneFuseFD(x)
  PROVE  Safe' /\ (Right => Right')
<1> USE DEF mountVars
<1>1. /\ cpc[x] = "open" /\ fds'[x] = fds[x] /\ master'[x] = master[x]
      /\ stray' = stray /\ mpc' = mpc /\ sfd' = sfd
  BY DEF Safe, TypeOK, CloneFuseFD, CloneGoes
<1>2. CloneStep(x)
  BY DEF Safe, TypeOK, CloneFuseFD, CloneGoes, CloneStep, MountSame, CloneSame
<1>3. CASE CloneGoes(x, "undo") /\ UNCHANGED <<fd, tab>>
  <2>1. cpc'[x] = "undo" /\ fd'[x] = fd[x] /\ tab' = tab
    BY <1>3 DEF Safe, TypeOK, CloneGoes
  <2>2. TypeOK'
    BY <1>3 DEF Safe, TypeOK, CloneFuseFD, CloneGoes
  <2>3. CloneOK(x)' /\ MasterOK(x)'
    BY <1>1, <2>1, OwnClones DEF CloneOK, MasterOK
  <2>4. ASSUME NEW n \in Fds, FileOK(n), tab[n].kind = "clone", tab[n].by = x
        PROVE  FileOK(n)'
    BY <1>1, <2>1, <2>4 DEF FileOK
  <2>5. Safe'
    BY <1>2, <2>1, <2>2, <2>3, <2>4, Kept, CloneSafe
  <2>6. ASSUME Right PROVE Right'
    <3>1. CloneHas(x)
      BY <2>6, OwnClones
    <3>2. CloneHas(x)'
      BY <1>1, <2>1, <3>1 DEF CloneHas
    <3> QED BY <1>1, <1>2, <2>1, <2>6, <3>2, Kept, CloneRight DEF Right
  <2> QED BY <2>5, <2>6
<1>4. CASE /\ FreeFds # {}
           /\ fd' = [fd EXCEPT ![x] = NewFd]
           /\ tab' = [tab EXCEPT ![NewFd] = File("clone", x, Nobody)]
           /\ CloneGoes(x, "ioctl")
  <2>1. PICK c \in Fds : c = NewFd /\ tab[c] = Free
    BY <1>4 DEF GivesFree
  <2>2. PICK f \in Files : f = File("clone", x, Nobody)
                           /\ tab' = [tab EXCEPT ![c] = f]
    BY <1>4, <2>1, Zenon DEF File, Files
  <2>3. cpc'[x] = "ioctl" /\ fd'[x] = c
    BY <1>4, <2>1 DEF Safe, TypeOK, CloneGoes
  <2>4. tab' \in [Fds -> Files] /\ tab'[c] = f
        /\ \A n \in Fds \ {c} : tab'[n] = tab[n]
    BY <2>2, OpenTyped, Zenon DEF Safe
  <2>5. TypeOK'
    BY <1>4, <2>1, <2>4 DEF Safe, TypeOK, CloneFuseFD, CloneGoes
  <2>6. CloneOK(x)' /\ MasterOK(x)'
    <3>1. CloneOK(x) /\ MasterOK(x)
      BY OwnClones, Zenon
    <3>2. c # NoFd
      BY DEF Fds
    <3>3. CloneOK(x)'
      BY <1>1, <2>3, <3>1, <3>2 DEF CloneOK
    <3>4. MasterOK(x)'
      BY <1>1, <2>3, <3>1 DEF MasterOK
    <3> QED BY <3>3, <3>4
  <2>7. FileOK(c)'
    BY <2>2, <2>3, <2>4 DEF FileOK, File
  <2>8. ASSUME NEW n \in Fds, FileOK(n), tab'[n] = tab[n],
               tab[n].kind = "clone", tab[n].by = x
        PROVE  FileOK(n)'
    BY <1>1, <2>8 DEF FileOK
  <2>9. Changed
    BY <2>4, <2>7 DEF Changed
  <2>10. Safe'
    BY <1>2, <2>5, <2>6, <2>8, <2>9, CloneSafe
  <2>11. ASSUME Right PROVE Right'
    <3>1. CloneHas(x) /\ Range(fds[x]) \subseteq Fds
      BY <2>11, OwnClones
    <3>2. \A n \in Range(fds[x]) : tab'[n] = tab[n]
      BY <2>1, <2>4, <3>1 DEF CloneHas, Free, File
    <3>3. CloneHas(x)'
      BY <1>1, <2>2, <2>3, <2>4, <3>1, <3>2 DEF CloneHas
    <3> QED BY <1>1, <1>2, <2>1, <2>4, <2>11, <3>3, OpenSpares, CloneRight
            DEF Safe, Right
  <2> QED BY <2>10, <2>11
<1> QED BY <1>3, <1>4 DEF CloneFuseFD

(* The caller has done with the clones.                                    *)
LEMMA Step_CloseAll ==
  ASSUME Safe, NEW x \in Cloners, CloseAll(x)
  PROVE  Safe' /\ (Right => Right')
<1> USE DEF mountVars
<1>1. /\ cpc[x] = "have" /\ cpc'[x] = "closing" /\ fds'[x] = fds[x]
      /\ fd'[x] = fd[x] /\ tab' = tab /\ stray' = stray
      /\ master'[x] = master[x] /\ mpc' = mpc /\ sfd' = sfd
  BY DEF Safe, TypeOK, CloseAll, CloneGoes
<1>2. CloneStep(x)
  BY DEF Safe, TypeOK, CloseAll, CloneGoes, CloneStep, MountSame, CloneSame
<1>3. TypeOK'
  BY DEF Safe, TypeOK, CloseAll, CloneGoes
<1>4. CloneOK(x)' /\ MasterOK(x)'
  BY <1>1, OwnClones DEF CloneOK, MasterOK
<1>5. ASSUME NEW n \in Fds, FileOK(n), tab[n].kind = "clone", tab[n].by = x
      PROVE  FileOK(n)'
  BY <1>1, <1>5 DEF FileOK
<1>6. Safe'
  BY <1>1, <1>2, <1>3, <1>4, <1>5, Kept, CloneSafe
<1>7. ASSUME Right PROVE Right'
  <2>1. CloneHas(x)
    BY <1>7, OwnClones
  <2>2. CloneHas(x)'
    BY <1>1, <2>1 DEF CloneHas
  <2> QED BY <1>1, <1>2, <1>7, <2>2, Kept, CloneRight DEF Right
<1> QED BY <1>6, <1>7

(* The clones with one more.                                               *)
LEMMA AppendSet ==
  ASSUME NEW S, NEW s \in Seq(S), NEW e \in S
  PROVE  /\ Append(s, e) \in Seq(S) /\ Len(Append(s, e)) = Len(s) + 1
         /\ Range(Append(s, e)) = Range(s) \cup {e}
         /\ IsInjective(s) /\ e \notin Range(s) => IsInjective(Append(s, e))
<1>1. PICK t : t = Append(s, e)
  BY Zenon
<1>2. /\ t \in Seq(S) /\ Len(t) = Len(s) + 1 /\ t[Len(s) + 1] = e
      /\ \A i \in 1..Len(s) : t[i] = s[i]
  BY <1>1
<1>3. DOMAIN t = 1..(Len(s) + 1) /\ DOMAIN s = 1..Len(s) /\ Len(s) \in Nat
  BY <1>2
<1>4. Range(t) = Range(s) \cup {e}
  BY <1>2, <1>3 DEF Range
<1>5. IsInjective(s) /\ e \notin Range(s) => IsInjective(t)
  BY <1>2, <1>3 DEF Range, IsInjective
<1> QED BY <1>1, <1>2, <1>4, <1>5

(* The clones without the first.                                           *)
LEMMA TailSet ==
  ASSUME NEW S, NEW s \in Seq(S), s # <<>>
  PROVE  /\ Tail(s) \in Seq(S) /\ Len(Tail(s)) < Len(s) /\ Head(s) \in S
         /\ Range(s) = Range(Tail(s)) \cup {Head(s)}
         /\ IsInjective(s) =>
              IsInjective(Tail(s)) /\ Head(s) \notin Range(Tail(s))
<1>1. PICK t, h : t = Tail(s) /\ h = Head(s)
  BY Zenon
<1>2. /\ t \in Seq(S) /\ Len(t) = Len(s) - 1 /\ h \in S
      /\ \A i \in 1..Len(t) : t[i] = s[i + 1]
  BY <1>1
<1>7. Len(s) \in Nat \ {0} /\ h = s[1]
  BY <1>1
<1>3. DOMAIN t = 1..(Len(s) - 1) /\ DOMAIN s = 1..Len(s)
  BY <1>2
<1>4. \A i \in 1..Len(s) : i = 1 \/ (i - 1 \in 1..Len(t) /\ s[i] = t[i - 1])
  BY <1>2, <1>7
<1>8. \A i \in 1..Len(t) : i + 1 \in 1..Len(s) /\ i + 1 # 1 /\ t[i] = s[i + 1]
  BY <1>2, <1>7
<1>5. Range(s) = Range(t) \cup {h}
  <2>1. ASSUME NEW e \in Range(s) PROVE e \in Range(t) \cup {h}
    <3>1. PICK i \in 1..Len(s) : e = s[i]
      BY <1>3 DEF Range
    <3>2. \A j \in 1..Len(t) : t[j] \in Range(t)
      BY <1>2 DEF Range
    <3> QED BY <1>4, <1>7, <3>1, <3>2
  <2>2. ASSUME NEW e \in Range(t) PROVE e \in Range(s)
    <3>1. PICK i \in 1..Len(t) : e = t[i]
      BY <1>2 DEF Range
    <3> QED BY <1>3, <1>8, <3>1 DEF Range
  <2>3. h \in Range(s)
    BY <1>3, <1>7 DEF Range
  <2> QED BY <2>1, <2>2, <2>3
<1>6. ASSUME IsInjective(s)
      PROVE  IsInjective(t) /\ h \notin Range(t)
  <2>1. ASSUME NEW i \in 1..Len(t), NEW j \in 1..Len(t), t[i] = t[j]
        PROVE  i = j
    <3>1. i + 1 = j + 1
      BY <1>3, <1>6, <1>8, <2>1 DEF IsInjective
    <3> QED BY <3>1
  <2>2. h \notin Range(t)
    BY <1>2, <1>3, <1>6, <1>7, <1>8 DEF Range, IsInjective
  <2> QED BY <1>2, <2>1, <2>2 DEF IsInjective
<1> QED BY <1>1, <1>2, <1>5, <1>6, <1>7

(* The ioctl binds the new device to the master's connection, or it is     *)
(* closed.                                                                 *)
LEMMA Step_ioctlClone ==
  ASSUME Safe, NEW x \in Cloners, ioctlClone(x)
  PROVE  Safe' /\ (Right => Right')
<1> USE DEF mountVars
<1>1. /\ cpc[x] = "ioctl" /\ fd'[x] = NoFd /\ master'[x] = master[x]
      /\ mpc' = mpc /\ sfd' = sfd
  BY DEF Safe, TypeOK, ioctlClone
<1>2. CloneStep(x)
  BY DEF Safe, TypeOK, ioctlClone, CloneGoes, CloneStep, MountSame, CloneSame
<1>3. PICK c \in Fds : c = fd[x]
  BY <1>1, OwnClones DEF CloneOK
<1>4. CASE Closes(fd[x], "clone", x) /\ CloneGoes(x, "undo") /\ UNCHANGED fds
  <2>1. cpc'[x] = "undo" /\ fds'[x] = fds[x] /\ Closes(c, "clone", x)
    BY <1>3, <1>4 DEF Safe, TypeOK, CloneGoes
  <2>2. TypeOK'
    BY <1>4, CloseTyped DEF Safe, TypeOK, ioctlClone, CloneGoes
  <2>3. CloneOK(x)' /\ MasterOK(x)'
    BY <1>1, <2>1, OwnClones DEF CloneOK, MasterOK
  <2>4. ASSUME NEW n \in Fds, FileOK(n), tab'[n] = tab[n],
               tab[n].kind = "clone", tab[n].by = x
        PROVE  FileOK(n)'
    <3>1. n # c
      BY <2>1, <2>4, CloseTyped DEF Safe, Free, File
    <3> QED BY <1>3, <2>1, <2>4, <3>1 DEF FileOK
  <2>5. Safe'
    BY <1>2, <2>1, <2>2, <2>3, <2>4, Closed, CloneSafe DEF Safe
  <2>6. ASSUME Right PROVE Right'
    <3>1. CloneHas(x) /\ Range(fds[x]) \subseteq Fds
      BY <2>6, OwnClones
    <3>2. Is(c, "clone", x) /\ tab[c].conn = Nobody
      BY <1>1, <1>3, <3>1 DEF CloneHas, Is, File
    <3>3. \A n \in Range(fds[x]) : tab'[n] = tab[n]
      <4>1. \A n \in Fds \ {c} : tab'[n] = tab[n]
        BY <2>1, CloseTyped, Zenon DEF Safe
      <4>2. \A n \in Range(fds[x]) : tab[n].conn # Nobody
        BY <3>1, Zenon DEF CloneHas
      <4> QED BY <3>1, <3>2, <4>1, <4>2, Zenon
    <3>4. CloneHas(x)'
      BY <1>1, <2>1, <3>1, <3>3 DEF CloneHas
    <3>5. /\ \A m \in Mounters : Spares(m)
          /\ \A y \in Cloners \ {x} : SparesClones(y)
          /\ stray' = stray
      BY <2>1, <3>2, CloseSpares, Zenon DEF Safe
    <3>6. ~stray'
      BY <2>6, <3>5, Zenon DEF Right
    <3> QED BY <1>2, <2>6, <3>4, <3>5, <3>6, CloneRight, Zenon
  <2> QED BY <2>5, <2>6
<1>5. CASE /\ tab[master[x].fd].conn # Nobody
           /\ tab[fd[x]].kind = "clone" /\ tab[fd[x]].conn = Nobody
           /\ tab' = [tab EXCEPT ![fd[x]].conn = tab[master[x].fd].conn]
           /\ fds' = [fds EXCEPT ![x] = Append(@, fd[x])]
           /\ CloneGoes(x, IF Len(fds'[x]) = MaxClones THEN "have" ELSE "open")
           /\ UNCHANGED stray
  <2>1. PICK s \in Seq(Fds) :
          /\ s = fds[x] /\ Len(s) < MaxClones /\ Len(s) \in Nat
    BY <1>1, OwnClones DEF CloneOK
  <2>2. fds'[x] = Append(s, c)
    BY <1>3, <1>5, <2>1 DEF Safe, TypeOK
  <2>3. PICK k \in Mounters \cup {Nobody} :
          /\ k = tab[master[x].fd].conn /\ k # Nobody
          /\ tab' = [tab EXCEPT ![c].conn = k]
    BY <1>1, <1>3, <1>5, OwnClones, Zenon DEF Safe, TypeOK, MasterOK, Files
  <2>4. PICK f \in Files :
          f = [tab[c] EXCEPT !.conn = k] /\ tab' = [tab EXCEPT ![c] = f]
    <3>1. tab[c] \in Files
      BY DEF Safe, TypeOK
    <3>2. [tab[c] EXCEPT !.conn = k] \in Files
      BY <3>1 DEF Files
    <3> QED BY <2>3, <3>2, Zenon
  <2>6. /\ tab' \in [Fds -> Files] /\ tab'[c] = f
        /\ \A n \in Fds \ {c} : tab'[n] = tab[n]
    BY <2>4, OpenTyped, Zenon DEF Safe
  <2>5. /\ tab[c] \in Files /\ tab'[c].kind = "clone" /\ tab[c].kind = "clone"
        /\ tab'[c].by = tab[c].by /\ tab'[c].conn = k /\ tab[c].conn = Nobody
    BY <1>3, <1>5, <2>4, <2>6 DEF Safe, TypeOK, Files
  <2>7. /\ fds'[x] \in Seq(Fds) /\ Len(fds'[x]) = Len(s) + 1
        /\ Range(fds'[x]) = Range(s) \cup {c}
    BY <2>2, AppendSet
  <2>8. /\ cpc'[x] \in {"have", "open"}
        /\ Len(fds'[x]) = MaxClones => cpc'[x] = "have"
    BY <1>5 DEF Safe, TypeOK, CloneGoes
  <2>9. CloneOK(x)' /\ MasterOK(x)'
    <3>1. MasterOK(x)
      BY OwnClones, Zenon
    <3>2. MasterOK(x)'
      BY <1>1, <2>8, <3>1 DEF MasterOK
    <3>3. cpc'[x] = "open" => Len(fds'[x]) < MaxClones
      BY <2>1, <2>7, <2>8, BoundsAssumption
    <3>4. CloneOK(x)'
      BY <2>8, <3>3 DEF CloneOK
    <3> QED BY <3>2, <3>4
  <2>10. TypeOK'
    <3>1. fds' \in [Cloners -> Seq(Fds)]
      BY <1>5, <2>7 DEF Safe, TypeOK
    <3>2. \A y \in Cloners : Len(fds'[y]) <= MaxClones
      <4>1. Len(fds'[x]) <= MaxClones
        BY <2>1, <2>7, BoundsAssumption
      <4>2. ASSUME NEW y \in Cloners \ {x} PROVE Len(fds'[y]) <= MaxClones
        BY <1>2 DEF Safe, TypeOK, CloneStep, CloneSame
      <4> QED BY <4>1, <4>2
    <3> QED BY <1>5, <2>6, <3>1, <3>2
            DEF Safe, TypeOK, ioctlClone, CloneGoes
  <2>11. FileOK(c)'
    <3>1. FileOK(c)
      BY DEF Safe
    <3>2. CASE tab[c].by = x
      BY <2>5, <2>7, <3>2 DEF FileOK
    <3>3. CASE tab[c].by # x
      BY <1>2, <2>5, <3>1, <3>3 DEF FileOK, CloneStep, CloneSame
    <3> QED BY <3>2, <3>3
  <2>12. Changed
    BY <2>6, <2>11 DEF Changed
  <2>13. ASSUME NEW n \in Fds, FileOK(n), tab'[n] = tab[n],
                tab[n].kind = "clone", tab[n].by = x
         PROVE  FileOK(n)'
    <3>1. n \in Range(s) \cup {c}
      BY <1>3, <2>1, <2>13 DEF FileOK
    <3> QED BY <2>7, <2>13, <3>1 DEF FileOK
  <2>14. Safe'
    BY <1>2, <2>9, <2>10, <2>12, <2>13, CloneSafe
  <2>15. ASSUME Right PROVE Right'
    <3>1. CloneHas(x) /\ Range(s) \subseteq Fds
      BY <2>1, <2>15, OwnClones
    <3>2. c \notin Range(s)
      BY <2>1, <2>5, <3>1 DEF CloneHas
    <3>3. \A n \in Range(s) : tab'[n] = tab[n]
      BY <2>6, <3>1, <3>2
    <3>4. tab[c].by = x
      BY <1>1, <1>3, <3>1 DEF CloneHas, File
    <3>5. k = master[x].of \/ mpc[master[x].of] = "unmounted"
      <4>1. CASE /\ master[x].of \in Mounters /\ master[x].fd \in Fds
                 /\ sfd[master[x].of] = master[x].fd
        <5>1. MountHas(master[x].of)
          BY <2>15, <4>1 DEF Right
        <5> QED BY <2>3, <4>1, <5>1 DEF MountHas, File, Fds
      <4> QED BY <1>1, <4>1, OwnClones DEF MasterOK
    <3>6. IsInjective(fds'[x])
      <4>1. IsInjective(s)
        BY <2>1, <3>1 DEF CloneHas
      <4> QED BY <2>2, <3>2, <4>1, AppendSet
    <3>7. CloneHas(x)'
      BY <1>1, <2>1, <2>3, <2>5, <2>7, <2>8, <3>1, <3>3, <3>4, <3>5, <3>6
      DEF CloneHas
    <3>8. /\ \A m \in Mounters : Spares(m)
          /\ \A y \in Cloners \ {x} : SparesClones(y)
      BY <2>5, <2>6, <3>4 DEF Spares, SparesClones, MountKinds
    <3> QED BY <1>2, <1>5, <2>15, <3>7, <3>8, CloneRight DEF Right
  <2> QED BY <2>14, <2>15
<1> QED BY <1>4, <1>5 DEF ioctlClone

(* The clones are closed one by one.                                       *)
LEMMA Step_closeClone ==
  ASSUME Safe, NEW x \in Cloners, closeClone(x)
  PROVE  Safe' /\ (Right => Right')
<1> USE DEF mountVars
<1>1. /\ cpc[x] \in {"undo", "closing"} /\ fd'[x] = fd[x]
      /\ mpc' = mpc /\ sfd' = sfd
  BY DEF closeClone
<1>2. CloneStep(x)
  BY DEF Safe, TypeOK, closeClone, CloneGoes, CloneStep, MountSame, CloneSame
<1>3. CASE fds[x] = <<>>
  <2>1. /\ cpc'[x] = "returned" /\ fds'[x] = fds[x] /\ tab' = tab
        /\ stray' = stray
    BY <1>3 DEF Safe, TypeOK, closeClone, CloneGoes
  <2>2. TypeOK'
    <3>1. master' \in [Cloners -> [of : Mounters \cup {Nobody},
                                   fd : Fds \cup {NoFd}]]
      <4>1. PICK z \in [of : Mounters \cup {Nobody}, fd : Fds \cup {NoFd}] :
              z = [of |-> Nobody, fd |-> NoFd]
        BY Zenon
      <4>2. master' = [master EXCEPT ![x] = z]
        BY <1>3, <4>1 DEF closeClone
      <4> QED BY <4>2 DEF Safe, TypeOK
    <3>2. cpc' = [cpc EXCEPT ![x] = "returned"] /\ UNCHANGED <<fds, fd>>
      BY <1>3 DEF closeClone, CloneGoes
    <3> QED BY <2>1, <3>1, <3>2 DEF Safe, TypeOK, closeClone
  <2>3. Range(fds[x]) = {} /\ IsInjective(fds[x])
    BY <1>3, OwnClones, Members
  <2>4. CloneOK(x)' /\ MasterOK(x)'
    BY <1>3, <2>1, OwnClones DEF CloneOK, MasterOK
  <2>5. ASSUME NEW n \in Fds, FileOK(n), tab[n].kind = "clone", tab[n].by = x
        PROVE  FALSE
    BY <1>1, <2>3, <2>5 DEF FileOK
  <2>6. Safe'
    BY <1>2, <2>1, <2>2, <2>4, <2>5, Kept, CloneSafe, Zenon
  <2>7. ASSUME Right PROVE Right'
    <3>1. CloneHas(x)'
      BY <2>1, <2>3 DEF CloneHas
    <3> QED BY <1>2, <2>1, <2>7, <3>1, Kept, CloneRight DEF Right
  <2> QED BY <2>6, <2>7
<1>4. CASE fds[x] # <<>>
  <2>1. PICK s \in Seq(Fds) : s = fds[x] /\ s # <<>>
    BY <1>4, OwnClones
  <2>2. PICK t \in Seq(Fds), h \in Fds :
          /\ t = Tail(s) /\ h = Head(s) /\ Len(t) < Len(s)
          /\ Range(s) = Range(t) \cup {h}
          /\ IsInjective(s) => IsInjective(t) /\ h \notin Range(t)
    BY <2>1, TailSet, Zenon
  <2>3. /\ Closes(h, "clone", x) /\ cpc' = cpc /\ master' = master /\ fd' = fd
        /\ fds' = [fds EXCEPT ![x] = t]
    BY <1>4, <2>1, <2>2 DEF closeClone
  <2>4. fds'[x] = t
    BY <2>3 DEF Safe, TypeOK
  <2>5. TypeOK'
    <3>1. fds' \in [Cloners -> Seq(Fds)]
      BY <2>3 DEF Safe, TypeOK
    <3>2. \A y \in Cloners : Len(fds'[y]) <= MaxClones
      <4>1. Len(s) \in Nat /\ Len(t) \in Nat /\ Len(s) <= MaxClones
        BY <2>1 DEF Safe, TypeOK
      <4>2. Len(fds'[x]) <= MaxClones
        BY <2>2, <2>4, <4>1, BoundsAssumption
      <4>3. \A y \in Cloners \ {x} : fds'[y] = fds[y]
        BY <1>2 DEF CloneStep, CloneSame
      <4>4. \A y \in Cloners : Len(fds[y]) <= MaxClones
        BY DEF Safe, TypeOK
      <4> QED BY <4>2, <4>3, <4>4
    <3> QED BY <2>3, <3>1, <3>2, CloseTyped DEF Safe, TypeOK, closeClone
  <2>6. CloneOK(x)' /\ MasterOK(x)'
    BY <1>1, <2>3, OwnClones DEF CloneOK, MasterOK
  <2>7. ASSUME NEW n \in Fds, FileOK(n), tab'[n] = tab[n],
               tab[n].kind = "clone", tab[n].by = x
        PROVE  FileOK(n)'
    <3>1. n # h
      <4>1. tab'[h] = Free
        BY <2>3, CloseTyped, Zenon DEF Safe
      <4>2. Free.kind = "free"
        BY DEF Free, File
      <4> QED BY <2>7, <4>1, <4>2
    <3> QED BY <1>1, <2>1, <2>2, <2>4, <2>7, <3>1, Zenon DEF FileOK
  <2>8. Safe'
    BY <1>2, <2>3, <2>5, <2>6, <2>7, Closed, CloneSafe DEF Safe
  <2>9. ASSUME Right PROVE Right'
    <3>1. CloneHas(x) /\ Range(s) \subseteq Fds
      BY <2>1, <2>9, OwnClones
    <3>2. Is(h, "clone", x) /\ h \notin Range(t) /\ IsInjective(t)
      BY <2>1, <2>2, <3>1 DEF CloneHas, Is
    <3>3. \A n \in Range(t) : tab'[n] = tab[n]
      BY <2>2, <2>3, <3>1, <3>2, CloseTyped DEF Safe
    <3>4. CloneHas(x)'
      BY <1>1, <2>1, <2>2, <2>3, <2>4, <3>1, <3>2, <3>3 DEF CloneHas
    <3>5. /\ \A m \in Mounters : Spares(m)
          /\ \A y \in Cloners \ {x} : SparesClones(y)
          /\ stray' = stray
      BY <2>3, <3>2, CloseSpares, Zenon DEF Safe
    <3>6. ~stray'
      BY <2>9, <3>5, Zenon DEF Right
    <3> QED BY <1>2, <2>9, <3>4, <3>5, <3>6, CloneRight, Zenon
  <2> QED BY <2>8, <2>9
<1> QED BY <1>3, <1>4

(* The rest of the process opens files, and closes its own.                *)
LEMMA Step_OtherFile ==
  ASSUME Safe, GivesFree, OtherFile
  PROVE  Safe' /\ (Right => Right')
<1> USE DEF mountVars, cloneVars
<1>1. /\ \A m \in Mounters : MountSame(m)
      /\ \A x \in Cloners : CloneSame(x)
      /\ stray' = stray
  BY DEF OtherFile, MountSame, CloneSame
<1>2. PICK c \in Fds, f \in {Free, Other} :
        tab' = [tab EXCEPT ![c] = f] /\ tab[c] \in {Free, Other}
  BY DEF GivesFree, OtherFile
<1>3. f \in Files
  BY <1>2 DEF Free, Other, File, Files
<1>4. /\ tab' \in [Fds -> Files] /\ tab'[c] = f
      /\ \A n \in Fds \ {c} : tab'[n] = tab[n]
  BY <1>2, <1>3, OpenTyped, Zenon DEF Safe
<1>5. TypeOK'
  BY <1>4 DEF Safe, TypeOK, OtherFile
<1>6. Changed
  BY <1>2, <1>4, NoFile DEF Changed
<1>7. /\ \A m \in Mounters : Spares(m)
      /\ \A x \in Cloners : SparesClones(x)
  BY <1>2, <1>4 DEF Spares, SparesClones, MountKinds, Free, Other, File
<1> QED BY <1>1, <1>5, <1>6, <1>7, IdleSafe, IdleRight

(* A step of a Mount keeps what was shown until a finalizer strikes.       *)
LEMMA Step_mount ==
  ASSUME Safe, GivesFree, NEW m \in Mounters, mount(m)
  PROVE  Safe' /\ (Right => Right')
BY Step_mountFails, Step_mountDirectOpen, Step_mountDirect,
   Step_mountFusermount, Step_cmdStart, Step_fusermount, Step_cmdWait,
   Step_Recvmsg, Step_closeB, Step_deferredClose
DEF mount

(* So with a CloneMultiple.                                                *)
LEMMA Step_clone ==
  ASSUME Safe, GivesFree, NEW x \in Cloners,
         \/ \E m \in Mounters : CloneMultiple(x, m)
         \/ CloneFuseFD(x) \/ ioctlClone(x) \/ CloseAll(x) \/ closeClone(x)
  PROVE  Safe' /\ (Right => Right')
BY Step_CloneMultiple, Step_CloneFuseFD, Step_ioctlClone, Step_CloseAll,
   Step_closeClone

-----------------------------------------------------------------------------
(* The numbers that the kernel gives *)

C == INSTANCE Counting_proofs

(* Counting_proofs speaks of the same finite sets and sizes.               *)
LEMMA SameSets ==
  /\ \A S : C!IsFiniteSet(S) <=> IsFiniteSet(S)
  /\ \A S : C!Cardinality(S) = Cardinality(S)
BY Zenon DEF C!IsFiniteSet, C!Cardinality, IsFiniteSet, Cardinality

(* The lowest of the free numbers is one of them.                          *)
LEMMA LowestIn ==
  ASSUME NEW S \in SUBSET Nat, S # {}
  PROVE  Lowest(S) \in S
BY C!LeastOf, Zenon DEF Lowest

(* open(2) and recvmsg(2) give a number that was free.                     *)
LEMMA NewIsFree ==
  ASSUME FreeFds # {}
  PROVE  NewFd \in Fds /\ tab[NewFd] = Free
<1>1. FreeFds \in SUBSET Nat
  BY BoundsAssumption DEF FreeFds, Fds
<1>2. NewFd \in FreeFds
  BY <1>1, LowestIn DEF NewFd
<1> QED BY <1>2 DEF FreeFds

(* socketpair(2) gives two.                                                *)
LEMMA PairIsFree ==
  ASSUME Cardinality(FreeFds) > 1
  PROVE  \E a, b \in Fds :
           /\ a = NewFd /\ b = Lowest(FreeFds \ {NewFd}) /\ a # b
           /\ tab[a] = Free /\ tab[b] = Free
<1>1. FreeFds \in SUBSET Nat /\ FreeFds \subseteq Fds
  BY BoundsAssumption DEF FreeFds, Fds
<1>2. IsFiniteSet(FreeFds)
  <2>1. IsFiniteSet(1..MaxFd)
    BY BoundsAssumption, SameSets, C!UpTo
  <2> QED BY <1>1, <2>1, SameSets, C!PartSize, Zenon DEF Fds
<1>3. FreeFds # {}
  <2>1. Cardinality({}) = 0
    BY SameSets, C!EmptySize, Zenon
  <2> QED BY <2>1
<1>4. NewFd \in FreeFds
  BY <1>1, <1>3, LowestIn DEF NewFd
<1>5. FreeFds \ {NewFd} # {}
  <2>1. C!IsFiniteSet(FreeFds) /\ C!Cardinality(FreeFds) > 1
    BY <1>2, SameSets
  <2> QED BY <1>4, <2>1, C!Another
<1>6. Lowest(FreeFds \ {NewFd}) \in FreeFds \ {NewFd}
  BY <1>1, <1>5, LowestIn
<1> QED BY <1>1, <1>4, <1>6 DEF FreeFds

-----------------------------------------------------------------------------
(* The invariant *)

(* What a step does to the os.File of a Mount: a finalizer that has struck *)
(* stays so, and none strikes before the helper is waited for.             *)
LEMMA Step_fin ==
  ASSUME TypeOK, Unstruck, NEW m \in Mounters, mount(m)
  PROVE  /\ Unstruck'
         /\ \A k \in Mounters : fin[k] = "done" => fin'[k] = "done"
<1> USE DEF MountGoes, MountReturn
<1>1. /\ mpc \in [Mounters -> {"start", "direct", "exec", "wait", "recv",
                               "closeB", "defer", "returned", "unmounted"}]
      /\ fin \in [Mounters -> {"none", "held", "garbage", "done"}]
  BY DEF TypeOK
<1>2. CASE mountFails(m) \/ mountDirectOpen(m) \/ mountDirect(m)
  <2>1. /\ fin' = fin
        /\ \E pc \in {"direct", "returned"} : mpc' = [mpc EXCEPT ![m] = pc]
    BY <1>2 DEF mountFails, mountDirectOpen, mountDirect
  <2> QED BY <1>1, <2>1 DEF Unstruck
<1>3. CASE mountFusermount(m)
  BY <1>1, <1>3 DEF Unstruck, mountFusermount
<1>4. CASE cmdStart(m)
  BY <1>1, <1>4 DEF Unstruck, cmdStart
<1>5. CASE fusermount(m)
  BY <1>5 DEF Unstruck, fusermount
<1>6. CASE Recvmsg(m) \/ closeB(m) \/ deferredClose(m)
  <2>1. fin' = fin
    BY <1>6 DEF Recvmsg, closeB, deferredClose
  <2>2. \E pc \in {"closeB", "defer", "returned"} :
          mpc' = [mpc EXCEPT ![m] = pc]
    BY <1>6 DEF Recvmsg, closeB, deferredClose
  <2> QED BY <1>1, <2>1, <2>2 DEF Unstruck
<1>7. CASE cmdWait(m)
  BY <1>1, <1>7 DEF Unstruck, cmdWait
<1> QED BY <1>2, <1>3, <1>4, <1>5, <1>6, <1>7 DEF mount

(* Every step keeps the invariant.                                         *)
LEMMA Inductive == IInv /\ [Next]_vars => IInv'
<1> SUFFICES ASSUME IInv, [Next]_vars PROVE IInv'
  OBVIOUS
<1> USE DEF IInv
<1>0. GivesFree
  BY NewIsFree, PairIsFree DEF GivesFree
<1>1. ASSUME NEW m \in Mounters, mount(m) PROVE IInv'
  <2>1. TypeOK
    BY DEF Safe
  <2>2. Unstruck' /\ (Finalized => Finalized')
    BY <1>1, <2>1, Step_fin DEF Finalized
  <2> QED BY <1>0, <1>1, <2>2, Step_mount
<1>2. ASSUME NEW m \in Mounters, finalize(m) PROVE IInv'
  <2>1. fin[m] = "garbage" /\ fin' = [fin EXCEPT ![m] = "done"] /\ mpc' = mpc
    BY <1>2 DEF finalize
  <2>2. Unstruck' /\ Finalized'
    BY <2>1 DEF Safe, TypeOK, Unstruck, Finalized
  <2> QED BY <1>2, <2>2, Step_finalize
<1>3. ASSUME NEW m \in Mounters, Unmount(m) PROVE IInv'
  <2>1. fin' = fin /\ mpc' = [mpc EXCEPT ![m] = "unmounted"]
    BY <1>3 DEF Unmount, MountGoes
  <2>2. Unstruck' /\ (Finalized => Finalized')
    BY <2>1 DEF Safe, TypeOK, Unstruck, Finalized
  <2> QED BY <1>3, <2>2, Step_Unmount
<1>4. ASSUME NEW x \in Cloners,
             \/ \E m \in Mounters : CloneMultiple(x, m)
             \/ CloneFuseFD(x) \/ ioctlClone(x) \/ CloseAll(x) \/ closeClone(x)
      PROVE  IInv'
  <2>1. fin' = fin /\ mpc' = mpc
    BY <1>4 DEF CloneMultiple, CloneFuseFD, ioctlClone, CloseAll, closeClone,
                mountVars
  <2>2. Unstruck' /\ (Finalized => Finalized')
    BY <2>1 DEF Unstruck, Finalized
  <2> QED BY <1>0, <1>4, <2>2, Step_clone
<1>5. CASE OtherFile
  <2>1. fin' = fin /\ mpc' = mpc
    BY <1>5 DEF OtherFile, mountVars
  <2>2. Unstruck' /\ (Finalized => Finalized')
    BY <2>1 DEF Unstruck, Finalized
  <2> QED BY <1>0, <1>5, <2>2, Step_OtherFile
<1>6. CASE UNCHANGED vars
  <2>1. /\ \A m \in Mounters : MountSame(m)
        /\ \A x \in Cloners : CloneSame(x)
        /\ tab' = tab /\ stray' = stray /\ fin' = fin /\ mpc' = mpc
    BY <1>6 DEF vars, mountVars, cloneVars, MountSame, CloneSame
  <2>2. TypeOK'
    BY <1>6 DEF Safe, TypeOK, vars, mountVars, cloneVars
  <2>3. Safe' /\ (Right => Right')
    BY <2>1, <2>2, Kept, IdleSafe, IdleRight
  <2> QED BY <2>1, <2>3 DEF Unstruck, Finalized
<1> QED BY <1>1, <1>2, <1>3, <1>4, <1>5, <1>6 DEF Next

(* At first nothing is open.                                               *)
LEMMA InitIInv == Init => IInv
<1> SUFFICES ASSUME Init PROVE IInv
  OBVIOUS
<1>1. Free \in Files /\ None \in [a : Fds \cup {NoFd}, b : Fds \cup {NoFd}]
  BY DEF Free, File, Files, None
<1>2. <<>> \in Seq(Fds) /\ Len(<<>>) = 0
  OBVIOUS
<1>3. TypeOK
  <2>1. [of |-> Nobody, fd |-> NoFd] \in [of : Mounters \cup {Nobody},
                                          fd : Fds \cup {NoFd}]
    OBVIOUS
  <2>2. /\ fds \in [Cloners -> Seq(Fds)]
        /\ \A x \in Cloners : Len(fds[x]) <= MaxClones
    BY <1>2, BoundsAssumption DEF Init
  <2>3. tab \in [Fds -> Files] /\ stray \in BOOLEAN
    BY <1>1, Zenon DEF Init
  <2> QED BY <1>1, <2>1, <2>2, <2>3 DEF Init, TypeOK
<1>4. \A n \in Fds : FileOK(n)
  BY DEF Init, FileOK, Free, File
<1>5. \A m \in Mounters : MountOK(m) /\ MountHas(m)
  BY DEF Init, MountOK, MountHas, PairPcs, BothPcs
<1>6. ASSUME NEW x \in Cloners PROVE CloneOK(x) /\ MasterOK(x) /\ CloneHas(x)
  <2>1. fds[x] = <<>> /\ cpc[x] = "start"
    BY DEF Init
  <2>2. Range(fds[x]) = {} /\ IsInjective(fds[x])
    BY <1>2, <2>1, Members, Zenon
  <2> QED BY <2>1, <2>2 DEF CloneOK, MasterOK, CloneHas
<1>7. Unstruck /\ ~stray
  BY DEF Init, Unstruck
<1> QED BY <1>3, <1>4, <1>5, <1>6, <1>7 DEF IInv, Safe, Right

-----------------------------------------------------------------------------
(* The invariant of the descriptors holds in every reachable state.        *)
THEOREM Invariant == Spec => []IInv
BY InitIInv, Inductive, PTL DEF Spec

(* However many calls of Mount and CloneMultiple there are and wherever    *)
(* they fail, an open socket, device or clone is one whose number some     *)
(* call or its caller still has (the error paths of src/mount.go and       *)
(* src/sharing/clone.go).                                                  *)
THEOREM NothingLeaks == Spec => []NoLeak
<1>1. IInv => NoLeak
  <2> SUFFICES ASSUME IInv, NEW n \in Fds
               PROVE  \/ tab[n].kind \in {"free", "other"}
                      \/ \E m \in Mounters :
                           n \in {pair[m].a, pair[m].b, dev[m], sfd[m]}
                      \/ \E x \in Cloners : n = fd[x] \/ n \in Range(fds[x])
    BY DEF NoLeak
  <2>1. FileOK(n)
        /\ tab[n].kind \in {"free", "sockA", "sockB", "fuse", "clone",
                                        "other"}
    BY DEF IInv, Safe, TypeOK, Files
  <2> QED BY <2>1 DEF FileOK
<1> QED BY <1>1, Invariant, PTL

(* Until the finalizer of some os.File runs, every close(2) of the code    *)
(* closes the file it is meant for, whatever else opens and closes files.  *)
THEOREM ClosesOwnFiles == Spec => []ClosesOwn
<1>1. IInv => ClosesOwn
  BY DEF IInv, Right, ClosesOwn
<1> QED BY <1>1, Invariant, PTL

(* A clone that CloneMultiple holds serves the connection it was asked     *)
(* for, unless that Server was unmounted or a finalizer ran.               *)
THEOREM ClonesServe == Spec => []ClonesConnection
<1>1. IInv => ClonesConnection
  <2> SUFFICES ASSUME IInv, ~Finalized, NEW x \in Cloners,
                      NEW n \in Range(fds[x]),
                      mpc[master[x].of] # "unmounted"
               PROVE  tab[n] = File("clone", x, master[x].of)
    BY DEF ClonesConnection
  <2>1. tab[n].kind = "clone" /\ tab[n].by = x /\ tab[n].conn = master[x].of
    BY DEF IInv, Right, CloneHas
  <2>2. tab[n] \in Files
    BY OwnClones DEF IInv, Safe, TypeOK
  <2> QED BY <2>1, <2>2 DEF File, Files
<1> QED BY <1>1, Invariant, PTL

(* A Mount that succeeds returns the number of the device that it opened   *)
(* or received, unless a finalizer ran (mount, src/mount.go).              *)
THEOREM MountGivesDevice == Spec => ReturnsDevice
<1> DEFINE Returned ==
             \A m \in Mounters :
               sfd[m] # NoFd => tab[sfd[m]] = File("fuse", m, m) \/ Finalized
           Step ==
             \A m \in Mounters :
               mpc[m] # "returned" /\ mpc'[m] = "returned" /\ sfd'[m] # NoFd =>
                 tab'[sfd'[m]] = File("fuse", m, m) \/ Finalized'
<1>1. IInv => Returned
  BY DEF IInv, Right, MountHas
<1>2. Returned' => Step
  OBVIOUS
<1> QED BY <1>1, <1>2, Invariant, PTL DEF ReturnsDevice

=============================================================================
