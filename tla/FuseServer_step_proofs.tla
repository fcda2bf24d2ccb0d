---------------------- MODULE FuseServer_step_proofs -----------------------
(***************************************************************************)
(* Facts about the opcode tables and the service's answers; the steps of   *)
(* the kernel, of Unmount and Wait and of the handler goroutines preserve  *)
(* the invariant of FuseServerInv.                                         *)
(***************************************************************************)
EXTENDS FuseServerInv, TLAPS

(* A response that a handler has built, and its fields.                    *)
IsResponse(r, g, a) == r = [to |-> g, status |-> a]
Responds(r, g, a) == r.to = g /\ r.status = a

(* The fields are what the handler put there.                              *)
LEMMA ResponseFields ==
  ASSUME NEW g, NEW a, NEW r, IsResponse(r, g, a)
  PROVE  Responds(r, g, a)
BY DEF IsResponse, Responds

(* What the tables of Opcodes (isWriteOp, the handlers map) say of each    *)
(* other: no write operation has a handler, one-way operations all have    *)
(* one.                                                                    *)
LEMMA OpTables ==
  /\ WriteOps \cap HandledOps = {}
  /\ OneWayOps \subseteq HandledOps
  /\ QueryOps \subseteq
       HandledOps \ (OneWayOps \cup {"INIT", "DESTROY", "FLUSH"})
  /\ {"INIT", "DESTROY", "FLUSH", "INTERRUPT", "BATCH_FORGET"} \subseteq
       HandledOps
  /\ {"INIT", "DESTROY", "FLUSH"} \cap OneWayOps = {}
  /\ "none" \notin AllOps
  /\ WriteOps \subseteq AllOps /\ HandledOps \subseteq AllOps
BY DEF WriteOps, HandledOps, OneWayOps, ForgetOps, QueryOps, AllOps

(* Kinds of request: only INIT carries a version, and NoKind is no kind    *)
(* (the opcode switch of handleRequest sees nothing else).                 *)
LEMMA KindFacts ==
  /\ NoKind \notin AllKinds
  /\ \A k \in AllKinds : k.op \in AllOps /\ k.op # "none"
  /\ NoKind.op = "none"
  /\ \A k \in AllKinds : k.arg \in {"major", "minor"} => k.op = "INIT"
<1>1. "none" \notin AllOps /\ {"INIT", "BATCH_FORGET"} \subseteq AllOps
  BY DEF AllOps
<1> QED BY <1>1 DEF AllKinds, NoKind

(* The service speaks of the same opcodes as the server.                   *)
LEMMA SameTables ==
  /\ Service!WriteOps = WriteOps /\ Service!HandledOps = HandledOps
  /\ Service!ForgetOps = ForgetOps /\ Service!AllKinds = AllKinds
  /\ Service!NoKind = NoKind
BY DEF Service!WriteOps, Service!HandledOps, Service!ForgetOps,
       Service!AllKinds, Service!AllOps, AllOps, WriteOps, HandledOps,
       ForgetOps, AllKinds,
       Service!NoKind, NoKind

(* What handleRequest answers by itself is what the service allows,        *)
(* whatever the state of the call: EROFS, ENOSYS, FLUSH and the INIT       *)
(* versions.                                                               *)
LEMMA AnswerAlone ==
  ASSUME NEW k \in AllKinds, NEW r
  PROVE  /\ k.op \in WriteOps => Service!Answer(k, r) = "EROFS"
         /\ k.op \notin WriteOps \cup HandledOps =>
              Service!Answer(k, r) = "ENOSYS"
         /\ k.op = "FLUSH" => Service!Answer(k, r) = "OK"
         /\ k.op = "INIT" /\ k.arg = "major" => Service!Answer(k, r) = "VERSION"
         /\ k.op = "INIT" /\ k.arg = "minor" => Service!Answer(k, r) = "EPROTO"
BY OpTables, KindFacts, SameTables DEF Service!Answer, OneWayOps

(* For a request that is passed to the Filesystem, the service's answer is *)
(* OK, the error, or the empty success that toErrno makes of io.EOF.       *)
LEMMA AnswerCall ==
  ASSUME NEW k \in AllKinds, CallsFilesystem(k), k.op \notin OneWayOps
  PROVE  /\ Service!Answer(k, "ok") = "OK"
         /\ Service!Answer(k, "err") = "ERR"
         /\ Service!Answer(k, "eof") = "EMPTY"
BY OpTables, KindFacts, SameTables
DEF Service!Answer, OneWayOps, CallsFilesystem, Service!Told, ForgetOps

(* An INIT answered with OK is one whose fs.Init has succeeded             *)
(* (handleInit).                                                           *)
LEMMA AnswerInit ==
  ASSUME NEW k \in AllKinds, k.op = "INIT",
         NEW r \in {"no", "in", "ok", "err", "eof"}, Service!Answer(k, r) = "OK"
  PROVE  r = "ok"
BY OpTables, KindFacts, SameTables
DEF Service!Answer, OneWayOps, Service!Told, ForgetOps

(* Names are distinct, and the groups of variables are expanded throughout.*)
USE NamesAssumption
USE DEF Gor, kernelVars, procVars, serveVars, handlerVars, stopVars, flagVars

(* The kernel's view of requests depends on these variables only.          *)
LEMMA KernelFrame ==
  ASSUME KernelView, UNCHANGED <<kst, hdr, ans, live, hpc>>
  PROVE  KernelView'
BY DEF KernelView, RequestOK

(* A handler's view depends on its own variables, writeMu and c.fd only.   *)
LEMMA HandlerFrame ==
  ASSUME HandlerView, UNCHANGED <<hdr, fsr, hpc, hres, hfd, writeMu, cfd>>
  PROVE  HandlerView'
BY DEF HandlerView, HandlerOK

(* Unmount's progress, ctx and the descriptor decide StopView.              *)
LEMMA StopFrame ==
  ASSUME StopView, UNCHANGED <<upc, ctxDone, tab, cfd>>
  PROVE  StopView'
BY DEF StopView, Closing

(* The order of INIT depends on the kernel's queue and fs.Init only.        *)
LEMMA InitFrame ==
  ASSUME InitView, UNCHANGED <<kst, hdr, kinit, fsr>>
  PROVE  InitView'
BY DEF InitView, Outstanding

(* Replies stay right while no request, answer or call result changes.     *)
LEMMA RepliesFrame ==
  ASSUME ReplyIntegrity, NoStrayReply, UNCHANGED <<hdr, ans, fsr, stray>>
  PROVE  ReplyIntegrity' /\ NoStrayReply'
BY DEF ReplyIntegrity, NoStrayReply

(* No reply is lost while no request, handler or Unmount moves.             *)
LEMMA LostFrame ==
  ASSUME NoLostReply, UNCHANGED <<kst, hpc, upc>>
  PROVE  NoLostReply'
BY DEF NoLostReply

(* s.wg counts the goroutines as long as neither changes.                  *)
LEMMA WgFrame ==
  ASSUME WgCount, UNCHANGED <<wg, hpc>>
  PROVE  WgCount'
BY DEF WgCount, Busy

(* When one handler goroutine moves on, the kernel's view holds on, unless  *)
(* the handler leaves the end of its work.                                 *)
LEMMA KernelMove ==
  ASSUME KernelView, TypeOK, NEW g \in Gor, NEW pc,
         hpc[g] # "none", hpc' = [hpc EXCEPT ![g] = pc],
         \/ hpc[g] \notin {"release", "done", "end"}
         \/ pc \in {"release", "done", "end"},
         UNCHANGED <<kst, hdr, ans, live>>
  PROVE  KernelView'
<1>1. \A u \in Reqs : hpc'[u] = IF u = g THEN pc ELSE hpc[u]
  BY DEF TypeOK, GoroutineType
<1>2. ASSUME NEW u \in Reqs
      PROVE  RequestOK(u)'
  <2>1. RequestOK(u)
    BY DEF KernelView
  <2> QED BY <1>1, <2>1 DEF RequestOK
<1> QED BY <1>2 DEF KernelView

(* A goroutine that has started does not touch the request Serve has read. *)
LEMMA GotMove ==
  ASSUME GotIsNew, JunkView, TypeOK, NEW g \in Gor, NEW pc,
         hpc[g] # "none", hpc' = [hpc EXCEPT ![g] = pc],
         UNCHANGED <<spc, content, sbuf, hdr, kst, tab>>
  PROVE  GotIsNew' /\ JunkView'
<1>1. \A h \in Gor : hpc'[h] = IF h = g THEN pc ELSE hpc[h]
  BY DEF TypeOK, GoroutineType
<1>2. GotIsNew'
  BY <1>1 DEF GotIsNew
<1>3. JunkView'
  BY <1>1 DEF JunkView
<1> QED BY <1>2, <1>3

(* A goroutine that was running and still is leaves the count of s.wg.     *)
LEMMA WgMove ==
  ASSUME WgCount, TypeOK, NEW g \in Gor, NEW pc,
         hpc[g] \notin {"none", "end"}, pc \notin {"none", "end"},
         hpc' = [hpc EXCEPT ![g] = pc], wg' = wg
  PROVE  WgCount'
<1>1. \A h \in Gor : hpc'[h] = IF h = g THEN pc ELSE hpc[h]
  BY DEF TypeOK, GoroutineType
<1>2. Busy' = Busy
  BY <1>1 DEF Busy
<1> QED BY <1>2 DEF WgCount

(* A goroutine loses no reply before it has come to its release.           *)
LEMMA LostMove ==
  ASSUME NoLostReply, TypeOK, NEW g \in Gor, NEW pc,
         hpc' = [hpc EXCEPT ![g] = pc],
         \/ pc \notin {"release", "done", "end"}
         \/ hpc[g] \in {"release", "done", "end"},
         UNCHANGED <<kst, upc>>
  PROVE  NoLostReply'
<1>1. \A u \in Reqs : hpc'[u] = IF u = g THEN pc ELSE hpc[u]
  BY DEF TypeOK, GoroutineType
<1> QED BY <1>1 DEF NoLostReply

(* release and wg.Done: the last steps of a handler keep HandlerView.      *)
LEMMA HandlerEnds ==
  ASSUME HandlerView, TypeOK, NEW g \in Gor,
         hpc[g] \in {"release", "done"},
         \/ hpc' = [hpc EXCEPT ![g] = "done"]
         \/ hpc' = [hpc EXCEPT ![g] = "end"],
         UNCHANGED <<hdr, fsr, hres, hfd, writeMu, cfd>>
  PROVE  HandlerView'
<1>1. /\ hpc'[g] \in {"done", "end"}
      /\ \A h \in Gor : h # g => hpc'[h] = hpc[h]
  BY DEF TypeOK, GoroutineType
<1>2. ASSUME NEW h \in Gor
      PROVE  HandlerOK(h)'
  <2>1. HandlerOK(h)
    BY DEF HandlerView
  <2>2. CASE h = g
    BY <1>1, <2>1, <2>2 DEF HandlerOK
  <2>3. CASE h # g
    BY <1>1, <2>1, <2>3 DEF HandlerOK
  <2> QED BY <2>2, <2>3
<1> QED BY <1>2 DEF HandlerView

(* Steps that leave requests, buffers and goroutines alone.                *)
LEMMA Frame ==
  ASSUME IInv,
         UNCHANGED <<kst, hdr, ans, kinit, live, stray, fsr, wg, pool, content,
                     sbuf, spc, hpc, hbuf>>
  PROVE  /\ Exclusive' /\ ServeOwns' /\ HandlerOwns'
         /\ GotIsNew' /\ KernelView'
         /\ InitView' /\ WgCount' /\ ReplyIntegrity' /\ NoStrayReply'
<1>1. Exclusive' /\ ServeOwns' /\ HandlerOwns' /\ GotIsNew'
  BY DEF IInv, Exclusive, ServeOwns, HandlerOwns, GotIsNew
<1>2. KernelView' /\ InitView'
  BY KernelFrame, InitFrame DEF IInv
<1>3. WgCount' /\ ReplyIntegrity' /\ NoStrayReply'
  BY WgFrame, RepliesFrame DEF IInv
<1> QED BY <1>1, <1>2, <1>3

(* Processes that open or close files of the file system (external).       *)
LEMMA Step_UsersChange ==
  ASSUME IInv, UsersChange
  PROVE  IInv'
<1>1. TypeOK'
  <2>1. KernelType'
    BY DEF IInv, UsersChange, TypeOK, KernelType
  <2>2. ProcessType'
    BY DEF IInv, UsersChange, TypeOK, ProcessType
  <2>3. ServerType'
    BY DEF IInv, UsersChange, TypeOK, ServerType
  <2>4. GoroutineType'
    BY DEF IInv, UsersChange, TypeOK, GoroutineType
  <2> QED BY <2>1, <2>2, <2>3, <2>4 DEF TypeOK
<1>2. HandlerView' /\ StopView' /\ NoLostReply'
  BY HandlerFrame, StopFrame, LostFrame DEF IInv, UsersChange
<1>3. JunkView'
  BY DEF IInv, UsersChange, JunkView
<1> QED BY <1>1, <1>2, <1>3, Frame DEF IInv, UsersChange

(* An unmount from outside the server (external).                          *)
LEMMA Step_AdminUmount ==
  ASSUME IInv, AdminUmount
  PROVE  IInv'
<1>1. TypeOK'
  <2>1. KernelType'
    BY Zenon DEF IInv, AdminUmount, TypeOK, KernelType
  <2>2. ProcessType'
    BY DEF IInv, AdminUmount, TypeOK, ProcessType
  <2>3. ServerType'
    BY DEF IInv, AdminUmount, TypeOK, ServerType
  <2>4. GoroutineType'
    BY DEF IInv, AdminUmount, TypeOK, GoroutineType
  <2> QED BY <2>1, <2>2, <2>3, <2>4 DEF TypeOK
<1>2. HandlerView' /\ StopView' /\ JunkView' /\ NoLostReply'
  BY DEF IInv, AdminUmount, HandlerView, HandlerOK, StopView, JunkView,
         NoLostReply, Closing
<1> QED BY <1>1, <1>2, Frame DEF IInv, AdminUmount

(* The descriptor number taken or freed by the rest of the process         *)
(* (external).                                                             *)
LEMMA Step_OtherFile ==
  ASSUME IInv, OtherFile
  PROVE  IInv'
<1>1. TypeOK'
  <2>1. KernelType'
    BY DEF IInv, OtherFile, TypeOK, KernelType
  <2>2. ProcessType'
    BY DEF IInv, OtherFile, TypeOK, ProcessType
  <2>3. ServerType'
    BY DEF IInv, OtherFile, TypeOK, ServerType
  <2>4. GoroutineType'
    BY DEF IInv, OtherFile, TypeOK, GoroutineType
  <2> QED BY <2>1, <2>2, <2>3, <2>4 DEF TypeOK
<1>2. HandlerView' /\ StopView' /\ JunkView' /\ NoLostReply'
  BY DEF IInv, OtherFile, HandlerView, HandlerOK, StopView, JunkView,
         NoLostReply, Closing, TypeOK, GoroutineType
<1> QED BY <1>1, <1>2, Frame DEF IInv, OtherFile

(* Unmount's call of s.cancel().                                           *)
LEMMA Step_UnmountCancel ==
  ASSUME IInv, NEW k \in Unmounters, UnmountCancel(k)
  PROVE  IInv'
<1>1. TypeOK'
  <2>1. KernelType'
    BY DEF IInv, UnmountCancel, TypeOK, KernelType
  <2>2. ProcessType'
    BY DEF IInv, UnmountCancel, TypeOK, ProcessType
  <2>3. ServerType'
    BY DEF IInv, UnmountCancel, TypeOK, ServerType
  <2>4. GoroutineType'
    BY DEF IInv, UnmountCancel, TypeOK, GoroutineType
  <2> QED BY <2>1, <2>2, <2>3, <2>4 DEF TypeOK
<1>2. upc[k] = "none" /\ upc' = [upc EXCEPT ![k] = "umount"]
  BY DEF UnmountCancel
<1>3. HandlerView'
  BY HandlerFrame DEF IInv, UnmountCancel
<1>4. JunkView'
  BY DEF IInv, UnmountCancel, JunkView
<1>5. \A j \in Unmounters : Closing(j) => Closing(j)'
  BY <1>2 DEF IInv, TypeOK, GoroutineType, Closing
<1>6. StopView'
  <2>1. ctxDone' /\ tab' = tab /\ cfd' = cfd
    BY DEF UnmountCancel
  <2> QED BY <1>5, <2>1 DEF IInv, StopView
<1>7. NoLostReply'
  <2>1. kst' = kst /\ hpc' = hpc
    BY DEF UnmountCancel
  <2> QED BY <1>5, <2>1 DEF IInv, NoLostReply, Closing
<1> QED BY <1>1, <1>3, <1>4, <1>6, <1>7, Frame DEF IInv, UnmountCancel

(* Unmount's detaching of the mount point, successful or not.              *)
LEMMA Step_unmount ==
  ASSUME IInv, NEW k \in Unmounters, unmount(k)
  PROVE  IInv'
<1>1. TypeOK'
  <2>1. KernelType'
    BY Zenon DEF IInv, unmount, TypeOK, KernelType
  <2>2. ProcessType'
    BY DEF IInv, unmount, TypeOK, ProcessType
  <2>3. ServerType'
    BY DEF IInv, unmount, TypeOK, ServerType
  <2>4. GoroutineType'
    BY Zenon DEF IInv, unmount, TypeOK, GoroutineType
  <2> QED BY <2>1, <2>2, <2>3, <2>4 DEF TypeOK
<1>2. upc[k] = "umount" /\ upc' = [upc EXCEPT ![k] = "close"]
  BY Zenon DEF unmount
<1>3. HandlerView'
  BY HandlerFrame DEF IInv, unmount
<1>4. JunkView'
  BY DEF IInv, unmount, JunkView
<1>5. \A j \in Unmounters : Closing(j) => Closing(j)'
  BY <1>2 DEF IInv, TypeOK, GoroutineType, Closing
<1>6. StopView'
  <2>1. ctxDone' = ctxDone /\ tab' = tab /\ cfd' = cfd /\ ctxDone
    BY <1>2 DEF IInv, StopView, unmount
  <2> QED BY <1>5, <2>1 DEF IInv, StopView
<1>7. NoLostReply'
  <2>1. kst' = kst /\ hpc' = hpc
    BY DEF unmount
  <2> QED BY <1>5, <2>1 DEF IInv, NoLostReply, Closing
<1> QED BY <1>1, <1>3, <1>4, <1>6, <1>7, Frame DEF IInv, unmount

(* connection.close up to its system call: from here on the number is      *)
(* dead.                                                                   *)
LEMMA Step_close ==
  ASSUME IInv, NEW k \in Unmounters, close(k)
  PROVE  IInv'
<1>1. TypeOK'
  <2>1. KernelType'
    BY DEF IInv, close, TypeOK, KernelType
  <2>2. ProcessType'
    BY DEF IInv, close, TypeOK, ProcessType
  <2>3. ServerType'
    BY DEF IInv, close, TypeOK, ServerType
  <2>4. GoroutineType'
    BY DEF IInv, close, TypeOK, GoroutineType
  <2> QED BY <2>1, <2>2, <2>3, <2>4 DEF TypeOK
<1>2. upc[k] = "close" /\ upc' = [upc EXCEPT ![k] = IF cfd THEN "clear"
                                                         ELSE "returned"]
  BY DEF close
<1>3. HandlerView'
  BY HandlerFrame DEF IInv, close
<1>4. JunkView'
  <2>1. tab # "fuse" => tab' # "fuse"
    BY DEF close
  <2> QED BY <2>1 DEF IInv, close, JunkView
<1>5. \A j \in Unmounters : Closing(j) => Closing(j)'
  BY <1>2 DEF IInv, TypeOK, GoroutineType, Closing
<1>6. StopView'
  <2>1. ctxDone' = ctxDone /\ ctxDone
    BY <1>2 DEF IInv, StopView, close
  <2>2. Closing(k)'
    BY <1>2 DEF IInv, TypeOK, GoroutineType, Closing
  <2> QED BY <2>1, <2>2 DEF StopView
<1>7. NoLostReply'
  <2>1. kst' = kst /\ hpc' = hpc
    BY DEF close
  <2> QED BY <1>5, <2>1 DEF IInv, NoLostReply, Closing
<1> QED BY <1>1, <1>3, <1>4, <1>6, <1>7, Frame DEF IInv, close

(* connection.close setting c.fd to -1.                                    *)
LEMMA Step_closeClear ==
  ASSUME IInv, NEW k \in Unmounters, closeClear(k)
  PROVE  IInv'
<1>1. TypeOK'
  <2>1. KernelType'
    BY DEF IInv, closeClear, TypeOK, KernelType
  <2>2. ProcessType'
    BY DEF IInv, closeClear, TypeOK, ProcessType
  <2>3. ServerType'
    BY Zenon DEF IInv, closeClear, TypeOK, ServerType
  <2>4. GoroutineType'
    BY DEF IInv, closeClear, TypeOK, GoroutineType
  <2> QED BY <2>1, <2>2, <2>3, <2>4 DEF TypeOK
<1>2. upc[k] = "clear" /\ upc' = [upc EXCEPT ![k] = "returned"]
  BY DEF closeClear
<1>3. HandlerView'
  <2>1. /\ cfd' = FALSE
        /\ UNCHANGED <<hdr, fsr, hpc, hres, hfd, writeMu>>
    BY DEF closeClear
  <2> QED BY <2>1 DEF IInv, HandlerView, HandlerOK
<1>4. JunkView'
  BY DEF IInv, closeClear, JunkView
<1>5. \A j \in Unmounters : Closing(j) => Closing(j)'
  BY <1>2 DEF IInv, TypeOK, GoroutineType, Closing
<1>6. StopView'
  <2>1. ctxDone' = ctxDone /\ ctxDone
    BY <1>2 DEF IInv, StopView, closeClear
  <2>2. Closing(k)'
    BY <1>2 DEF IInv, TypeOK, GoroutineType, Closing
  <2> QED BY <2>1, <2>2 DEF StopView
<1>7. NoLostReply'
  <2>1. kst' = kst /\ hpc' = hpc
    BY DEF closeClear
  <2> QED BY <1>5, <2>1 DEF IInv, NoLostReply, Closing
<1> QED BY <1>1, <1>3, <1>4, <1>6, <1>7, Frame DEF IInv, closeClear

(* Wait, entered and left.                                                 *)
LEMMA Step_Wait ==
  ASSUME IInv, NEW w \in Waiters, Wait(w)
  PROVE  IInv'
<1>1. TypeOK'
  <2>1. KernelType'
    BY DEF IInv, Wait, TypeOK, KernelType
  <2>2. ProcessType'
    BY DEF IInv, Wait, TypeOK, ProcessType
  <2>3. ServerType'
    BY DEF IInv, Wait, TypeOK, ServerType
  <2>4. GoroutineType'
    BY DEF IInv, Wait, TypeOK, GoroutineType
  <2> QED BY <2>1, <2>2, <2>3, <2>4 DEF TypeOK
<1>2. HandlerView' /\ StopView' /\ NoLostReply'
  BY HandlerFrame, StopFrame, LostFrame DEF IInv, Wait
<1>3. JunkView'
  BY DEF IInv, Wait, JunkView
<1> QED BY <1>1, <1>2, <1>3, Frame DEF IInv, Wait

(* A new request in the kernel's queue: INIT first and alone (external).   *)
LEMMA Step_Submit ==
  ASSUME IInv, NEW u \in Reqs, NEW k \in Kinds, Submit(u, k)
  PROVE  IInv'
<1>1. TypeOK'
  <2>1. KernelType'
    BY KindsAssumption DEF IInv, Submit, TypeOK, KernelType, MaySend
  <2>2. ProcessType'
    BY DEF IInv, Submit, TypeOK, ProcessType, MaySend
  <2>3. ServerType'
    BY DEF IInv, Submit, TypeOK, ServerType, MaySend
  <2>4. GoroutineType'
    BY DEF IInv, Submit, TypeOK, GoroutineType, MaySend
  <2> QED BY <2>1, <2>2, <2>3, <2>4 DEF TypeOK
<1>2. Exclusive'
  BY DEF IInv, Submit, Exclusive
<1>3. ServeOwns' /\ HandlerOwns'
  BY DEF IInv, Submit, ServeOwns, HandlerOwns, Working
<1>4. GotIsNew' /\ JunkView'
  BY DEF IInv, Submit, GotIsNew, JunkView
<1>5. KernelView'
  <2>1. kst \in [Reqs -> {"unborn", "queued", "taken", "consumed", "answered",
                         "aborted"}]
        /\ hdr \in [Gor -> AllKinds \cup {NoKind}]
    BY DEF IInv, TypeOK, KernelType
  <2>2. /\ kst[u] = "unborn" /\ live
        /\ kst' = [kst EXCEPT ![u] = "queued"] /\ hdr' = [hdr EXCEPT ![u] = k]
        /\ ans' = ans /\ live' = live /\ hpc' = hpc
    BY DEF Submit
  <2>3. k # NoKind
    BY KindsAssumption, KindFacts
  <2> SUFFICES ASSUME NEW v \in Reqs PROVE RequestOK(v)'
    BY DEF KernelView
  <2>4. RequestOK(v)
    BY DEF IInv, KernelView
  <2>5. CASE v = u
    BY <2>1, <2>2, <2>3, <2>4, <2>5 DEF RequestOK
  <2>6. CASE v # u
    BY <2>1, <2>2, <2>4, <2>6 DEF RequestOK
  <2> QED BY <2>5, <2>6
<1>6. HandlerView'
  <2>1. hdr \in [Gor -> AllKinds \cup {NoKind}] /\ RequestOK(u)
    BY DEF IInv, TypeOK, KernelType, KernelView
  <2>2. /\ kst[u] = "unborn" /\ hdr' = [hdr EXCEPT ![u] = k]
        /\ hpc' = hpc /\ fsr' = fsr /\ hres' = hres /\ hfd' = hfd
        /\ writeMu' = writeMu /\ cfd' = cfd
    BY DEF Submit
  <2> SUFFICES ASSUME NEW g \in Gor PROVE HandlerOK(g)'
    BY DEF HandlerView
  <2>3. HandlerOK(g)
    BY DEF IInv, HandlerView
  <2>4. hpc[g] # "none" => hdr'[g] = hdr[g]
    BY <2>1, <2>2 DEF RequestOK
  <2>5. CASE hpc[g] = "none"
    BY <2>2, <2>3, <2>5, Zenon DEF HandlerOK
  <2>6. CASE hpc[g] # "none"
    BY <2>2, <2>3, <2>4, <2>6 DEF HandlerOK, CallsFilesystem
  <2> QED BY <2>5, <2>6
<1>7. StopView'
  BY StopFrame DEF IInv, Submit
<1>8. NoLostReply'
  <2>1. kst' = [kst EXCEPT ![u] = "queued"] /\ hpc' = hpc /\ upc' = upc
    BY DEF Submit
  <2>2. \A v \in Reqs : kst'[v] = "taken" => kst[v] = "taken"
    BY <2>1 DEF IInv, TypeOK, KernelType
  <2> QED BY <2>1, <2>2 DEF IInv, NoLostReply
<1>9. InitView'
  <2>1. /\ kst \in [Reqs -> {"unborn", "queued", "taken", "consumed",
                            "answered", "aborted"}]
        /\ hdr \in [Gor -> AllKinds \cup {NoKind}]
        /\ InitView /\ KernelView
    BY DEF IInv, TypeOK, KernelType
  <2>2. /\ kst[u] = "unborn" /\ MaySend(k)
        /\ kst' = [kst EXCEPT ![u] = "queued"] /\ hdr' = [hdr EXCEPT ![u] = k]
        /\ kinit' = (IF k.op = "INIT" THEN "sent" ELSE kinit) /\ fsr' = fsr
    BY DEF Submit
  <2>3. hdr[u].op = "none" /\ k.op # "none"
    BY <2>1, <2>2, KindsAssumption, KindFacts DEF KernelView, RequestOK
  <2>4. \A v \in Reqs : v # u => hdr'[v] = hdr[v] /\ kst'[v] = kst[v]
    BY <2>1, <2>2
  <2>5. hdr'[u] = k /\ kst'[u] = "queued"
    BY <2>1, <2>2
  <2>6. kinit # "ok" => kinit \in {"none", "version"} /\ k.op = "INIT"
    BY <2>2 DEF MaySend
  <2>7. k.op = "INIT" => \A v \in Reqs : hdr[v].op = "INIT" => ~Outstanding(v)
    BY <2>1, <2>2 DEF MaySend, InitView
  <2>8. \A v \in Reqs : kinit' # "ok" => hdr'[v].op \in {"INIT", "none"}
    BY <2>1, <2>2, <2>4, <2>5, <2>6 DEF InitView, MaySend
  <2>9. ASSUME NEW v \in Reqs, NEW w \in Reqs,
               hdr'[v].op = "INIT", Outstanding(v)'
        PROVE  /\ kinit' = "sent"
               /\ hdr'[w].op = "INIT" /\ Outstanding(w)' => v = w
    <3>1. CASE k.op = "INIT"
      BY <2>2, <2>4, <2>5, <2>7, <2>9, <3>1 DEF Outstanding
    <3>2. CASE k.op # "INIT"
      BY <2>1, <2>2, <2>4, <2>5, <2>9, <3>2 DEF Outstanding, InitView
    <3> QED BY <3>1, <3>2
  <2>10. kinit' = "ok" => \E v \in Reqs : hdr'[v].op = "INIT" /\ fsr'[v] = "ok"
    BY <2>1, <2>2, <2>3, <2>4 DEF InitView
  <2> QED BY <2>8, <2>9, <2>10, Zenon DEF InitView
<1>10. WgCount'
  BY WgFrame DEF IInv, Submit
<1>11. ReplyIntegrity' /\ NoStrayReply'
  BY DEF IInv, Submit, ReplyIntegrity, NoStrayReply, KernelView, RequestOK,
         TypeOK, KernelType, ProcessType, GoroutineType, MaySend
<1> QED BY <1>1, <1>2, <1>3, <1>4, <1>5, <1>6, <1>7, <1>8, <1>9, <1>10, <1>11
       DEF IInv

(* The end of the connection, which aborts what is outstanding (external). *)
LEMMA Step_ConnectionEnds ==
  ASSUME IInv, ConnectionEnds
  PROVE  IInv'
<1>1. TypeOK'
  <2>1. KernelType'
    BY Zenon DEF IInv, ConnectionEnds, TypeOK, KernelType, Outstanding
  <2>2. ProcessType'
    BY DEF IInv, ConnectionEnds, TypeOK, ProcessType, Outstanding
  <2>3. ServerType'
    BY DEF IInv, ConnectionEnds, TypeOK, ServerType, Outstanding
  <2>4. GoroutineType'
    BY DEF IInv, ConnectionEnds, TypeOK, GoroutineType, Outstanding
  <2> QED BY <2>1, <2>2, <2>3, <2>4 DEF TypeOK
<1>2. Exclusive'
  BY Zenon DEF IInv, ConnectionEnds, Exclusive
<1>3. ServeOwns' /\ HandlerOwns'
  BY DEF IInv, ConnectionEnds, ServeOwns, HandlerOwns, Working
<1>4. GotIsNew' /\ JunkView'
  BY DEF IInv, ConnectionEnds, GotIsNew, JunkView
<1>5. KernelView'
  <2> SUFFICES ASSUME NEW u \in Reqs PROVE RequestOK(u)'
    BY DEF KernelView
  <2>1. kst'[u] = IF Outstanding(u) THEN "aborted" ELSE kst[u]
    BY Zenon DEF ConnectionEnds
  <2> QED BY <2>1 DEF IInv, ConnectionEnds, KernelView, RequestOK, Outstanding
<1>6. HandlerView'
  BY HandlerFrame, Zenon DEF IInv, ConnectionEnds
<1>7. StopView'
  BY StopFrame DEF IInv, ConnectionEnds
<1>8. NoLostReply'
  <2>1. /\ hpc' = hpc /\ upc' = upc
        /\ \A v \in Reqs : kst'[v] = "taken" => kst[v] = "taken"
    BY Zenon DEF ConnectionEnds
  <2> QED BY <2>1 DEF IInv, NoLostReply
<1>9. InitView'
  <2>1. /\ hdr' = hdr /\ kinit' = kinit /\ fsr' = fsr
        /\ \A v \in Reqs : ~Outstanding(v)'
    BY Zenon DEF ConnectionEnds, Outstanding
  <2> QED BY <2>1 DEF IInv, InitView
<1>10. WgCount'
  BY WgFrame DEF IInv, ConnectionEnds
<1>11. ReplyIntegrity' /\ NoStrayReply'
  BY RepliesFrame DEF IInv, ConnectionEnds
<1> QED BY <1>1, <1>2, <1>3, <1>4, <1>5, <1>6, <1>7, <1>8, <1>9, <1>10, <1>11
       DEF IInv

-----------------------------------------------------------------------------
(* Steps of the handler goroutines *)

(* What the steps of a handler up to its reply have in common: handler g   *)
(* moves to pc, its request's Filesystem call to r, its response to res.   *)
HandlerMoves(g, pc, r, res) ==
  /\ hpc[g] \in {"dispatch", "fs"}
  /\ hpc' = [hpc EXCEPT ![g] = pc]
  /\ fsr' = [fsr EXCEPT ![g] = r]
  /\ hres' = [hres EXCEPT ![g] = res]
  /\ initialized' \in BOOLEAN /\ destroyed' \in BOOLEAN
  /\ UNCHANGED <<kernelVars, procVars, cfd, ctxDone, wg, writeMu, pool, content,
                 serveVars, hbuf, hfd, stopVars>>
  /\ \/ /\ pc = "fs" /\ r = "in" /\ res = hres[g]
        /\ CallsFilesystem(hdr[g])
     \/ /\ pc = "release" /\ r \in {"no", "ok"} /\ res = hres[g]
        /\ hdr[g].op \in OneWayOps
     \/ /\ pc = "send" /\ r \in {"no", "ok", "err", "eof"}
        /\ res = [to |-> g, status |-> Service!Answer(hdr[g], r)]
        /\ res.status \in Statuses
        /\ hdr[g].op \notin OneWayOps

(* A handler's steps up to its reply preserve the invariant.               *)
LEMMA Step_HandlerMoves ==
  ASSUME IInv, NEW g \in Gor, NEW pc, NEW r, NEW res,
         HandlerMoves(g, pc, r, res)
  PROVE  IInv'
<1>1. TypeOK'
  <2>1. KernelType'
    BY DEF IInv, HandlerMoves, TypeOK, KernelType
  <2>2. ProcessType'
    BY DEF IInv, HandlerMoves, TypeOK, ProcessType
  <2>3. ServerType'
    BY DEF IInv, HandlerMoves, TypeOK, ServerType
  <2>4. GoroutineType'
    <3>1. /\ hpc' = [hpc EXCEPT ![g] = pc] /\ hres' = [hres EXCEPT ![g] = res]
          /\ pc \in {"fs", "release", "send"}
          /\ UNCHANGED <<serveVars, hbuf, hfd, stopVars>>
      BY Zenon DEF HandlerMoves
    <3>2. GoroutineType
      BY DEF IInv, TypeOK
    <3>3. res = hres[g] \/ (res.status \in Statuses
                             /\ res = [to |-> g, status |-> res.status])
      BY DEF HandlerMoves
    <3>4. res \in [to : Gor \cup {Nobody}, status : Statuses]
      BY <3>2, <3>3 DEF GoroutineType
    <3> QED BY <3>1, <3>2, <3>4 DEF GoroutineType
  <2> QED BY <2>1, <2>2, <2>3, <2>4 DEF TypeOK
<1>2. Exclusive'
  BY DEF IInv, HandlerMoves, Exclusive
<1>3. ServeOwns' /\ HandlerOwns'
  <2>1. /\ hpc' = [hpc EXCEPT ![g] = pc] /\ content' = content
        /\ UNCHANGED <<serveVars, hbuf>>
        /\ hpc[g] \in {"dispatch", "fs"} /\ pc \in {"fs", "release", "send"}
    BY Zenon DEF HandlerMoves
  <2>2. \A h \in Gor : hpc'[h] = IF h = g THEN pc ELSE hpc[h]
    BY <2>1 DEF IInv, TypeOK, GoroutineType
  <2>3. ServeOwns'
    BY <2>1 DEF IInv, ServeOwns
  <2>4. HandlerOwns'
    BY <2>1, <2>2 DEF IInv, HandlerOwns, Working
  <2> QED BY <2>3, <2>4
<1>4. GotIsNew' /\ JunkView'
  BY GotMove, Zenon DEF IInv, HandlerMoves
<1>5. KernelView'
  BY KernelMove, Zenon DEF IInv, HandlerMoves
<1>6. HandlerView'
  <2>1. hpc[g] # "none" /\ hdr[g] # NoKind /\ writeMu # g
    BY DEF IInv, HandlerMoves, HandlerView, HandlerOK
  <2>2. HandlerOK(g)'
    <3>1. /\ hdr' = hdr /\ writeMu' = writeMu /\ hpc'[g] = pc
          /\ fsr'[g] = r /\ hres'[g] = res
      BY DEF IInv, HandlerMoves, TypeOK, ProcessType, GoroutineType
    <3>2. CASE pc = "fs" /\ r = "in" /\ CallsFilesystem(hdr[g])
      BY <2>1, <3>1, <3>2 DEF HandlerOK, CallsFilesystem
    <3>3. CASE pc = "release"
      BY <2>1, <3>1, <3>3 DEF HandlerOK
    <3>4. CASE /\ pc = "send" /\ hdr[g].op \notin OneWayOps
               /\ res = [to |-> g, status |-> Service!Answer(hdr[g], r)]
      <4>1. PICK a : a = Service!Answer(hdr'[g], fsr'[g])
        OBVIOUS
      <4>2. IsResponse(hres'[g], g, a)
        BY <3>1, <3>4, <4>1, Zenon DEF IsResponse
      <4>3. Responds(hres'[g], g, a)
        BY <4>2, ResponseFields, Zenon
      <4>4. /\ hres'[g].to = g
            /\ hres'[g].status = Service!Answer(hdr'[g], fsr'[g])
        BY <4>1, <4>3, Zenon DEF Responds
      <4> QED BY <2>1, <3>1, <3>4, <4>4 DEF HandlerOK
    <3> QED BY <3>2, <3>3, <3>4 DEF HandlerMoves
  <2>3. ASSUME NEW h \in Gor, h # g
        PROVE  HandlerOK(h)'
    <3>1. /\ hdr' = hdr /\ writeMu' = writeMu /\ hpc'[h] = hpc[h] /\ cfd' = cfd
          /\ fsr'[h] = fsr[h] /\ hres'[h] = hres[h] /\ hfd' = hfd
      BY <2>3 DEF IInv, HandlerMoves, TypeOK, ProcessType, GoroutineType
    <3> QED BY <3>1 DEF IInv, HandlerView, HandlerOK, CallsFilesystem
  <2> QED BY <2>2, <2>3 DEF HandlerView
<1>7. StopView'
  BY StopFrame DEF IInv, HandlerMoves
<1>8. NoLostReply'
  <2>1. \A u \in Reqs : kst[u] = "taken" /\ hpc'[u] # hpc[u] =>
                          hpc'[u] \notin {"release", "done", "end"}
    BY DEF IInv, HandlerMoves, KernelView, RequestOK, TypeOK, GoroutineType
  <2> QED BY <2>1 DEF IInv, HandlerMoves, NoLostReply
<1>9. InitView'
  <2>1. \A u \in Reqs : fsr[u] = "ok" => fsr'[u] = "ok"
    BY DEF IInv, HandlerMoves, HandlerView, HandlerOK, TypeOK, ProcessType
  <2> QED BY <2>1 DEF IInv, HandlerMoves, InitView, Outstanding
<1>10. WgCount'
  BY Zenon DEF IInv, HandlerMoves, WgCount, Busy, TypeOK, GoroutineType
<1>11. ReplyIntegrity' /\ NoStrayReply'
  BY DEF IInv, HandlerMoves, ReplyIntegrity, NoStrayReply, KernelView,
         RequestOK, TypeOK, KernelType, ProcessType, GoroutineType
<1> QED BY <1>1, <1>2, <1>3, <1>4, <1>5, <1>6, <1>7, <1>8, <1>9, <1>10, <1>11
       DEF IInv

(* writeResponse's Lock of writeMu: one handler at a time is writing.      *)
LEMMA Step_writeResponseLock ==
  ASSUME IInv, NEW g \in Gor, writeResponseLock(g)
  PROVE  IInv'
<1>1. TypeOK'
  <2>1. KernelType'
    BY DEF IInv, writeResponseLock, TypeOK, KernelType
  <2>2. ProcessType'
    BY DEF IInv, writeResponseLock, TypeOK, ProcessType
  <2>3. ServerType'
    BY DEF IInv, writeResponseLock, TypeOK, ServerType
  <2>4. GoroutineType'
    BY DEF IInv, writeResponseLock, TypeOK, GoroutineType, ServerType
  <2> QED BY <2>1, <2>2, <2>3, <2>4 DEF TypeOK
<1>2. Exclusive'
  BY DEF IInv, writeResponseLock, Exclusive
<1>3. ServeOwns' /\ HandlerOwns'
  <2>1. /\ hpc' = [hpc EXCEPT ![g] = "write"] /\ content' = content
        /\ UNCHANGED <<serveVars, hbuf>> /\ hpc[g] = "send"
    BY Zenon DEF writeResponseLock
  <2>2. \A h \in Gor : hpc'[h] = IF h = g THEN "write" ELSE hpc[h]
    BY <2>1 DEF IInv, TypeOK, GoroutineType
  <2>3. ServeOwns'
    BY <2>1 DEF IInv, ServeOwns
  <2>4. HandlerOwns'
    BY <2>1, <2>2 DEF IInv, HandlerOwns, Working
  <2> QED BY <2>3, <2>4
<1>4. GotIsNew' /\ JunkView'
  BY GotMove, Zenon DEF IInv, writeResponseLock
<1>5. KernelView'
  BY KernelMove, Zenon DEF IInv, writeResponseLock
<1>6. HandlerView'
  <2>1. /\ hpc[g] = "send" /\ writeMu = Nobody /\ writeMu' = g
        /\ UNCHANGED <<hdr, fsr, hres, cfd>>
    BY DEF writeResponseLock
  <2>2. /\ hpc'[g] = "write" /\ hfd'[g] = cfd
        /\ \A h \in Gor : h # g => hpc'[h] = hpc[h] /\ hfd'[h] = hfd[h]
    BY DEF writeResponseLock, IInv, TypeOK, GoroutineType
  <2>3. ASSUME NEW h \in Gor
        PROVE  HandlerOK(h)'
    <3>1. HandlerOK(h) /\ HandlerOK(g)
      BY DEF IInv, HandlerView
    <3>2. CASE h = g
      BY <2>1, <2>2, <3>1, <3>2 DEF HandlerOK
    <3>3. CASE h # g
      BY <2>1, <2>2, <3>1, <3>3 DEF HandlerOK
    <3> QED BY <3>2, <3>3
  <2> QED BY <2>3 DEF HandlerView
<1>7. StopView'
  BY StopFrame DEF IInv, writeResponseLock
<1>8. NoLostReply'
  BY LostMove, Zenon DEF IInv, writeResponseLock
<1>9. InitView'
  BY InitFrame DEF IInv, writeResponseLock
<1>10. WgCount'
  BY WgMove, Zenon DEF IInv, writeResponseLock
<1>11. ReplyIntegrity' /\ NoStrayReply'
  BY RepliesFrame DEF IInv, writeResponseLock
<1> QED BY <1>1, <1>2, <1>3, <1>4, <1>5, <1>6, <1>7, <1>8, <1>9, <1>10, <1>11
       DEF IInv

(* The deferred release: the handler's buffer, which nobody else has, is   *)
(* pooled.                                                                 *)
LEMMA Step_release ==
  ASSUME IInv, NEW g \in Gor, release(g)
  PROVE  IInv'
<1>1. TypeOK'
  <2>1. KernelType'
    BY DEF IInv, release, TypeOK, KernelType, put
  <2>2. ProcessType'
    BY DEF IInv, release, TypeOK, ProcessType, put
  <2>3. ServerType'
    BY DEF IInv, release, TypeOK, ServerType, HandlerOwns, Working, put
  <2>4. GoroutineType'
    BY DEF IInv, release, TypeOK, GoroutineType, put
  <2> QED BY <2>1, <2>2, <2>3, <2>4 DEF TypeOK
<1>2. Exclusive'
  BY DEF IInv, release, Exclusive, TypeOK, ServerType, GoroutineType, put
<1>3. ServeOwns' /\ HandlerOwns'
  BY DEF IInv, release, ServeOwns, HandlerOwns, Working, TypeOK, ServerType,
         GoroutineType, put
<1>4. GotIsNew' /\ JunkView'
  BY GotMove, Zenon DEF IInv, release
<1>5. KernelView'
  BY KernelMove, Zenon DEF IInv, release
<1>6. HandlerView'
  BY HandlerEnds, Zenon DEF IInv, release
<1>7. StopView'
  BY StopFrame DEF IInv, release
<1>8. NoLostReply'
  BY LostMove, Zenon DEF IInv, release
<1>9. InitView'
  BY InitFrame DEF IInv, release
<1>10. WgCount'
  BY WgMove, Zenon DEF IInv, release
<1>11. ReplyIntegrity' /\ NoStrayReply'
  BY RepliesFrame DEF IInv, release
<1> QED BY <1>1, <1>2, <1>3, <1>4, <1>5, <1>6, <1>7, <1>8, <1>9, <1>10, <1>11
       DEF IInv

(* The reply of handler g, when it gets through, goes to the request g     *)
(* itself, which the kernel has been waiting to see answered.              *)
LEMMA ReplyFacts ==
  ASSUME IInv, NEW g \in Gor, writeResponse(g)
  PROVE  /\ hpc[g] = "write" /\ writeMu = g /\ hdr[g] \in AllKinds
         /\ stray' = stray
         /\ \/ /\ UNCHANGED <<kst, ans, kinit>>
               /\ ~(hfd[g] /\ tab = "fuse" /\ live)
            \/ /\ g \in Reqs /\ kst[g] = "taken" /\ live
               /\ kst' = [kst EXCEPT ![g] = "answered"]
               /\ ans' = [ans EXCEPT ![g] = hres[g].status]
               /\ hres[g].status = Service!Answer(hdr[g], fsr[g])
               /\ hres[g].status \in Statuses
               /\ kinit' = IF hdr[g].op # "INIT" THEN kinit
                           ELSE IF hres[g].status = "OK" THEN "ok"
                           ELSE IF hres[g].status = "VERSION" THEN "version"
                           ELSE "failed"
<1>1. /\ hpc[g] = "write" /\ writeMu = g /\ hdr[g] \in AllKinds
      /\ hres[g].to = g /\ hres[g].status = Service!Answer(hdr[g], fsr[g])
      /\ hres[g].status \in Statuses /\ hdr[g].op \notin OneWayOps
  <2>1. hpc[g] = "write"
    BY DEF writeResponse
  <2>2. HandlerOK(g) /\ hdr[g] \in AllKinds \cup {NoKind}
        /\ hres[g].status \in Statuses
    BY DEF IInv, HandlerView, TypeOK, KernelType, GoroutineType
  <2> QED BY <2>1, <2>2, Zenon DEF HandlerOK
<1>2. CASE hfd[g] /\ tab = "fuse" /\ live
  <2>1. g \in Reqs
    BY <1>1, <1>2 DEF IInv, JunkView
  <2>2. kst[g] = "taken"
    BY <1>1, <1>2, <2>1 DEF IInv, KernelView, RequestOK, TypeOK, KernelType
  <2>3. KernelGetsReply(g, hres[g].status)
    BY <1>1, <1>2, Zenon DEF writeResponse
  <2> QED BY <1>1, <1>2, <2>1, <2>2, <2>3
          DEF KernelGetsReply, IInv, TypeOK, KernelType
<1>3. CASE ~(hfd[g] /\ tab = "fuse" /\ live)
  BY <1>1, <1>3 DEF writeResponse
<1> QED BY <1>2, <1>3, Zenon

(* The write of a reply: it reaches the kernel, or is lost after a close.  *)
LEMMA Step_writeResponse ==
  ASSUME IInv, NEW g \in Gor, writeResponse(g)
  PROVE  IInv'
<1>1. /\ hpc[g] = "write" /\ hpc' = [hpc EXCEPT ![g] = "release"]
      /\ hres' = [hres EXCEPT ![g] = NoRes] /\ hfd' = [hfd EXCEPT ![g] = TRUE]
      /\ writeMu = g /\ writeMu' = Nobody
      /\ foreign' \subseteq foreign \cup {"write"}
      /\ UNCHANGED <<hdr, live, mounted, users, tab, fsr, cfd, ctxDone,
                     flagVars, wg, pool, content, serveVars, hbuf, stopVars>>
  BY ReplyFacts, Zenon DEF writeResponse
<1>2. TypeOK'
  <2>1. KernelType'
    BY <1>1, ReplyFacts, Zenon DEF IInv, TypeOK, KernelType
  <2>2. ProcessType' /\ ServerType'
    BY <1>1 DEF IInv, TypeOK, ProcessType, ServerType
  <2>3. GoroutineType'
    BY <1>1 DEF IInv, TypeOK, GoroutineType, NoRes, Statuses
  <2> QED BY <2>1, <2>2, <2>3 DEF TypeOK
<1>3. Exclusive' /\ ServeOwns' /\ HandlerOwns'
  BY <1>1
  DEF IInv, Exclusive, ServeOwns, HandlerOwns, Working, TypeOK, GoroutineType
<1>4. GotIsNew' /\ JunkView'
  <2>1. \A u \in Reqs : kst[u] \notin {"unborn", "queued"} =>
                          kst'[u] \notin {"unborn", "queued"}
    BY ReplyFacts, Zenon DEF IInv, TypeOK, KernelType
  <2> QED BY <1>1, <2>1, Zenon
             DEF IInv, GotIsNew, JunkView, TypeOK, GoroutineType
<1>5. KernelView'
  <2>1. ASSUME NEW u \in Reqs, u # g
        PROVE  RequestOK(u)'
    <3>1. /\ kst'[u] = kst[u] /\ ans'[u] = ans[u] /\ hpc'[u] = hpc[u]
      BY <1>1, <2>1, ReplyFacts, Zenon
         DEF IInv, TypeOK, KernelType, GoroutineType
    <3> QED BY <1>1, <3>1, Zenon DEF IInv, KernelView, RequestOK
  <2>2. ASSUME g \in Reqs
        PROVE  RequestOK(g)'
    <3>1. hpc'[g] = "release" /\ hdr[g].op \notin OneWayOps /\ hdr[g] # NoKind
      BY <1>1, ReplyFacts, KindFacts, Zenon
      DEF IInv, HandlerView, HandlerOK, TypeOK, GoroutineType
    <3>2. CASE UNCHANGED <<kst, ans>>
      BY <1>1, <2>2, <3>1, <3>2, Zenon DEF IInv, KernelView, RequestOK
    <3>3. CASE kst'[g] = "answered" /\ ans'[g] # "none"
      BY <1>1, <3>1, <3>3, Zenon DEF RequestOK
    <3>4. "none" \notin Statuses
      BY DEF Statuses
    <3>5. CASE ~UNCHANGED <<kst, ans>>
      <4>1. /\ kst' = [kst EXCEPT ![g] = "answered"]
            /\ hres[g].status \in Statuses
            /\ ans' = [ans EXCEPT ![g] = hres[g].status]
        BY <3>5, ReplyFacts
      <4> QED BY <2>2, <3>3, <3>4, <4>1, Zenon DEF IInv, TypeOK, KernelType
    <3> QED BY <3>2, <3>5
  <2> QED BY <2>1, <2>2 DEF KernelView
<1>6. HandlerView'
  <2>1. ASSUME NEW h \in Gor
        PROVE  HandlerOK(h)'
    <3>1. CASE h = g
      <4>1. hpc'[g] = "release" /\ hpc[g] = "write"
        BY <1>1 DEF IInv, TypeOK, GoroutineType
      <4> QED BY <1>1, <3>1, <4>1 DEF IInv, HandlerView, HandlerOK
    <3>2. CASE h # g
      <4>1. /\ hpc'[h] = hpc[h] /\ hres'[h] = hres[h] /\ hfd'[h] = hfd[h]
            /\ writeMu # h /\ writeMu' # h
        BY <1>1, <3>2 DEF IInv, TypeOK, GoroutineType
      <4>2. HandlerOK(h)
        BY DEF IInv, HandlerView
      <4> QED BY <1>1, <4>1, <4>2, Zenon DEF HandlerOK
    <3> QED BY <3>1, <3>2
  <2> QED BY <2>1 DEF HandlerView
<1>7. StopView'
  BY <1>1 DEF IInv, StopView, Closing
<1>8. NoLostReply'
  <2>1. CASE hfd[g] /\ tab = "fuse" /\ live
    <3>1. g \in Reqs /\ kst' = [kst EXCEPT ![g] = "answered"]
      BY <2>1, ReplyFacts, Zenon
    <3>2. \A u \in Reqs : kst'[u] = "taken" => u # g /\ kst[u] = "taken"
      BY <3>1 DEF IInv, TypeOK, KernelType
    <3> QED BY <1>1, <3>2, Zenon DEF IInv, NoLostReply, TypeOK, GoroutineType
  <2>2. CASE ~hfd[g] \/ tab # "fuse"
    <3>1. \E k \in Unmounters : upc[k] \in {"clear", "returned"}
      BY <1>1, <2>2 DEF IInv, HandlerView, HandlerOK, StopView, Closing
    <3> QED BY <1>1, <3>1, Zenon DEF NoLostReply
  <2>3. CASE ~live
    BY <1>1, <2>3, ReplyFacts, Zenon
    DEF IInv, NoLostReply, KernelView, RequestOK, TypeOK, KernelType,
        GoroutineType
  <2> QED BY <2>1, <2>2, <2>3
<1>9. InitView'
  <2>1. CASE UNCHANGED <<kst, kinit>>
    BY <1>1, <2>1, Zenon DEF IInv, InitView, Outstanding
  <2>2. CASE hdr[g].op # "INIT"
    <3>1. kinit' = kinit
      BY <2>2, ReplyFacts, Zenon
    <3>2. \A u \in Reqs : Outstanding(u)' => Outstanding(u)
      BY ReplyFacts, Zenon DEF IInv, Outstanding, TypeOK, KernelType
    <3> QED BY <1>1, <3>1, <3>2, Zenon DEF IInv, InitView
  <2>3. CASE /\ hdr[g].op = "INIT" /\ g \in Reqs /\ kst[g] = "taken"
             /\ kst' = [kst EXCEPT ![g] = "answered"]
    <3>1. \A u \in Reqs : ~(hdr[u].op = "INIT" /\ Outstanding(u))'
      BY <1>1, <2>3, Zenon DEF IInv, InitView, Outstanding, TypeOK, KernelType
    <3>2. kinit # "ok"
      BY <2>3, Zenon DEF IInv, InitView, Outstanding
    <3>3. kinit' = "ok" => fsr[g] = "ok"
      BY <2>3, <3>2, ReplyFacts, AnswerInit, Zenon
         DEF IInv, TypeOK, ProcessType
    <3> QED BY <1>1, <2>3, <3>1, <3>2, <3>3, Zenon DEF IInv, InitView
  <2> QED BY <2>1, <2>2, <2>3, ReplyFacts, Zenon
<1>10. WgCount'
  <2>1. Busy' = Busy
    BY <1>1 DEF IInv, Busy, TypeOK, GoroutineType
  <2> QED BY <1>1, <2>1 DEF IInv, WgCount
<1>11. ReplyIntegrity' /\ NoStrayReply'
  BY <1>1, ReplyFacts, Zenon
  DEF IInv, ReplyIntegrity, NoStrayReply, TypeOK, KernelType
<1> QED BY <1>2, <1>3, <1>4, <1>5, <1>6, <1>7, <1>8, <1>9, <1>10, <1>11
        DEF IInv

(* What a handler sees in its buffer is its own request.                   *)
LEMMA OwnHeader ==
  ASSUME IInv, NEW g \in Gor, hpc[g] \in {"dispatch", "fs"}
  PROVE  /\ content[hbuf[g]] = g /\ header(g) = hdr[g] /\ hdr[g] \in AllKinds
         /\ fsr[g] = IF hpc[g] = "dispatch" THEN "no" ELSE "in"
         /\ hpc[g] = "fs" => CallsFilesystem(hdr[g])
         /\ fsr = [fsr EXCEPT ![g] = fsr[g]]
         /\ hres = [hres EXCEPT ![g] = hres[g]]
<1>1. content[hbuf[g]] = g
  BY DEF IInv, HandlerOwns, Working
<1>2. hdr[g] \in AllKinds /\ fsr[g] = IF hpc[g] = "dispatch" THEN "no" ELSE "in"
  <2>1. HandlerOK(g) /\ hdr[g] \in AllKinds \cup {NoKind}
    BY DEF IInv, HandlerView, TypeOK, KernelType
  <2> QED BY <2>1 DEF HandlerOK
<1>3. hpc[g] = "fs" => CallsFilesystem(hdr[g])
  BY DEF IInv, HandlerView, HandlerOK
<1>4. fsr = [fsr EXCEPT ![g] = fsr[g]] /\ hres = [hres EXCEPT ![g] = hres[g]]
  BY DEF IInv, TypeOK, ProcessType, GoroutineType
<1> QED BY <1>1, <1>2, <1>3, <1>4 DEF header

(* handleRequest answering without the Filesystem: one case for each of    *)
(* its early returns.                                                      *)
LEMMA Step_handleRequestAlone ==
  ASSUME IInv, NEW g \in Gor, handleRequestAlone(g)
  PROVE  IInv'
<1> DEFINE op == hdr[g].op
           arg == hdr[g].arg
<1>1. /\ hpc[g] = "dispatch" /\ content[hbuf[g]] = g /\ header(g) = hdr[g]
      /\ hdr[g] \in AllKinds /\ fsr[g] = "no"
      /\ fsr' = [fsr EXCEPT ![g] = "no"] /\ hres = [hres EXCEPT ![g] = hres[g]]
      /\ initialized' \in BOOLEAN /\ destroyed' \in BOOLEAN
      /\ UNCHANGED <<kernelVars, procVars, cfd, ctxDone, wg, writeMu, pool,
                     content, serveVars, hbuf, hfd, stopVars>>
  BY OwnHeader DEF handleRequestAlone, IInv, TypeOK, ServerType
<1>2. {"EROFS", "ENOSYS", "OK", "VERSION", "EPROTO"} \subseteq Statuses
  BY DEF Statuses
<1>3. ASSUME NEW st \in {"EROFS", "ENOSYS", "OK", "VERSION", "EPROTO"},
             Respond(g, st),
             op \notin OneWayOps, Service!Answer(hdr[g], "no") = st
      PROVE  IInv'
  <2>1. HandlerMoves(g, "send", "no", [to |-> g, status |-> st])
    BY <1>1, <1>2, <1>3 DEF HandlerMoves, Respond
  <2> QED BY <2>1, Step_HandlerMoves
<1>4. ASSUME NoReply(g), op \in OneWayOps
      PROVE  IInv'
  <2>1. HandlerMoves(g, "release", "no", hres[g])
    BY <1>1, <1>4 DEF HandlerMoves, NoReply
  <2> QED BY <2>1, Step_HandlerMoves
<1>5. CASE op \in WriteOps /\ sendError(g, "EROFS")
  BY <1>1, <1>3, <1>5, AnswerAlone, OpTables DEF sendError, OneWayOps
<1>6. CASE op \notin WriteOps \cup HandledOps /\ sendError(g, "ENOSYS")
  BY <1>1, <1>3, <1>6, AnswerAlone, OpTables DEF sendError, OneWayOps
<1>7. CASE op = "FLUSH" /\ Respond(g, "OK")
  BY <1>1, <1>3, <1>7, AnswerAlone, OpTables
<1>8. CASE op = "INTERRUPT" /\ NoReply(g)
  BY <1>4, <1>8 DEF OneWayOps
<1>9. CASE op = "INIT" /\ arg = "major" /\ Respond(g, "VERSION")
  BY <1>1, <1>3, <1>9, AnswerAlone, OpTables
<1>10. CASE op = "INIT" /\ arg = "minor" /\ sendError(g, "EPROTO")
  BY <1>1, <1>3, <1>10, AnswerAlone, OpTables DEF sendError, OneWayOps
<1>11. CASE op = "BATCH_FORGET" /\ arg = "short" /\ sendError(g, "ERR")
  BY <1>1, <1>4, <1>11 DEF sendError, OneWayOps, ForgetOps
<1> QED BY <1>1, <1>5, <1>6, <1>7, <1>8, <1>9, <1>10, <1>11
        DEF handleRequestAlone

(* handleRequest passing a request to the Filesystem.                      *)
LEMMA Step_handleRequestCall ==
  ASSUME IInv, NEW g \in Gor, handleRequestCall(g)
  PROVE  IInv'
<1>1. HandlerMoves(g, "fs", "in", hres[g])
  BY OwnHeader, Zenon
     DEF handleRequestCall, HandlerMoves, IInv, TypeOK, ServerType
<1> QED BY <1>1, Step_HandlerMoves

(* The handler after a call of the Filesystem that returned r.             *)
LEMMA AfterCall ==
  ASSUME IInv, NEW g \in Gor, NEW r \in {"ok", "err", "eof"},
         FilesystemReturns(g, r),
         initialized' \in BOOLEAN, destroyed' \in BOOLEAN,
         \/ hdr[g].op \in OneWayOps /\ NoReply(g) /\ r = "ok"
         \/ hdr[g].op \notin OneWayOps /\ r = "ok" /\ Respond(g, "OK")
         \/ hdr[g].op \notin OneWayOps /\ r # "ok" /\ Respond(g, toErrno(r))
  PROVE  IInv'
<1>1. /\ hpc[g] = "fs" /\ content[hbuf[g]] = g /\ hdr[g] \in AllKinds
      /\ CallsFilesystem(hdr[g]) /\ hres = [hres EXCEPT ![g] = hres[g]]
      /\ fsr' = [fsr EXCEPT ![g] = r]
  BY OwnHeader, Zenon DEF FilesystemReturns
<1>2. CASE hdr[g].op \in OneWayOps
  <2>1. HandlerMoves(g, "release", "ok", hres[g])
    BY <1>1, <1>2, Zenon DEF HandlerMoves, NoReply, FilesystemReturns
  <2> QED BY <2>1, Step_HandlerMoves, Zenon
<1>3. CASE hdr[g].op \notin OneWayOps
  <2> DEFINE st == IF r = "ok" THEN "OK" ELSE toErrno(r)
  <2>1. Service!Answer(hdr[g], r) = st
    BY <1>1, <1>3, AnswerCall DEF toErrno
  <2>2. st \in Statuses
    BY DEF toErrno, Statuses
  <2>3. Respond(g, st)
    BY <1>3
  <2>4. HandlerMoves(g, "send", r, [to |-> g, status |-> st])
    <3> HIDE DEF st
    <3> QED BY <1>1, <1>3, <2>1, <2>2, <2>3
            DEF HandlerMoves, Respond, FilesystemReturns
  <2> QED BY <2>4, Step_HandlerMoves, Zenon
<1> QED BY <1>2, <1>3, Zenon

(* The handlers after their Filesystem call, successful or not.            *)
LEMMA Step_results ==
  ASSUME IInv, NEW g \in Gor,
         \/ handleQueryResult(g) \/ handleForgetResult(g)
         \/ handleInitResult(g) \/ handleDestroyResult(g)
  PROVE  IInv'
<1>1. /\ hpc[g] = "fs" /\ header(g) = hdr[g]
      /\ initialized \in BOOLEAN /\ destroyed \in BOOLEAN
  BY OwnHeader DEF handleQueryResult, handleForgetResult, handleInitResult,
                   handleDestroyResult, IInv, TypeOK, ServerType
<1>2. CASE handleQueryResult(g)
  <2>1. hdr[g].op \notin OneWayOps /\ hdr[g].op \notin ForgetOps
    BY <1>1, <1>2, OpTables, Zenon DEF handleQueryResult, OneWayOps
  <2>2. UNCHANGED <<initialized, destroyed>>
    BY <1>2, Zenon DEF handleQueryResult
  <2>3. CASE FilesystemReturns(g, "ok") /\ Respond(g, "OK")
    BY <1>1, <2>1, <2>2, <2>3, AfterCall, Zenon
  <2>4. ASSUME NEW r \in Errors, FilesystemReturns(g, r),
               sendError(g, toErrno(r))
        PROVE  IInv'
    BY <1>1, <2>1, <2>2, <2>4, AfterCall, ErrorsAssumption DEF sendError
  <2> QED BY <1>2, <2>3, <2>4, Zenon DEF handleQueryResult
<1>3. CASE handleForgetResult(g)
  BY <1>1, <1>3, AfterCall DEF handleForgetResult, OneWayOps
<1>4. CASE handleInitResult(g)
  <2>1. hdr[g].op \notin OneWayOps /\ hdr[g].op \notin ForgetOps
    BY <1>1, <1>4, OpTables DEF handleInitResult, OneWayOps
  <2>2. initialized' \in BOOLEAN /\ destroyed' = destroyed
    BY <1>1, <1>4, Zenon DEF handleInitResult
  <2>3. CASE FilesystemReturns(g, "ok") /\ Respond(g, "OK")
    BY <1>1, <2>1, <2>2, <2>3, AfterCall, Zenon
  <2>4. ASSUME NEW r \in Errors, FilesystemReturns(g, r),
               sendError(g, toErrno(r))
        PROVE  IInv'
    BY <1>1, <2>1, <2>2, <2>4, AfterCall, ErrorsAssumption, Zenon DEF sendError
  <2> QED BY <1>4, <2>3, <2>4, Zenon DEF handleInitResult
<1>5. CASE handleDestroyResult(g)
  BY <1>1, <1>5, AfterCall, OpTables, Zenon DEF handleDestroyResult
<1> QED BY <1>2, <1>3, <1>4, <1>5

=============================================================================
