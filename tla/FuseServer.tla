----------------------------- MODULE FuseServer -----------------------------
(***************************************************************************)
(* The request loop of the library: Server.Serve reading requests from     *)
(* /dev/fuse into pooled buffers, one goroutine per request running        *)
(* handleRequest and writing the reply, and the calls Unmount and Wait     *)
(* that end it.  Sources: src/server.go, src/conn.go, src/buffer.go,       *)
(* src/handlers.go.                                                        *)
(*                                                                         *)
(* External to src/, and modelled from how src/ uses them: the kernel side *)
(* of the FUSE connection, the process's file descriptor table, the        *)
(* Filesystem implementation the library is given.                         *)
(*                                                                         *)
(* A request is named by its header's Unique field.  A buffer's content is *)
(* the name of the request whose bytes it holds: the library keeps         *)
(* pointers into the buffer, so a handler that looks at its header or body *)
(* sees whatever the buffer contains at that moment.                       *)
(***************************************************************************)
EXTENDS Opcodes, Naturals, FiniteSets

CONSTANTS
  Reqs,        \* requests the kernel may send
  Junk,        \* the "request" read from a file that is not /dev/fuse
  Bufs,        \* buffers the pool can hand out
  Kinds,       \* kinds of request the kernel sends: [op, arg] records
  JunkKinds,   \* what the bytes of another file can parse as
  Errors,      \* errors the Filesystem may return: io.EOF and the others
  Unmounters,  \* goroutines that call Unmount
  Waiters,     \* goroutines that call Wait
  ReuseFd,     \* may the process reopen the descriptor number once closed?
  Nobody

Gor == Reqs \cup {Junk}

ASSUME NamesAssumption ==
  /\ Junk \notin Reqs
  /\ Nobody \notin Gor /\ Nobody \notin Bufs
ASSUME KindsAssumption ==
  /\ Kinds \subseteq AllKinds \ {[op |-> "BATCH_FORGET", arg |-> "short"]}
  /\ JunkKinds \subseteq AllKinds
ASSUME ErrorsAssumption == Errors \subseteq {"err", "eof"}
ASSUME ReuseAssumption == ReuseFd \in BOOLEAN
ASSUME FiniteAssumption == IsFiniteSet(Reqs)

VARIABLES
  \* the kernel
  kst,         \* progress of each request in the kernel
  hdr,         \* what each request (or Junk) is
  ans,         \* the reply the kernel accepted for each request
  kinit,       \* progress of the INIT exchange
  live,        \* the FUSE connection has not been torn down
  mounted,     \* the file system is attached to the mount point
  users,       \* some process has a file or directory of it open
  stray,       \* a reply arrived that no outstanding request was waiting for
  \* the process
  tab,         \* what the descriptor number stands for: fuse, free or other
  foreign,     \* system calls made on another file by mistake
  fsr,         \* what the Filesystem knows of each request
  \* Server and connection
  cfd,         \* connection.fd is still the number (FALSE: it is -1)
  ctxDone,     \* s.ctx has been cancelled
  initialized, \* Server.initialized
  destroyed,   \* Server.destroyed
  wg,          \* Server.wg
  writeMu,     \* holder of connection.writeMu
  pool,        \* how many times each buffer is in the pool
  content,     \* the request whose bytes each buffer holds
  \* the goroutine in Serve
  spc, sbuf, sfd, sres,
  \* the handler goroutines
  hpc, hbuf, hres, hfd,
  \* the goroutines in Unmount and Wait
  upc, uerr, wpc

kernelVars == <<kst, hdr, ans, kinit, live, mounted, users, stray>>
procVars   == <<tab, foreign>>
serveVars  == <<spc, sbuf, sfd, sres>>
handlerVars == <<hpc, hbuf, hres, hfd>>
stopVars   == <<upc, uerr, wpc>>
flagVars   == <<initialized, destroyed>>
vars == <<kernelVars, procVars, fsr, cfd, ctxDone, flagVars, wg, writeMu,
          pool, content, serveVars, handlerVars, stopVars>>

NoRes == [to |-> Nobody, status |-> "OK"]

(* Requests the kernel forgets as soon as they have been read.             *)
OneWayOps == ForgetOps \cup {"INTERRUPT"}

(* Requests the kernel sends on its own account, with no process waiting.  *)
AsyncOps == OneWayOps \cup {"INIT", "DESTROY", "RELEASE", "RELEASEDIR"}

KernelType ==
  /\ kst \in [Reqs -> {"unborn", "queued", "taken", "consumed", "answered",
                       "aborted"}]
  /\ hdr \in [Gor -> AllKinds \cup {NoKind}]
  /\ ans \in [Reqs -> Statuses \cup {"none"}]
  /\ kinit \in {"none", "sent", "ok", "version", "failed"}
  /\ live \in BOOLEAN /\ mounted \in BOOLEAN /\ users \in BOOLEAN
  /\ stray \in BOOLEAN

ProcessType ==
  /\ tab \in {"fuse", "free", "other"}
  /\ foreign \subseteq {"read", "write", "close"}
  /\ fsr \in [Gor -> {"no", "in", "ok", "err", "eof"}]

ServerType ==
  /\ cfd \in BOOLEAN /\ ctxDone \in BOOLEAN
  /\ initialized \in BOOLEAN /\ destroyed \in BOOLEAN
  /\ wg \in Nat
  /\ writeMu \in Gor \cup {Nobody}
  /\ pool \in [Bufs -> Nat]
  /\ content \in [Bufs -> Gor \cup {Nobody}]

GoroutineType ==
  /\ spc \in {"check", "get", "enter", "reading", "foreign", "got", "returned"}
  /\ sbuf \in Bufs \cup {Nobody}
  /\ sfd \in BOOLEAN
  /\ sres \in {"none", "nil", "canceled", "EBADF", "EOF"}
  /\ hpc \in [Gor -> {"none", "dispatch", "fs", "send", "write", "release",
                      "done", "end"}]
  /\ hbuf \in [Gor -> Bufs \cup {Nobody}]
  /\ hres \in [Gor -> [to : Gor \cup {Nobody}, status : Statuses]]
  /\ hfd \in [Gor -> BOOLEAN]
  /\ upc \in [Unmounters -> {"none", "umount", "close", "clear", "returned"}]
  /\ uerr \in [Unmounters -> BOOLEAN]
  /\ wpc \in [Waiters -> {"none", "waiting", "returned"}]

(* The type invariant: what every variable ranges over.  wg in particular  *)
(* never goes below zero, at which sync.WaitGroup panics.                  *)
TypeOK == KernelType /\ ProcessType /\ ServerType /\ GoroutineType

(* The state Mount returns: mounted, descriptor open, nothing read yet.    *)
Init ==
  /\ kst = [u \in Reqs |-> "unborn"]
  /\ hdr = [g \in Gor |-> NoKind]
  /\ ans = [u \in Reqs |-> "none"]
  /\ kinit = "none"
  /\ live = TRUE /\ mounted = TRUE /\ users = FALSE /\ stray = FALSE
  /\ tab = "fuse" /\ foreign = {}
  /\ fsr = [g \in Gor |-> "no"]
  /\ cfd = TRUE /\ ctxDone = FALSE
  /\ initialized = FALSE /\ destroyed = FALSE
  /\ wg = 0 /\ writeMu = Nobody
  /\ pool = [b \in Bufs |-> 0]
  /\ content = [b \in Bufs |-> Nobody]
  /\ spc = "check" /\ sbuf = Nobody /\ sfd = TRUE /\ sres = "none"
  /\ hpc = [g \in Gor |-> "none"]
  /\ hbuf = [g \in Gor |-> Nobody]
  /\ hres = [g \in Gor |-> NoRes]
  /\ hfd = [g \in Gor |-> TRUE]
  /\ upc = [k \in Unmounters |-> "none"]
  /\ uerr = [k \in Unmounters |-> FALSE]
  /\ wpc = [w \in Waiters |-> "none"]

-----------------------------------------------------------------------------
(* The kernel and the process around the server (external).                *)

Outstanding(u) == kst[u] \in {"queued", "taken"}
DestroySent == \E u \in Reqs : hdr[u].op = "DESTROY"

MaySend(k) ==
  IF k.op = "INIT"
  THEN kinit = "none" \/ (kinit = "version" /\ k.arg = "match")
  ELSE /\ kinit = "ok" /\ ~DestroySent
       /\ k.op = "DESTROY" => ~mounted /\ ~users
       /\ k.op \notin AsyncOps => users
       /\ k.op = "INTERRUPT" => \E u \in Reqs : kst[u] = "taken"

(* The kernel queues a request.  INIT comes first and holds the others     *)
(* back until it is answered; DESTROY comes last, when the file system is  *)
(* detached and unused.                                                    *)
Submit(u, k) ==
  /\ live /\ kst[u] = "unborn" /\ MaySend(k)
  /\ kst' = [kst EXCEPT ![u] = "queued"]
  /\ hdr' = [hdr EXCEPT ![u] = k]
  /\ kinit' = IF k.op = "INIT" THEN "sent" ELSE kinit
  /\ UNCHANGED <<ans, live, mounted, users, stray, procVars, fsr, cfd, ctxDone,
                 flagVars, wg, writeMu, pool, content, serveVars, handlerVars,
                 stopVars>>

(* Processes start to use the file system, which needs it attached, and    *)
(* stop, which needs their last system call on it to have come back.       *)
UsersChange ==
  /\ IF users
     THEN \A u \in Reqs : Outstanding(u) => hdr[u].op \in AsyncOps
     ELSE mounted /\ kinit = "ok"
  /\ users' = ~users
  /\ UNCHANGED <<kst, hdr, ans, kinit, live, mounted, stray, procVars, fsr, cfd,
                 ctxDone, flagVars, wg, writeMu, pool, content, serveVars,
                 handlerVars, stopVars>>

(* Somebody else detaches the file system (umount, fusermount -u).         *)
AdminUmount ==
  /\ mounted /\ mounted' = FALSE
  /\ UNCHANGED <<kst, hdr, ans, kinit, live, users, stray, procVars, fsr, cfd,
                 ctxDone, flagVars, wg, writeMu, pool, content, serveVars,
                 handlerVars, stopVars>>

(* The connection ends, when the detached file system is no longer used or *)
(* when nothing holds the device open any more (a read in progress does);  *)
(* what was outstanding is aborted.                                        *)
ConnectionEnds ==
  /\ live
  /\ \/ /\ ~mounted /\ ~users
        /\ \A u \in Reqs : hdr[u].op = "DESTROY" => ~Outstanding(u)
     \/ tab # "fuse" /\ spc # "reading"
  /\ live' = FALSE
  /\ kst' = [u \in Reqs |-> IF Outstanding(u) THEN "aborted" ELSE kst[u]]
  /\ UNCHANGED <<hdr, ans, kinit, mounted, users, stray, procVars, fsr, cfd,
                 ctxDone, flagVars, wg, writeMu, pool, content, serveVars,
                 handlerVars, stopVars>>

(* Elsewhere in the process a file is opened, and gets the lowest free     *)
(* descriptor number, or is closed again.                                  *)
OtherFile ==
  /\ ReuseFd
  /\ \/ tab = "free" /\ tab' = "other"
     \/ tab = "other" /\ tab' = "free"
  /\ UNCHANGED <<kernelVars, foreign, fsr, cfd, ctxDone, flagVars, wg, writeMu,
                 pool, content, serveVars, handlerVars, stopVars>>

-----------------------------------------------------------------------------
(* Server.Serve                                                            *)

(* The select on ctx.Done() at the head of the loop.                       *)
ServeCheck ==
  /\ spc = "check"
  /\ IF ctxDone THEN spc' = "returned" /\ sres' = "canceled"
                ELSE spc' = "get" /\ sres' = sres
  /\ UNCHANGED <<kernelVars, procVars, fsr, cfd, ctxDone, flagVars, wg, writeMu,
                 pool, content, sbuf, sfd, handlerVars, stopVars>>

(* A buffer the pool's New may return: memory nothing refers to.           *)
Unreferenced(b) == pool[b] = 0 /\ sbuf # b /\ \A g \in Gor : hbuf[g] # b

(* readRequest takes a buffer, out of the pool or from New, and evaluates  *)
(* c.fd for its read.  sync.Pool may call New while it is not empty.       *)
readRequestGet ==
  /\ spc = "get"
  /\ \E b \in Bufs :
       /\ sbuf' = b
       /\ \/ /\ pool[b] > 0
             /\ pool' = [pool EXCEPT ![b] = @ - 1]
             /\ UNCHANGED content
          \/ /\ Unreferenced(b)
             /\ content' = [content EXCEPT ![b] = Nobody]
             /\ UNCHANGED pool
  /\ sfd' = cfd
  /\ spc' = "enter"
  /\ UNCHANGED <<kernelVars, procVars, fsr, cfd, ctxDone, flagVars, wg, writeMu,
                 sres, handlerVars, stopVars>>

(* pool.put: get's buffers all have the pool's size.                       *)
put(b) == pool' = [pool EXCEPT ![b] = @ + 1]

(* readRequest puts the buffer back and returns an error; Serve tries      *)
(* again after EINTR and returns on anything else.                         *)
readRequestFails(pc, res) ==
  /\ put(sbuf)
  /\ sbuf' = Nobody
  /\ spc' = pc /\ sres' = res /\ sfd' = TRUE
  /\ UNCHANGED <<kernelVars, fsr, cfd, ctxDone, flagVars, wg, writeMu, content,
                 handlerVars, stopVars>>

(* The read system call looks its descriptor number up; from then on it    *)
(* holds the file, whatever happens to the number.                         *)
readRequestEnter ==
  /\ spc = "enter"
  /\ \/ /\ ~sfd \/ tab = "free"
        /\ readRequestFails("returned", "EBADF")
        /\ UNCHANGED procVars
     \/ /\ sfd /\ tab # "free"
        /\ spc' = IF tab = "fuse" THEN "reading" ELSE "foreign"
        /\ UNCHANGED <<kernelVars, procVars, fsr, cfd, ctxDone, flagVars, wg,
                       writeMu, pool, content, sbuf, sfd, sres, handlerVars,
                       stopVars>>

readRequestEINTR ==
  /\ spc = "reading"
  /\ readRequestFails("check", sres)
  /\ UNCHANGED procVars

(* Mutant: ENODEV is retried like EINTR.                                   *)
readRequestENODEV_retries ==
  /\ spc = "reading" /\ ~live
  /\ readRequestFails("check", sres)
  /\ UNCHANGED procVars

(* ENODEV becomes ErrNotMounted, for which Serve returns nil.              *)
readRequestENODEV ==
  /\ spc = "reading" /\ ~live
  /\ readRequestFails("returned", "nil")
  /\ UNCHANGED procVars

(* The kernel copies a queued request into the buffer.  The queue is not   *)
(* first in, first out: interrupts and forgets have queues of their own.   *)
readRequest(u) ==
  /\ spc = "reading" /\ live /\ kst[u] = "queued"
  /\ kst' = [kst EXCEPT ![u] = IF hdr[u].op \in OneWayOps THEN "consumed"
                                                         ELSE "taken"]
  /\ content' = [content EXCEPT ![sbuf] = u]
  /\ spc' = "got"
  /\ UNCHANGED <<hdr, ans, kinit, live, mounted, users, stray, procVars, fsr,
                 cfd, ctxDone, flagVars, wg, writeMu, pool, sbuf, sfd, sres,
                 handlerVars, stopVars>>

(* The number had come to mean another file: fewer bytes than a header     *)
(* make readRequest fail, more are taken for a request.                    *)
readForeign ==
  /\ spc = "foreign"
  /\ foreign' = foreign \cup {"read"}
  /\ UNCHANGED tab
  /\ \/ readRequestFails("returned", "EOF")
     \/ \E k \in JunkKinds :
          /\ hdr' = [hdr EXCEPT ![Junk] = k]
          /\ content' = [content EXCEPT ![sbuf] = Junk]
          /\ spc' = "got"
          /\ UNCHANGED <<kst, ans, kinit, live, mounted, users, stray, fsr, cfd,
                         ctxDone, flagVars, wg, writeMu, pool, sbuf, sfd, sres,
                         handlerVars, stopVars>>

(* Mutant: the goroutine starts without wg.Add(1).                         *)
ServeSpawn_noAdd ==
  /\ spc = "got"
  /\ LET g == content[sbuf] IN
       /\ hpc' = [hpc EXCEPT ![g] = "dispatch"]
       /\ hbuf' = [hbuf EXCEPT ![g] = sbuf]
  /\ sbuf' = Nobody
  /\ spc' = "check"
  /\ UNCHANGED <<kernelVars, procVars, fsr, cfd, ctxDone, flagVars, wg, writeMu,
                 pool, content, sfd, sres, hres, hfd, stopVars>>

(* wg.Add(1) and the go statement.                                         *)
ServeSpawn ==
  /\ spc = "got"
  /\ wg' = wg + 1
  /\ LET g == content[sbuf] IN
       /\ hpc' = [hpc EXCEPT ![g] = "dispatch"]
       /\ hbuf' = [hbuf EXCEPT ![g] = sbuf]
  /\ sbuf' = Nobody
  /\ spc' = "check"
  /\ UNCHANGED <<kernelVars, procVars, fsr, cfd, ctxDone, flagVars, writeMu,
                 pool, content, sfd, sres, hres, hfd, stopVars>>

-----------------------------------------------------------------------------
(* The handler goroutines: handleRequest and the handlers map              *)

(* What a handler sees through req.header.                                 *)
header(g) == hdr[content[hbuf[g]]]

(* A handler has nothing to send: FORGET, BATCH_FORGET, INTERRUPT.         *)
NoReply(g) ==
  /\ hpc' = [hpc EXCEPT ![g] = "release"]
  /\ UNCHANGED hres

(* newResponse and newErrorResponse copy Unique out of the request buffer. *)
Respond(g, status) ==
  /\ hpc' = [hpc EXCEPT ![g] = "send"]
  /\ hres' = [hres EXCEPT ![g] = [to |-> content[hbuf[g]], status |-> status]]

(* Mutant: sendError takes RELEASE for an operation without a reply.       *)
sendError_silent(g, status) ==
  IF header(g).op \in ForgetOps \cup {"RELEASE"} THEN NoReply(g)
                                                ELSE Respond(g, status)

(* sendError is silent for the forget operations.                          *)
sendError(g, status) ==
  IF header(g).op \in ForgetOps THEN NoReply(g) ELSE Respond(g, status)

(* Mutant: handleRequest does not ask isWriteOp.                           *)
handleRequestAlone_noWriteCheck(g) ==
  /\ hpc[g] = "dispatch"
  /\ LET op == header(g).op arg == header(g).arg IN
       \/ op \notin HandledOps /\ sendError(g, "ENOSYS")
       \/ op = "INTERRUPT" /\ NoReply(g)
       \/ op = "INIT" /\ arg = "major" /\ Respond(g, "VERSION")
  /\ UNCHANGED <<kernelVars, procVars, fsr, cfd, ctxDone, flagVars, wg, writeMu,
                 pool, content, serveVars, hbuf, hfd, stopVars>>

(* handleRequest, for the requests answered without calling the            *)
(* Filesystem: write operations, opcodes without a handler, FLUSH,         *)
(* INTERRUPT, INIT of a version not supported, truncated BATCH_FORGET.     *)
handleRequestAlone(g) ==
  /\ hpc[g] = "dispatch"
  /\ LET op == header(g).op arg == header(g).arg IN
       \/ op \in WriteOps /\ sendError(g, "EROFS")
       \/ op \notin WriteOps \cup HandledOps /\ sendError(g, "ENOSYS")
       \/ op = "FLUSH" /\ Respond(g, "OK")
       \/ op = "INTERRUPT" /\ NoReply(g)
       \/ op = "INIT" /\ arg = "major" /\ Respond(g, "VERSION")
       \/ op = "INIT" /\ arg = "minor" /\ sendError(g, "EPROTO")
       \/ op = "BATCH_FORGET" /\ arg = "short" /\ sendError(g, "ERR")
  /\ UNCHANGED <<kernelVars, procVars, fsr, cfd, ctxDone, flagVars, wg, writeMu,
                 pool, content, serveVars, hbuf, hfd, stopVars>>

(* Mutant: handleInit accepts every minor version.                         *)
CallsFilesystem_anyMinor(k) ==
  \/ k.op \in QueryOps \cup {"DESTROY", "FORGET"}
  \/ k.op = "INIT" /\ k.arg \in {"match", "minor"}
  \/ k.op = "BATCH_FORGET" /\ k.arg = "full"

(* The requests whose handler calls the Filesystem.                        *)
CallsFilesystem(k) ==
  \/ k.op \in QueryOps \cup {"DESTROY", "FORGET"}
  \/ k.op = "INIT" /\ k.arg = "match"
  \/ k.op = "BATCH_FORGET" /\ k.arg = "full"

(* Mutant: the buffer goes back to the pool as soon as it is parsed.       *)
handleRequestCall_earlyRelease(g) ==
  /\ hpc[g] = "dispatch" /\ CallsFilesystem(header(g))
  /\ hpc' = [hpc EXCEPT ![g] = "fs"]
  /\ fsr' = [fsr EXCEPT ![content[hbuf[g]]] = "in"]
  /\ put(hbuf[g])
  /\ UNCHANGED <<kernelVars, procVars, cfd, ctxDone, flagVars, wg, writeMu,
                 content, serveVars, hbuf, hres, hfd, stopVars>>

(* The handler parses its arguments out of the buffer and makes the call.  *)
handleRequestCall(g) ==
  /\ hpc[g] = "dispatch" /\ CallsFilesystem(header(g))
  /\ hpc' = [hpc EXCEPT ![g] = "fs"]
  /\ fsr' = [fsr EXCEPT ![content[hbuf[g]]] = "in"]
  /\ UNCHANGED <<kernelVars, procVars, cfd, ctxDone, flagVars, wg, writeMu,
                 pool, content, serveVars, hbuf, hres, hfd, stopVars>>

(* toErrno maps io.EOF to 0, which gives a success without a payload.      *)
toErrno(r) == IF r = "eof" THEN "EMPTY" ELSE "ERR"

(* The Filesystem method returns r to the handler.                         *)
FilesystemReturns(g, r) ==
  /\ hpc[g] = "fs"
  /\ fsr' = [fsr EXCEPT ![content[hbuf[g]]] = r]
  /\ UNCHANGED <<kernelVars, procVars, cfd, ctxDone, wg, writeMu, pool, content,
                 serveVars, hbuf, hfd, stopVars>>

(* handleLookup, handleGetattr, handleReadlink, handleOpen, handleRead,    *)
(* handleRelease, handleOpendir, handleReaddir, handleReaddirplus,         *)
(* handleReleasedir, handleStatfs and handleAccess after their call.       *)
handleQueryResult(g) ==
  /\ hpc[g] = "fs" /\ header(g).op \in QueryOps
  /\ \/ FilesystemReturns(g, "ok") /\ Respond(g, "OK")
     \/ \E r \in Errors :
          FilesystemReturns(g, r) /\ sendError(g, toErrno(r))
  /\ UNCHANGED flagVars

(* Mutant: the forget operations are answered.                             *)
handleForgetResult_replies(g) ==
  /\ hpc[g] = "fs" /\ header(g).op \in ForgetOps
  /\ FilesystemReturns(g, "ok") /\ Respond(g, "OK")
  /\ UNCHANGED flagVars

(* handleForget and handleBatchForget after their call.                    *)
handleForgetResult(g) ==
  /\ hpc[g] = "fs" /\ header(g).op \in ForgetOps
  /\ FilesystemReturns(g, "ok") /\ NoReply(g)
  /\ UNCHANGED flagVars

(* handleInit after fs.Init.                                               *)
handleInitResult(g) ==
  /\ hpc[g] = "fs" /\ header(g).op = "INIT"
  /\ \/ /\ FilesystemReturns(g, "ok") /\ Respond(g, "OK")
        /\ initialized' = TRUE
     \/ /\ \E r \in Errors :
             FilesystemReturns(g, r) /\ sendError(g, toErrno(r))
        /\ UNCHANGED initialized
  /\ UNCHANGED destroyed

(* handleDestroy after fs.Destroy.                                         *)
handleDestroyResult(g) ==
  /\ hpc[g] = "fs" /\ header(g).op = "DESTROY"
  /\ FilesystemReturns(g, "ok") /\ Respond(g, "OK")
  /\ destroyed' = TRUE
  /\ UNCHANGED initialized

(* writeResponse takes writeMu and evaluates c.fd for its write.           *)
writeResponseLock(g) ==
  /\ hpc[g] = "send" /\ writeMu = Nobody
  /\ writeMu' = g
  /\ hfd' = [hfd EXCEPT ![g] = cfd]
  /\ hpc' = [hpc EXCEPT ![g] = "write"]
  /\ UNCHANGED <<kernelVars, procVars, fsr, cfd, ctxDone, flagVars, wg, pool,
                 content, serveVars, hbuf, hres, stopVars>>

(* The kernel gets a reply: it ends the request it names, if that request  *)
(* is one the server has read and not answered (external).                 *)
KernelGetsReply(to, status) ==
  LET awaited == to \in Reqs /\ kst[to] = "taken" IN
  /\ kst' = IF awaited THEN [kst EXCEPT ![to] = "answered"] ELSE kst
  /\ ans' = IF awaited THEN [ans EXCEPT ![to] = status] ELSE ans
  /\ stray' = (stray \/ ~awaited)
  /\ kinit' = IF ~awaited \/ hdr[to].op # "INIT" THEN kinit
              ELSE IF status = "OK" THEN "ok"
              ELSE IF status = "VERSION" THEN "version"
              ELSE "failed"

(* Mutant: writeMu stays locked when the write goes through.               *)
writeResponse_noUnlock(g) ==
  /\ hpc[g] = "write"
  /\ IF hfd[g] /\ tab = "fuse" /\ live
     THEN KernelGetsReply(hres[g].to, hres[g].status) /\ UNCHANGED writeMu
     ELSE UNCHANGED <<kst, ans, kinit, stray>> /\ writeMu' = Nobody
  /\ hpc' = [hpc EXCEPT ![g] = "release"]
  /\ UNCHANGED <<hdr, live, mounted, users, procVars, fsr, cfd, ctxDone,
                 flagVars, wg, pool, content, serveVars, hbuf, hres, hfd,
                 stopVars>>

(* The write system call, whose error the callers ignore, and the unlock;  *)
(* the response and the descriptor number written to are dead after it.    *)
writeResponse(g) ==
  /\ hpc[g] = "write"
  /\ IF hfd[g] /\ tab = "fuse" /\ live
     THEN KernelGetsReply(hres[g].to, hres[g].status)
     ELSE UNCHANGED <<kst, ans, kinit, stray>>
  /\ foreign' = IF hfd[g] /\ tab = "other" THEN foreign \cup {"write"}
                                          ELSE foreign
  /\ writeMu' = Nobody
  /\ hpc' = [hpc EXCEPT ![g] = "release"]
  /\ hres' = [hres EXCEPT ![g] = NoRes]
  /\ hfd' = [hfd EXCEPT ![g] = TRUE]
  /\ UNCHANGED <<hdr, live, mounted, users, tab, fsr, cfd, ctxDone, flagVars,
                 wg, pool, content, serveVars, hbuf, stopVars>>

(* Mutant: release does not clear r.data, and runs twice.                  *)
release_twice(g) ==
  /\ hpc[g] = "release"
  /\ pool' = [pool EXCEPT ![hbuf[g]] = @ + 2]
  /\ hbuf' = [hbuf EXCEPT ![g] = Nobody]
  /\ hpc' = [hpc EXCEPT ![g] = "done"]
  /\ UNCHANGED <<kernelVars, procVars, fsr, cfd, ctxDone, flagVars, wg, writeMu,
                 content, serveVars, hres, hfd, stopVars>>

(* The deferred r.release(), then the deferred wg.Done().                  *)
release(g) ==
  /\ hpc[g] = "release"
  /\ put(hbuf[g])
  /\ hbuf' = [hbuf EXCEPT ![g] = Nobody]
  /\ hpc' = [hpc EXCEPT ![g] = "done"]
  /\ UNCHANGED <<kernelVars, procVars, fsr, cfd, ctxDone, flagVars, wg, writeMu,
                 content, serveVars, hres, hfd, stopVars>>

(* Mutant: handleRequest calls wg.Done() too.                              *)
wgDone_twice(g) ==
  /\ hpc[g] = "done"
  /\ wg' = wg - 2
  /\ hpc' = [hpc EXCEPT ![g] = "end"]
  /\ UNCHANGED <<kernelVars, procVars, fsr, cfd, ctxDone, flagVars, writeMu,
                 pool, content, serveVars, hbuf, hres, hfd, stopVars>>

wgDone(g) ==
  /\ hpc[g] = "done"
  /\ wg' = wg - 1
  /\ hpc' = [hpc EXCEPT ![g] = "end"]
  /\ UNCHANGED <<kernelVars, procVars, fsr, cfd, ctxDone, flagVars, writeMu,
                 pool, content, serveVars, hbuf, hres, hfd, stopVars>>

-----------------------------------------------------------------------------
(* Server.Unmount, called by goroutine k, and Server.Wait                  *)

UnmountCancel(k) ==
  /\ upc[k] = "none"
  /\ ctxDone' = TRUE
  /\ upc' = [upc EXCEPT ![k] = "umount"]
  /\ UNCHANGED <<kernelVars, procVars, fsr, cfd, flagVars, wg, writeMu, pool,
                 content, serveVars, handlerVars, uerr, wpc>>

(* Mutant: Unmount closes the connection before it detaches.               *)
unmount_closesFirst(k) ==
  /\ upc[k] = "umount"
  /\ \/ mounted /\ mounted' = FALSE /\ UNCHANGED uerr
     \/ uerr' = [uerr EXCEPT ![k] = TRUE] /\ UNCHANGED mounted
  /\ tab' = "free"
  /\ upc' = [upc EXCEPT ![k] = "close"]
  /\ UNCHANGED <<kst, hdr, ans, kinit, live, users, stray, foreign, fsr, cfd,
                 ctxDone, flagVars, wg, writeMu, pool, content, serveVars,
                 handlerVars, wpc>>

(* unmount tries a lazy, a plain and a fusermount unmount in turn; any of  *)
(* them may fail, and all do when the file system is no longer attached.   *)
unmount(k) ==
  /\ upc[k] = "umount"
  /\ \/ mounted /\ mounted' = FALSE /\ UNCHANGED uerr
     \/ uerr' = [uerr EXCEPT ![k] = TRUE] /\ UNCHANGED mounted
  /\ upc' = [upc EXCEPT ![k] = "close"]
  /\ UNCHANGED <<kst, hdr, ans, kinit, live, users, stray, procVars, fsr, cfd,
                 ctxDone, flagVars, wg, writeMu, pool, content, serveVars,
                 handlerVars, wpc>>

(* connection.close: the test of c.fd and the system call, which closes    *)
(* whatever the number means; then the assignment of -1.                   *)
close(k) ==
  /\ upc[k] = "close"
  /\ tab' = IF cfd THEN "free" ELSE tab
  /\ foreign' = IF cfd /\ tab = "other" THEN foreign \cup {"close"} ELSE foreign
  /\ upc' = [upc EXCEPT ![k] = IF cfd THEN "clear" ELSE "returned"]
  /\ UNCHANGED <<kernelVars, fsr, cfd, ctxDone, flagVars, wg, writeMu, pool,
                 content, serveVars, handlerVars, uerr, wpc>>

closeClear(k) ==
  /\ upc[k] = "clear"
  /\ cfd' = FALSE
  /\ upc' = [upc EXCEPT ![k] = "returned"]
  /\ UNCHANGED <<kernelVars, procVars, fsr, ctxDone, flagVars, wg, writeMu,
                 pool, content, serveVars, handlerVars, uerr, wpc>>

Wait(w) ==
  /\ \/ wpc[w] = "none" /\ wpc' = [wpc EXCEPT ![w] = "waiting"]
     \/ wpc[w] = "waiting" /\ wg = 0 /\ wpc' = [wpc EXCEPT ![w] = "returned"]
  /\ UNCHANGED <<kernelVars, procVars, fsr, cfd, ctxDone, flagVars, wg, writeMu,
                 pool, content, serveVars, handlerVars, upc, uerr>>

-----------------------------------------------------------------------------
Kernel ==
  \/ \E u \in Reqs, k \in Kinds : Submit(u, k)
  \/ UsersChange \/ AdminUmount \/ ConnectionEnds \/ OtherFile

ReadRequest == \E u \in Reqs : readRequest(u)

Serve ==
  \/ ServeCheck \/ readRequestGet \/ readRequestEnter \/ readRequestENODEV
  \/ readForeign \/ ServeSpawn \/ ReadRequest

handler(g) ==
  \/ handleRequestAlone(g) \/ handleRequestCall(g)
  \/ handleQueryResult(g) \/ handleForgetResult(g)
  \/ handleInitResult(g) \/ handleDestroyResult(g)
  \/ writeResponse(g) \/ release(g) \/ wgDone(g)

Unmount(k) == UnmountCancel(k) \/ unmount(k) \/ close(k) \/ closeClear(k)

Next ==
  \/ Kernel
  \/ Serve \/ readRequestEINTR
  \/ \E g \in Gor : handler(g) \/ writeResponseLock(g)
  \/ \E k \in Unmounters : Unmount(k)
  \/ \E w \in Waiters : Wait(w)

Spec == Init /\ [][Next]_vars

(* The code's scheduling: goroutines run, the Filesystem's methods return, *)
(* Go's mutex does not starve a waiter, a read that is interrupted now and *)
(* then gets through, an Unmount that was called goes on, and the kernel   *)
(* ends a connection nothing keeps alive.                                  *)
Fairness ==
  /\ WF_vars(Serve) /\ SF_vars(ReadRequest) /\ SF_vars(readRequestENODEV)
  /\ \A g \in Gor : WF_vars(handler(g)) /\ SF_vars(writeResponseLock(g))
  /\ \A k \in Unmounters : WF_vars(unmount(k) \/ close(k) \/ closeClear(k))
  /\ WF_vars(ConnectionEnds)

FairSpec == Spec /\ Fairness

-----------------------------------------------------------------------------
(* Properties                                                              *)

(* A request buffer has one owner: it is in the pool once, or Serve reads  *)
(* into it, or one handler uses it.  Otherwise a handler's header and body *)
(* would change under it (newRequest keeps pointers into the buffer).      *)
Exclusive ==
  \A b \in Bufs :
    /\ pool[b] <= 1
    /\ pool[b] = 1 => sbuf # b /\ \A g \in Gor : hbuf[g] # b
    /\ \A g \in Gor : hbuf[g] = b =>
         sbuf # b /\ \A h \in Gor \ {g} : hbuf[h] # b

Service == INSTANCE FuseService WITH
  kind <- [u \in Reqs |-> hdr[u]], call <- [u \in Reqs |-> fsr[u]], reply <- ans

(* Whatever the interleaving of handlers, the reply the kernel has to a    *)
(* request is the one that request's own kind and own Filesystem result    *)
(* determine: EROFS to every write operation, ENOSYS without a handler.    *)
ReplyIntegrity ==
  \A u \in Reqs : ans[u] # "none" => ans[u] = Service!Answer(hdr[u], fsr[u])

(* The kernel never gets a reply to a request it is not waiting for:       *)
(* handlers reply at most once, and never to FORGET or INTERRUPT.          *)
NoStrayReply == ~stray

(* A handler that has finished has answered its request, unless Unmount    *)
(* had closed the descriptor under it (replies are dropped silently only   *)
(* then).                                                                  *)
NoLostReply ==
  \A u \in Reqs :
    kst[u] = "taken" /\ hpc[u] \in {"release", "done", "end"} =>
      \E k \in Unmounters : upc[k] \in {"clear", "returned"}

(* The server implements the service: at most one Filesystem call per      *)
(* request, none before Init has succeeded and none for write operations,  *)
(* at most one reply.                                                      *)
ImplementsService == Service!SSpec

(* Wait called once Serve has returned really waits: when it comes back    *)
(* every handler goroutine has ended and every buffer is out of use.       *)
WaitDrains ==
  [][\A w \in Waiters :
       wpc[w] = "waiting" /\ wpc'[w] = "returned" /\ spc = "returned" =>
         /\ \A g \in Gor : hpc[g] \in {"none", "end"} /\ hbuf[g] = Nobody
         /\ writeMu = Nobody]_vars

(* The number is evaluated, tested and cleared without a lock, so it may   *)
(* be used when it means another file already.  The damage is confined: no *)
(* such read, write or close happens before an Unmount has closed the      *)
(* connection, and such a close only when two Unmounts overlap.            *)
ForeignOnlyAfterClose ==
  /\ foreign # {} => \E k \in Unmounters : upc[k] \in {"clear", "returned"}
  /\ "close" \in foreign =>
       \E j, k \in Unmounters :
         j # k /\ {upc[j], upc[k]} \subseteq {"clear", "returned"}

Settled(u) == kst[u] \in {"answered", "consumed", "aborted"}

(* Every request the kernel queues is answered, taken as one-way or        *)
(* aborted with the connection, with one exception: Unmount closes the     *)
(* descriptor while Serve is blocked in a read of it, the reply is lost    *)
(* and the read alone keeps the connection, and the request, alive.        *)
SettlesOrBlockedRead ==
  \A u \in Reqs :
    kst[u] = "queued" ~> (Settled(u) \/ [](spc = "reading" /\ tab # "fuse"))

(* Once the file system is detached and no process uses it, Serve returns  *)
(* and the handlers end, whether Unmount or somebody else detached it.     *)
DetachedStops ==
  (~mounted /\ ~users) ~>
    (spc = "returned" /\ \A g \in Gor : hpc[g] \in {"none", "end"})

-----------------------------------------------------------------------------
(* What the repository's comments and documentation say, and the code does *)
(* not do.                                                                 *)

(* "Unmount unmounts the filesystem and shuts down the server."            *)
(* (src/server.go:162): after an Unmount without error Serve returns, or   *)
(* at the very least no request stays without an answer.                   *)
UnmountShutsDown ==
  (\E k \in Unmounters : upc[k] = "returned" /\ ~uerr[k]) ~>
    (spc = "returned" \/ \A u \in Reqs : ~Outstanding(u))

=============================================================================
