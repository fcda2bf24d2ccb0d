--------------------------- MODULE FuseServerInv ---------------------------
(***************************************************************************)
(* The inductive invariant of FuseServer: why buffers are never shared and *)
(* why replies go where they should.                                       *)
(***************************************************************************)
EXTENDS FuseServer

(* Where a handler goroutine owns its buffer.                              *)
Working == {"dispatch", "fs", "send", "write", "release"}

(* Serve owns a buffer exactly between get and put or go.                  *)
ServeOwns ==
  /\ spc \in {"enter", "reading", "foreign", "got"} => sbuf \in Bufs
  /\ spc \in {"check", "get", "returned"} => sbuf = Nobody

(* A handler owns the buffer that holds its own request, until release.    *)
HandlerOwns ==
  \A g \in Gor :
    /\ hpc[g] \in Working => hbuf[g] \in Bufs /\ content[hbuf[g]] = g
    /\ hpc[g] \notin Working => hbuf[g] = Nobody

(* What Serve has read is a request no handler has seen.                   *)
GotIsNew ==
  spc = "got" =>
    /\ content[sbuf] \in Gor
    /\ hpc[content[sbuf]] = "none"
    /\ hdr[content[sbuf]] # NoKind
    /\ content[sbuf] \in Reqs => kst[content[sbuf]] \notin {"unborn", "queued"}

(* The kernel's view of a request against its handler's.                   *)
RequestOK(u) ==
  /\ kst[u] = "unborn" <=> hdr[u] = NoKind
  /\ kst[u] \in {"unborn", "queued"} => hpc[u] = "none"
  /\ kst[u] = "consumed" => hdr[u].op \in OneWayOps
  /\ kst[u] \in {"taken", "answered"} => hdr[u].op \notin OneWayOps
  /\ kst[u] = "aborted" => ~live
  /\ kst[u] \in {"queued", "taken"} => live
  /\ kst[u] = "answered" => hpc[u] \in {"release", "done", "end"}
  /\ ans[u] # "none" <=> kst[u] = "answered"
KernelView == \A u \in Reqs : RequestOK(u)

(* A handler's progress against its Filesystem call and its reply.         *)
HandlerOK(g) ==
  /\ hpc[g] # "none" => hdr[g] # NoKind
  /\ hpc[g] \in {"none", "dispatch"} => fsr[g] = "no"
  /\ hpc[g] = "fs" => fsr[g] = "in" /\ CallsFilesystem(hdr[g])
  /\ hpc[g] \in {"send", "write"} =>
       /\ hres[g].to = g
       /\ hres[g].status = Service!Answer(hdr[g], fsr[g])
       /\ hdr[g].op \notin OneWayOps
  /\ hpc[g] = "write" <=> writeMu = g
  /\ hpc[g] = "write" /\ ~hfd[g] => ~cfd
HandlerView == \A g \in Gor : HandlerOK(g)

(* Descriptors end with Unmount, and only after it has cancelled Serve.    *)
Closing(k) == upc[k] \in {"clear", "returned"}
StopView ==
  /\ (\E k \in Unmounters : upc[k] # "none") => ctxDone
  /\ tab # "fuse" \/ ~cfd => \E k \in Unmounters : Closing(k)

(* Bytes of another file are taken for a request at most once: Serve does  *)
(* not read again after it.                                                *)
JunkView ==
  /\ spc = "foreign" => tab # "fuse" /\ hpc[Junk] = "none"
  /\ spc = "got" /\ content[sbuf] = Junk => tab # "fuse" /\ hpc[Junk] = "none"
  /\ hpc[Junk] # "none" => tab # "fuse" /\ spc \in {"check", "returned"}

(* INIT comes first, one at a time, and opens the way for the others only  *)
(* when the Filesystem's Init has succeeded.                               *)
InitView ==
  /\ \A u \in Reqs : kinit # "ok" => hdr[u].op \in {"INIT", "none"}
  /\ \A u, v \in Reqs :
       hdr[u].op = "INIT" /\ Outstanding(u) =>
         /\ kinit = "sent"
         /\ hdr[v].op = "INIT" /\ Outstanding(v) => u = v
  /\ kinit = "ok" => \E v \in Reqs : hdr[v].op = "INIT" /\ fsr[v] = "ok"

(* The wait group counts the goroutines that are running.                  *)
Busy == {g \in Gor : hpc[g] \notin {"none", "end"}}
WgCount == wg = Cardinality(Busy)

(* Together: an inductive invariant that implies Exclusive, ReplyIntegrity,*)
(* NoStrayReply and NoLostReply, and from which WaitDrains and             *)
(* ImplementsService follow step by step.                                  *)
IInv ==
  /\ TypeOK /\ Exclusive /\ ServeOwns /\ HandlerOwns /\ GotIsNew
  /\ KernelView /\ HandlerView /\ StopView /\ JunkView /\ InitView
  /\ WgCount /\ ReplyIntegrity /\ NoStrayReply /\ NoLostReply

=============================================================================
