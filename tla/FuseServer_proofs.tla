-------------------------- MODULE FuseServer_proofs -------------------------
(***************************************************************************)
(* What FuseServer guarantees for any set of requests, buffers, request    *)
(* kinds, errors, and calls of Unmount and Wait; and that it implements    *)
(* FuseService.                                                            *)
(***************************************************************************)
EXTENDS FuseServer_step_proofs, Counting_proofs

(* Names are distinct, and the groups of variables are expanded throughout.*)
USE NamesAssumption
USE DEF Gor, kernelVars, procVars, serveVars, handlerVars, stopVars, flagVars

-----------------------------------------------------------------------------
(* Steps of Serve and readRequest *)

(* The head of Serve's loop.                                               *)
LEMMA Step_ServeCheck ==
  ASSUME IInv, ServeCheck
  PROVE  IInv'
<1>1. TypeOK'
  <2>1. KernelType'
    BY DEF IInv, ServeCheck, TypeOK, KernelType
  <2>2. ProcessType'
    BY DEF IInv, ServeCheck, TypeOK, ProcessType
  <2>3. ServerType'
    BY DEF IInv, ServeCheck, TypeOK, ServerType
  <2>4. GoroutineType'
    BY DEF IInv, ServeCheck, TypeOK, GoroutineType
  <2> QED BY <2>1, <2>2, <2>3, <2>4 DEF TypeOK
<1>2. Exclusive'
  BY DEF IInv, ServeCheck, Exclusive
<1>3. ServeOwns' /\ HandlerOwns'
  BY DEF IInv, ServeCheck, ServeOwns, HandlerOwns, Working
<1>4. GotIsNew' /\ JunkView'
  BY DEF IInv, ServeCheck, GotIsNew, JunkView, ServeOwns, HandlerOwns,
         Exclusive, KernelView, RequestOK, HandlerView, HandlerOK, StopView,
         Closing, Working, TypeOK, KernelType, ServerType, GoroutineType
<1>5. KernelView'
  BY KernelFrame DEF IInv, ServeCheck
<1>6. HandlerView'
  BY HandlerFrame DEF IInv, ServeCheck
<1>7. StopView'
  BY StopFrame DEF IInv, ServeCheck
<1>8. NoLostReply'
  BY LostFrame DEF IInv, ServeCheck
<1>9. InitView'
  BY InitFrame DEF IInv, ServeCheck
<1>10. WgCount'
  BY WgFrame DEF IInv, ServeCheck
<1>11. ReplyIntegrity' /\ NoStrayReply'
  BY RepliesFrame DEF IInv, ServeCheck
<1> QED BY <1>1, <1>2, <1>3, <1>4, <1>5, <1>6, <1>7, <1>8, <1>9, <1>10, <1>11
       DEF IInv

(* readRequest's pool.get: the buffer it gets, pooled or new, is nobody's. *)
LEMMA Step_readRequestGet ==
  ASSUME IInv, readRequestGet
  PROVE  IInv'
<1>1. TypeOK'
  <2>1. KernelType'
    BY DEF IInv, readRequestGet, TypeOK, KernelType, Unreferenced
  <2>2. ProcessType'
    BY DEF IInv, readRequestGet, TypeOK, ProcessType, Unreferenced
  <2>3. ServerType'
    BY DEF IInv, readRequestGet, TypeOK, ServerType, Unreferenced
  <2>4. GoroutineType'
    BY DEF IInv, readRequestGet, TypeOK, GoroutineType, ServerType,
           Unreferenced
  <2> QED BY <2>1, <2>2, <2>3, <2>4 DEF TypeOK
<1>2. Exclusive'
  BY DEF IInv, readRequestGet, Exclusive, Working, TypeOK, ServerType,
         GoroutineType, Unreferenced
<1>3. ServeOwns' /\ HandlerOwns'
  BY DEF IInv, readRequestGet, Exclusive, ServeOwns, HandlerOwns, GotIsNew,
         Working, TypeOK, ServerType, GoroutineType, Unreferenced
<1>4. GotIsNew' /\ JunkView'
  BY DEF IInv, readRequestGet, GotIsNew, JunkView
<1>5. KernelView'
  BY KernelFrame DEF IInv, readRequestGet
<1>6. HandlerView'
  BY HandlerFrame DEF IInv, readRequestGet
<1>7. StopView'
  BY StopFrame DEF IInv, readRequestGet
<1>8. NoLostReply'
  BY LostFrame DEF IInv, readRequestGet
<1>9. InitView'
  BY InitFrame DEF IInv, readRequestGet
<1>10. WgCount'
  BY WgFrame DEF IInv, readRequestGet
<1>11. ReplyIntegrity' /\ NoStrayReply'
  BY RepliesFrame DEF IInv, readRequestGet
<1> QED BY <1>1, <1>2, <1>3, <1>4, <1>5, <1>6, <1>7, <1>8, <1>9, <1>10, <1>11
       DEF IInv

(* A successful read: the request moves into Serve's own buffer.           *)
LEMMA Step_readRequest ==
  ASSUME IInv, NEW u \in Reqs, readRequest(u)
  PROVE  IInv'
<1>1. TypeOK'
  <2>1. KernelType'
    BY DEF IInv, readRequest, TypeOK, KernelType
  <2>2. ProcessType'
    BY DEF IInv, readRequest, TypeOK, ProcessType
  <2>3. ServerType'
    BY Zenon DEF IInv, readRequest, TypeOK, ServerType
  <2>4. GoroutineType'
    BY DEF IInv, readRequest, TypeOK, GoroutineType
  <2> QED BY <2>1, <2>2, <2>3, <2>4 DEF TypeOK
<1>2. Exclusive'
  BY DEF IInv, readRequest, Exclusive
<1>3. ServeOwns' /\ HandlerOwns'
  BY DEF IInv, readRequest, Exclusive, ServeOwns, HandlerOwns, GotIsNew,
         Working, TypeOK, ServerType, GoroutineType
<1>4. GotIsNew' /\ JunkView'
  <2>1. RequestOK(u) /\ kst[u] = "queued" /\ u # Junk
    BY DEF IInv, KernelView, readRequest
  <2>2. hpc[u] = "none" /\ hdr[u] # NoKind
    BY <2>1 DEF RequestOK
  <2>3. /\ spc' = "got" /\ sbuf' = sbuf /\ content'[sbuf] = u
        /\ hpc' = hpc /\ hdr' = hdr
        /\ kst'[u] \in {"consumed", "taken"}
    BY DEF IInv, readRequest, ServeOwns, TypeOK, KernelType, ServerType
  <2>4. GotIsNew'
    BY <2>2, <2>3 DEF GotIsNew
  <2>5. JunkView'
    BY <2>1, <2>3 DEF IInv, readRequest, JunkView
  <2> QED BY <2>4, <2>5
<1>5. KernelView'
  <2>1. /\ kst[u] = "queued" /\ live /\ UNCHANGED <<hdr, ans, live, hpc>>
        /\ kst' = [kst EXCEPT ![u] = IF hdr[u].op \in OneWayOps THEN "consumed"
                                                               ELSE "taken"]
    BY DEF readRequest
  <2>2. ASSUME NEW v \in Reqs
        PROVE  RequestOK(v)'
    <3>1. RequestOK(v)
      BY DEF IInv, KernelView
    <3>2. kst'[v] = IF v # u THEN kst[v]
                    ELSE IF hdr[u].op \in OneWayOps THEN "consumed" ELSE "taken"
      BY <2>1 DEF IInv, TypeOK, KernelType
    <3>3. hdr'[v] = hdr[v] /\ ans'[v] = ans[v] /\ hpc'[v] = hpc[v]
      BY <2>1
    <3>4. CASE v = u
      BY <2>1, <3>1, <3>2, <3>3, <3>4 DEF RequestOK
    <3>5. CASE v # u
      BY <2>1, <3>1, <3>2, <3>3, <3>5 DEF RequestOK
    <3> QED BY <3>4, <3>5
  <2> QED BY <2>2 DEF KernelView
<1>6. HandlerView'
  BY HandlerFrame, Zenon DEF IInv, readRequest
<1>7. StopView'
  BY StopFrame DEF IInv, readRequest
<1>8. NoLostReply'
  BY DEF IInv, readRequest, NoLostReply, KernelView, RequestOK, TypeOK,
         KernelType, GoroutineType
<1>9. InitView'
  <2>1. UNCHANGED <<hdr, kinit, fsr>> /\ kst[u] = "queued"
    BY Zenon DEF readRequest
  <2>2. \A v \in Reqs : Outstanding(v)' => Outstanding(v)
    BY <2>1 DEF IInv, TypeOK, KernelType, readRequest, Outstanding
  <2> QED BY <2>1, <2>2 DEF IInv, InitView
<1>10. WgCount'
  BY WgFrame DEF IInv, readRequest
<1>11. ReplyIntegrity' /\ NoStrayReply'
  BY RepliesFrame, Zenon DEF IInv, readRequest
<1> QED BY <1>1, <1>2, <1>3, <1>4, <1>5, <1>6, <1>7, <1>8, <1>9, <1>10, <1>11
       DEF IInv

(* readRequest's error returns: Serve gives its buffer back.               *)
LEMMA Step_readRequestFails ==
  ASSUME IInv, NEW pc \in {"check", "returned"},
         NEW res \in {"none", "nil", "canceled", "EBADF", "EOF"},
         sbuf \in Bufs, spc # "check", hpc[Junk] = "none",
         readRequestFails(pc, res),
         tab' = tab, foreign' \subseteq {"read", "write", "close"}
  PROVE  IInv'
<1>1. TypeOK'
  <2>1. KernelType'
    BY DEF IInv, readRequestFails, TypeOK, KernelType, put
  <2>2. ProcessType'
    BY DEF IInv, readRequestFails, TypeOK, ProcessType, put
  <2>3. ServerType'
    BY DEF IInv, readRequestFails, TypeOK, ServerType, put
  <2>4. GoroutineType'
    BY DEF IInv, readRequestFails, TypeOK, GoroutineType, put
  <2> QED BY <2>1, <2>2, <2>3, <2>4 DEF TypeOK
<1>2. Exclusive'
  BY DEF IInv, readRequestFails, Exclusive, Working, TypeOK, ServerType,
         GoroutineType, put
<1>3. ServeOwns' /\ HandlerOwns'
  BY DEF IInv, readRequestFails, ServeOwns, HandlerOwns, Working
<1>4. GotIsNew' /\ JunkView'
  BY DEF IInv, readRequestFails, GotIsNew, JunkView
<1>5. KernelView'
  BY KernelFrame DEF IInv, readRequestFails
<1>6. HandlerView'
  BY DEF IInv, readRequestFails, HandlerView, HandlerOK, TypeOK, KernelType,
         ProcessType, ServerType, GoroutineType, put
<1>7. StopView'
  BY DEF IInv, readRequestFails, StopView, Closing, TypeOK, GoroutineType
<1>8. NoLostReply'
  BY LostFrame, Zenon DEF IInv, readRequestFails
<1>9. InitView'
  BY InitFrame DEF IInv, readRequestFails
<1>10. WgCount'
  BY WgFrame DEF IInv, readRequestFails
<1>11. ReplyIntegrity' /\ NoStrayReply'
  BY RepliesFrame DEF IInv, readRequestFails
<1> QED BY <1>1, <1>2, <1>3, <1>4, <1>5, <1>6, <1>7, <1>8, <1>9, <1>10, <1>11
       DEF IInv

(* While Serve reads it owns a buffer, and no foreign bytes have been      *)
(* read.                                                                   *)
LEMMA ReadingFacts ==
  ASSUME IInv, spc \in {"enter", "reading", "foreign"}
  PROVE  sbuf \in Bufs /\ hpc[Junk] = "none"
BY DEF IInv, ServeOwns, JunkView

(* A read that was interrupted, or that found the connection gone.         *)
LEMMA Step_readRequestEINTR ==
  ASSUME IInv, readRequestEINTR \/ readRequestENODEV
  PROVE  IInv'
<1>1. sbuf \in Bufs /\ hpc[Junk] = "none"
  BY ReadingFacts DEF readRequestEINTR, readRequestENODEV
<1> QED
  BY <1>1, Step_readRequestFails, Zenon
  DEF readRequestEINTR, readRequestENODEV, IInv, TypeOK, GoroutineType,
      ProcessType

(* The read system call's lookup of the number: EBADF, the device or       *)
(* another file.                                                           *)
LEMMA Step_readRequestEnter ==
  ASSUME IInv, readRequestEnter
  PROVE  IInv'
<1>1. sbuf \in Bufs /\ hpc[Junk] = "none"
  BY ReadingFacts DEF readRequestEnter
<1>2. CASE readRequestFails("returned", "EBADF") /\ UNCHANGED procVars
  BY <1>1, <1>2, Step_readRequestFails, Zenon
  DEF readRequestEnter, IInv, TypeOK, GoroutineType, ProcessType
<1>3. CASE ~readRequestFails("returned", "EBADF")
  <2>1. /\ spc = "enter" /\ tab # "free"
        /\ spc' = IF tab = "fuse" THEN "reading" ELSE "foreign"
        /\ UNCHANGED <<kernelVars, procVars, fsr, cfd, ctxDone, flagVars, wg,
                       writeMu, pool, content, sbuf, sfd, sres, handlerVars,
                       stopVars>>
    BY <1>3 DEF readRequestEnter
  <2>2. TypeOK'
    BY <2>1
    DEF IInv, TypeOK, KernelType, ProcessType, ServerType, GoroutineType
  <2>3. Exclusive' /\ ServeOwns' /\ HandlerOwns'
    BY <1>1, <2>1, Zenon DEF IInv, Exclusive, ServeOwns, HandlerOwns
  <2>6. GotIsNew' /\ JunkView'
    BY <1>1, <2>1 DEF IInv, GotIsNew, JunkView
  <2>4. KernelView' /\ HandlerView' /\ StopView' /\ InitView'
    BY <2>1, KernelFrame, HandlerFrame, StopFrame, InitFrame DEF IInv
  <2>5. WgCount' /\ ReplyIntegrity' /\ NoStrayReply' /\ NoLostReply'
    BY <2>1, WgFrame, RepliesFrame, LostFrame DEF IInv
  <2> QED BY <2>2, <2>3, <2>4, <2>5, <2>6 DEF IInv
<1> QED BY <1>2, <1>3 DEF readRequestEnter

(* The bytes of another file are taken for a request.                      *)
ReadsJunk(k) ==
  /\ spc = "foreign" /\ foreign' = foreign \cup {"read"} /\ tab' = tab
  /\ hdr' = [hdr EXCEPT ![Junk] = k]
  /\ content' = [content EXCEPT ![sbuf] = Junk]
  /\ spc' = "got"
  /\ UNCHANGED <<kst, ans, kinit, live, mounted, users, stray, fsr, cfd,
                 ctxDone, flagVars, wg, writeMu, pool, sbuf, sfd, sres,
                 handlerVars, stopVars>>

(* A read from another file whose bytes pass for a request header.         *)
LEMMA Step_ReadsJunk ==
  ASSUME IInv, NEW k \in JunkKinds, ReadsJunk(k)
  PROVE  IInv'
<1>1. TypeOK'
  <2>1. KernelType'
    BY KindsAssumption DEF IInv, ReadsJunk, TypeOK, KernelType
  <2>2. ProcessType'
    BY DEF IInv, ReadsJunk, TypeOK, ProcessType
  <2>3. ServerType'
    BY Zenon DEF IInv, ReadsJunk, TypeOK, ServerType
  <2>4. GoroutineType'
    BY DEF IInv, ReadsJunk, TypeOK, GoroutineType
  <2> QED BY <2>1, <2>2, <2>3, <2>4 DEF TypeOK
<1>2. Exclusive'
  BY Zenon DEF IInv, ReadsJunk, Exclusive
<1>3. ServeOwns' /\ HandlerOwns'
  BY DEF IInv, ReadsJunk, Exclusive, ServeOwns, HandlerOwns, GotIsNew,
         Working, TypeOK, ServerType, GoroutineType
<1>4. GotIsNew' /\ JunkView'
  <2>1. /\ sbuf \in Bufs /\ hpc[Junk] = "none" /\ tab # "fuse"
        /\ content'[sbuf'] = Junk /\ hdr'[Junk] = k /\ k # NoKind
    BY KindsAssumption, KindFacts, Zenon
    DEF IInv, ReadsJunk, ServeOwns, JunkView, TypeOK, KernelType, ServerType
  <2> QED BY <2>1 DEF ReadsJunk, GotIsNew, JunkView
<1>5. KernelView'
  <2>1. \A u \in Reqs : hdr'[u] = hdr[u]
    BY DEF IInv, ReadsJunk, TypeOK, KernelType
  <2> QED BY <2>1, Zenon DEF IInv, ReadsJunk, KernelView, RequestOK
<1>6. HandlerView'
  <2>1. hpc[Junk] = "none" /\ hpc' = hpc /\ fsr' = fsr
    BY Zenon DEF IInv, ReadsJunk, JunkView
  <2>2. ASSUME NEW g \in Gor
        PROVE  HandlerOK(g)'
    <3>1. HandlerOK(g)
      BY DEF IInv, HandlerView
    <3>2. CASE g = Junk
      BY <2>1, <3>1, <3>2 DEF ReadsJunk, HandlerOK
    <3>3. CASE g # Junk
      <4>1. hdr'[g] = hdr[g]
        BY <3>3 DEF ReadsJunk, IInv, TypeOK, KernelType
      <4> QED BY <3>1, <4>1, Zenon DEF ReadsJunk, HandlerOK
    <3> QED BY <3>2, <3>3
  <2> QED BY <2>2 DEF HandlerView
<1>7. StopView'
  BY StopFrame DEF IInv, ReadsJunk
<1>8. NoLostReply'
  BY LostFrame DEF IInv, ReadsJunk
<1>9. InitView'
  <2>1. UNCHANGED <<kst, kinit, fsr>> /\ \A u \in Reqs : hdr'[u] = hdr[u]
    BY DEF IInv, ReadsJunk, TypeOK, KernelType
  <2> QED BY <2>1 DEF IInv, InitView, Outstanding
<1>10. WgCount'
  BY WgFrame DEF IInv, ReadsJunk
<1>11. ReplyIntegrity' /\ NoStrayReply'
  <2>1. UNCHANGED <<ans, fsr, stray>> /\ \A u \in Reqs : hdr'[u] = hdr[u]
    BY DEF IInv, ReadsJunk, TypeOK, KernelType
  <2> QED BY <2>1 DEF IInv, ReplyIntegrity, NoStrayReply
<1> QED BY <1>1, <1>2, <1>3, <1>4, <1>5, <1>6, <1>7, <1>8, <1>9, <1>10, <1>11
       DEF IInv

(* A read from another file, of too few bytes or of enough for a header.   *)
LEMMA Step_readForeign ==
  ASSUME IInv, readForeign
  PROVE  IInv'
<1>1. sbuf \in Bufs /\ hpc[Junk] = "none"
  BY ReadingFacts, Zenon DEF readForeign
<1>2. CASE readRequestFails("returned", "EOF")
  BY <1>1, <1>2, Step_readRequestFails, Zenon
  DEF readForeign, IInv, TypeOK, ProcessType
<1>3. CASE ~readRequestFails("returned", "EOF")
  BY <1>3, Step_ReadsJunk DEF readForeign, ReadsJunk
<1> QED BY <1>2, <1>3

-----------------------------------------------------------------------------
(* The initial state, and the steps that change the wait group *)

(* Only finitely many handler goroutines run, so that s.wg can count them. *)
LEMMA BusyFinite == IsFiniteSet(Busy)
<1>1. IsFiniteSet(Gor)
  BY FiniteAssumption, AddOne
<1> QED BY <1>1, PartSize DEF Busy

(* The state in which Mount returns the server satisfies the invariant.    *)
LEMMA InitIInv == Init => IInv
<1> SUFFICES ASSUME Init PROVE IInv
  OBVIOUS
<1>1. TypeOK
  BY Zenon
     DEF Init, TypeOK, KernelType, ProcessType, ServerType, GoroutineType,
         NoRes, Statuses
<1>2. Exclusive /\ ServeOwns /\ HandlerOwns /\ GotIsNew
  BY DEF Init, Exclusive, ServeOwns, HandlerOwns, GotIsNew, Working
<1>3. KernelView /\ HandlerView /\ InitView
  BY DEF Init, KernelView, RequestOK, HandlerView, HandlerOK, InitView,
         Outstanding, NoKind
<1>4. StopView /\ JunkView
  BY DEF Init, StopView, JunkView
<1>5. WgCount
  <2>1. Busy = {}
    BY DEF Init, Busy
  <2> QED BY <2>1, EmptySize DEF Init, WgCount
<1>6. ReplyIntegrity /\ NoStrayReply /\ NoLostReply
  BY DEF Init, ReplyIntegrity, NoStrayReply, NoLostReply
<1> QED BY <1>1, <1>2, <1>3, <1>4, <1>5, <1>6 DEF IInv

(* The deferred wg.Done: one goroutine less is running, and one less       *)
(* counted.                                                                *)
LEMMA Step_wgDone ==
  ASSUME IInv, NEW g \in Gor, wgDone(g)
  PROVE  IInv'
<1>1. TypeOK'
  <2>1. KernelType'
    BY DEF IInv, wgDone, TypeOK, KernelType
  <2>2. ProcessType'
    BY DEF IInv, wgDone, TypeOK, ProcessType
  <2>3. ServerType'
    <3>1. wg' \in Nat
      <4>1. g \in Busy
        BY DEF wgDone, Busy
      <4>2. /\ Cardinality(Busy \ {g}) = Cardinality(Busy) - 1
            /\ IsFiniteSet(Busy \ {g})
        BY <4>1, BusyFinite, TakeOne
      <4> QED BY <4>2, SizeIsNat DEF IInv, WgCount, wgDone
    <3> QED BY <3>1 DEF IInv, wgDone, TypeOK, ServerType
  <2>4. GoroutineType'
    BY DEF IInv, wgDone, TypeOK, GoroutineType
  <2> QED BY <2>1, <2>2, <2>3, <2>4 DEF TypeOK
<1>2. Exclusive'
  BY DEF IInv, wgDone, Exclusive
<1>3. ServeOwns' /\ HandlerOwns'
  <2>1. /\ hpc[g] = "done" /\ hpc' = [hpc EXCEPT ![g] = "end"]
        /\ content' = content /\ UNCHANGED <<serveVars, hbuf>>
    BY Zenon DEF wgDone
  <2>2. \A h \in Gor : hpc'[h] = IF h = g THEN "end" ELSE hpc[h]
    BY <2>1 DEF IInv, TypeOK, GoroutineType
  <2>3. ServeOwns'
    BY <2>1 DEF IInv, ServeOwns, serveVars
  <2>4. HandlerOwns'
    BY <2>1, <2>2 DEF IInv, HandlerOwns, Working
  <2> QED BY <2>3, <2>4
<1>4. GotIsNew' /\ JunkView'
  BY GotMove, Zenon DEF IInv, wgDone
<1>5. KernelView'
  BY KernelMove, Zenon DEF IInv, wgDone
<1>6. HandlerView'
  <2>1. /\ hpc[g] = "done" /\ hpc' = [hpc EXCEPT ![g] = "end"]
        /\ UNCHANGED <<hdr, fsr, hres, hfd, writeMu, cfd>>
    BY DEF wgDone
  <2> QED BY <2>1, HandlerEnds, Zenon DEF IInv
<1>7. StopView'
  BY StopFrame DEF IInv, wgDone
<1>8. NoLostReply'
  BY LostMove, Zenon DEF IInv, wgDone
<1>9. InitView'
  BY InitFrame DEF IInv, wgDone
<1>10. WgCount'
  <2>1. g \in Busy /\ Busy' = Busy \ {g}
    BY DEF IInv, wgDone, Busy, TypeOK, GoroutineType
  <2>2. Cardinality(Busy') = Cardinality(Busy) - 1
    BY <2>1, BusyFinite, TakeOne, Zenon
  <2> QED BY <2>2 DEF IInv, wgDone, WgCount
<1>11. ReplyIntegrity' /\ NoStrayReply'
  BY RepliesFrame DEF IInv, wgDone
<1> QED BY <1>1, <1>2, <1>3, <1>4, <1>5, <1>6, <1>7, <1>8, <1>9, <1>10, <1>11
       DEF IInv

(* wg.Add(1) and the go statement: the buffer passes from Serve to the     *)
(* handler.                                                                *)
LEMMA Step_ServeSpawn ==
  ASSUME IInv, ServeSpawn
  PROVE  IInv'
<1>1. TypeOK'
  <2>1. KernelType'
    BY DEF IInv, ServeSpawn, TypeOK, KernelType
  <2>2. ProcessType'
    BY DEF IInv, ServeSpawn, TypeOK, ProcessType
  <2>3. ServerType'
    BY DEF IInv, ServeSpawn, TypeOK, ServerType
  <2>4. GoroutineType'
    BY Zenon DEF IInv, ServeSpawn, TypeOK, GoroutineType
  <2> QED BY <2>1, <2>2, <2>3, <2>4 DEF TypeOK
<1>2. Exclusive'
  BY DEF IInv, ServeSpawn, Exclusive
<1>3. ServeOwns' /\ HandlerOwns'
  BY DEF IInv, ServeSpawn, ServeOwns, HandlerOwns, Working, TypeOK, ServerType,
         GoroutineType
<1>4. GotIsNew' /\ JunkView'
  BY DEF IInv, ServeSpawn, GotIsNew, JunkView
<1>5. KernelView'
  <2> DEFINE g == content[sbuf]
  <2>1. g \in Gor /\ hpc[g] = "none"
        /\ (g \in Reqs => kst[g] \notin {"unborn", "queued", "answered"})
    BY Zenon DEF IInv, ServeSpawn, GotIsNew, KernelView, RequestOK
  <2> QED BY <2>1, Zenon
          DEF IInv, ServeSpawn, KernelView, RequestOK, TypeOK, GoroutineType
<1>6. HandlerView'
  <2>1. PICK g \in Gor : /\ hpc[g] = "none" /\ hdr[g] # NoKind
                         /\ hpc' = [hpc EXCEPT ![g] = "dispatch"]
    BY Zenon DEF IInv, ServeSpawn, GotIsNew
  <2>2. HandlerOK(g)'
    <3>1. hpc'[g] = "dispatch"
      BY <2>1 DEF IInv, TypeOK, GoroutineType
    <3> QED BY <2>1, <3>1 DEF IInv, ServeSpawn, HandlerView, HandlerOK
  <2>3. ASSUME NEW h \in Gor, h # g
        PROVE  HandlerOK(h)'
    <3>1. hpc'[h] = hpc[h]
      BY <2>1, <2>3 DEF IInv, TypeOK, GoroutineType
    <3> QED BY <3>1 DEF IInv, ServeSpawn, HandlerView, HandlerOK,
                        CallsFilesystem
  <2> QED BY <2>2, <2>3 DEF HandlerView
<1>7. StopView'
  BY StopFrame DEF IInv, ServeSpawn
<1>8. NoLostReply'
  <2>1. content[sbuf] \in Gor /\ UNCHANGED <<kst, upc>>
        /\ hpc' = [hpc EXCEPT ![content[sbuf]] = "dispatch"]
    BY DEF IInv, ServeSpawn, GotIsNew
  <2> QED BY <2>1, LostMove, Zenon DEF IInv
<1>9. InitView'
  BY InitFrame DEF IInv, ServeSpawn
<1>10. WgCount'
  <2>1. PICK g \in Gor : /\ hpc[g] = "none" /\ wg' = wg + 1
                         /\ hpc' = [hpc EXCEPT ![g] = "dispatch"]
    BY Zenon DEF IInv, ServeSpawn, GotIsNew
  <2>2. \A h \in Gor : hpc'[h] = IF h = g THEN "dispatch" ELSE hpc[h]
    BY <2>1 DEF IInv, TypeOK, GoroutineType
  <2>3. g \notin Busy /\ Busy' = Busy \cup {g}
    BY <2>1, <2>2 DEF Busy
  <2>4. Cardinality(Busy') = Cardinality(Busy) + 1
    BY <2>3, BusyFinite, AddOne
  <2> QED BY <2>1, <2>4 DEF IInv, WgCount
<1>11. ReplyIntegrity' /\ NoStrayReply'
  BY Zenon
     DEF IInv, ServeSpawn, ReplyIntegrity, NoStrayReply, KernelView, RequestOK,
         HandlerView, HandlerOK, TypeOK, KernelType, ProcessType, GoroutineType
<1> QED BY <1>1, <1>2, <1>3, <1>4, <1>5, <1>6, <1>7, <1>8, <1>9, <1>10, <1>11
       DEF IInv

-----------------------------------------------------------------------------
(* The theorems *)

(* Every step of the server and its environment preserves the invariant.   *)
LEMMA Inductive == IInv /\ [Next]_vars => IInv'
<1> SUFFICES ASSUME IInv, [Next]_vars PROVE IInv'
  OBVIOUS
<1>1. CASE UNCHANGED vars
  <2>1. TypeOK'
    <3>1. TypeOK
      BY Zenon DEF IInv
    <3>2. KernelType' /\ ProcessType'
      BY <1>1, <3>1 DEF vars, TypeOK, KernelType, ProcessType
    <3>3. ServerType'
      BY <1>1, <3>1 DEF vars, TypeOK, ServerType
    <3>4. GoroutineType'
      BY <1>1, <3>1 DEF vars, TypeOK, GoroutineType
    <3> QED BY <3>2, <3>3, <3>4, Zenon DEF TypeOK
  <2>2. HandlerView' /\ StopView' /\ JunkView' /\ NoLostReply'
    BY <1>1, Zenon
       DEF IInv, vars, HandlerView, HandlerOK, CallsFilesystem, StopView,
                Closing, JunkView, NoLostReply
  <2> QED BY <1>1, <2>1, <2>2, Frame DEF IInv, vars
<1>2. CASE Kernel
  BY <1>2, Step_Submit, Step_UsersChange, Step_AdminUmount,
     Step_ConnectionEnds, Step_OtherFile DEF Kernel
<1>3. CASE Serve \/ readRequestEINTR
  BY <1>3, Step_ServeCheck, Step_readRequestGet, Step_readRequestEnter,
     Step_readRequestEINTR, Step_readForeign, Step_ServeSpawn, Step_readRequest
  DEF Serve, ReadRequest
<1>4. ASSUME NEW g \in Gor, handler(g) \/ writeResponseLock(g)
      PROVE  IInv'
  BY <1>4, Step_handleRequestAlone, Step_handleRequestCall, Step_results,
     Step_writeResponseLock, Step_writeResponse, Step_release, Step_wgDone
  DEF handler
<1>5. ASSUME NEW k \in Unmounters, Unmount(k)
      PROVE  IInv'
  BY <1>5, Step_UnmountCancel, Step_unmount, Step_close, Step_closeClear
  DEF Unmount
<1>6. ASSUME NEW w \in Waiters, Wait(w)
      PROVE  IInv'
  BY <1>6, Step_Wait
<1> QED BY <1>1, <1>2, <1>3, <1>4, <1>5, <1>6 DEF Next

-----------------------------------------------------------------------------
(* The invariant of the request loop holds in every reachable state.       *)
THEOREM Invariant == Spec => []IInv
BY InitIInv, Inductive, PTL DEF Spec

(* Every variable keeps to its range; in particular wg.Done is never       *)
(* called more often than wg.Add (Serve, src/server.go:99-104).            *)
THEOREM TypeCorrect == Spec => []TypeOK
<1>1. IInv => TypeOK
  BY DEF IInv
<1> QED BY <1>1, Invariant, PTL

(* For any number of requests in flight and any buffers the pool hands     *)
(* out, no two of Serve, the handlers and the pool hold the same buffer.   *)
THEOREM BuffersExclusive == Spec => []Exclusive
<1>1. IInv => Exclusive
  BY DEF IInv
<1> QED BY <1>1, Invariant, PTL

(* The kernel has only the reply the request itself determines, whatever   *)
(* the interleaving of handleRequest goroutines.                           *)
THEOREM RepliesCorrect == Spec => []ReplyIntegrity
<1>1. IInv => ReplyIntegrity
  BY DEF IInv
<1> QED BY <1>1, Invariant, PTL

(* writeResponse sends nothing the kernel is not waiting for.              *)
THEOREM RepliesAwaited == Spec => []NoStrayReply
<1>1. IInv => NoStrayReply
  BY DEF IInv
<1> QED BY <1>1, Invariant, PTL

(* The write error that sendResponse and sendError drop loses a reply only *)
(* once some Unmount has closed the descriptor.                            *)
THEOREM RepliesNotLost == Spec => []NoLostReply
<1>1. IInv => NoLostReply
  BY DEF IInv
<1> QED BY <1>1, Invariant, PTL

(* Which steps move Unmount, Wait and the record of calls on other files.  *)
LEMMA WhoMoves ==
  ASSUME [Next]_vars
  PROVE  /\ upc' = upc \/ \E k \in Unmounters : Unmount(k)
         /\ wpc' = wpc \/ \E w \in Waiters : Wait(w)
         /\ \/ foreign' = foreign \/ readForeign
            \/ \E g \in Gor : writeResponse(g)
            \/ \E k \in Unmounters : close(k)
<1>1. CASE Kernel
  BY <1>1, Zenon
  DEF Kernel, Submit, UsersChange, AdminUmount, ConnectionEnds, OtherFile
<1>2. CASE Serve \/ readRequestEINTR
  BY <1>2, Zenon
  DEF Serve, readRequestEINTR, ServeCheck, readRequestGet, readRequestEnter,
      readRequestENODEV, readForeign, ServeSpawn, ReadRequest, readRequest,
      readRequestFails
<1>3. ASSUME NEW g \in Gor, handler(g) \/ writeResponseLock(g)
      PROVE  /\ upc' = upc /\ wpc' = wpc
             /\ foreign' = foreign \/ writeResponse(g)
  <2>1. CASE handleRequestAlone(g) \/ handleRequestCall(g)
    BY <2>1, Zenon DEF handleRequestAlone, handleRequestCall
  <2>2. CASE handleQueryResult(g) \/ handleForgetResult(g)
    BY <2>2, Zenon DEF handleQueryResult, handleForgetResult, FilesystemReturns
  <2>3. CASE handleInitResult(g) \/ handleDestroyResult(g)
    BY <2>3, Zenon DEF handleInitResult, handleDestroyResult, FilesystemReturns
  <2>4. CASE writeResponseLock(g) \/ writeResponse(g)
    BY <2>4 DEF writeResponseLock, writeResponse
  <2>5. CASE release(g) \/ wgDone(g)
    BY <2>5 DEF release, wgDone
  <2> QED BY <1>3, <2>1, <2>2, <2>3, <2>4, <2>5 DEF handler
<1>4. ASSUME NEW k \in Unmounters, Unmount(k)
      PROVE  wpc' = wpc /\ (foreign' = foreign \/ close(k))
  BY <1>4 DEF Unmount, UnmountCancel, unmount, close, closeClear
<1>5. ASSUME NEW w \in Waiters, Wait(w)
      PROVE  upc' = upc /\ foreign' = foreign
  BY <1>5 DEF Wait
<1>6. CASE UNCHANGED vars
  BY <1>6 DEF vars
<1> QED BY <1>1, <1>2, <1>3, <1>4, <1>5, <1>6 DEF Next

(* The number that c.fd is read, written or closed under means another     *)
(* file only once an Unmount has closed it; closing another file takes two *)
(* Unmounts (connection.close, src/conn.go:71-79).                         *)
THEOREM DamageConfined == Spec => []ForeignOnlyAfterClose
<1>1. Init => ForeignOnlyAfterClose
  BY DEF Init, ForeignOnlyAfterClose
<1>2. IInv /\ ForeignOnlyAfterClose /\ [Next]_vars => ForeignOnlyAfterClose'
  <2> SUFFICES ASSUME IInv, ForeignOnlyAfterClose, [Next]_vars
               PROVE  ForeignOnlyAfterClose'
    OBVIOUS
  <2>1. \A k \in Unmounters : Closing(k) => Closing(k)'
    <3>1. CASE upc' = upc
      BY <3>1 DEF Closing
    <3>2. ASSUME NEW k \in Unmounters, Unmount(k)
          PROVE  \A j \in Unmounters : Closing(j) => Closing(j)'
      BY <3>2, Zenon
         DEF IInv, TypeOK, GoroutineType, Closing, Unmount, UnmountCancel,
                  unmount, close, closeClear
    <3> QED BY <3>1, <3>2, WhoMoves
  <2>2. CASE foreign' = foreign
    <3>1. foreign' # {}
            => \E k \in Unmounters : upc'[k] \in {"clear", "returned"}
      BY <2>1, <2>2 DEF ForeignOnlyAfterClose, Closing
    <3>2. ASSUME "close" \in foreign'
          PROVE  \E j, k \in Unmounters :
                   j # k /\ {upc'[j], upc'[k]} \subseteq {"clear", "returned"}
      <4>1. PICK j, k \in Unmounters :
              j # k /\ {upc[j], upc[k]} \subseteq {"clear", "returned"}
        BY <2>2, <3>2 DEF ForeignOnlyAfterClose
      <4>2. Closing(j)' /\ Closing(k)'
        BY <2>1, <4>1 DEF Closing
      <4> QED BY <4>1, <4>2 DEF Closing
    <3> QED BY <3>1, <3>2, Zenon DEF ForeignOnlyAfterClose
  <2>3. ASSUME tab # "fuse", foreign' \subseteq foreign \cup {"read", "write"}
        PROVE  ForeignOnlyAfterClose'
    <3>1. \E k \in Unmounters : Closing(k)
      BY <2>3 DEF IInv, StopView
    <3> QED BY <2>1, <2>3, <3>1 DEF ForeignOnlyAfterClose, Closing
  <2>4. CASE readForeign
    BY <2>3, <2>4 DEF readForeign, IInv, JunkView
  <2>5. ASSUME NEW g \in Gor, writeResponse(g), foreign' # foreign
        PROVE  ForeignOnlyAfterClose'
    BY <2>3, <2>5 DEF writeResponse
  <2>6. ASSUME NEW k \in Unmounters, close(k), foreign' # foreign
        PROVE  ForeignOnlyAfterClose'
    <3>1. upc[k] = "close" /\ tab = "other" /\ Closing(k)'
      BY <2>6 DEF close, Closing, IInv, TypeOK, GoroutineType
    <3>2. PICK j \in Unmounters : Closing(j)
      BY <3>1 DEF IInv, StopView
    <3>3. j # k /\ Closing(j)'
      BY <2>1, <3>1, <3>2 DEF Closing
    <3> QED BY <3>1, <3>3 DEF ForeignOnlyAfterClose, Closing
  <2> QED BY <2>2, <2>4, <2>5, <2>6, WhoMoves
<1> QED BY <1>1, <1>2, Invariant, PTL DEF Spec

(* Wait, called when Serve has returned, returns only after the last       *)
(* handler goroutine has ended.                                            *)
THEOREM WaitWaits == Spec => WaitDrains
<1> DEFINE Drained ==
             /\ \A g \in Gor : hpc[g] \in {"none", "end"} /\ hbuf[g] = Nobody
             /\ writeMu = Nobody
           Step ==
             \A w \in Waiters :
               wpc[w] = "waiting" /\ wpc'[w] = "returned" /\ spc = "returned"
                 => Drained
<1>1. IInv /\ wg = 0 => Drained
  <2> SUFFICES ASSUME IInv, wg = 0 PROVE Drained
    OBVIOUS
  <2>1. Busy = {}
    BY BusyFinite, EmptySize, Zenon DEF IInv, WgCount
  <2>2. \A g \in Gor : hpc[g] \in {"none", "end"}
    BY <2>1 DEF Busy
  <2>3. \A g \in Gor : hbuf[g] = Nobody
    BY <2>2 DEF IInv, HandlerOwns, Working
  <2>4. writeMu = Nobody
    BY <2>2 DEF IInv, HandlerView, HandlerOK, TypeOK, ServerType
  <2> QED BY <2>2, <2>3, <2>4
<1>2. IInv /\ [Next]_vars => Step
  <2> SUFFICES ASSUME IInv, [Next]_vars, NEW w \in Waiters,
                      wpc[w] = "waiting", wpc'[w] = "returned"
               PROVE  wg = 0
    BY <1>1
  <2>1. wpc' # wpc
    OBVIOUS
  <2>2. \E v \in Waiters : Wait(v)
    BY <2>1, WhoMoves
  <2> QED BY <2>2 DEF Wait, IInv, TypeOK, GoroutineType
<1> QED BY <1>2, Invariant, PTL DEF Spec, WaitDrains

-----------------------------------------------------------------------------
(* FuseServer implements FuseService.                                      *)

(* The service's state, as the implementation holds it.                    *)
Kind == [u \in Reqs |-> hdr[u]]
Called == [u \in Reqs |-> fsr[u]]

(* Steps that leave the requests' kinds, calls and replies alone.          *)
LEMMA Stutter ==
  ASSUME \A u \in Reqs : hdr'[u] = hdr[u] /\ fsr'[u] = fsr[u], ans' = ans
  PROVE  UNCHANGED Service!svars
BY DEF Service!svars

(* The kernel queues a request: the service sees it arrive.                *)
LEMMA Arrives ==
  ASSUME IInv, NEW u \in Reqs, NEW k \in Kinds, Submit(u, k)
  PROVE  Service!Arrive(u)
<1>1. Kind[u] = NoKind
  BY Zenon DEF IInv, KernelView, RequestOK, Submit, Kind
<1>2. Kind' = [Kind EXCEPT ![u] = k] /\ k \in AllKinds
  BY KindsAssumption, Zenon DEF IInv, Submit, Kind, TypeOK, KernelType
<1>3. Called' = Called /\ ans' = ans
  BY Zenon DEF Submit, Called
<1> QED BY <1>1, <1>2, <1>3, SameTables, Zenon DEF Service!Arrive, Kind, Called

(* A handler calls the Filesystem, which has been initialised by then.     *)
LEMMA Calls ==
  ASSUME IInv, NEW g \in Reqs, handleRequestCall(g)
  PROVE  Service!Call(g)
<1>1. /\ content[hbuf[g]] = g /\ hdr[g] \in AllKinds /\ fsr[g] = "no"
      /\ CallsFilesystem(hdr[g])
  BY OwnHeader DEF handleRequestCall
<1>2. Service!Delivered(hdr[g])
  <2>1. hdr[g].op \in QueryOps \cup {"DESTROY", "FORGET"} =>
          hdr[g].op \in HandledOps \ {"FLUSH", "INTERRUPT"} /\ hdr[g].arg = "any"
    BY <1>1, KindFacts
    DEF AllKinds, QueryOps, HandledOps, ForgetOps
  <2> QED BY <1>1, <2>1, OpTables, SameTables, Zenon
          DEF CallsFilesystem, Service!Delivered
<1>3. hdr[g].op # "INIT" => \E v \in Reqs : hdr[v].op = "INIT" /\ fsr[v] = "ok"
  BY <1>1, KindFacts DEF IInv, InitView
<1>4. Called' = [Called EXCEPT ![g] = "in"]
  BY <1>1, Zenon DEF IInv, handleRequestCall, Called, TypeOK, ProcessType
<1>5. Kind' = Kind /\ ans' = ans
  BY DEF handleRequestCall, Kind
<1> QED BY <1>1, <1>2, <1>3, <1>4, <1>5, Zenon DEF Service!Call, Kind, Called

(* The Filesystem's method returns.                                        *)
LEMMA Returns ==
  ASSUME IInv, NEW g \in Reqs, NEW r \in {"ok", "err", "eof"},
         FilesystemReturns(g, r)
  PROVE  Service!Return(g)
<1>1. content[hbuf[g]] = g /\ fsr[g] = "in"
  BY OwnHeader DEF FilesystemReturns
<1>2. Called' = [Called EXCEPT ![g] = r]
  BY <1>1, Zenon DEF IInv, FilesystemReturns, Called, TypeOK, ProcessType
<1>3. Kind' = Kind /\ ans' = ans
  BY DEF FilesystemReturns, Kind
<1> QED BY <1>1, <1>2, <1>3, Zenon
           DEF Service!Return, Service!Results, Kind, Called

(* A write of a response gives the kernel the reply, or changes nothing.   *)
LEMMA Replies ==
  ASSUME IInv, NEW g \in Gor, writeResponse(g)
  PROVE  (g \in Reqs /\ Service!Reply(g)) \/ UNCHANGED Service!svars
<1>1. hdr' = hdr /\ fsr' = fsr
  BY DEF writeResponse
<1>2. CASE ans' = ans
  BY <1>1, <1>2, Stutter
<1>3. CASE ans' # ans
  <2>1. /\ g \in Reqs /\ kst[g] = "taken" /\ hdr[g] \in AllKinds
        /\ ans' = [ans EXCEPT ![g] = hres[g].status]
        /\ hres[g].status = Service!Answer(hdr[g], fsr[g])
        /\ hres[g].status \in Statuses
    BY <1>3, ReplyFacts, Zenon
  <2>2. ans[g] = "none" /\ hdr[g] # NoKind /\ hres[g].status # "none"
    BY <2>1, KindFacts, Zenon DEF IInv, KernelView, RequestOK, Statuses
  <2>3. Kind' = Kind /\ Called' = Called
    BY <1>1, Zenon DEF Kind, Called
  <2> QED BY <2>1, <2>2, <2>3, SameTables, Zenon
             DEF Service!Reply, Kind, Called
<1> QED BY <1>2, <1>3

(* Calls made and results taken by the handler of the bytes of another     *)
(* file, which is no request of the kernel's.                              *)
LEMMA JunkStutters ==
  ASSUME IInv, \/ handleRequestCall(Junk)
               \/ \E r \in {"ok", "err", "eof"} : FilesystemReturns(Junk, r)
  PROVE  UNCHANGED Service!svars
<1>1. content[hbuf[Junk]] = Junk
  BY OwnHeader DEF handleRequestCall, FilesystemReturns
<1> QED BY <1>1, Stutter, Zenon
        DEF IInv, handleRequestCall, FilesystemReturns, TypeOK, ProcessType

(* A handler's step is a step of the service or of no account to it.       *)
LEMMA HandlerSimulates ==
  ASSUME IInv, NEW g \in Gor, handler(g) \/ writeResponseLock(g)
  PROVE  [Service!SNext]_Service!svars
<1>1. CASE \/ handleRequestAlone(g) \/ writeResponseLock(g)
           \/ release(g) \/ wgDone(g)
  BY <1>1, Stutter, Zenon
     DEF handleRequestAlone, writeResponseLock, release, wgDone
<1>2. CASE handleRequestCall(g)
  BY <1>2, Calls, JunkStutters DEF Service!SNext
<1>3. CASE \/ handleQueryResult(g) \/ handleForgetResult(g)
           \/ handleInitResult(g) \/ handleDestroyResult(g)
  <2>1. \E r \in {"ok", "err", "eof"} : FilesystemReturns(g, r)
    BY <1>3, ErrorsAssumption, Zenon DEF handleQueryResult, handleForgetResult,
                                  handleInitResult, handleDestroyResult
  <2> QED BY <2>1, Returns, JunkStutters DEF Service!SNext
<1>4. CASE writeResponse(g)
  BY <1>4, Replies DEF Service!SNext
<1> QED BY <1>1, <1>2, <1>3, <1>4 DEF handler

(* Every step of the server, under the invariant, is a step of the service *)
(* or leaves the service's state unchanged.                                *)
LEMMA Simulates ==
  ASSUME IInv, [Next]_vars
  PROVE  [Service!SNext]_Service!svars
<1>1. CASE UNCHANGED vars
  BY <1>1, Stutter DEF vars
<1>2. CASE Kernel
  <2>1. ASSUME NEW u \in Reqs, NEW k \in Kinds, Submit(u, k)
        PROVE  Service!SNext
    BY <2>1, Arrives DEF Service!SNext
  <2>2. CASE UsersChange \/ AdminUmount \/ ConnectionEnds \/ OtherFile
    BY <2>2, Stutter, Zenon
       DEF UsersChange, AdminUmount, ConnectionEnds, OtherFile
  <2> QED BY <1>2, <2>1, <2>2 DEF Kernel
<1>3. CASE Serve \/ readRequestEINTR
  <2>1. fsr' = fsr /\ ans' = ans /\ \A u \in Reqs : hdr'[u] = hdr[u]
    BY <1>3, Zenon DEF Serve, readRequestEINTR, ServeCheck, readRequestGet,
       readRequestEnter, readRequestENODEV, readForeign, ServeSpawn, ReadRequest,
       readRequest, readRequestFails, IInv, TypeOK, KernelType
  <2> QED BY <2>1, Stutter
<1>4. CASE \E g \in Gor : handler(g) \/ writeResponseLock(g)
  BY <1>4, HandlerSimulates
<1>5. CASE (\E k \in Unmounters : Unmount(k)) \/ (\E w \in Waiters : Wait(w))
  BY <1>5, Stutter, Zenon
     DEF Unmount, UnmountCancel, unmount, close, closeClear, Wait
<1> QED BY <1>1, <1>2, <1>3, <1>4, <1>5 DEF Next

(* The request loop implements the service: for each request at most one   *)
(* call of the Filesystem, never before Init has succeeded, and at most    *)
(* one reply, the right one (handleRequest, src/server.go:108-134).        *)
THEOREM Refinement == Spec => ImplementsService
<1>1. Init => Service!SInit
  BY SameTables DEF Init, Service!SInit
<1>2. IInv /\ [Next]_vars => [Service!SNext]_Service!svars
  BY Simulates
<1> QED BY <1>1, <1>2, Invariant, PTL
        DEF Spec, ImplementsService, Service!SSpec

=============================================================================
