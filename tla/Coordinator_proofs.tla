------------------------- MODULE Coordinator_proofs -------------------------
(***************************************************************************)
(* RemoveWorker, Close and Worker.Close preserve IInv, and what follows    *)
(* from it for any worker processes, PIDs and concurrent calls.            *)
(***************************************************************************)
EXTENDS Coordinator_accept_proofs

USE Names, CallersAssumption

(* Of the calls only k moves; of the Workers only c's fields change.       *)
OnlyCalls(k) ==
  \A j \in Callers : j # k => kpc'[j] = kpc[j] /\ kcur'[j] = kcur[j]
OnlyCloses(c) ==
  \A d \in Clients :
    d # c => /\ sconn'[d] = sconn[d] /\ clone'[d] = clone[d]
             /\ wclosed'[d] = wclosed[d] /\ wfd'[d] = wfd[d]
             /\ closes'[d] = closes[d]

(* What a call leaves alone, variable by variable.                         *)
LEMMA CallKeeps ==
  ASSUME UNCHANGED callFrame
  PROVE  /\ UNCHANGED <<listening, backlog, cconn, reg, chan, cpc, cfd, made>>
         /\ UNCHANGED <<apc, acur>>
BY DEF callFrame, clientVars, acceptVars

(* The sockets and AcceptWorker see nothing of a call that touches only    *)
(* Workers that are made.                                                  *)
LEMMA CallFrame ==
  ASSUME IInv, UNCHANGED callFrame,
         \A d \in Clients : ~made[d] => /\ sconn'[d] = sconn[d]
                                        /\ clone'[d] = clone[d]
                                        /\ closes'[d] = closes[d],
         \A d \in Clients : made[d] => sconn'[d] # "none"
  PROVE  SockView' /\ AcceptView' /\ OneAccepts' /\ ChanView'
<1>1. /\ UNCHANGED <<listening, backlog, cconn, reg, chan, cpc, cfd, made>>
      /\ UNCHANGED <<apc, acur>>
  BY CallKeeps
<1>2. ASSUME NEW d \in Clients
      PROVE  SockOK(d)'
  <2>1. SockOK(d)
    BY DEF IInv, SockView
  <2>2. CASE made[d]
    BY <1>1, <2>1, <2>2 DEF SockOK
  <2>3. CASE ~made[d]
    BY <1>1, <2>1, <2>3 DEF SockOK
  <2> QED BY <2>2, <2>3
<1>3. ASSUME NEW a \in Acceptors
      PROVE  AcceptAt(a)'
  <2>1. AcceptAt(a)
    BY DEF IInv, AcceptView
  <2>2. CASE apc[a] \in {"idle", "accept"}
    BY <1>1, <2>1, <2>2 DEF AcceptAt
  <2>3. CASE apc[a] \notin {"idle", "accept"}
    <3>1. AcceptOK(acur[a], apc[a])
      BY <2>1, <2>3 DEF AcceptAt
    <3>2. AcceptOK(acur[a], apc[a])'
      BY <1>1, <3>1 DEF AcceptOK
    <3> QED BY <1>1, <2>3, <3>2 DEF AcceptAt
  <2> QED BY <2>2, <2>3
<1>4. OneAccepts'
  BY <1>1 DEF IInv, OneAccepts
<1>5. ASSUME NEW d \in Clients
      PROVE  ChanOK(d)'
  <2>1. ChanOK(d) /\ Sent(d)' = Sent(d)
    BY <1>1 DEF IInv, ChanView, Sent
  <2> QED BY <1>1, <2>1 DEF ChanOK
<1> QED BY <1>2, <1>3, <1>4, <1>5 DEF SockView, AcceptView, ChanView

(* Goroutine k moves, and takes Workers out of the map at most.            *)
LEMMA MoveFrame ==
  ASSUME IInv, UNCHANGED callFrame,
         UNCHANGED <<sconn, clone, wclosed, wfd, closes>>,
         NEW k \in Callers, CallOK(k)',
         OnlyCalls(k),
         \A d \in held' : d \in held \/ made[d],
         \A p \in Pids : workers'[p] \in {workers[p], Nobody}
  PROVE  /\ SockView' /\ AcceptView' /\ OneAccepts' /\ ChanView' /\ MadeView'
         /\ MapView' /\ CallView'
<1>1. SockView' /\ AcceptView' /\ OneAccepts' /\ ChanView'
  <2>1. \A d \in Clients : made[d] => sconn[d] # "none"
    BY DEF IInv, SockView, SockOK
  <2> QED BY <2>1, CallFrame
<1>2. UNCHANGED <<reg, made, acur>>
  BY CallKeeps
<1>3. ASSUME NEW d \in Clients
      PROVE  MadeOK(d)'
  <2>1. MadeOK(d) /\ InAccept(d)' = InAccept(d)
    BY <1>2 DEF IInv, MadeView, InAccept
  <2> QED BY <1>2, <2>1 DEF MadeOK
<1>4. MapView'
  BY <1>2 DEF IInv, MapView
<1>5. ASSUME NEW j \in Callers, j # k
      PROVE  CallOK(j)'
  <2>1. CallOK(j) /\ kpc'[j] = kpc[j] /\ kcur'[j] = kcur[j]
    BY <1>5 DEF IInv, CallView, OnlyCalls
  <2> QED BY <1>2, <2>1 DEF CallOK
<1> QED BY <1>1, <1>3, <1>4, <1>5 DEF MadeView, CallView

(* A goroutine that closes no Worker yet is no Worker's owner.             *)
LEMMA AtKept ==
  ASSUME IInv, NEW k \in Callers, kcur[k] = Nobody,
         OnlyCalls(k),
         NEW d \in Clients
  PROVE  /\ At(d, {"check", "set"}) => At(d, {"check", "set"})'
         /\ At(d, {"conn"}) => At(d, {"conn"})'
         /\ At(d, {"conn", "fd"}) => At(d, {"conn", "fd"})'
BY DEF At, OnlyCalls

(* Every open Worker keeps an owner when the map loses only closed Workers *)
(* or the one that k is about to close.                                    *)
LEMMA OwnerMove ==
  ASSUME IInv, NEW k \in Callers, kcur[k] = Nobody,
         OnlyCalls(k),
         UNCHANGED <<sconn, clone, wclosed, made, reg>>,
         \A d \in Clients :
           \/ InMap(d) => InMap(d)' \/ wclosed[d]
           \/ kcur'[k] = d /\ kpc'[k] = "check"
  PROVE  OwnerView'
<1> SUFFICES ASSUME NEW d \in Clients, made[d] PROVE OwnerOK(d)'
  BY DEF OwnerView, OwnerOK
<1>1. OwnerOK(d)
  BY DEF IInv, OwnerView
<1>2. Overwritten(d)' = Overwritten(d)
  BY DEF Overwritten
<1>3. kcur'[k] = d /\ kpc'[k] = "check" => At(d, {"check", "set"})'
  BY DEF At
<1> QED BY <1>1, <1>2, <1>3, AtKept DEF OwnerOK

(* A goroutine j keeps its Worker to itself when k takes another one.      *)
LEMMA SoleOther ==
  ASSUME IInv, NEW k \in Callers, NEW j \in Callers, j # k, OnlyCalls(k),
         UNCHANGED <<wclosed, closes>>, held \subseteq held',
         \A d \in Clients : InMap(d)' => InMap(d),
         kcur[j] \in Clients \ held' => kcur'[k] # kcur[j]
  PROVE  SoleOK(j)'
<1>1. SoleOK(j) /\ CallOK(j) /\ kpc'[j] = kpc[j] /\ kcur'[j] = kcur[j]
  BY DEF IInv, SoleView, CallView, OnlyCalls
<1> SUFFICES ASSUME kpc[j] \in Closing, kcur[j] \notin held'
             PROVE  SoleOK(j)'
  BY <1>1 DEF SoleOK
<1>2. /\ kcur[j] \in Clients /\ kcur'[k] # kcur[j]
      /\ \A i \in Callers : kcur[i] = kcur[j] => i = j
      /\ j \notin Closers => ~InMap(kcur[j])
      /\ kpc[j] \in {"check", "set"} => ~wclosed[kcur[j]]
      /\ kpc[j] \in {"conn", "fd"} => closes[kcur[j]] = 0
  BY <1>1 DEF SoleOK, CallOK
<1>3. ASSUME NEW i \in Callers, kcur'[i] = kcur[j]
      PROVE  i = j
  <2>1. i # k
    BY <1>2, <1>3
  <2> QED BY <1>2, <1>3, <2>1 DEF OnlyCalls
<1>4. PICK d \in Clients : d = kcur[j]
  BY <1>2
<1>5. j \notin Closers => ~InMap(d)'
  BY <1>2, <1>4
<1>6. kcur'[j] = d
  BY <1>1, <1>4
<1> QED BY <1>1, <1>2, <1>3, <1>4, <1>5, <1>6 DEF SoleOK

-----------------------------------------------------------------------------
(* RemoveWorker, Close and the owner of a Worker *)

(* Who closes the Worker in the map, when workersMu is free or k's.        *)
LEMMA NobodyElse ==
  ASSUME IInv, NEW k \in Callers, workersMu \in {Nobody, k},
         NEW c \in Clients, InMap(c), c \notin held,
         NEW j \in Callers \ {k}
  PROVE  kcur[j] # c
<1> SUFFICES ASSUME kcur[j] = c PROVE FALSE
  OBVIOUS
<1>1. kpc[j] \in Closing
  BY DEF IInv, CallView, CallOK
<1>2. j \in Closers
  BY <1>1 DEF IInv, SoleView, SoleOK
<1>3. workersMu = j
  BY <1>1, <1>2 DEF IInv, LockView
<1> QED BY <1>2, <1>3 DEF Callers

(* RemoveWorker has taken the Worker out of the map; nobody else closes it *)
(* unless its owner does.                                                  *)
LEMMA Step_RemoveWorker ==
  ASSUME IInv, NEW k \in Removers, NEW p \in Pids, RemoveWorker(k, p)
  PROVE  IInv'
<1>1. k \in Callers /\ k \notin Closers
  BY DEF Callers
<1>2. PICK c \in Clients : c = workers[p]
  BY DEF RemoveWorker, IInv, TypeOK, WorkerType
<1>3. /\ kpc[k] = "start" /\ workersMu = Nobody
      /\ workers' = [workers EXCEPT ![p] = Nobody]
      /\ kcur' = [kcur EXCEPT ![k] = c] /\ kpc' = [kpc EXCEPT ![k] = "check"]
      /\ UNCHANGED <<callFrame, held, sconn, closed, workersMu, clone, wclosed,
                     wfd, closes>>
  BY <1>2 DEF RemoveWorker, Goto
<1>4. /\ workers'[p] = Nobody /\ kcur'[k] = c /\ kpc'[k] = "check"
      /\ \A q \in Pids \ {p} : workers'[q] = workers[q]
      /\ OnlyCalls(k)
  BY <1>1, <1>3 DEF IInv, TypeOK, WorkerType, GoroutineType, OnlyCalls
<1>5. TypeOK'
  <2>1. SocketType' /\ ProcessType'
    BY <1>3 DEF IInv, TypeOK, SocketType, ProcessType, callFrame, clientVars
  <2>2. WorkerType'
    BY <1>3 DEF IInv, TypeOK, WorkerType, callFrame
  <2>3. GoroutineType'
    BY <1>3, Zenon DEF IInv, TypeOK, GoroutineType, callFrame, acceptVars
  <2> QED BY <2>1, <2>2, <2>3 DEF TypeOK
<1>6. kcur[k] = Nobody
  BY <1>1, <1>3 DEF IInv, CallView, CallOK, Closing
<1>7. made[c] /\ reg[c] = p /\ InMap(c)
  BY <1>2 DEF IInv, MapView, InMap
<1>8. ~InMap(c)'
  BY <1>2, <1>4 DEF InMap, IInv, MapView
<1>9. \A d \in Clients : InMap(d)' => InMap(d)
  BY <1>4 DEF InMap
<1>10. CallOK(k)'
  BY <1>3, <1>4, <1>7 DEF CallOK, Closing, callFrame
<1>11. /\ SockView' /\ AcceptView' /\ OneAccepts' /\ ChanView' /\ MadeView'
       /\ MapView' /\ CallView'
  BY <1>1, <1>3, <1>4, <1>10, MoveFrame
<1>12. OwnerView'
  <2>1. \A d \in Clients \ {c} : InMap(d) => InMap(d)'
    BY <1>2, <1>4 DEF InMap
  <2> QED BY <1>1, <1>3, <1>4, <1>6, <2>1, OwnerMove DEF callFrame
<1>13. LockView'
  BY <1>1, <1>3, <1>4 DEF IInv, LockView, Closing, OnlyCalls
<1>14. OnceView'
  BY <1>3, <1>9 DEF IInv, OnceView, OnceOK, callFrame
<1>15. c \notin held => ~wclosed[c]
  BY <1>3, <1>7 DEF IInv, OnceView, OnceOK
<1>16. c \notin held => \A j \in Callers \ {k} : kcur[j] # c
  BY <1>1, <1>3, <1>7, NobodyElse
<1>17. SoleView'
  <2>1. SoleOK(k)'
    <3>1. c \notin held => \A j \in Callers : kcur'[j] = c => j = k
      BY <1>4, <1>16 DEF OnlyCalls
    <3>2. /\ kcur'[k] = c /\ kpc'[k] = "check" /\ held' = held
          /\ wclosed' = wclosed
      BY <1>3, <1>4
    <3> QED BY <1>8, <1>15, <3>1, <3>2 DEF SoleOK
  <2>2. ASSUME NEW j \in Callers \ {k}
        PROVE  SoleOK(j)'
    BY <1>1, <1>3, <1>4, <1>9, <1>16, SoleOther
  <2> QED BY <2>1, <2>2 DEF SoleView
<1> QED BY <1>5, <1>11, <1>12, <1>13, <1>14, <1>17 DEF IInv

(* An owner begins to close its Worker, which loses the promise.           *)
LEMMA Step_CloseHeld ==
  ASSUME IInv, NEW k \in Holders, NEW c \in Clients, CloseHeld(k, c)
  PROVE  IInv'
<1>1. k \in Callers /\ k \notin Closers
  BY DEF Callers
<1>2. /\ kpc[k] = "start" /\ made[c] /\ held' = held \cup {c}
      /\ kcur' = [kcur EXCEPT ![k] = c] /\ kpc' = [kpc EXCEPT ![k] = "check"]
      /\ UNCHANGED <<callFrame, sconn, coordVars, clone, wclosed, wfd, closes>>
  BY DEF CloseHeld
<1>3. /\ kcur'[k] = c /\ kpc'[k] = "check"
      /\ OnlyCalls(k)
  BY <1>1, <1>2 DEF IInv, TypeOK, GoroutineType, OnlyCalls
<1> USE DEF coordVars
<1>4. TypeOK'
  <2>1. SocketType' /\ ProcessType'
    BY <1>2 DEF IInv, TypeOK, SocketType, ProcessType, callFrame, clientVars
  <2>2. WorkerType'
    BY <1>2 DEF IInv, TypeOK, WorkerType, callFrame
  <2>3. GoroutineType'
    BY <1>2, Zenon DEF IInv, TypeOK, GoroutineType, callFrame, acceptVars
  <2> QED BY <2>1, <2>2, <2>3 DEF TypeOK
<1>5. kcur[k] = Nobody
  BY <1>1, <1>2 DEF IInv, CallView, CallOK, Closing
<1>6. CallOK(k)'
  BY <1>2, <1>3 DEF CallOK, Closing, callFrame
<1>7. /\ SockView' /\ AcceptView' /\ OneAccepts' /\ ChanView' /\ MadeView'
      /\ MapView' /\ CallView'
  BY <1>1, <1>2, <1>3, <1>6, MoveFrame
<1>8. \A d \in Clients : InMap(d)' = InMap(d)
  BY <1>2 DEF InMap
<1>9. OwnerView'
  BY <1>1, <1>2, <1>3, <1>5, <1>8, OwnerMove DEF callFrame
<1>10. LockView'
  BY <1>1, <1>2, <1>3 DEF IInv, LockView, Closing, OnlyCalls
<1>11. OnceView'
  BY <1>2, <1>8 DEF IInv, OnceView, OnceOK, callFrame
<1>12. SoleView'
  <2>1. SoleOK(k)'
    <3>1. kcur'[k] \in held'
      BY <1>2, <1>3
    <3> QED BY <3>1 DEF SoleOK
  <2>2. ASSUME NEW j \in Callers \ {k}
        PROVE  SoleOK(j)'
    BY <1>1, <1>2, <1>3, <1>8, SoleOther
  <2> QED BY <2>1, <2>2 DEF SoleView
<1> QED BY <1>4, <1>7, <1>9, <1>10, <1>11, <1>12 DEF IInv

(* Close, which closes no Worker at the time, moves on.  Workers leave the *)
(* map only when they are closed.                                          *)
LEMMA CloseMoves ==
  ASSUME IInv, NEW k \in Closers, kcur[k] = Nobody,
         NEW pc \in {"lock", "sweep", "check", "listener"},
         kpc' = [kpc EXCEPT ![k] = pc],
         NEW c \in Clients \cup {Nobody}, kcur' = [kcur EXCEPT ![k] = c],
         pc = "check" => c \in Clients /\ InMap(c) /\ ~wclosed[c],
         pc # "check" => c = Nobody,
         closed' \in BOOLEAN,
         UNCHANGED <<callFrame, held, sconn, clone, wclosed, wfd, closes>>,
         workersMu' \in {workersMu, k, Nobody},
         workersMu' = k <=> pc \in {"check", "sweep"},
         workersMu \in {Nobody, k} \/ workersMu' = workersMu,
         \/ workers' = workers /\ (workersMu # Nobody => workersMu' # Nobody)
         \/ /\ workers' = [p \in Pids |-> Nobody]
            /\ \A d \in Clients : InMap(d) => wclosed[d]
  PROVE  IInv'
<1>1. k \in Callers
  BY DEF Callers
<1>2. /\ kcur'[k] = c /\ kpc'[k] = pc
      /\ OnlyCalls(k)
  BY <1>1 DEF IInv, TypeOK, GoroutineType, OnlyCalls
<1>3. TypeOK'
  <2>1. SocketType' /\ ProcessType'
    BY DEF IInv, TypeOK, SocketType, ProcessType, callFrame, clientVars
  <2>2. WorkerType'
    BY DEF IInv, TypeOK, WorkerType, callFrame
  <2>3. GoroutineType'
    BY Zenon DEF IInv, TypeOK, GoroutineType, callFrame, acceptVars
  <2> QED BY <2>1, <2>2, <2>3 DEF TypeOK
<1>4. CallOK(k)'
  <2>1. pc = "check" => made[c]
    BY DEF InMap, IInv, MapView
  <2> QED BY <1>2, <2>1 DEF CallOK, Closing, callFrame
<1>5. /\ SockView' /\ AcceptView' /\ OneAccepts' /\ ChanView' /\ MadeView'
      /\ MapView' /\ CallView'
  <2>1. \A p \in Pids : workers'[p] \in {workers[p], Nobody}
    OBVIOUS
  <2> QED BY <1>1, <1>2, <1>4, <2>1, MoveFrame
<1>6. \A d \in Clients : InMap(d)' => InMap(d) /\ workers' = workers
  BY DEF InMap
<1>7. \A d \in Clients : InMap(d) => InMap(d)' \/ wclosed[d]
  BY DEF InMap
<1>8. OwnerView'
  BY <1>1, <1>2, <1>7, OwnerMove DEF callFrame
<1>9. LockView'
  <2>1. ASSUME NEW j \in Callers \ {k}, j \in Closers
        PROVE  workersMu' = j <=> workersMu = j
    BY <2>1
  <2> QED BY <1>1, <1>2, <2>1 DEF IInv, LockView, Closing, OnlyCalls
<1>10. OnceView'
  <2>1. \A d \in Clients :
          InMap(d)' /\ workersMu # Nobody => workersMu' # Nobody
    BY <1>6 DEF InMap
  <2> QED BY <1>6, <2>1 DEF IInv, OnceView, OnceOK, callFrame
<1>11. SoleView'
  <2>1. ASSUME pc = "check", c \notin held, NEW j \in Callers \ {k}
        PROVE  kcur[j] # c
    BY <1>1, <2>1, NobodyElse
  <2>2. SoleOK(k)'
    <3>1. CASE pc # "check"
      BY <1>2, <3>1 DEF SoleOK, Closing
    <3>2. CASE pc = "check"
      <4>1. c \notin held => \A j \in Callers : kcur'[j] = c => j = k
        BY <1>2, <2>1, <3>2 DEF OnlyCalls
      <4>2. ~wclosed'[c] /\ held' = held
        BY <3>2
      <4> QED BY <1>2, <3>2, <4>1, <4>2 DEF SoleOK
    <3> QED BY <3>1, <3>2
  <2>3. ASSUME NEW j \in Callers \ {k}
        PROVE  SoleOK(j)'
    <3>1. kcur[j] \in Clients \ held' => kcur'[k] # kcur[j]
      BY <1>2, <2>1
    <3> QED BY <1>1, <1>2, <1>6, <3>1, SoleOther
  <2> QED BY <2>2, <2>3 DEF SoleView
<1> QED BY <1>3, <1>5, <1>8, <1>9, <1>10, <1>11 DEF IInv

(* A goroutine that is not in Worker.Close has no Worker.                  *)
LEMMA Idle ==
  ASSUME IInv, NEW k \in Callers, kpc[k] \notin Closing
  PROVE  kcur[k] = Nobody /\ kcur = [kcur EXCEPT ![k] = Nobody]
BY DEF IInv, CallView, CallOK, TypeOK, GoroutineType

(* Close before, during and after the sweep of the map.                    *)
LEMMA Step_CloseSetClosed ==
  ASSUME IInv, NEW k \in Closers, CloseSetClosed(k)
  PROVE  IInv'
<1>1. k \in Callers /\ kpc[k] = "start"
  BY DEF Callers, CloseSetClosed
<1>2. kcur[k] = Nobody /\ kcur = [kcur EXCEPT ![k] = Nobody]
  BY <1>1, Idle DEF Closing
<1>3. workersMu # k
  BY <1>1 DEF IInv, LockView, Closing
<1>4. "lock" \in {"lock", "sweep", "check", "listener"}
  OBVIOUS
<1>5. /\ kpc' = [kpc EXCEPT ![k] = "lock"] /\ closed' = TRUE
      /\ UNCHANGED <<callFrame, held, sconn, workers, workersMu, clone,
                     wclosed, wfd, closes, kcur>>
  BY DEF CloseSetClosed, Goto
<1> QED BY <1>2, <1>3, <1>4, <1>5, CloseMoves, Zenon

(* Close has workersMu.                                                    *)
LEMMA Step_CloseLock ==
  ASSUME IInv, NEW k \in Closers, CloseLock(k)
  PROVE  IInv'
<1>1. k \in Callers /\ kpc[k] = "lock"
  BY DEF Callers, CloseLock
<1>2. kcur[k] = Nobody /\ kcur = [kcur EXCEPT ![k] = Nobody]
  BY <1>1, Idle DEF Closing
<1>3. "sweep" \in {"lock", "sweep", "check", "listener"} /\ k # Nobody
  BY <1>1
<1>4. /\ kpc' = [kpc EXCEPT ![k] = "sweep"] /\ workersMu = Nobody
      /\ workersMu' = k
      /\ UNCHANGED <<callFrame, held, sconn, closed, workers, clone, wclosed,
                     wfd, closes, kcur>>
  BY DEF CloseLock, Goto
<1>5. closed' \in BOOLEAN
  BY <1>4 DEF IInv, TypeOK, WorkerType
<1> QED BY <1>2, <1>3, <1>4, <1>5, CloseMoves, Zenon

(* Close takes the next Worker, or leaves an empty map.                    *)
LEMMA Step_CloseSweep ==
  ASSUME IInv, NEW k \in Closers, CloseSweep(k)
  PROVE  IInv'
<1>1. k \in Callers /\ kpc[k] = "sweep" /\ k # Nobody
  BY DEF Callers, CloseSweep
<1>2. kcur[k] = Nobody /\ kcur = [kcur EXCEPT ![k] = Nobody]
  BY <1>1, Idle DEF Closing
<1>3. workersMu = k
  BY <1>1 DEF IInv, LockView
<1>4. closed' \in BOOLEAN /\ closed' = closed
  BY DEF IInv, TypeOK, WorkerType, CloseSweep
<1>5. UNCHANGED <<callFrame, held, sconn, clone, wclosed, wfd, closes>>
  BY DEF CloseSweep, Goto
<1>6. ASSUME NEW c \in Clients, ~wclosed[c], InMap(c),
             kcur' = [kcur EXCEPT ![k] = c],
             kpc' = [kpc EXCEPT ![k] = "check"],
             UNCHANGED <<workers, workersMu>>
      PROVE  IInv'
  <2>1. "check" \in {"lock", "sweep", "check", "listener"}
    OBVIOUS
  <2> QED BY <1>1, <1>2, <1>3, <1>4, <1>5, <1>6, <2>1, CloseMoves, Zenon
<1>7. ASSUME \A c \in Clients : InMap(c) => wclosed[c],
             workers' = [p \in Pids |-> Nobody], workersMu' = Nobody,
             kpc' = [kpc EXCEPT ![k] = "listener"], kcur' = kcur
      PROVE  IInv'
  <2>1. "listener" \in {"lock", "sweep", "check", "listener"}
    OBVIOUS
  <2> QED BY <1>1, <1>2, <1>3, <1>4, <1>5, <1>7, <2>1, CloseMoves, Zenon
<1> QED BY <1>6, <1>7 DEF CloseSweep, Goto

(* The listener goes, and with it the connections not accepted: none of    *)
(* them has a Worker.                                                      *)
LEMMA Step_CloseListener ==
  ASSUME IInv, NEW k \in Closers, CloseListener(k)
  PROVE  IInv'
<1>1. k \in Callers /\ kpc[k] = "listener"
  BY DEF Callers, CloseListener
<1>2. /\ listening' = FALSE /\ backlog' = {}
      /\ kpc' = [kpc EXCEPT ![k] = "returned"]
      /\ UNCHANGED <<cconn, reg, chan, clientVars, coordVars, workerVars,
                     acceptVars, kcur>>
  BY DEF CloseListener
<1>3. /\ sconn' \in [Clients -> {"none", "open", "closed"}]
      /\ \A d \in Clients : d \notin backlog => sconn'[d] = sconn[d]
      /\ \A d \in backlog : sconn'[d] = "closed"
  BY DEF CloseListener, IInv, TypeOK, SocketType
<1>4. /\ UNCHANGED <<cconn, reg, chan, cpc, cfd, closed, workers, workersMu,
                     clone, made>>
      /\ UNCHANGED <<wclosed, wfd, closes, held, apc, acur, kcur>>
  BY <1>2 DEF coordVars, workerVars, clientVars, acceptVars
<1>5. kpc'[k] = "returned" /\ OnlyCalls(k)
  BY <1>1, <1>2 DEF IInv, TypeOK, GoroutineType, OnlyCalls
<1>6. kcur[k] = Nobody
  BY <1>1, Idle DEF Closing
<1>7. TypeOK'
  <2>1. SocketType' /\ ProcessType'
    BY <1>2, <1>3, <1>4, Zenon DEF IInv, TypeOK, SocketType, ProcessType
  <2>2. WorkerType'
    BY <1>4 DEF IInv, TypeOK, WorkerType
  <2>3. GoroutineType'
    BY <1>2, <1>4, Zenon DEF IInv, TypeOK, GoroutineType
  <2> QED BY <2>1, <2>2, <2>3 DEF TypeOK
<1>8. \A d \in backlog : d \in Clients /\ sconn[d] = "none" /\ ~made[d]
  BY DEF IInv, SockView, SockOK, TypeOK, SocketType
<1>9. ASSUME NEW d \in Clients
      PROVE  SockOK(d)'
  <2>1. SockOK(d)
    BY DEF IInv, SockView
  <2> QED BY <1>2, <1>3, <1>4, <2>1, Zenon DEF SockOK
<1>10. ASSUME NEW a \in Acceptors
       PROVE  AcceptAt(a)'
  <2>1. AcceptAt(a)
    BY DEF IInv, AcceptView
  <2>2. CASE apc[a] \in {"idle", "accept"}
    BY <1>4, <2>1, <2>2 DEF AcceptAt
  <2>3. CASE apc[a] \notin {"idle", "accept"}
    <3>1. AcceptOK(acur[a], apc[a])
      BY <2>1, <2>3 DEF AcceptAt
    <3>2. acur[a] \in Clients /\ acur[a] \notin backlog
      BY <1>8, <3>1 DEF AcceptOK
    <3>3. AcceptOK(acur[a], apc[a])'
      BY <1>3, <1>4, <3>1, <3>2, Zenon DEF AcceptOK
    <3> QED BY <1>4, <2>3, <3>3 DEF AcceptAt
  <2> QED BY <2>2, <2>3
<1>11. OneAccepts' /\ MapView'
  BY <1>4, Zenon DEF IInv, OneAccepts, MapView
<1>12. ASSUME NEW d \in Clients
       PROVE  ChanOK(d)' /\ MadeOK(d)'
  <2>1. ChanOK(d) /\ MadeOK(d)
    BY DEF IInv, ChanView, MadeView
  <2>2. Sent(d)' = Sent(d) /\ InAccept(d)' = InAccept(d)
    BY <1>4 DEF Sent, InAccept
  <2>3. ChanOK(d)'
    BY <1>4, <2>1, <2>2 DEF ChanOK
  <2>4. MadeOK(d)'
    BY <1>3, <1>4, <2>1, <2>2, Zenon DEF MadeOK
  <2> QED BY <2>3, <2>4
<1>13. LockView'
  BY <1>1, <1>4, <1>5 DEF IInv, LockView, Closing, OnlyCalls
<1>14. ASSUME NEW j \in Callers
       PROVE  CallOK(j)'
  <2>1. CallOK(j)
    BY DEF IInv, CallView
  <2>2. CASE j = k
    BY <1>4, <1>5, <1>6, <2>2 DEF CallOK, Closing
  <2>3. CASE j # k
    BY <1>4, <1>5, <2>1, <2>3 DEF CallOK, OnlyCalls
  <2> QED BY <2>2, <2>3
<1>15. \A d \in Clients : InMap(d)' = InMap(d)
  BY <1>4 DEF InMap
<1>16. ASSUME NEW d \in Clients, made[d]
       PROVE  OwnerOK(d)'
  <2>1. OwnerOK(d) /\ sconn'[d] = sconn[d]
    BY <1>3, <1>8, <1>16 DEF IInv, OwnerView
  <2>2. Overwritten(d)' = Overwritten(d)
    BY <1>4 DEF Overwritten
  <2>3. /\ At(d, {"check", "set"}) => At(d, {"check", "set"})'
        /\ At(d, {"conn"}) => At(d, {"conn"})'
        /\ At(d, {"conn", "fd"}) => At(d, {"conn", "fd"})'
    BY <1>1, <1>5, <1>6, AtKept
  <2> QED BY <1>4, <1>15, <2>1, <2>2, <2>3 DEF OwnerOK
<1>17. OwnerView'
  BY <1>4, <1>16 DEF OwnerView, OwnerOK
<1>18. ASSUME NEW d \in Clients
       PROVE  OnceOK(d)'
  <2>1. OnceOK(d)
    BY DEF IInv, OnceView
  <2> QED BY <1>4, <1>15, <2>1 DEF OnceOK
<1>19. ASSUME NEW j \in Callers
       PROVE  SoleOK(j)'
  <2>1. CASE j = k
    BY <1>5, <2>1 DEF SoleOK, Closing
  <2>2. CASE j # k
    BY <1>1, <1>4, <1>5, <1>6, <1>15, <2>2, SoleOther
  <2> QED BY <2>1, <2>2
<1>20. /\ SockView' /\ AcceptView' /\ ChanView' /\ MadeView' /\ CallView'
       /\ OnceView' /\ SoleView'
  BY <1>9, <1>10, <1>12, <1>14, <1>18, <1>19
  DEF SockView, AcceptView, ChanView, MadeView, CallView, OnceView, SoleView
<1> QED BY <1>7, <1>11, <1>13, <1>17, <1>20 DEF IInv

-----------------------------------------------------------------------------
(* Worker.Close *)

(* What a goroutine in Worker.Close and its Worker are.                    *)
LEMMA CloseKnows ==
  ASSUME IInv, NEW k \in Callers, kpc[k] \in Closing
  PROVE  /\ kcur[k] \in Clients /\ made[kcur[k]] /\ CallOK(k) /\ SoleOK(k)
         /\ MadeOK(kcur[k]) /\ OwnerOK(kcur[k]) /\ OnceOK(kcur[k])
         /\ sconn[kcur[k]] # "none"
<1>1. kcur[k] \in Clients /\ made[kcur[k]] /\ CallOK(k) /\ SoleOK(k)
  BY DEF IInv, CallView, CallOK, SoleView
<1> QED BY <1>1 DEF IInv, MadeView, OwnerView, OnceView, SockView, SockOK

(* Goroutine k goes on in Worker.Close of c, or ends it.                   *)
Stays(k, c) ==
  \/ kpc'[k] \in Closing /\ kcur'[k] = c
  \/ /\ kpc'[k] = IF k \in Closers THEN "sweep" ELSE "returned"
     /\ kcur'[k] = Nobody

(* The other goroutines in Worker.Close, of c or of another Worker.        *)
LEMMA CloseOthers ==
  ASSUME IInv, NEW k \in Callers, NEW c \in Clients, kcur[k] = c,
         kpc[k] \in Closing, UNCHANGED <<made, held, workers>>,
         OnlyCalls(k), OnlyCloses(c), Stays(k, c),
         wclosed[c] => wclosed'[c],
         clone[c] = "closed" => clone'[c] = "closed",
         NEW j \in Callers, j # k
  PROVE  CallOK(j)' /\ SoleOK(j)'
<1>1. CallOK(j) /\ SoleOK(j) /\ SoleOK(k)
  BY Zenon DEF IInv, CallView, SoleView
<1>2. kpc'[j] = kpc[j] /\ kcur'[j] = kcur[j]
  BY Zenon DEF OnlyCalls
<1>3. CASE kpc[j] \notin Closing
  BY <1>1, <1>2, <1>3, Zenon DEF CallOK, SoleOK
<1>4. CASE kpc[j] \in Closing
  <2>1. PICK d \in Clients : d = kcur[j]
    BY <1>1, <1>4 DEF CallOK
  <2>2. /\ made[d] /\ (kpc[j] \in {"conn", "fd", "clear"} => wclosed[d])
        /\ kpc[j] = "clear" => clone[d] = "closed"
    BY <1>1, <1>4, <2>1 DEF CallOK
  <2>3. CASE d = c
    <3>1. CallOK(j)'
      BY <1>2, <1>4, <2>1, <2>2, <2>3, Zenon DEF CallOK
    <3>2. c \in held
      BY <1>1, <2>1, <2>3, Zenon DEF SoleOK
    <3> QED BY <1>2, <2>1, <2>3, <3>1, <3>2 DEF SoleOK
  <2>4. CASE d # c
    <3>1. /\ clone'[d] = clone[d] /\ wclosed'[d] = wclosed[d]
          /\ closes'[d] = closes[d]
      BY <2>4, Zenon DEF OnlyCloses
    <3>2. CallOK(j)'
      BY <1>2, <1>4, <2>1, <2>2, <3>1 DEF CallOK
    <3>3. InMap(d)' = InMap(d)
      BY DEF InMap
    <3>4. ASSUME d \notin held, NEW i \in Callers, kcur'[i] = d
          PROVE  i = j
      <4>1. i # k
        BY <2>4, <3>4 DEF Stays
      <4> QED BY <1>1, <1>4, <2>1, <3>4, <4>1 DEF OnlyCalls, SoleOK
    <3>5. d \notin held =>
            /\ j \notin Closers => ~InMap(d)
            /\ kpc[j] \in {"check", "set"} => ~wclosed[d]
            /\ kpc[j] \in {"conn", "fd"} => closes[d] = 0
      BY <1>1, <1>4, <2>1, Zenon DEF SoleOK
    <3>6. kcur'[j] = d
      BY <1>2, <2>1, Zenon
    <3>7. SoleOK(j)'
      BY <1>2, <3>1, <3>3, <3>4, <3>5, <3>6 DEF SoleOK
    <3> QED BY <3>2, <3>7
  <2> QED BY <2>3, <2>4
<1> QED BY <1>3, <1>4

(* A step of k in Worker.Close of c touches nothing but c.                 *)
LEMMA CloseStep ==
  ASSUME IInv, TypeOK', NEW k \in Callers, NEW c \in Clients, kcur[k] = c,
         kpc[k] \in Closing, UNCHANGED <<callFrame, held, coordVars>>,
         OnlyCalls(k), OnlyCloses(c), Stays(k, c),
         sconn'[c] # "none",
         wclosed[c] => wclosed'[c],
         clone[c] = "closed" => clone'[c] = "closed",
         MadeOK(c)', CallOK(k)', OwnerOK(c)', OnceOK(c)', SoleOK(k)'
  PROVE  IInv'
<1>1. made[c]
  BY CloseKnows, Zenon
<1>2. /\ UNCHANGED <<reg, made, apc, acur, held>>
      /\ UNCHANGED <<closed, workers, workersMu>>
  BY CallKeeps, Zenon DEF coordVars
<1>3. SockView' /\ AcceptView' /\ OneAccepts' /\ ChanView'
  <2>1. ASSUME NEW d \in Clients
        PROVE  made[d] => sconn'[d] # "none"
    <3>1. SockOK(d)
      BY Zenon DEF IInv, SockView
    <3> QED BY <3>1, Zenon DEF SockOK, OnlyCloses
  <2>2. \A d \in Clients : ~made[d] => /\ sconn'[d] = sconn[d]
                                       /\ clone'[d] = clone[d]
                                       /\ closes'[d] = closes[d]
    BY <1>1, Zenon DEF OnlyCloses
  <2> QED BY <2>1, <2>2, CallFrame, Zenon
<1>4. ASSUME NEW d \in Clients, d # c
      PROVE  /\ sconn'[d] = sconn[d] /\ clone'[d] = clone[d]
             /\ wclosed'[d] = wclosed[d] /\ wfd'[d] = wfd[d]
             /\ closes'[d] = closes[d]
  BY <1>4 DEF OnlyCloses
<1>5. MadeView'
  <2>1. ASSUME NEW d \in Clients, d # c
        PROVE  MadeOK(d)'
    <3>1. MadeOK(d) /\ InAccept(d)' = InAccept(d)
      BY <1>2, Zenon DEF IInv, MadeView, InAccept
    <3> QED BY <1>2, <1>4, <2>1, <3>1, Zenon DEF MadeOK
  <2> QED BY <2>1, Zenon DEF MadeView
<1>6. MapView'
  BY <1>2, Zenon DEF IInv, MapView
<1>7. CallView' /\ SoleView'
  <2>1. ASSUME NEW j \in Callers, j # k
        PROVE  CallOK(j)' /\ SoleOK(j)'
    BY <1>2, <2>1, CloseOthers, Zenon
  <2> QED BY <2>1, Zenon DEF CallView, SoleView
<1>8. \A d \in Clients : InMap(d)' = InMap(d)
  BY <1>2 DEF InMap
<1>9. OwnerView'
  <2>1. ASSUME NEW d \in Clients, d # c
        PROVE  OwnerOK(d)'
    <3>1. OwnerOK(d)
      BY Zenon DEF IInv, OwnerView
    <3>2. Overwritten(d)' = Overwritten(d)
      BY <1>2, Zenon DEF Overwritten
    <3>3. /\ At(d, {"check", "set"}) => At(d, {"check", "set"})'
          /\ At(d, {"conn"}) => At(d, {"conn"})'
          /\ At(d, {"conn", "fd"}) => At(d, {"conn", "fd"})'
      BY <2>1, Zenon DEF At, OnlyCalls
    <3> QED BY <1>2, <1>4, <1>8, <2>1, <3>1, <3>2, <3>3, Zenon DEF OwnerOK
  <2> QED BY <2>1 DEF OwnerView
<1>10. LockView'
  <2>1. ASSUME NEW j \in Callers, j # k
        PROVE  kpc'[j] = kpc[j]
    BY <2>1 DEF OnlyCalls
  <2>2. k \in Closers => kpc'[k] \in Closing \cup {"sweep"}
    BY DEF Stays
  <2>3. k \notin Closers => kpc'[k] \in {"start", "returned"} \cup Closing
    BY DEF Stays
  <2> QED BY <1>2, <2>1, <2>2, <2>3, Zenon DEF IInv, LockView
<1>11. OnceView'
  <2>1. ASSUME NEW d \in Clients, d # c
        PROVE  OnceOK(d)'
    <3>1. OnceOK(d)
      BY Zenon DEF IInv, OnceView
    <3> QED BY <1>2, <1>4, <1>8, <2>1, <3>1, Zenon DEF OnceOK
  <2> QED BY <2>1, Zenon DEF OnceView
<1> QED BY <1>3, <1>5, <1>6, <1>7, <1>9, <1>10, <1>11, Zenon DEF IInv

(* Counting one more close.                                                *)
LEMMA OnePlus == 0 + 1 = 1
OBVIOUS

(* A counter stays a number.                                               *)
LEMMA Counts ==
  ASSUME NEW f \in [Clients -> Nat], NEW c \in Clients
  PROVE  [f EXCEPT ![c] = f[c] + 1] \in [Clients -> Nat]
OBVIOUS

(* The ranges, when k moves in Worker.Close of c.                          *)
LEMMA CloseTypes ==
  ASSUME IInv, NEW k \in Callers, NEW c \in Clients,
         NEW pc \in {"set", "conn", "fd", "clear", "sweep", "returned"},
         kpc' = [kpc EXCEPT ![k] = pc],
         kcur' = kcur \/ kcur' = [kcur EXCEPT ![k] = Nobody],
         sconn' = sconn \/ sconn' = [sconn EXCEPT ![c] = "closed"],
         clone' = clone \/ clone' = [clone EXCEPT ![c] = "closed"],
         closes' = closes \/ closes' = [closes EXCEPT ![c] = closes[c] + 1],
         wclosed' = wclosed \/ wclosed' = [wclosed EXCEPT ![c] = TRUE],
         wfd' = wfd \/ wfd' = [wfd EXCEPT ![c] = FALSE],
         UNCHANGED <<callFrame, held, coordVars>>
  PROVE  TypeOK'
<1>1. /\ UNCHANGED <<listening, backlog, cconn, reg, chan, cpc, cfd, made>>
      /\ UNCHANGED <<apc, acur, held, closed, workers, workersMu>>
  BY CallKeeps, Zenon DEF coordVars
<1>2. SocketType' /\ ProcessType'
  <2>1. sconn' \in [Clients -> {"none", "open", "closed"}]
    BY DEF IInv, TypeOK, SocketType
  <2> QED BY <1>1, <2>1 DEF IInv, TypeOK, SocketType, ProcessType
<1>3. WorkerType'
  <2>1. clone' \in [Clients -> {"none", "open", "closed"}]
    BY DEF IInv, TypeOK, WorkerType
  <2>2. closes' \in [Clients -> Nat]
    <3>1. closes \in [Clients -> Nat]
      BY DEF IInv, TypeOK, WorkerType
    <3> QED BY <3>1, Counts
  <2>3. wclosed' \in [Clients -> BOOLEAN] /\ wfd' \in [Clients -> BOOLEAN]
    BY Zenon DEF IInv, TypeOK, WorkerType
  <2> QED BY <1>1, <2>1, <2>2, <2>3 DEF IInv, TypeOK, WorkerType
<1>4. GoroutineType'
  BY <1>1 DEF IInv, TypeOK, GoroutineType
<1> QED BY <1>2, <1>3, <1>4 DEF TypeOK

(* The end of Worker.Close moves k alone.                                  *)
LEMMA CloseEnds ==
  ASSUME IInv, NEW k \in Callers, NEW c \in Clients, kcur[k] = c,
         kpc[k] \in Closing, WorkerCloseEnds(k),
         UNCHANGED <<sconn, coordVars, clone, wclosed, closes>>,
         wclosed[c], kpc[k] \in {"check", "fd", "clear"},
         clone[c] = "closed" \/ (kpc[k] = "check" /\ wfd' = wfd),
         wfd' = wfd \/ wfd' = [wfd EXCEPT ![c] = FALSE]
  PROVE  IInv'
<1>1. PICK pc \in {"sweep", "returned"} :
        pc = IF k \in Closers THEN "sweep" ELSE "returned"
  OBVIOUS
<1>2. /\ kpc' = [kpc EXCEPT ![k] = pc] /\ kcur' = [kcur EXCEPT ![k] = Nobody]
      /\ UNCHANGED <<callFrame, held>>
  BY <1>1, Zenon DEF WorkerCloseEnds, Goto
<1>3. TypeOK'
  BY <1>1, <1>2, CloseTypes, Zenon
<1>4. kpc'[k] = pc /\ kcur'[k] = Nobody /\ OnlyCalls(k)
  <2>1. kpc'[k] = pc /\ kcur'[k] = Nobody
    BY <1>2, Zenon DEF IInv, TypeOK, GoroutineType
  <2>2. OnlyCalls(k)
    BY <1>2 DEF IInv, TypeOK, GoroutineType, OnlyCalls
  <2> QED BY <2>1, <2>2, Zenon
<1>5. OnlyCloses(c) /\ Stays(k, c)
  BY <1>1, <1>4, Zenon DEF IInv, TypeOK, WorkerType, OnlyCloses, Stays
<1>6. /\ made[c] /\ MadeOK(c) /\ OwnerOK(c) /\ OnceOK(c) /\ wclosed[c]
      /\ sconn[c] # "none"
  BY CloseKnows, Zenon
<1>11. /\ UNCHANGED <<reg, made, acur, held, workers, workersMu>>
       /\ wfd'[c] => wfd[c]
       /\ ~wfd'[c] => ~wfd[c] \/ clone[c] = "closed"
  BY <1>2, CallKeeps DEF coordVars, IInv, TypeOK, WorkerType
<1>7. MadeOK(c)'
  BY <1>6, <1>11, Zenon DEF MadeOK
<1>8. CallOK(k)' /\ SoleOK(k)'
  BY <1>1, <1>4, Zenon DEF CallOK, SoleOK, Closing
<1>9. OwnerOK(c)'
  <2>1. /\ At(c, {"conn"}) => At(c, {"conn"})'
        /\ kpc[k] # "fd" /\ At(c, {"conn", "fd"}) => At(c, {"conn", "fd"})'
    BY <1>4, Zenon DEF At, OnlyCalls
  <2> QED BY <1>6, <1>11, <2>1, Zenon DEF OwnerOK
<1>10. OnceOK(c)'
  BY <1>6, <1>11, Zenon DEF OnceOK, InMap
<1> QED BY <1>1, <1>2, <1>3, <1>4, <1>5, <1>6, <1>7, <1>8, <1>9, <1>10,
           CloseStep, Zenon

(* Worker.Close goes on.                                                   *)
LEMMA CloseGoesOn ==
  ASSUME IInv, NEW k \in Callers, NEW c \in Clients, kcur[k] = c,
         NEW pc \in {"set", "conn", "fd", "clear"}, Goto(k, pc),
         UNCHANGED <<coordVars, kcur>>
  PROVE  /\ kpc' = [kpc EXCEPT ![k] = pc] /\ UNCHANGED <<callFrame, held>>
         /\ kpc'[k] = pc /\ kcur'[k] = c /\ pc \in Closing
         /\ OnlyCalls(k) /\ Stays(k, c)
         /\ UNCHANGED <<reg, made, acur, workers, workersMu>>
<1>1. /\ kpc' = [kpc EXCEPT ![k] = pc] /\ UNCHANGED <<callFrame, held>>
      /\ kpc'[k] = pc /\ kcur'[k] = c /\ pc \in Closing /\ OnlyCalls(k)
  BY DEF Goto, IInv, TypeOK, GoroutineType, Closing, OnlyCalls
<1> QED BY <1>1, CallKeeps, Zenon DEF Stays, coordVars

(* Worker.Close finds the Worker closed, or goes on.                       *)
LEMMA Step_WorkerCloseCheck ==
  ASSUME IInv, NEW k \in Callers, WorkerCloseCheck(k)
  PROVE  IInv'
<1>1. /\ kpc[k] = "check" /\ "check" \in Closing
      /\ UNCHANGED <<sconn, coordVars, clone, wclosed, wfd, closes>>
  BY Zenon DEF WorkerCloseCheck, Closing
<1>2. PICK c \in Clients : kcur[k] = c
  BY <1>1, CloseKnows, Zenon
<1>3. /\ made[c] /\ MadeOK(c) /\ OwnerOK(c) /\ OnceOK(c) /\ SoleOK(k)
      /\ sconn[c] # "none"
  BY <1>1, <1>2, CloseKnows
<1>4. CASE wclosed[c]
  BY <1>1, <1>2, <1>4, CloseEnds, Zenon DEF WorkerCloseCheck
<1>5. CASE ~wclosed[c]
  <2>1. Goto(k, "set") /\ UNCHANGED kcur
    BY <1>2, <1>5, Zenon DEF WorkerCloseCheck
  <2>2. /\ kpc' = [kpc EXCEPT ![k] = "set"] /\ UNCHANGED <<callFrame, held>>
        /\ kpc'[k] = "set" /\ kcur'[k] = c /\ "set" \in Closing
        /\ OnlyCalls(k) /\ Stays(k, c)
        /\ UNCHANGED <<reg, made, acur, workers, workersMu>>
    BY <1>1, <1>2, <2>1, CloseGoesOn, Zenon
  <2>3. TypeOK'
    BY <1>1, <1>2, <2>1, <2>2, CloseTypes, Zenon
  <2>4. MadeOK(c)' /\ CallOK(k)' /\ OnceOK(c)'
    <3>1. InMap(c)' = InMap(c) /\ InAccept(c)' = InAccept(c)
      BY <2>2, Zenon DEF InMap, InAccept
    <3> QED BY <1>1, <1>3, <2>2, <3>1, Zenon DEF MadeOK, CallOK, OnceOK
  <2>7. OnlyCloses(c)
    BY <1>1 DEF OnlyCloses
  <2>5. OwnerOK(c)'
    BY <1>1, <1>5, <2>2, Zenon DEF OwnerOK, At
  <2>6. SoleOK(k)'
    <3>1. /\ InMap(c)' = InMap(c)
          /\ \A j \in Callers : kcur'[j] = kcur[j]
      BY <2>1, <2>2, Zenon DEF InMap
    <3> QED BY <1>1, <1>2, <1>3, <1>5, <2>2, <3>1, Zenon DEF SoleOK
  <2> QED BY <1>1, <1>2, <1>3, <2>2, <2>3, <2>4, <2>5, <2>6, <2>7,
             CloseStep, Zenon
<1> QED BY <1>4, <1>5

(* Worker.Close marks the Worker.  One that only the coordinator closes    *)
(* was not marked: it is closed for the first time.                        *)
LEMMA Step_WorkerCloseSet ==
  ASSUME IInv, NEW k \in Callers, WorkerCloseSet(k)
  PROVE  IInv'
<1>1. /\ kpc[k] = "set" /\ "set" \in Closing /\ Goto(k, "conn")
      /\ UNCHANGED <<sconn, coordVars, clone, wfd, closes, kcur>>
  BY DEF WorkerCloseSet, Closing
<1>2. PICK c \in Clients : kcur[k] = c
  BY <1>1, CloseKnows
<1>3. /\ made[c] /\ MadeOK(c) /\ OnceOK(c) /\ SoleOK(k)
      /\ sconn[c] # "none"
  BY <1>1, <1>2, CloseKnows
<1>4. /\ kpc' = [kpc EXCEPT ![k] = "conn"] /\ UNCHANGED <<callFrame, held>>
      /\ kpc'[k] = "conn" /\ kcur'[k] = c /\ "conn" \in Closing
      /\ OnlyCalls(k) /\ Stays(k, c)
      /\ UNCHANGED <<reg, made, acur, workers, workersMu>>
  BY <1>1, <1>2, CloseGoesOn
<1>5. /\ wclosed' = [wclosed EXCEPT ![c] = TRUE] /\ wclosed'[c]
      /\ OnlyCloses(c)
  BY <1>1, <1>2 DEF WorkerCloseSet, IInv, TypeOK, WorkerType, OnlyCloses
<1>6. TypeOK'
  BY <1>1, <1>2, <1>4, <1>5, CloseTypes, Zenon
<1>11. /\ InMap(c)' = InMap(c) /\ InAccept(c)' = InAccept(c)
       /\ \A j \in Callers : kcur'[j] = kcur[j]
  BY <1>1, <1>4, Zenon DEF InMap, InAccept
<1>7. MadeOK(c)' /\ CallOK(k)'
  BY <1>1, <1>3, <1>4, <1>5, <1>11, Zenon DEF MadeOK, CallOK
<1>8. OwnerOK(c)'
  BY <1>4, <1>5, Zenon DEF OwnerOK, At
<1>9. OnceOK(c)'
  <2>1. c \notin held /\ InMap(c) => workersMu # Nobody
    <3>1. k \in Closers => workersMu = k
      BY <1>1 DEF IInv, LockView
    <3> QED BY <1>1, <1>2, <1>3, <3>1, Zenon DEF SoleOK
  <2> QED BY <1>1, <1>3, <1>4, <1>5, <1>11, <2>1, Zenon DEF OnceOK
<1>10. SoleOK(k)'
  BY <1>1, <1>2, <1>3, <1>4, <1>11, Zenon DEF SoleOK, OnceOK
<1> QED BY <1>1, <1>2, <1>3, <1>4, <1>5, <1>6, <1>7, <1>8, <1>9, <1>10,
           CloseStep, Zenon

(* Worker.Close closes the connection.                                     *)
LEMMA Step_WorkerCloseConn ==
  ASSUME IInv, NEW k \in Callers, WorkerCloseConn(k)
  PROVE  IInv'
<1>1. /\ kpc[k] = "conn" /\ "conn" \in Closing /\ Goto(k, "fd")
      /\ UNCHANGED <<coordVars, clone, wclosed, wfd, closes, kcur>>
  BY Zenon DEF WorkerCloseConn, Closing
<1>2. PICK c \in Clients : kcur[k] = c
  BY <1>1, CloseKnows
<1>3. /\ made[c] /\ MadeOK(c) /\ OnceOK(c) /\ SoleOK(k) /\ CallOK(k)
  BY <1>1, <1>2, CloseKnows
<1>4. /\ kpc' = [kpc EXCEPT ![k] = "fd"] /\ UNCHANGED <<callFrame, held>>
      /\ kpc'[k] = "fd" /\ kcur'[k] = c /\ "fd" \in Closing
      /\ OnlyCalls(k) /\ Stays(k, c)
      /\ UNCHANGED <<reg, made, acur, workers, workersMu>>
  BY <1>1, <1>2, CloseGoesOn
<1>5. /\ sconn' = [sconn EXCEPT ![c] = "closed"] /\ sconn'[c] = "closed"
      /\ OnlyCloses(c)
  BY <1>1, <1>2 DEF WorkerCloseConn, IInv, TypeOK, SocketType, OnlyCloses
<1>6. TypeOK'
  BY <1>1, <1>2, <1>4, <1>5, CloseTypes, Zenon
<1>7. wclosed[c]
  BY <1>1, <1>2, <1>3, Zenon DEF CallOK
<1>11. /\ InMap(c)' = InMap(c) /\ InAccept(c)' = InAccept(c)
       /\ \A j \in Callers : kcur'[j] = kcur[j]
  BY <1>1, <1>4, Zenon DEF InMap, InAccept
<1>8. MadeOK(c)' /\ CallOK(k)'
  BY <1>1, <1>3, <1>4, <1>7, <1>11, Zenon DEF MadeOK, CallOK
<1>9. OwnerOK(c)'
  BY <1>1, <1>4, <1>5, <1>7, Zenon DEF OwnerOK, At
<1>10. OnceOK(c)' /\ SoleOK(k)'
  BY <1>1, <1>2, <1>3, <1>4, <1>11, Zenon DEF OnceOK, SoleOK
<1> QED BY <1>1, <1>2, <1>3, <1>4, <1>5, <1>6, <1>8, <1>9, <1>10,
           CloseStep, Zenon

(* Worker.Close closes the clone, unless it is closed.                     *)
LEMMA Step_WorkerCloseFd ==
  ASSUME IInv, NEW k \in Callers, WorkerCloseFd(k)
  PROVE  IInv'
<1>1. /\ kpc[k] = "fd" /\ "fd" \in Closing
      /\ UNCHANGED <<sconn, coordVars, wclosed, wfd>>
  BY Zenon DEF WorkerCloseFd, Closing
<1>2. PICK c \in Clients : kcur[k] = c
  BY <1>1, CloseKnows
<1>3. /\ made[c] /\ MadeOK(c) /\ OwnerOK(c) /\ OnceOK(c) /\ SoleOK(k)
      /\ CallOK(k) /\ sconn[c] # "none"
  BY <1>1, <1>2, CloseKnows
<1>4. wclosed[c]
  BY <1>1, <1>2, <1>3 DEF CallOK
<1>5. CASE ~wfd[c]
  <2>1. clone[c] = "closed"
    BY <1>3, <1>5 DEF MadeOK
  <2>2. WorkerCloseEnds(k) /\ UNCHANGED <<clone, closes>>
    BY <1>2, <1>5 DEF WorkerCloseFd
  <2> QED BY <1>1, <1>2, <1>4, <2>1, <2>2, CloseEnds
<1>6. CASE wfd[c]
  <2>1. /\ Goto(k, "clear") /\ UNCHANGED kcur
        /\ clone' = [clone EXCEPT ![c] = "closed"]
        /\ closes' = [closes EXCEPT ![c] = closes[c] + 1]
    BY <1>2, <1>6, Zenon DEF WorkerCloseFd
  <2>2. /\ kpc' = [kpc EXCEPT ![k] = "clear"] /\ UNCHANGED <<callFrame, held>>
        /\ kpc'[k] = "clear" /\ kcur'[k] = c /\ "clear" \in Closing
        /\ OnlyCalls(k) /\ Stays(k, c)
        /\ UNCHANGED <<reg, made, acur, workers, workersMu>>
    BY <1>1, <1>2, <2>1, CloseGoesOn, Zenon
  <2>3. /\ clone'[c] = "closed" /\ closes'[c] = closes[c] + 1
        /\ OnlyCloses(c)
    BY <1>1, <2>1, Zenon DEF IInv, TypeOK, WorkerType, OnlyCloses
  <2>4. TypeOK'
    BY <1>1, <1>2, <2>1, <2>2, CloseTypes, Zenon
  <2>9. /\ InMap(c)' = InMap(c) /\ InAccept(c)' = InAccept(c)
        /\ \A j \in Callers : kcur'[j] = kcur[j]
    BY <2>1, <2>2, Zenon DEF InMap, InAccept
  <2>5. MadeOK(c)' /\ CallOK(k)'
    BY <1>1, <1>3, <1>4, <2>2, <2>3, <2>9, Zenon DEF MadeOK, CallOK
  <2>6. OwnerOK(c)'
    <3>1. At(c, {"conn"}) => At(c, {"conn"})'
      BY <1>1, <2>2, Zenon DEF At, OnlyCalls
    <3> QED BY <1>1, <1>3, <1>4, <2>2, <2>3, <3>1, Zenon DEF OwnerOK
  <2>7. OnceOK(c)'
    <3>1. c \notin held => closes[c] = 0
      BY <1>1, <1>2, <1>3, Zenon DEF SoleOK
    <3>2. closes[c] = 0 => closes'[c] = 1
      BY <2>3, OnePlus
    <3>3. held' = held /\ workersMu' = workersMu /\ wclosed'[c]
      BY <1>1, <1>4, <2>2, Zenon
    <3>4. c \notin held => closes'[c] \in {0, 1}
      BY <3>1, <3>2
    <3>5. c \notin held /\ InMap(c) => workersMu # Nobody
      BY <1>3, <1>4, Zenon DEF OnceOK
    <3> QED BY <2>9, <3>3, <3>4, <3>5, Zenon DEF OnceOK
  <2>8. SoleOK(k)'
    BY <1>1, <1>2, <1>3, <2>2, <2>9, Zenon DEF SoleOK
  <2> QED BY <1>1, <1>2, <1>3, <2>2, <2>3, <2>4, <2>5, <2>6, <2>7, <2>8,
             CloseStep, Zenon
<1> QED BY <1>5, <1>6

(* Worker.Close sets w.fd to -1 and returns.                               *)
LEMMA Step_WorkerCloseClear ==
  ASSUME IInv, NEW k \in Callers, WorkerCloseClear(k)
  PROVE  IInv'
<1>1. /\ kpc[k] = "clear" /\ "clear" \in Closing /\ WorkerCloseEnds(k)
      /\ UNCHANGED <<sconn, coordVars, clone, wclosed, closes>>
  BY Zenon DEF WorkerCloseClear, Closing
<1>2. PICK c \in Clients : kcur[k] = c
  BY <1>1, CloseKnows, Zenon
<1>3. CallOK(k) /\ wfd' = [wfd EXCEPT ![c] = FALSE]
  BY <1>1, <1>2, CloseKnows DEF WorkerCloseClear
<1>4. wclosed[c] /\ clone[c] = "closed"
  BY <1>1, <1>2, <1>3 DEF CallOK
<1> QED BY <1>1, <1>2, <1>3, <1>4, CloseEnds, Zenon

-----------------------------------------------------------------------------
(* Every step of the processes, AcceptWorker and the calls that close      *)
(* preserves the invariant.                                                *)
LEMMA Inductive == IInv /\ [Next]_vars => IInv'
<1> SUFFICES ASSUME IInv, [Next]_vars PROVE IInv'
  OBVIOUS
<1>1. ASSUME NEW c \in Clients,
             \/ Connect(c) \/ EncodeRegistration(c) \/ Crash(c)
             \/ WorkerClientClose(c) \/ WorkerClientCloseFd(c)
      PROVE  IInv'
  BY <1>1, Step_Dial, Step_EncodeRegistration, Step_DecodeResponse,
     Step_ReceiveFD, Step_WorkerClient DEF Connect
<1>2. ASSUME NEW a \in Acceptors, AcceptWorker(a) \/ Accept(a)
      PROVE  IInv'
  BY <1>2, Step_AcceptWorker, Step_AcceptUnix, Step_DecodeRegistration,
     Step_CloneFuseFD, Step_EncodeResponse, Step_SendFD, Step_Register
  DEF Accept
<1>3. ASSUME NEW k \in Callers, WorkerClose(k)
      PROVE  IInv'
  BY <1>3, Step_WorkerCloseCheck, Step_WorkerCloseSet, Step_WorkerCloseConn,
     Step_WorkerCloseFd, Step_WorkerCloseClear DEF WorkerClose
<1>4. ASSUME NEW k \in Closers, CloseSetClosed(k) \/ Close(k)
      PROVE  IInv'
  <2>1. k \in Callers
    BY DEF Callers
  <2> QED BY <1>3, <1>4, <2>1, Step_CloseSetClosed, Step_CloseLock,
             Step_CloseSweep, Step_CloseListener DEF Close
<1>5. ASSUME NEW k \in Removers, NEW p \in Pids, RemoveWorker(k, p)
      PROVE  IInv'
  BY <1>5, Step_RemoveWorker
<1>6. ASSUME NEW k \in Holders, NEW c \in Clients, CloseHeld(k, c)
      PROVE  IInv'
  BY <1>6, Step_CloseHeld
<1>7. CASE UNCHANGED vars
  <2>1. /\ UNCHANGED <<listening, backlog, cconn, sconn, reg, chan, cpc, cfd>>
        /\ UNCHANGED <<closed, workers, workersMu, clone, made, wclosed, wfd>>
        /\ UNCHANGED <<closes, held, apc, acur, kpc, kcur>>
    BY <1>7 DEF vars, sockVars, clientVars, coordVars, workerVars, acceptVars,
                callVars
  <2>2. TypeOK'
    BY <2>1
    DEF IInv, TypeOK, SocketType, ProcessType, WorkerType, GoroutineType
  <2>3. ASSUME NEW d \in Clients
        PROVE  /\ SockOK(d)' /\ ChanOK(d)' /\ MadeOK(d)'
               /\ OwnerOK(d)' /\ OnceOK(d)'
    <3>1. SockOK(d) /\ ChanOK(d) /\ MadeOK(d) /\ OwnerOK(d) /\ OnceOK(d)
      BY DEF IInv, SockView, ChanView, MadeView, OwnerView, OnceView
    <3>2. /\ Sent(d)' = Sent(d) /\ InAccept(d)' = InAccept(d)
          /\ InMap(d)' = InMap(d) /\ Overwritten(d)' = Overwritten(d)
      BY <2>1, Zenon DEF Sent, InAccept, InMap, Overwritten
    <3>3. /\ At(d, {"check", "set"})' = At(d, {"check", "set"})
          /\ At(d, {"conn"})' = At(d, {"conn"})
          /\ At(d, {"conn", "fd"})' = At(d, {"conn", "fd"})
      BY <2>1 DEF At
    <3>4. SockOK(d)' /\ ChanOK(d)'
      BY <2>1, <3>1, <3>2, Zenon DEF SockOK, ChanOK
    <3>5. MadeOK(d)' /\ OnceOK(d)'
      BY <2>1, <3>1, <3>2, Zenon DEF MadeOK, OnceOK
    <3>6. OwnerOK(d)'
      BY <2>1, <3>1, <3>2, <3>3, Zenon DEF OwnerOK
    <3> QED BY <3>4, <3>5, <3>6
  <2>4. ASSUME NEW a \in Acceptors
        PROVE  AcceptAt(a)'
    <3>1. AcceptAt(a)
      BY DEF IInv, AcceptView
    <3> QED BY <2>1, <3>1 DEF AcceptAt, AcceptOK
  <2>5. ASSUME NEW k \in Callers
        PROVE  CallOK(k)' /\ SoleOK(k)'
    <3>1. CallOK(k) /\ SoleOK(k) /\ InMap(kcur[k])' = InMap(kcur[k])
      BY <2>1, Zenon DEF IInv, CallView, SoleView, InMap
    <3> QED BY <2>1, <3>1, Zenon DEF CallOK, SoleOK
  <2>6. OneAccepts' /\ MapView' /\ LockView'
    BY <2>1 DEF IInv, OneAccepts, MapView, LockView
  <2>7. /\ SockView' /\ ChanView' /\ MadeView' /\ OwnerView' /\ OnceView'
        /\ AcceptView' /\ CallView' /\ SoleView'
    BY <2>3, <2>4, <2>5 DEF SockView, ChanView, MadeView, OwnerView, OnceView,
                            AcceptView, CallView, SoleView
  <2> QED BY <2>2, <2>6, <2>7 DEF IInv
<1>8. Removers \subseteq Callers /\ Holders \subseteq Callers
  BY DEF Callers
<1> QED BY <1>1, <1>2, <1>3, <1>4, <1>5, <1>6, <1>7, <1>8 DEF Next

(* The invariant of the coordinator holds in every reachable state.        *)
THEOREM Invariant == Spec => []IInv
BY InitIInv, Inductive, PTL DEF Spec

(* Every variable keeps to its range; in particular a connection carries   *)
(* no more than one reply and one descriptor, the reply first.             *)
THEOREM TypeCorrect == Spec => []TypeOK
<1>1. IInv => TypeOK
  BY DEF IInv
<1> QED BY <1>1, Invariant, PTL

(* Every open connection and clone has somebody who will close it, unless  *)
(* a second registration of the PID displaced its Worker.                  *)
THEOREM NoOrphans == Spec => []Owned
<1>1. IInv => Owned
  <2> SUFFICES ASSUME IInv, NEW c \in Clients,
                      sconn[c] = "open" \/ clone[c] = "open"
               PROVE  \/ InAccept(c) \/ InMap(c) \/ BeingClosed(c)
                      \/ made[c] /\ Overwritten(c)
    BY DEF Owned
  <2>1. CASE ~made[c]
    BY <2>1 DEF IInv, MadeView, MadeOK
  <2>2. CASE made[c]
    <3>1. \A pcs : At(c, pcs) => BeingClosed(c)
      BY DEF At, BeingClosed
    <3>2. OwnerOK(c)
      BY DEF IInv, OwnerView
    <3> QED BY <2>2, <3>1, <3>2 DEF OwnerOK
  <2> QED BY <2>1, <2>2
<1> QED BY <1>1, Invariant, PTL

(* RemoveWorker, Close and the error paths of AcceptWorker, in any number  *)
(* and interleaving, close a clone's number at most once.                  *)
THEOREM CloseOnce == Spec => []ClosedOnce
<1>1. IInv => ClosedOnce
  BY DEF IInv, OnceView, OnceOK, ClosedOnce
<1> QED BY <1>1, Invariant, PTL

(* A process that holds a descriptor has been registered, or is about to   *)
(* be.                                                                     *)
THEOREM HoldersKnown == Spec => []HolderKnown
<1>1. IInv => HolderKnown
  <2> SUFFICES ASSUME IInv, NEW c \in Clients, cfd[c]
               PROVE  \/ \E a \in Acceptors :
                           acur[a] = c /\ apc[a] = "register"
                      \/ /\ made[c]
                         /\ \/ InMap(c) \/ BeingClosed(c) \/ wclosed[c]
                            \/ Overwritten(c)
    BY Zenon DEF HolderKnown
  <2>1. made[c] \/ Sent(c)
    BY DEF IInv, ChanView, ChanOK
  <2>2. OwnerOK(c)
    BY DEF IInv, OwnerView
  <2>3. At(c, {"check", "set"}) => BeingClosed(c)
    BY DEF At, BeingClosed
  <2> QED BY <2>1, <2>2, <2>3 DEF OwnerOK, Sent
<1> QED BY <1>1, Invariant, PTL

=============================================================================
