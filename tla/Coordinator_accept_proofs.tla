---------------------- MODULE Coordinator_accept_proofs ----------------------
(***************************************************************************)
(* The worker processes and AcceptWorker preserve IInv.                    *)
(***************************************************************************)
EXTENDS CoordinatorInv, TLAPS

(* Nobody is no one.                                                       *)
LEMMA Names ==
  Nobody \notin Clients /\ Nobody \notin Pids /\ Nobody \notin Callers
BY CallersAssumption, ClientsAssumption

USE Names

(* The descriptor follows the response.                                    *)
LEMMA AppendFd == Append(<<"ok">>, "fd") = <<"ok", "fd">>
<1> DEFINE S == {"ok", "fd"}
<1>1. <<"ok">> \in Seq(S)
  OBVIOUS
<1>2. PICK s \in Seq(S) : s = <<"ok">>
  BY <1>1, Zenon
<1>3. Len(s) = 1 /\ s[1] = "ok"
  BY <1>2
<1>4. "fd" \in S /\ 1 \in 1..1
  OBVIOUS
<1> HIDE DEF S
<1>5. PICK t : t = Append(s, "fd")
  BY Zenon
<1>6. t \in Seq(S) /\ Len(t) = Len(s) + 1 /\ t[Len(s) + 1] = "fd"
  BY <1>4, <1>5
<1>7. \A i \in 1..Len(s) : t[i] = s[i]
  BY <1>4, <1>5
<1>8. t \in Seq(S) /\ Len(t) = 2 /\ t[1] = "ok" /\ t[2] = "fd"
  BY <1>3, <1>4, <1>6, <1>7
<1>9. t = <<"ok", "fd">>
  BY <1>8
<1> QED BY <1>2, <1>5, <1>9, Zenon

(* The invariant holds of what NewCoordinator returns.                     *)
LEMMA InitIInv == Init => IInv
<1> SUFFICES ASSUME Init PROVE IInv
  OBVIOUS
<1>1. TypeOK
  BY Zenon DEF Init, TypeOK, SocketType, ProcessType, WorkerType, GoroutineType
<1>2. SockView /\ AcceptView /\ OneAccepts /\ ChanView
  BY DEF Init, SockView, SockOK, AcceptView, AcceptAt, OneAccepts, ChanView,
         ChanOK
<1>3. MadeView /\ MapView /\ CallView /\ OwnerView
  BY DEF Init, MadeView, MadeOK, MapView, CallView, CallOK, Closing,
         OwnerView, OwnerOK
<1>4. LockView /\ OnceView /\ SoleView
  BY DEF Init, LockView, Closing, OnceView, OnceOK, SoleView, SoleOK, Callers
<1> QED BY <1>1, <1>2, <1>3, <1>4 DEF IInv

-----------------------------------------------------------------------------
(* Frames *)

(* The Workers and who closes them are as they were.                       *)
LEMMA ClientFrame ==
  ASSUME IInv,
         UNCHANGED <<sconn, reg, coordVars, workerVars, acceptVars, callVars>>
  PROVE  /\ MadeView' /\ MapView' /\ CallView' /\ OwnerView'
         /\ LockView' /\ OnceView' /\ SoleView' /\ OneAccepts'
<1> USE DEF coordVars, workerVars, acceptVars, callVars
<1>1. MadeView' /\ MapView' /\ CallView'
  BY DEF IInv, MadeView, MadeOK, InAccept, MapView, CallView, CallOK
<1>2. OwnerView'
  BY DEF IInv, OwnerView, OwnerOK, InMap, At, Overwritten
<1>3. LockView' /\ OnceView' /\ SoleView' /\ OneAccepts'
  BY DEF IInv, LockView, OnceView, OnceOK, SoleView, SoleOK, InMap, OneAccepts
<1> QED BY <1>1, <1>2, <1>3

(* Process c goes on, and its channel is as it was or empty.               *)
LEMMA ClientStep ==
  ASSUME IInv, TypeOK', NEW c \in Clients,
         UNCHANGED <<backlog, sconn, reg, coordVars, workerVars, acceptVars,
                     callVars>>,
         \A d \in Clients \ {c} : /\ cpc'[d] = cpc[d] /\ cfd'[d] = cfd[d]
                                  /\ chan'[d] = chan[d],
         cpc'[c] \notin {"dial", "register"},
         \/ chan'[c] = <<>>
         \/ chan'[c] = chan[c] /\ cpc'[c] # "receive",
         cpc'[c] = "receive" => chan[c] # <<>>,
         cfd'[c] => cfd[c] \/ chan[c] = <<"fd">>
  PROVE  IInv'
<1> USE DEF coordVars, workerVars, acceptVars
<1>1. SockView'
  BY DEF IInv, SockView, SockOK
<1>2. AcceptView'
  BY DEF IInv, AcceptView, AcceptAt, AcceptOK
<1>3. ChanView'
  <2>1. \A d \in Clients : Sent(d)' = Sent(d)
    BY DEF Sent
  <2>2. \A d \in Clients \ {c} : ChanOK(d)'
    BY <2>1 DEF IInv, ChanView, ChanOK
  <2>3. cfd[c] \/ chan[c] \in {<<"fd">>, <<"ok", "fd">>} => made[c] \/ Sent(c)
    BY DEF IInv, ChanView, ChanOK
  <2>4. ChanOK(c)'
    <3>1. CASE chan'[c] = <<>>
      <4>1. chan'[c] \notin {<<"fd">>, <<"ok", "fd">>}
        BY <3>1
      <4>2. cfd'[c] => made[c] \/ Sent(c)
        BY <2>3, Zenon
      <4> QED BY <2>1, <3>1, <4>1, <4>2 DEF ChanOK
    <3>2. CASE chan'[c] = chan[c] /\ cpc'[c] # "receive"
      BY <2>1, <2>3, <3>2, Zenon DEF ChanOK
    <3> QED BY <3>1, <3>2
  <2> QED BY <2>2, <2>4 DEF ChanView
<1> QED BY <1>1, <1>2, <1>3, ClientFrame DEF IInv

-----------------------------------------------------------------------------
(* Worker processes *)

(* A process that hangs up.                                                *)
LEMMA Step_Hangup ==
  ASSUME IInv, NEW c \in Clients, NEW pc \in {"gone", "closed"}, Hangup(c, pc),
         cfd' = cfd \/ cfd' = [cfd EXCEPT ![c] = FALSE],
         UNCHANGED <<coordVars, workerVars, acceptVars, callVars>>
  PROVE  IInv'
<1>1. TypeOK'
  <2>1. SocketType' /\ ProcessType'
    BY Zenon DEF IInv, TypeOK, SocketType, ProcessType, Hangup
  <2>2. WorkerType' /\ GoroutineType'
    BY DEF IInv, TypeOK, WorkerType, GoroutineType, coordVars, workerVars,
           acceptVars, callVars
  <2> QED BY <2>1, <2>2 DEF TypeOK
<1>2. /\ cpc'[c] = pc /\ chan'[c] = <<>> /\ (cfd'[c] => cfd[c])
      /\ \A d \in Clients \ {c} : /\ cpc'[d] = cpc[d] /\ cfd'[d] = cfd[d]
                                  /\ chan'[d] = chan[d]
  BY DEF IInv, TypeOK, SocketType, ProcessType, Hangup
<1> QED BY <1>1, <1>2, ClientStep DEF Hangup

(* DialUnix.                                                               *)
LEMMA Step_Dial ==
  ASSUME IInv, NEW c \in Clients, Dial(c)
  PROVE  IInv'
<1>1. TypeOK'
  <2>1. SocketType' /\ ProcessType'
    BY DEF IInv, TypeOK, SocketType, ProcessType, Dial
  <2>2. WorkerType' /\ GoroutineType'
    BY DEF IInv, TypeOK, WorkerType, GoroutineType, Dial, coordVars,
           workerVars, acceptVars, callVars
  <2> QED BY <2>1, <2>2 DEF TypeOK
<1>2. CASE ~listening
  <2>1. /\ cpc'[c] = "gone" /\ backlog' = backlog
        /\ \A d \in Clients \ {c} : cpc'[d] = cpc[d]
    BY <1>2 DEF IInv, TypeOK, ProcessType, Dial
  <2> QED BY <1>1, <2>1, ClientStep DEF Dial
<1>3. CASE listening
  <2>1. /\ cpc[c] = "dial" /\ cpc'[c] = "register"
        /\ \A d \in Clients \ {c} : cpc'[d] = cpc[d]
        /\ backlog' = backlog \cup {c}
        /\ UNCHANGED <<sconn, reg, chan, cfd, clone, closes, made, acceptVars>>
    BY <1>3 DEF IInv, TypeOK, ProcessType, Dial, workerVars
  <2>2. SockView'
    BY <2>1 DEF IInv, SockView, SockOK
  <2>3. AcceptView'
    BY <2>1 DEF IInv, AcceptView, AcceptAt, AcceptOK, acceptVars
  <2>4. ChanView'
    <3>1. \A d \in Clients : Sent(d)' = Sent(d)
      BY <2>1 DEF Sent, acceptVars
    <3> QED BY <2>1, <3>1 DEF IInv, ChanView, ChanOK
  <2> QED BY <1>1, <2>2, <2>3, <2>4, ClientFrame DEF IInv, Dial
<1> QED BY <1>2, <1>3 DEF IInv, TypeOK, SocketType

(* The frame of the steps of a process.                                    *)
LEMMA ClientTypes ==
  ASSUME IInv, SocketType', ProcessType',
         UNCHANGED <<coordVars, workerVars, acceptVars, callVars>>
  PROVE  TypeOK'
BY DEF IInv, TypeOK, WorkerType, GoroutineType, coordVars, workerVars,
       acceptVars, callVars

(* The registration is sent, or the coordinator has closed the connection. *)
LEMMA Step_EncodeRegistration ==
  ASSUME IInv, NEW c \in Clients, EncodeRegistration(c)
  PROVE  IInv'
<1>1. CASE sconn[c] = "closed"
  BY <1>1, Step_Hangup DEF EncodeRegistration
<1>2. CASE sconn[c] # "closed"
  <2>1. PICK p \in Pids : reg' = [reg EXCEPT ![c] = p]
    BY <1>2, ClientsAssumption DEF EncodeRegistration
  <2>2. /\ cpc[c] = "register" /\ cpc' = [cpc EXCEPT ![c] = "response"]
        /\ UNCHANGED <<listening, backlog, cconn, sconn, chan, cfd, coordVars,
                       workerVars, acceptVars, callVars>>
    BY <1>2 DEF EncodeRegistration
  <2>3. /\ cpc'[c] = "response" /\ reg'[c] = p /\ reg[c] = Nobody
        /\ p # Nobody
        /\ \A d \in Clients \ {c} : cpc'[d] = cpc[d] /\ reg'[d] = reg[d]
    BY <2>1, <2>2
    DEF IInv, TypeOK, SocketType, ProcessType, SockView, SockOK
  <2>4. TypeOK'
    <3>1. SocketType' /\ ProcessType'
      BY <2>1, <2>2 DEF IInv, TypeOK, SocketType, ProcessType
    <3> QED BY <2>2, <3>1, ClientTypes
  <2>5. SockView'
    BY <2>2, <2>3 DEF IInv, SockView, SockOK, workerVars
  <2>6. AcceptView' /\ OneAccepts'
    <3>1. ASSUME NEW a \in Acceptors
          PROVE  AcceptAt(a)'
      <4>1. AcceptAt(a) /\ apc' = apc /\ acur' = acur
        BY <2>2 DEF IInv, AcceptView, acceptVars
      <4>2. cpc[c] # "receive"
        BY <2>2
      <4>3. CASE acur[a] = c
        BY <2>2, <2>3, <4>1, <4>2, <4>3 DEF AcceptAt, AcceptOK, workerVars
      <4>4. CASE acur[a] # c
        BY <2>2, <2>3, <4>1, <4>4 DEF AcceptAt, AcceptOK, workerVars
      <4> QED BY <4>3, <4>4
    <3>2. OneAccepts'
      BY <2>2 DEF IInv, OneAccepts, acceptVars
    <3> QED BY <3>1, <3>2 DEF AcceptView
  <2>7. ChanView'
    <3>1. \A d \in Clients : Sent(d)' = Sent(d)
      BY <2>2 DEF Sent, acceptVars
    <3> QED BY <2>2, <2>3, <3>1 DEF IInv, ChanView, ChanOK, workerVars
  <2>8. ~made[c]
    BY <2>3 DEF IInv, MadeView, MadeOK
  <2>9. MadeView' /\ MapView' /\ CallView'
    <3>1. MadeView'
      BY <2>2, <2>3, <2>8
      DEF IInv, MadeView, MadeOK, InAccept, workerVars, acceptVars
    <3>2. MapView'
      <4> SUFFICES ASSUME NEW q \in Pids, workers[q] # Nobody
                   PROVE  made[workers[q]] /\ reg'[workers[q]] = q
        BY <2>2 DEF MapView, coordVars, workerVars
      <4>1. /\ workers[q] \in Clients /\ made[workers[q]]
            /\ reg[workers[q]] = q
        BY DEF IInv, TypeOK, WorkerType, MapView
      <4> QED BY <2>3, <2>8, <4>1
    <3>3. CallView'
      BY <2>2 DEF IInv, CallView, CallOK, workerVars, callVars
    <3> QED BY <3>1, <3>2, <3>3
  <2>10. OwnerView'
    <3>1. \A d \in Clients : made[d] /\ Overwritten(d) => Overwritten(d)'
      BY <2>2, <2>3, <2>8 DEF Overwritten, workerVars
    <3>2. \A d \in Clients : InMap(d)' = InMap(d)
      BY <2>2 DEF InMap, coordVars
    <3>3. \A d \in Clients :
            /\ At(d, {"check", "set"})' = At(d, {"check", "set"})
            /\ At(d, {"conn"})' = At(d, {"conn"})
            /\ At(d, {"conn", "fd"})' = At(d, {"conn", "fd"})
      BY <2>2 DEF At, callVars
    <3> QED BY <2>2, <3>1, <3>2, <3>3
            DEF IInv, OwnerView, OwnerOK, workerVars
  <2>11. LockView' /\ OnceView' /\ SoleView'
    BY <2>2 DEF IInv, LockView, OnceView, OnceOK, SoleView, SoleOK, InMap,
                coordVars, workerVars, callVars
  <2> QED BY <2>4, <2>5, <2>6, <2>7, <2>9, <2>10, <2>11 DEF IInv
<1> QED BY <1>1, <1>2

(* The response is read, and whatever came with it.                        *)
LEMMA Step_DecodeResponse ==
  ASSUME IInv, NEW c \in Clients, DecodeResponse(c)
  PROVE  IInv'
<1>1. CASE Hangup(c, "gone")
  BY <1>1, Step_Hangup DEF DecodeResponse
<1>2. CASE ~Hangup(c, "gone")
  <2>1. /\ chan[c] # <<>>
        /\ cpc' = [cpc EXCEPT ![c] = "receive"]
        /\ chan' = [chan EXCEPT ![c] = <<>>]
        /\ UNCHANGED <<listening, backlog, cconn, sconn, reg, cfd, coordVars,
                       workerVars, acceptVars, callVars>>
    BY <1>2 DEF DecodeResponse
  <2>2. SocketType' /\ ProcessType'
    BY <2>1 DEF IInv, TypeOK, SocketType, ProcessType
  <2>3. /\ cpc'[c] = "receive" /\ chan'[c] = <<>>
        /\ \A d \in Clients \ {c} : cpc'[d] = cpc[d] /\ chan'[d] = chan[d]
    BY <2>1 DEF IInv, TypeOK, SocketType, ProcessType
  <2> QED BY <2>1, <2>2, <2>3, ClientTypes, ClientStep
<1> QED BY <1>1, <1>2

(* The descriptor is received.                                             *)
LEMMA Step_ReceiveFD ==
  ASSUME IInv, NEW c \in Clients, ReceiveFD(c)
  PROVE  IInv'
<1>1. CASE chan[c] = <<>>
  BY <1>1, Step_Hangup DEF ReceiveFD
<1>2. CASE chan[c] # <<>>
  <2>1. /\ cpc[c] = "receive"
        /\ cpc' = [cpc EXCEPT ![c] = "serving"]
        /\ cfd' = [cfd EXCEPT ![c] = TRUE]
        /\ chan' = [chan EXCEPT ![c] = Tail(@)]
        /\ UNCHANGED <<listening, backlog, cconn, sconn, reg, coordVars,
                       workerVars, acceptVars, callVars>>
    BY <1>2 DEF ReceiveFD
  <2>2. chan[c] = <<"fd">>
    BY <1>2, <2>1 DEF IInv, ChanView, ChanOK
  <2>3. chan' = [chan EXCEPT ![c] = <<>>]
    BY <2>1, <2>2
  <2>4. SocketType' /\ ProcessType'
    BY <2>1, <2>3 DEF IInv, TypeOK, SocketType, ProcessType
  <2>5. /\ cpc'[c] = "serving" /\ chan'[c] = <<>>
        /\ \A d \in Clients \ {c} : /\ cpc'[d] = cpc[d] /\ chan'[d] = chan[d]
                                    /\ cfd'[d] = cfd[d]
    BY <2>1, <2>3 DEF IInv, TypeOK, SocketType, ProcessType
  <2> QED BY <2>1, <2>2, <2>4, <2>5, ClientTypes, ClientStep, Zenon
<1> QED BY <1>1, <1>2

(* A process closes its connection, its descriptor, or dies.               *)
LEMMA Step_WorkerClient ==
  ASSUME IInv, NEW c \in Clients,
         WorkerClientClose(c) \/ WorkerClientCloseFd(c) \/ Crash(c)
  PROVE  IInv'
<1>1. CASE WorkerClientClose(c) \/ Crash(c)
  BY <1>1, Step_Hangup DEF WorkerClientClose, Crash
<1>2. CASE WorkerClientCloseFd(c)
  <2>1. /\ cpc[c] \in {"serving", "closed"} /\ cfd[c]
        /\ cfd' = [cfd EXCEPT ![c] = FALSE]
        /\ cpc' = [cpc EXCEPT ![c] = IF @ = "closed" THEN "gone" ELSE @]
        /\ UNCHANGED <<sockVars, coordVars, workerVars, acceptVars, callVars>>
    BY <1>2 DEF WorkerClientCloseFd
  <2>2. SocketType' /\ ProcessType'
    BY <2>1 DEF IInv, TypeOK, SocketType, ProcessType, sockVars
  <2>3. /\ cpc'[c] \in {"serving", "gone"} /\ ~cfd'[c]
        /\ \A d \in Clients \ {c} : cpc'[d] = cpc[d] /\ cfd'[d] = cfd[d]
    BY <2>1 DEF IInv, TypeOK, SocketType, ProcessType
  <2> QED BY <2>1, <2>2, <2>3, ClientTypes, ClientStep, Zenon DEF sockVars
<1> QED BY <1>1, <1>2

-----------------------------------------------------------------------------
(* AcceptWorker *)

(* Goroutine a moves alone, only c's connection and clone are touched, and *)
(* nothing else of the coordinator.                                        *)
OnlyMoves(a) ==
  \A b \in Acceptors : b # a => apc'[b] = apc[b] /\ acur'[b] = acur[b]
OnlyTouches(c) ==
  \A d \in Clients :
    d # c => /\ sconn'[d] = sconn[d] /\ clone'[d] = clone[d]
             /\ closes'[d] = closes[d] /\ chan'[d] = chan[d]
AcceptRest ==
  /\ UNCHANGED <<backlog, clientVars>>
  /\ UNCHANGED <<reg, coordVars, made, wclosed, wfd, held, callVars>>

(* What c's process finds on the channel.                                  *)
ChanFits(a, c) ==
  /\ cpc[c] = "receive" => chan'[c] \in {<<>>, <<"fd">>}
  /\ chan'[c] \in {<<"fd">>, <<"ok", "fd">>} =>
       apc'[a] = "register" /\ acur'[a] = c

(* The Workers do not depend on a connection that has none yet.            *)
LEMMA AcceptFrame ==
  ASSUME IInv, NEW c \in Clients, ~made[c], closes'[c] \in {0, 1},
         OnlyTouches(c),
         UNCHANGED <<reg, coordVars, made, wclosed, wfd, held, callVars>>
  PROVE  /\ MapView' /\ CallView' /\ OwnerView' /\ LockView' /\ OnceView'
         /\ SoleView'
<1>1. UNCHANGED <<closed, workers, workersMu, reg, made, wclosed, wfd, held,
                  kpc, kcur>>
  BY DEF coordVars, callVars
<1>2. MapView' /\ LockView'
  BY <1>1 DEF IInv, MapView, LockView
<1>3. \A d \in Clients : InMap(d)' = InMap(d)
  BY <1>1 DEF InMap
<1>4. CallView'
  <2>1. ASSUME NEW k \in Callers
        PROVE  CallOK(k)'
    <3>1. CallOK(k)
      BY DEF IInv, CallView
    <3>2. CASE kpc[k] \in Closing
      <4>1. kcur[k] \in Clients /\ kcur[k] # c
        BY <3>1, <3>2 DEF CallOK
      <4>2. clone'[kcur[k]] = clone[kcur[k]]
        BY <4>1 DEF OnlyTouches
      <4> QED BY <1>1, <3>1, <3>2, <4>2 DEF CallOK
    <3>3. CASE kpc[k] \notin Closing
      BY <1>1, <3>1, <3>3 DEF CallOK
    <3> QED BY <3>2, <3>3
  <2> QED BY <2>1 DEF CallView
<1>5. OwnerView'
  <2> SUFFICES ASSUME NEW d \in Clients, made[d] PROVE OwnerOK(d)'
    BY <1>1, Zenon DEF OwnerView, OwnerOK
  <2>1. OwnerOK(d) /\ sconn'[d] = sconn[d] /\ clone'[d] = clone[d]
    BY Zenon DEF IInv, OwnerView, OnlyTouches
  <2>2. /\ At(d, {"check", "set"})' = At(d, {"check", "set"})
        /\ At(d, {"conn"})' = At(d, {"conn"})
        /\ At(d, {"conn", "fd"})' = At(d, {"conn", "fd"})
    BY <1>1 DEF At
  <2>3. Overwritten(d)' = Overwritten(d)
    BY <1>1 DEF Overwritten
  <2> QED BY <1>1, <1>3, <2>1, <2>2, <2>3, Zenon DEF OwnerOK
<1>6. OnceView'
  <2>1. ASSUME NEW d \in Clients, d # c
        PROVE  OnceOK(d)'
    <3>1. OnceOK(d) /\ closes'[d] = closes[d]
      BY <2>1 DEF IInv, OnceView, OnlyTouches
    <3> QED BY <1>1, <1>3, <3>1 DEF OnceOK
  <2>2. OnceOK(c)'
    <3>1. OnceOK(c)
      BY DEF IInv, OnceView
    <3> QED BY <1>1, <1>3, <3>1 DEF OnceOK
  <2> QED BY <2>1, <2>2 DEF OnceView
<1>7. SoleView'
  <2>1. ASSUME NEW k \in Callers, kpc[k] \in Closing
        PROVE  SoleOK(k)'
    <3>1. SoleOK(k) /\ kcur[k] \in Clients /\ kcur[k] # c
      BY <2>1 DEF IInv, SoleView, CallView, CallOK
    <3>2. closes'[kcur[k]] = closes[kcur[k]]
      BY <3>1, Zenon DEF OnlyTouches
    <3> QED BY <1>1, <1>3, <3>1, <3>2 DEF SoleOK
  <2> QED BY <1>1, <2>1 DEF SoleView, SoleOK
<1> QED BY <1>2, <1>4, <1>5, <1>6, <1>7

(* The other goroutines in AcceptWorker are where they were.               *)
LEMMA AcceptOthers ==
  ASSUME IInv, AcceptRest, NEW a \in Acceptors, NEW c \in Clients,
         OnlyMoves(a), OnlyTouches(c),
         \A b \in Acceptors : b # a => acur[b] # c
  PROVE  \A b \in Acceptors : b # a => AcceptAt(b)'
<1> SUFFICES ASSUME NEW b \in Acceptors, b # a PROVE AcceptAt(b)'
  OBVIOUS
<1>1. AcceptAt(b) /\ acur[b] # c /\ apc'[b] = apc[b] /\ acur'[b] = acur[b]
  BY DEF IInv, AcceptView, OnlyMoves
<1>2. CASE apc[b] \in {"idle", "accept"}
  BY <1>1, <1>2 DEF AcceptAt
<1>3. CASE apc[b] \notin {"idle", "accept"}
  <2>1. AcceptOK(acur[b], apc[b]) /\ acur[b] \in Clients
    BY <1>1, <1>3 DEF AcceptAt, AcceptOK
  <2>2. /\ sconn'[acur[b]] = sconn[acur[b]] /\ clone'[acur[b]] = clone[acur[b]]
        /\ closes'[acur[b]] = closes[acur[b]] /\ chan'[acur[b]] = chan[acur[b]]
    BY <1>1, <2>1, Zenon DEF OnlyTouches
  <2>3. AcceptOK(acur[b], apc[b])'
    BY <1>1, <2>1, <2>2, Zenon DEF AcceptOK, AcceptRest, clientVars
  <2> QED BY <1>1, <1>3, <2>3 DEF AcceptAt
<1> QED BY <1>2, <1>3

(* The other processes see nothing of it.                                  *)
LEMMA OtherClients ==
  ASSUME IInv, AcceptRest, NEW a \in Acceptors, NEW c \in Clients,
         OnlyMoves(a), OnlyTouches(c), acur[a] \in {c, Nobody},
         NEW d \in Clients, d # c
  PROVE  SockOK(d)' /\ ChanOK(d)' /\ MadeOK(d)'
<1>1. /\ sconn'[d] = sconn[d] /\ clone'[d] = clone[d]
      /\ closes'[d] = closes[d] /\ chan'[d] = chan[d]
  BY Zenon DEF OnlyTouches
<1>2. UNCHANGED <<backlog, reg, cpc, cfd, made, wclosed, wfd, held>>
  BY DEF AcceptRest, clientVars
<1>3. SockOK(d)'
  <2>1. SockOK(d)
    BY DEF IInv, SockView
  <2> QED BY <1>1, <1>2, <2>1, Zenon DEF SockOK
<1>4. ChanOK(d)'
  <2>1. ChanOK(d)
    BY DEF IInv, ChanView
  <2>2. Sent(d) => Sent(d)'
    BY DEF Sent, OnlyMoves
  <2> QED BY <1>1, <1>2, <2>1, <2>2, Zenon DEF ChanOK
<1>5. MadeOK(d)'
  <2>1. MadeOK(d)
    BY DEF IInv, MadeView
  <2>2. InAccept(d) => InAccept(d)'
    BY DEF InAccept, OnlyMoves
  <2> QED BY <1>1, <1>2, <2>1, <2>2 DEF MadeOK
<1> QED BY <1>3, <1>4, <1>5

(* Goroutine a, with connection c, goes from one pc to another.            *)
LEMMA AcceptStep ==
  ASSUME IInv, TypeOK', NEW a \in Acceptors, NEW c \in Clients, acur[a] = c,
         apc[a] # "register", AcceptRest, OnlyMoves(a), OnlyTouches(c),
         AcceptAt(a)', ChanFits(a, c), closes'[c] \in {0, 1},
         sconn'[c] # "none",
         acur'[a] \in {c, Nobody},
         acur'[a] = Nobody => sconn'[c] # "open" /\ clone'[c] # "open"
  PROVE  IInv'
<1>1. AcceptAt(a)
  BY DEF IInv, AcceptView
<1>2. ~made[c] /\ sconn[c] = "open" /\ closes[c] = 0
  BY <1>1 DEF AcceptAt, AcceptOK
<1>3. /\ MapView' /\ CallView' /\ OwnerView' /\ LockView' /\ OnceView'
      /\ SoleView'
  BY <1>2, AcceptFrame, Zenon DEF AcceptRest
<1>4. \A b \in Acceptors : b # a => acur[b] # c
  BY Zenon DEF IInv, OneAccepts
<1>5. AcceptView'
  <2>1. \A b \in Acceptors : b # a => AcceptAt(b)'
    BY <1>4, AcceptOthers
  <2> QED BY <2>1 DEF AcceptView
<1>6. OneAccepts'
  <2> SUFFICES ASSUME NEW b \in Acceptors, NEW e \in Acceptors,
                      acur'[b] = acur'[e], acur'[b] # Nobody
               PROVE  b = e
    BY DEF OneAccepts
  <2>1. (b # a => acur'[b] = acur[b]) /\ (e # a => acur'[e] = acur[e])
    BY DEF OnlyMoves
  <2>2. acur[b] = acur[e] /\ acur[b] # Nobody
    BY <2>1
  <2> QED BY <2>2 DEF IInv, OneAccepts
<1>7. \A d \in Clients : d # c => SockOK(d)' /\ ChanOK(d)' /\ MadeOK(d)'
  BY OtherClients
<1>8. UNCHANGED <<backlog, reg, cpc, cfd, made, wclosed, wfd, held>>
  BY Zenon DEF AcceptRest, clientVars
<1>9. SockOK(c)'
  <2>1. SockOK(c)
    BY Zenon DEF IInv, SockView
  <2> QED BY <1>2, <1>8, <2>1, Zenon DEF SockOK
<1>10. ChanOK(c)'
  <2>1. ~Sent(c)
    BY <1>4, Zenon DEF Sent
  <2>2. ~cfd[c]
    BY <1>2, <2>1 DEF IInv, ChanView, ChanOK
  <2>3. apc'[a] = "register" /\ acur'[a] = c => Sent(c)'
    BY DEF Sent
  <2> QED BY <1>8, <2>2, <2>3, Zenon DEF ChanOK, ChanFits
<1>11. MadeOK(c)'
  <2>1. MadeOK(c)
    BY Zenon DEF IInv, MadeView
  <2>2. acur'[a] = c => InAccept(c)'
    BY DEF InAccept
  <2> QED BY <1>2, <1>8, <2>1, <2>2, Zenon DEF MadeOK
<1>12. SockView' /\ ChanView' /\ MadeView'
  BY <1>7, <1>9, <1>10, <1>11 DEF SockView, ChanView, MadeView
<1> QED BY <1>3, <1>5, <1>6, <1>12 DEF IInv

(* What AcceptWorker knows when it has a connection.                       *)
LEMMA AcceptKnows ==
  ASSUME IInv, NEW a \in Acceptors, apc[a] \notin {"idle", "accept"}
  PROVE  acur[a] \in Clients /\ AcceptOK(acur[a], apc[a])
<1>1. AcceptAt(a)
  BY DEF IInv, AcceptView
<1> QED BY <1>1 DEF AcceptAt, AcceptOK

(* The ranges of the processes and of the calls that close stay.           *)
LEMMA AcceptTypes ==
  ASSUME IInv, NEW a \in Acceptors, NEW c \in Clients,
         NEW pc \in {"idle", "decode", "clone", "respond", "send", "register"},
         apc' = [apc EXCEPT ![a] = pc],
         acur' = acur \/ acur' = [acur EXCEPT ![a] = Nobody],
         AcceptRest, UNCHANGED <<listening, cconn>>,
         sconn' \in [Clients -> {"none", "open", "closed"}],
         chan' \in [Clients -> {<<>>, <<"ok">>, <<"ok", "fd">>, <<"fd">>,
                                <<"err">>}],
         clone' \in [Clients -> {"none", "open", "closed"}],
         closes' \in [Clients -> Nat]
  PROVE  TypeOK'
<1> USE DEF AcceptRest, clientVars, coordVars, callVars
<1>1. SocketType'
  BY DEF IInv, TypeOK, SocketType
<1>2. ProcessType'
  BY DEF IInv, TypeOK, ProcessType
<1>3. WorkerType'
  BY DEF IInv, TypeOK, WorkerType
<1>4. GoroutineType'
  <2>1. /\ apc' \in [Acceptors -> {"idle", "accept", "decode", "clone",
                                   "respond", "send", "register"}]
        /\ acur' \in [Acceptors -> Clients \cup {Nobody}]
    BY DEF IInv, TypeOK, GoroutineType
  <2> QED BY <2>1 DEF IInv, TypeOK, GoroutineType
<1> QED BY <1>1, <1>2, <1>3, <1>4 DEF TypeOK

(* Nothing more is sent.                                                   *)
LEMMA ConcatNothing ==
  ASSUME NEW s \in {<<>>, <<"ok">>} PROVE s \o <<>> = s
<1>1. <<>> \in Seq({"ok"}) /\ <<"ok">> \in Seq({"ok"})
  OBVIOUS
<1>2. s \in Seq({"ok"})
  BY <1>1, Zenon
<1>3. \A e \in Seq({"ok"}) : Len(e) = 0 => s \o e = s
  BY <1>2
<1> QED BY <1>1, <1>3

(* What AcceptWorker has sent before SendFD is no descriptor.              *)
LEMMA NotFd ==
  ASSUME NEW x \in {<<>>, <<"ok">>, <<"err">>}
  PROVE  x \notin {<<"fd">>, <<"ok", "fd">>}
<1>1. Len(x) # 2 /\ (x # <<>> => x[1] # "fd")
  OBVIOUS
<1>2. Len(<<"ok", "fd">>) = 2 /\ <<"fd">>[1] = "fd" /\ <<"fd">> # <<>>
  OBVIOUS
<1> QED BY <1>1, <1>2

(* An error path of AcceptWorker closes all that it has.                   *)
LEMMA Step_Abandon ==
  ASSUME IInv, NEW a \in Acceptors, NEW sent \in {<<>>, <<"err">>},
         apc[a] \in {"decode", "clone", "respond", "send"},
         sent = <<>> \/ apc[a] = "clone",
         Abandon(a, acur[a], sent)
  PROVE  IInv'
<1>1. PICK c \in Clients : acur[a] = c /\ AcceptOK(c, apc[a])
  BY AcceptKnows
<1>2. /\ sconn' = [sconn EXCEPT ![c] = "closed"]
      /\ apc' = [apc EXCEPT ![a] = "idle"]
      /\ acur' = [acur EXCEPT ![a] = Nobody]
      /\ AcceptRest /\ UNCHANGED <<listening, cconn>>
  BY <1>1 DEF Abandon, AcceptRest
<1>3. /\ sconn' \in [Clients -> {"none", "open", "closed"}]
      /\ sconn'[c] = "closed"
      /\ \A d \in Clients : d # c => sconn'[d] = sconn[d]
  BY <1>2 DEF IInv, TypeOK, SocketType
<1>4. /\ clone' \in [Clients -> {"none", "open", "closed"}]
      /\ closes' \in [Clients -> Nat] /\ clone'[c] # "open"
      /\ closes'[c] \in {0, 1}
      /\ \A d \in Clients : d # c => clone'[d] = clone[d]
      /\ \A d \in Clients : d # c => closes'[d] = closes[d]
  <2>1. /\ clone \in [Clients -> {"none", "open", "closed"}]
        /\ closes \in [Clients -> Nat] /\ closes[c] = 0
    BY <1>1, Zenon DEF AcceptOK, IInv, TypeOK, WorkerType
  <2>2. CASE clone[c] = "open"
    <3>1. /\ clone' = [clone EXCEPT ![c] = "closed"]
          /\ closes' = [closes EXCEPT ![c] = 1]
      BY <1>1, <2>1, <2>2 DEF Abandon
    <3>2. /\ clone' \in [Clients -> {"none", "open", "closed"}]
          /\ clone'[c] = "closed"
          /\ \A d \in Clients : d # c => clone'[d] = clone[d]
      BY <2>1, <3>1
    <3>3. /\ closes' \in [Clients -> Nat] /\ closes'[c] = 1
          /\ \A d \in Clients : d # c => closes'[d] = closes[d]
      BY <2>1, <3>1
    <3> QED BY <3>2, <3>3
  <2>3. CASE clone[c] # "open"
    <3>1. clone' = clone /\ closes' = closes
      BY <1>1, <2>1, <2>3 DEF Abandon
    <3> QED BY <2>1, <2>3, <3>1
  <2> QED BY <2>2, <2>3
<1>5. PICK x \in {<<>>, <<"ok">>, <<"err">>} :
        /\ chan' = [chan EXCEPT ![c] = x]
        /\ cpc[c] = "receive" => x \in {<<>>, <<"fd">>}
  <2>1. chan[c] \in {<<>>, <<"ok">>} /\ (apc[a] = "clone" => chan[c] = <<>>)
    BY <1>1, Zenon DEF AcceptOK
  <2>2. /\ chan[c] \o <<>> = chan[c] /\ <<>> \o <<"err">> = <<"err">>
    BY <2>1, ConcatNothing
  <2>3. cpc[c] = "receive" => chan[c] \in {<<>>, <<"fd">>} /\ apc[a] # "clone"
    BY <1>1, Zenon DEF AcceptOK, IInv, ChanView, ChanOK
  <2>4. chan' = [chan EXCEPT ![c] = IF cconn[c] = "open" THEN chan[c] \o sent
                                    ELSE chan[c]]
    BY <1>1, Zenon DEF Abandon
  <2>5. CASE cconn[c] = "open" /\ sent = <<"err">> /\ apc[a] = "clone"
    <3>1. chan' = [chan EXCEPT ![c] = <<"err">>]
      BY <2>1, <2>2, <2>4, <2>5, Zenon
    <3> QED BY <2>3, <2>5, <3>1
  <2>6. CASE cconn[c] # "open" \/ sent = <<>>
    <3>1. chan' = [chan EXCEPT ![c] = chan[c]]
      BY <2>2, <2>4, <2>6, Zenon
    <3> QED BY <2>1, <2>3, <3>1, Zenon
  <2> QED BY <2>5, <2>6
<1>6. /\ chan' \in [Clients -> {<<>>, <<"ok">>, <<"ok", "fd">>, <<"fd">>,
                                <<"err">>}]
      /\ chan'[c] = x /\ \A d \in Clients : d # c => chan'[d] = chan[d]
  BY <1>5 DEF IInv, TypeOK, SocketType
<1>7. TypeOK'
  BY <1>2, <1>3, <1>4, <1>6, AcceptTypes, Zenon
<1>8. /\ apc'[a] = "idle" /\ acur'[a] = Nobody /\ OnlyMoves(a)
  BY <1>2 DEF OnlyMoves, IInv, TypeOK, GoroutineType
<1>9. OnlyTouches(c)
  BY <1>3, <1>4, <1>6 DEF OnlyTouches
<1>10. AcceptAt(a)'
  BY <1>8 DEF AcceptAt
<1>11. ChanFits(a, c)
  <2>1. x \notin {<<"fd">>, <<"ok", "fd">>}
    BY NotFd
  <2> QED BY <1>5, <1>6, <2>1 DEF ChanFits
<1>12. apc[a] # "register"
  OBVIOUS
<1> QED BY <1>1, <1>2, <1>3, <1>4, <1>7, <1>8, <1>9, <1>10, <1>11, <1>12,
           AcceptStep, Zenon

(* Goroutine a, without a connection, begins to wait or gives up.          *)
LEMMA AcceptIdles ==
  ASSUME IInv, NEW a \in Acceptors, apc[a] \in {"idle", "accept"},
         NEW pc \in {"idle", "accept"}, apc' = [apc EXCEPT ![a] = pc],
         UNCHANGED <<sockVars, clientVars, coordVars, workerVars, acur,
                     callVars>>
  PROVE  IInv'
<1>1. /\ UNCHANGED <<listening, backlog, cconn, sconn, reg, chan, cpc, cfd,
                     closed, workers, workersMu, clone, made, wclosed, wfd>>
      /\ UNCHANGED <<closes, held, acur, kpc, kcur>>
  BY DEF sockVars, clientVars, coordVars, workerVars, callVars
<1>2. apc'[a] = pc /\ \A b \in Acceptors : b # a => apc'[b] = apc[b]
  BY DEF IInv, TypeOK, GoroutineType
<1>3. TypeOK'
  <2>1. SocketType' /\ ProcessType'
    BY <1>1 DEF IInv, TypeOK, SocketType, ProcessType
  <2>2. WorkerType'
    BY <1>1 DEF IInv, TypeOK, WorkerType
  <2>3. GoroutineType'
    BY <1>1 DEF IInv, TypeOK, GoroutineType
  <2> QED BY <2>1, <2>2, <2>3 DEF TypeOK
<1>4. acur[a] = Nobody
  BY DEF IInv, AcceptView, AcceptAt
<1>5. AcceptView'
  <2>1. ASSUME NEW b \in Acceptors
        PROVE  AcceptAt(b)'
    <3>1. AcceptAt(b)
      BY DEF IInv, AcceptView
    <3>2. CASE b = a
      BY <1>1, <1>2, <1>4, <3>2 DEF AcceptAt
    <3>3. CASE b # a
      BY <1>1, <1>2, <3>1, <3>3, Zenon DEF AcceptAt, AcceptOK
    <3> QED BY <3>2, <3>3
  <2> QED BY <2>1 DEF AcceptView
<1>6. SockView' /\ OneAccepts'
  <2>1. ASSUME NEW d \in Clients
        PROVE  SockOK(d)'
    <3>1. SockOK(d)
      BY DEF IInv, SockView
    <3> QED BY <1>1, <3>1, Zenon DEF SockOK
  <2>2. OneAccepts'
    BY <1>1 DEF IInv, OneAccepts
  <2> QED BY <2>1, <2>2 DEF SockView
<1>7. ChanView'
  <2>1. \A d \in Clients : Sent(d) => Sent(d)'
    BY <1>1, <1>2, <1>4, Zenon DEF Sent
  <2> QED BY <1>1, <2>1, Zenon DEF IInv, ChanView, ChanOK
<1>8. MadeView'
  <2>1. \A d \in Clients : InAccept(d)' = InAccept(d)
    BY <1>1, Zenon DEF InAccept
  <2> QED BY <1>1, <2>1, Zenon DEF IInv, MadeView, MadeOK
<1>9. MapView' /\ LockView'
  BY <1>1, Zenon DEF IInv, MapView, LockView
<1>10. CallView'
  BY <1>1 DEF IInv, CallView, CallOK
<1>11. \A d \in Clients : InMap(d)' = InMap(d)
  BY <1>1 DEF InMap
<1>12. OwnerView'
  <2> SUFFICES ASSUME NEW d \in Clients PROVE OwnerOK(d)'
    BY DEF OwnerView
  <2>1. OwnerOK(d)
    BY DEF IInv, OwnerView
  <2>2. /\ At(d, {"check", "set"})' = At(d, {"check", "set"})
        /\ At(d, {"conn"})' = At(d, {"conn"})
        /\ At(d, {"conn", "fd"})' = At(d, {"conn", "fd"})
    BY <1>1 DEF At
  <2>3. Overwritten(d)' = Overwritten(d)
    BY <1>1 DEF Overwritten
  <2> QED BY <1>1, <1>11, <2>1, <2>2, <2>3, Zenon DEF OwnerOK
<1>13. OnceView'
  BY <1>1, <1>11 DEF IInv, OnceView, OnceOK
<1>14. SoleView'
  <2>1. ASSUME NEW k \in Callers, kpc[k] \in Closing
        PROVE  SoleOK(k)'
    <3>1. SoleOK(k) /\ kcur[k] \in Clients
      BY <2>1, Zenon DEF IInv, SoleView, CallView, CallOK
    <3> QED BY <1>1, <1>11, <3>1 DEF SoleOK
  <2> QED BY <1>1, <2>1 DEF SoleView, SoleOK
<1> QED BY <1>3, <1>5, <1>6, <1>7, <1>8, <1>9, <1>10, <1>12, <1>13, <1>14
        DEF IInv

(* AcceptWorker begins.                                                    *)
LEMMA Step_AcceptWorker ==
  ASSUME IInv, NEW a \in Acceptors, AcceptWorker(a)
  PROVE  IInv'
BY AcceptIdles, Zenon
DEF AcceptWorker, Proceed, sockVars, clientVars, coordVars, workerVars

(* A connection is taken from the backlog, or the listener is closed.      *)
LEMMA Step_AcceptUnix ==
  ASSUME IInv, NEW a \in Acceptors, AcceptUnix(a)
  PROVE  IInv'
<1>1. /\ apc[a] = "accept"
      /\ UNCHANGED <<listening, cconn, reg, chan, clientVars, coordVars,
                     workerVars, callVars>>
  BY DEF AcceptUnix
<1>2. acur[a] = Nobody
  BY <1>1 DEF IInv, AcceptView, AcceptAt
<1>3. CASE UNCHANGED <<backlog, sconn, acur>> /\
           apc' = [apc EXCEPT ![a] = "idle"]
  BY <1>1, <1>3, AcceptIdles, Zenon DEF sockVars
<1>4. ASSUME NEW c \in backlog, backlog' = backlog \ {c},
             sconn' = [sconn EXCEPT ![c] = "open"],
             apc' = [apc EXCEPT ![a] = "decode"],
             acur' = [acur EXCEPT ![a] = c]
      PROVE  IInv'
  <2>1. c \in Clients /\ SockOK(c) /\ ChanOK(c) /\ MadeOK(c)
    BY <1>4 DEF IInv, TypeOK, SocketType, SockView, ChanView, MadeView
  <2>2. /\ sconn[c] = "none" /\ clone[c] = "none" /\ closes[c] = 0
        /\ ~made[c] /\ chan[c] = <<>> /\ cpc[c] \notin {"dial", "receive"}
    BY <1>4, <2>1 DEF SockOK
  <2>3. /\ apc'[a] = "decode" /\ acur'[a] = c
        /\ \A b \in Acceptors : b # a => apc'[b] = apc[b] /\ acur'[b] = acur[b]
    BY <1>4 DEF IInv, TypeOK, GoroutineType
  <2>4. sconn'[c] = "open" /\ \A d \in Clients : d # c => sconn'[d] = sconn[d]
    BY <1>4, <2>1 DEF IInv, TypeOK, SocketType
  <2>5. /\ UNCHANGED <<listening, cconn, reg, chan, cpc, cfd, closed, workers,
                       workersMu, clone, made, wclosed, wfd>>
        /\ UNCHANGED <<closes, held, kpc, kcur>>
    BY <1>1 DEF clientVars, coordVars, workerVars, callVars
  <2>6. TypeOK'
    <3>1. SocketType' /\ ProcessType'
      BY <1>4, <2>1, <2>5 DEF IInv, TypeOK, SocketType, ProcessType
    <3>2. WorkerType'
      BY <2>5 DEF IInv, TypeOK, WorkerType
    <3>3. GoroutineType'
      BY <1>4, <2>1, <2>5 DEF IInv, TypeOK, GoroutineType
    <3> QED BY <3>1, <3>2, <3>3 DEF TypeOK
  <2>7. \A b \in Acceptors : acur[b] # c
    <3> SUFFICES ASSUME NEW b \in Acceptors, acur[b] = c PROVE FALSE
      OBVIOUS
    <3>1. AcceptAt(b)
      BY DEF IInv, AcceptView
    <3> QED BY <2>1, <2>2, <3>1, Zenon DEF AcceptAt, AcceptOK
  <2>9. SockView'
    <3>1. ASSUME NEW d \in Clients, d # c
          PROVE  SockOK(d)'
      <4>1. SockOK(d)
        BY DEF IInv, SockView
      <4> QED BY <1>4, <2>4, <2>5, <3>1, <4>1, Zenon DEF SockOK
    <3>2. SockOK(c)'
      BY <1>4, <2>1, <2>2, <2>4, <2>5, Zenon DEF SockOK
    <3> QED BY <3>1, <3>2 DEF SockView
  <2>10. AcceptView'
    <3>1. ASSUME NEW b \in Acceptors, b # a
          PROVE  AcceptAt(b)'
      <4>1. AcceptAt(b) /\ acur[b] # c
        BY <2>7 DEF IInv, AcceptView
      <4> QED BY <2>3, <2>4, <2>5, <3>1, <4>1, Zenon DEF AcceptAt, AcceptOK
    <3>2. AcceptOK(c, "decode")'
      BY <2>1, <2>2, <2>4, <2>5, Zenon DEF AcceptOK
    <3>3. AcceptAt(a)'
      BY <2>3, <3>2, Zenon DEF AcceptAt
    <3> QED BY <3>1, <3>3 DEF AcceptView
  <2>11. OneAccepts'
    <3> SUFFICES ASSUME NEW b \in Acceptors, NEW e \in Acceptors,
                        acur'[b] = acur'[e], acur'[b] # Nobody, b # e
                 PROVE  FALSE
      BY DEF OneAccepts
    <3>1. CASE b = a \/ e = a
      BY <2>3, <2>7, <3>1
    <3>2. CASE b # a /\ e # a
      BY <2>3, <3>2 DEF IInv, OneAccepts
    <3> QED BY <3>1, <3>2
  <2>12. ChanView'
    <3>1. \A d \in Clients : Sent(d) => Sent(d)'
      BY <1>1, <2>3 DEF Sent
    <3> QED BY <2>5, <3>1 DEF IInv, ChanView, ChanOK
  <2>13. MadeView'
    <3>1. \A d \in Clients : InAccept(d) => InAccept(d)'
      BY <1>2, <2>3 DEF InAccept
    <3>2. InAccept(c)'
      BY <2>3 DEF InAccept
    <3>3. ASSUME NEW d \in Clients, d # c
          PROVE  MadeOK(d)'
      <4>1. MadeOK(d)
        BY DEF IInv, MadeView
      <4> QED BY <2>4, <2>5, <3>1, <3>3, <4>1, Zenon DEF MadeOK
    <3>4. MadeOK(c)'
      BY <2>1, <2>2, <2>5, <3>2, Zenon DEF MadeOK
    <3> QED BY <3>3, <3>4 DEF MadeView
  <2>14. OnlyTouches(c)
    BY <2>4, <2>5, Zenon DEF OnlyTouches
  <2>15. /\ MapView' /\ CallView' /\ OwnerView' /\ LockView' /\ OnceView'
         /\ SoleView'
    <3>1. closes'[c] \in {0, 1}
      BY <2>2, <2>5, Zenon
    <3>2. UNCHANGED <<reg, coordVars, made, wclosed, wfd, held, callVars>>
      BY <2>5 DEF coordVars, callVars
    <3> QED BY <2>1, <2>2, <2>14, <3>1, <3>2, AcceptFrame, Zenon
  <2> QED BY <2>6, <2>9, <2>10, <2>11, <2>12, <2>13, <2>15 DEF IInv
<1> QED BY <1>3, <1>4 DEF AcceptUnix

(* AcceptWorker goes on to pc: it keeps its connection.                    *)
LEMMA Proceeds ==
  ASSUME IInv, NEW a \in Acceptors, NEW pc, Proceed(a, pc),
         UNCHANGED <<workers, made, wfd, acur>>
  PROVE  /\ apc' = [apc EXCEPT ![a] = pc] /\ apc'[a] = pc /\ acur' = acur
         /\ OnlyMoves(a) /\ AcceptRest /\ closes' = closes
         /\ UNCHANGED <<listening, cconn, reg, cpc>>
<1>1. /\ apc' = [apc EXCEPT ![a] = pc]
      /\ UNCHANGED <<listening, backlog, cconn, reg, clientVars, closed,
                     workersMu, wclosed, closes, held, callVars>>
  BY DEF Proceed
<1>2. apc'[a] = pc /\ OnlyMoves(a)
  BY <1>1 DEF OnlyMoves, IInv, TypeOK, GoroutineType
<1>3. AcceptRest
  BY <1>1 DEF AcceptRest, coordVars
<1> QED BY <1>1, <1>2, <1>3 DEF clientVars

(* The registration has come, or will not come.                            *)
LEMMA Step_DecodeRegistration ==
  ASSUME IInv, NEW a \in Acceptors, DecodeRegistration(a)
  PROVE  IInv'
<1>1. CASE Abandon(a, acur[a], <<>>)
  BY <1>1, Step_Abandon DEF DecodeRegistration
<1>2. CASE ~Abandon(a, acur[a], <<>>)
  <2>1. PICK c \in Clients : acur[a] = c /\ AcceptOK(c, "decode")
    BY AcceptKnows DEF DecodeRegistration
  <2>2. /\ apc[a] = "decode" /\ reg[c] # Nobody /\ Proceed(a, "clone")
        /\ UNCHANGED <<sconn, chan, workers, clone, made, wfd, acur>>
    BY <1>2, <2>1 DEF DecodeRegistration
  <2>3. /\ apc' = [apc EXCEPT ![a] = "clone"] /\ apc'[a] = "clone"
        /\ acur' = acur /\ OnlyMoves(a) /\ AcceptRest /\ closes' = closes
        /\ UNCHANGED <<listening, cconn, reg, cpc>>
    BY <2>2, Proceeds
  <2>4. TypeOK'
    BY <2>2, <2>3, AcceptTypes, Zenon
    DEF IInv, TypeOK, SocketType, WorkerType
  <2>5. OnlyTouches(c)
    BY <2>2, <2>3, Zenon DEF OnlyTouches
  <2>6. AcceptAt(a)'
    BY <2>1, <2>2, <2>3 DEF AcceptAt, AcceptOK
  <2>7. /\ cpc[c] # "receive" /\ closes'[c] \in {0, 1} /\ sconn'[c] # "none"
        /\ chan'[c] = <<>>
    BY <2>1, <2>2, <2>3 DEF AcceptOK
  <2>8. ChanFits(a, c)
    BY <2>7, NotFd DEF ChanFits
  <2>9. acur'[a] = c /\ c # Nobody /\ apc[a] # "register"
    BY <2>1, <2>2, <2>3
  <2> QED BY <2>1, <2>3, <2>4, <2>5, <2>6, <2>7, <2>8, <2>9, AcceptStep, Zenon
<1> QED BY <1>1, <1>2

(* The clone is made, or the process is told that it is not.               *)
LEMMA Step_CloneFuseFD ==
  ASSUME IInv, NEW a \in Acceptors, CloneFuseFD(a)
  PROVE  IInv'
<1>1. CASE Abandon(a, acur[a], <<"err">>)
  BY <1>1, Step_Abandon DEF CloneFuseFD
<1>2. CASE ~Abandon(a, acur[a], <<"err">>)
  <2>1. PICK c \in Clients : acur[a] = c /\ AcceptOK(c, "clone")
    BY AcceptKnows DEF CloneFuseFD
  <2>2. /\ apc[a] = "clone" /\ clone' = [clone EXCEPT ![c] = "open"]
        /\ Proceed(a, "respond")
        /\ UNCHANGED <<sconn, chan, workers, made, wfd, acur>>
    BY <1>2, <2>1 DEF CloneFuseFD
  <2>3. /\ apc' = [apc EXCEPT ![a] = "respond"] /\ apc'[a] = "respond"
        /\ acur' = acur /\ OnlyMoves(a) /\ AcceptRest /\ closes' = closes
        /\ UNCHANGED <<listening, cconn, reg, cpc>>
    BY <2>2, Proceeds
  <2>4. /\ clone' \in [Clients -> {"none", "open", "closed"}]
        /\ clone'[c] = "open"
        /\ \A d \in Clients : d # c => clone'[d] = clone[d]
    BY <2>2 DEF IInv, TypeOK, WorkerType
  <2>5. TypeOK'
    BY <2>2, <2>3, <2>4, AcceptTypes, Zenon
    DEF IInv, TypeOK, SocketType, WorkerType
  <2>6. OnlyTouches(c)
    BY <2>2, <2>3, <2>4, Zenon DEF OnlyTouches
  <2>7. AcceptAt(a)'
    BY <2>1, <2>2, <2>3, <2>4, Zenon DEF AcceptAt, AcceptOK
  <2>8. /\ cpc[c] # "receive" /\ closes'[c] \in {0, 1} /\ sconn'[c] # "none"
        /\ chan'[c] = <<>>
    BY <2>1, <2>2, <2>3, Zenon DEF AcceptOK
  <2>9. ChanFits(a, c)
    BY <2>8, NotFd DEF ChanFits
  <2>10. acur'[a] = c /\ c # Nobody /\ apc[a] # "register"
    BY <2>1, <2>2, <2>3
  <2> QED BY <2>1, <2>3, <2>5, <2>6, <2>7, <2>8, <2>9, <2>10, AcceptStep
<1> QED BY <1>1, <1>2

(* The response goes out.                                                  *)
LEMMA Step_EncodeResponse ==
  ASSUME IInv, NEW a \in Acceptors, EncodeResponse(a)
  PROVE  IInv'
<1>1. CASE Abandon(a, acur[a], <<>>)
  BY <1>1, Step_Abandon DEF EncodeResponse
<1>2. CASE ~Abandon(a, acur[a], <<>>)
  <2>1. PICK c \in Clients : acur[a] = c /\ AcceptOK(c, "respond")
    BY AcceptKnows, Zenon DEF EncodeResponse
  <2>2. /\ apc[a] = "respond" /\ chan' = [chan EXCEPT ![c] = Append(@, "ok")]
        /\ Proceed(a, "send")
        /\ UNCHANGED <<sconn, workers, clone, made, wfd, acur>>
    BY <1>2, <2>1 DEF EncodeResponse
  <2>3. /\ apc' = [apc EXCEPT ![a] = "send"] /\ apc'[a] = "send"
        /\ acur' = acur /\ OnlyMoves(a) /\ AcceptRest /\ closes' = closes
        /\ UNCHANGED <<listening, cconn, reg, cpc>>
    BY <2>2, Proceeds
  <2>4. chan' = [chan EXCEPT ![c] = <<"ok">>]
    <3>1. chan[c] = <<>>
      BY <2>1 DEF AcceptOK
    <3>2. Append(<<>>, "ok") = <<"ok">>
      OBVIOUS
    <3> QED BY <2>2, <3>1, <3>2
  <2>5. /\ chan' \in [Clients -> {<<>>, <<"ok">>, <<"ok", "fd">>, <<"fd">>,
                                  <<"err">>}]
        /\ chan'[c] = <<"ok">>
        /\ \A d \in Clients : d # c => chan'[d] = chan[d]
    BY <2>4 DEF IInv, TypeOK, SocketType
  <2>6. TypeOK'
    BY <2>2, <2>3, <2>5, AcceptTypes, Zenon
    DEF IInv, TypeOK, SocketType, WorkerType
  <2>7. OnlyTouches(c)
    BY <2>2, <2>3, <2>5 DEF OnlyTouches
  <2>8. AcceptAt(a)'
    BY <2>1, <2>2, <2>3, <2>5, Zenon DEF AcceptAt, AcceptOK
  <2>9. cpc[c] # "receive" /\ closes'[c] \in {0, 1} /\ sconn'[c] # "none"
    BY <2>1, <2>2, <2>3 DEF AcceptOK
  <2>10. ChanFits(a, c)
    BY <2>5, <2>9, NotFd DEF ChanFits
  <2>11. acur'[a] = c /\ c # Nobody /\ apc[a] # "register"
    BY <2>1, <2>2, <2>3
  <2> QED BY <2>1, <2>3, <2>6, <2>7, <2>8, <2>9, <2>10, <2>11,
             AcceptStep, Zenon
<1> QED BY <1>1, <1>2

(* The descriptor goes out, or SendFD fails.                               *)
LEMMA Step_SendFD ==
  ASSUME IInv, NEW a \in Acceptors, SendFD(a)
  PROVE  IInv'
<1>1. CASE Abandon(a, acur[a], <<>>)
  BY <1>1, Step_Abandon DEF SendFD
<1>2. CASE ~Abandon(a, acur[a], <<>>)
  <2>1. PICK c \in Clients : acur[a] = c /\ AcceptOK(c, "send")
    BY AcceptKnows, Zenon DEF SendFD
  <2>2. /\ apc[a] = "send" /\ chan' = [chan EXCEPT ![c] = Append(@, "fd")]
        /\ Proceed(a, "register")
        /\ UNCHANGED <<sconn, workers, clone, made, wfd, acur>>
    BY <1>2, <2>1 DEF SendFD
  <2>3. /\ apc' = [apc EXCEPT ![a] = "register"] /\ apc'[a] = "register"
        /\ acur' = acur /\ OnlyMoves(a) /\ AcceptRest /\ closes' = closes
        /\ UNCHANGED <<listening, cconn, reg, cpc>>
    BY <2>2, Proceeds
  <2>4. chan[c] \in {<<>>, <<"ok">>}
    BY <2>1 DEF AcceptOK
  <2>5. PICK x \in {<<"fd">>, <<"ok", "fd">>} :
          /\ chan' = [chan EXCEPT ![c] = x]
          /\ chan[c] = <<>> => x = <<"fd">>
    <3>1. Append(<<>>, "fd") = <<"fd">>
      OBVIOUS
    <3>2. CASE chan[c] = <<>>
      BY <2>2, <3>1, <3>2
    <3>3. CASE chan[c] = <<"ok">>
      <4>1. <<"ok">> # <<>>
        OBVIOUS
      <4> QED BY <2>2, <3>3, <4>1, AppendFd, Zenon
    <3> QED BY <2>4, <3>2, <3>3
  <2>6. /\ chan' \in [Clients -> {<<>>, <<"ok">>, <<"ok", "fd">>, <<"fd">>,
                                  <<"err">>}]
        /\ chan'[c] = x /\ \A d \in Clients : d # c => chan'[d] = chan[d]
    BY <2>5 DEF IInv, TypeOK, SocketType
  <2>7. TypeOK'
    BY <2>2, <2>3, <2>6, AcceptTypes, Zenon
    DEF IInv, TypeOK, SocketType, WorkerType
  <2>8. OnlyTouches(c)
    BY <2>2, <2>3, <2>6, Zenon DEF OnlyTouches
  <2>9. AcceptAt(a)'
    BY <2>1, <2>2, <2>3, Zenon DEF AcceptAt, AcceptOK
  <2>10. closes'[c] \in {0, 1} /\ sconn'[c] # "none"
    BY <2>1, <2>2, <2>3, Zenon DEF AcceptOK
  <2>11. acur'[a] = c /\ c # Nobody /\ apc[a] # "register"
    BY <2>1, <2>2, <2>3
  <2>12. cpc[c] = "receive" => chan[c] = <<>>
    <3>1. cpc[c] = "receive" => chan[c] \in {<<>>, <<"fd">>}
      BY DEF IInv, ChanView, ChanOK
    <3>2. <<"ok">> # <<"fd">>
      OBVIOUS
    <3> QED BY <2>4, <3>1, <3>2, Zenon
  <2>13. ChanFits(a, c)
    BY <2>3, <2>5, <2>6, <2>11, <2>12 DEF ChanFits
  <2> QED BY <2>1, <2>3, <2>7, <2>8, <2>9, <2>10, <2>11, <2>13,
             AcceptStep, Zenon
<1> QED BY <1>1, <1>2

(* The Worker enters the map; whoever was there under its PID is lost.     *)
LEMMA Step_Register ==
  ASSUME IInv, NEW a \in Acceptors, Register(a)
  PROVE  IInv'
<1>1. PICK c \in Clients : acur[a] = c /\ AcceptOK(c, "register")
  BY AcceptKnows DEF Register
<1>2. PICK p \in Pids : p = reg[c]
  BY <1>1, Zenon DEF AcceptOK, IInv, TypeOK, SocketType
<1>3. /\ workersMu = Nobody /\ workers' = [workers EXCEPT ![p] = c]
      /\ made' = [made EXCEPT ![c] = TRUE] /\ wfd' = [wfd EXCEPT ![c] = TRUE]
      /\ acur' = [acur EXCEPT ![a] = Nobody]
      /\ apc' = [apc EXCEPT ![a] = "idle"]
  BY <1>1, <1>2, Zenon DEF Register, Proceed
<1>4. /\ UNCHANGED <<listening, backlog, cconn, sconn, reg, chan, cpc, cfd,
                     closed, workersMu, clone, wclosed>>
      /\ UNCHANGED <<closes, held, kpc, kcur>>
  BY DEF Register, Proceed, clientVars, callVars
<1>5. ~made[c] /\ sconn[c] = "open" /\ closes[c] = 0 /\ reg[c] # Nobody
  BY <1>1, Zenon DEF AcceptOK
<1>6. /\ workers'[p] = c /\ made'[c] /\ wfd'[c] /\ apc'[a] = "idle"
      /\ acur'[a] = Nobody
      /\ \A q \in Pids : q # p => workers'[q] = workers[q]
      /\ \A d \in Clients : d # c => made'[d] = made[d] /\ wfd'[d] = wfd[d]
      /\ \A b \in Acceptors :
           b # a => apc'[b] = apc[b] /\ acur'[b] = acur[b]
  BY <1>3 DEF IInv, TypeOK, WorkerType, GoroutineType
<1>7. TypeOK'
  <2>1. SocketType' /\ ProcessType'
    BY <1>4 DEF IInv, TypeOK, SocketType, ProcessType
  <2>2. WorkerType'
    BY <1>3, <1>4 DEF IInv, TypeOK, WorkerType
  <2>3. GoroutineType'
    BY <1>3, <1>4 DEF IInv, TypeOK, GoroutineType
  <2> QED BY <2>1, <2>2, <2>3 DEF TypeOK
<1>8. SockView'
  <2>1. ASSUME NEW d \in Clients
        PROVE  SockOK(d)'
    <3>1. SockOK(d)
      BY DEF IInv, SockView
    <3>2. CASE d = c
      BY <1>4, <1>5, <3>1, <3>2 DEF SockOK
    <3>3. CASE d # c
      BY <1>4, <1>6, <3>1, <3>3, Zenon DEF SockOK
    <3> QED BY <3>2, <3>3
  <2> QED BY <2>1 DEF SockView
<1>9. \A b \in Acceptors : b # a => acur[b] # c
  BY <1>1 DEF IInv, OneAccepts
<1>10. AcceptView'
  <2>1. ASSUME NEW b \in Acceptors, b # a
        PROVE  AcceptAt(b)'
    <3>1. AcceptAt(b) /\ acur[b] # c
      BY <1>9, <2>1 DEF IInv, AcceptView
    <3> QED BY <1>4, <1>6, <2>1, <3>1, Zenon DEF AcceptAt, AcceptOK
  <2>2. AcceptAt(a)'
    BY <1>6, Zenon DEF AcceptAt
  <2> QED BY <2>1, <2>2 DEF AcceptView
<1>11. OneAccepts'
  <2> SUFFICES ASSUME NEW b \in Acceptors, NEW e \in Acceptors,
                      acur'[b] = acur'[e], acur'[b] # Nobody
               PROVE  b = e
    BY DEF OneAccepts
  <2>1. b # a /\ e # a
    BY <1>6, Zenon
  <2>2. acur[b] = acur[e] /\ acur[b] # Nobody
    BY <1>6, <2>1, Zenon
  <2> QED BY <2>2 DEF IInv, OneAccepts
<1>12. ChanView'
  <2>1. ASSUME NEW d \in Clients
        PROVE  ChanOK(d)'
    <3>1. ChanOK(d)
      BY DEF IInv, ChanView
    <3>2. CASE d = c
      BY <1>4, <1>6, <3>1, <3>2, Zenon DEF ChanOK
    <3>3. CASE d # c
      <4>1. Sent(d) => Sent(d)'
        BY <1>1, <1>6, <3>3, Zenon DEF Sent
      <4> QED BY <1>4, <1>6, <3>1, <3>3, <4>1, Zenon DEF ChanOK
    <3> QED BY <3>2, <3>3
  <2> QED BY <2>1 DEF ChanView
<1>13. MadeView'
  <2>1. ASSUME NEW d \in Clients
        PROVE  MadeOK(d)'
    <3>1. MadeOK(d)
      BY DEF IInv, MadeView
    <3>2. CASE d = c
      BY <1>4, <1>5, <1>6, <3>2, Zenon DEF MadeOK
    <3>3. CASE d # c
      <4>1. InAccept(d) => InAccept(d)'
        BY <1>1, <1>6, <3>3, Zenon DEF InAccept
      <4> QED BY <1>4, <1>6, <3>1, <3>3, <4>1, Zenon DEF MadeOK
    <3> QED BY <3>2, <3>3
  <2> QED BY <2>1 DEF MadeView
<1>14. MapView'
  <2> SUFFICES ASSUME NEW q \in Pids, workers'[q] # Nobody
               PROVE  made'[workers'[q]] /\ reg'[workers'[q]] = q
    BY DEF MapView
  <2>1. CASE q = p
    BY <1>2, <1>4, <1>6, <2>1
  <2>2. CASE q # p
    <3>1. /\ workers'[q] = workers[q] /\ workers[q] \in Clients
          /\ made[workers[q]] /\ reg[workers[q]] = q
      <4>1. workers'[q] = workers[q] /\ workers[q] # Nobody
        BY <1>6, <2>2, Zenon
      <4>2. workers[q] \in Clients
        BY <4>1 DEF IInv, TypeOK, WorkerType
      <4> QED BY <4>1, <4>2 DEF IInv, MapView
    <3>2. workers[q] # c
      BY <1>5, <3>1, Zenon
    <3> QED BY <1>4, <1>6, <3>1, <3>2
  <2> QED BY <2>1, <2>2, Zenon
<1>15. CallView'
  <2>1. ASSUME NEW k \in Callers
        PROVE  CallOK(k)'
    <3>1. CallOK(k) /\ (kcur[k] # c => made'[kcur[k]] = made[kcur[k]]
                                      \/ kcur[k] \notin Clients)
      BY <1>6, Zenon DEF IInv, CallView
    <3> QED BY <1>4, <1>6, <3>1, Zenon DEF CallOK
  <2> QED BY <2>1 DEF CallView
<1>16. LockView'
  BY <1>4 DEF IInv, LockView
<1>17. InMap(c)' /\ \A d \in Clients : d # c /\ InMap(d)' => InMap(d)
  BY <1>6 DEF InMap
<1>18. ~wclosed[c]
  BY <1>5 DEF IInv, MadeView, MadeOK
<1>19. OwnerView'
  <2>1. OwnerOK(c)'
    BY <1>4, <1>17, <1>18, Zenon DEF OwnerOK
  <2>2. ASSUME NEW d \in Clients, d # c
        PROVE  OwnerOK(d)'
    <3>1. OwnerOK(d) /\ made'[d] = made[d]
      BY <1>6, <2>2, Zenon DEF IInv, OwnerView
    <3>2. Overwritten(d) => Overwritten(d)'
      BY <1>4, <1>6, Zenon DEF Overwritten
    <3>3. ASSUME NEW q \in Pids, workers[q] = d
          PROVE  InMap(d)' \/ Overwritten(d)'
      <4>1. CASE q # p
        BY <1>6, <3>3, <4>1 DEF InMap
      <4>2. CASE q = p
        <5>1. reg[d] = p
          BY <3>3, <4>2 DEF IInv, MapView
        <5> QED BY <1>2, <1>4, <1>6, <2>2, <5>1, Zenon DEF Overwritten
      <4> QED BY <4>1, <4>2
    <3>4. InMap(d) => InMap(d)' \/ Overwritten(d)'
      BY <3>3 DEF InMap
    <3>5. /\ At(d, {"check", "set"})' = At(d, {"check", "set"})
          /\ At(d, {"conn"})' = At(d, {"conn"})
          /\ At(d, {"conn", "fd"})' = At(d, {"conn", "fd"})
      BY <1>4 DEF At
    <3> QED BY <1>4, <3>1, <3>2, <3>4, <3>5, Zenon DEF OwnerOK
  <2> QED BY <2>1, <2>2 DEF OwnerView
<1>20. OnceView'
  <2>1. ASSUME NEW d \in Clients
        PROVE  OnceOK(d)'
    <3>1. OnceOK(d)
      BY DEF IInv, OnceView
    <3>2. CASE d = c
      BY <1>4, <1>5, <1>18, <3>1, <3>2, Zenon DEF OnceOK
    <3>3. CASE d # c
      BY <1>4, <1>6, <1>17, <3>1, <3>3, Zenon DEF OnceOK
    <3> QED BY <3>2, <3>3
  <2> QED BY <2>1 DEF OnceView
<1>21. SoleView'
  <2>1. ASSUME NEW k \in Callers, kpc[k] \in Closing
        PROVE  SoleOK(k)'
    <3>1. SoleOK(k) /\ kcur[k] \in Clients /\ kcur[k] # c
      BY <1>5, <2>1, Zenon DEF IInv, SoleView, CallView, CallOK
    <3> QED BY <1>4, <1>17, <3>1 DEF SoleOK
  <2> QED BY <1>4, <2>1, Zenon DEF SoleView, SoleOK
<1> QED BY <1>7, <1>8, <1>10, <1>11, <1>12, <1>13, <1>14, <1>15, <1>16, <1>19,
           <1>20, <1>21 DEF IInv

=============================================================================
