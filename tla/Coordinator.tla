---------------------------- MODULE Coordinator ----------------------------
(***************************************************************************)
(* Sharing a FUSE descriptor between processes: a coordinator clones the   *)
(* descriptor for each worker process that connects to its Unix socket,    *)
(* and passes the clone over it.  Sources: src/sharing/coordinator.go,     *)
(* src/sharing/fdpass.go, src/sharing/clone.go.                            *)
(*                                                                         *)
(* External to src/, and modelled from how src/ uses them: the kernel's    *)
(* side of Unix sockets and of SCM_RIGHTS messages, and encoding/gob.      *)
(*                                                                         *)
(* A worker process makes one connection, so it also names the connection, *)
(* the clone made for it and the Worker that holds both.                   *)
(***************************************************************************)
EXTENDS Naturals, Sequences

CONSTANTS
  Clients,    \* worker processes
  Pids,
  PidOf,      \* the PIDs each worker process may register with
  Silent,     \* peers that may connect and never register
  Acceptors,  \* goroutines that call AcceptWorker in a loop
  Removers,   \* goroutines that call RemoveWorker once
  Closers,    \* goroutines that call Coordinator.Close once
  Holders,    \* goroutines that call Worker.Close once, on some worker
  Nobody

Callers == Removers \cup Closers \cup Holders

ASSUME CallersAssumption ==
  /\ Closers \cap (Removers \cup Holders) = {} /\ Nobody \notin Callers
ASSUME ClientsAssumption ==
  /\ PidOf \in [Clients -> SUBSET Pids] /\ Silent \subseteq Clients
  /\ Nobody \notin Clients /\ Nobody \notin Pids

VARIABLES
  \* the sockets
  listening,  \* the listener is open
  backlog,    \* connections not accepted yet
  cconn,      \* the worker process's end of each connection
  sconn,      \* the coordinator's end
  reg,        \* the PID in the RegisterMessage sent to the coordinator
  chan,       \* what is on its way to the worker process
  \* the worker processes
  cpc, cfd,   \* cfd: the descriptor received is open
  \* Coordinator
  closed, workers,
  workersMu,  \* the goroutine in Close that holds workersMu
  \* each clone and Worker
  clone,      \* the coordinator's descriptor of the clone
  made,       \* the Worker exists
  wclosed, wfd,  \* Worker.closed, and Worker.fd >= 0
  closes,     \* how often the clone's number was passed to close(2)
  held,       \* the Workers that an owner has called Worker.Close on
  \* goroutines in AcceptWorker; in RemoveWorker, Close and Worker.Close
  apc, acur, kpc, kcur

sockVars == <<listening, backlog, cconn, sconn, reg, chan>>
clientVars == <<cpc, cfd>>
coordVars == <<closed, workers, workersMu>>
workerVars == <<clone, made, wclosed, wfd, closes, held>>
acceptVars == <<apc, acur>>
callVars == <<kpc, kcur>>
vars == <<sockVars, clientVars, coordVars, workerVars, acceptVars, callVars>>

(* The type invariant.  A connection carries at most one reply and one     *)
(* descriptor, in this order.                                              *)
SocketType ==
  /\ listening \in BOOLEAN /\ backlog \subseteq Clients
  /\ cconn \in [Clients -> {"none", "open", "closed"}]
  /\ sconn \in [Clients -> {"none", "open", "closed"}]
  /\ reg \in [Clients -> Pids \cup {Nobody}]
  /\ chan \in [Clients -> {<<>>, <<"ok">>, <<"ok", "fd">>, <<"fd">>,
                           <<"err">>}]

ProcessType ==
  /\ cpc \in [Clients -> {"dial", "register", "response", "receive", "serving",
                          "closed", "gone"}]
  /\ cfd \in [Clients -> BOOLEAN]

WorkerType ==
  /\ closed \in BOOLEAN
  /\ workers \in [Pids -> Clients \cup {Nobody}]
  /\ workersMu \in Closers \cup {Nobody}
  /\ clone \in [Clients -> {"none", "open", "closed"}]
  /\ made \in [Clients -> BOOLEAN]
  /\ wclosed \in [Clients -> BOOLEAN] /\ wfd \in [Clients -> BOOLEAN]
  /\ closes \in [Clients -> Nat] /\ held \subseteq Clients

GoroutineType ==
  /\ apc \in [Acceptors -> {"idle", "accept", "decode", "clone", "respond",
                            "send", "register"}]
  /\ acur \in [Acceptors -> Clients \cup {Nobody}]
  /\ kpc \in [Callers -> {"start", "lock", "sweep", "check", "set", "conn",
                          "fd", "clear", "listener", "returned"}]
  /\ kcur \in [Callers -> Clients \cup {Nobody}]

TypeOK == SocketType /\ ProcessType /\ WorkerType /\ GoroutineType

(* What NewCoordinator returns.                                            *)
Init ==
  /\ listening = TRUE /\ backlog = {}
  /\ cconn = [c \in Clients |-> "none"] /\ sconn = [c \in Clients |-> "none"]
  /\ reg = [c \in Clients |-> Nobody] /\ chan = [c \in Clients |-> <<>>]
  /\ cpc = [c \in Clients |-> "dial"] /\ cfd = [c \in Clients |-> FALSE]
  /\ closed = FALSE /\ workers = [p \in Pids |-> Nobody] /\ workersMu = Nobody
  /\ clone = [c \in Clients |-> "none"] /\ made = [c \in Clients |-> FALSE]
  /\ wclosed = [c \in Clients |-> FALSE] /\ wfd = [c \in Clients |-> FALSE]
  /\ closes = [c \in Clients |-> 0] /\ held = {}
  /\ apc = [a \in Acceptors |-> "idle"] /\ acur = [a \in Acceptors |-> Nobody]
  /\ kpc = [k \in Callers |-> "start"] /\ kcur = [k \in Callers |-> Nobody]

-----------------------------------------------------------------------------
(* ConnectToCoordinator and WorkerClient, in the worker process            *)

(* The process's end is closed: what it had not read is lost, descriptors  *)
(* included.                                                               *)
Hangup(c, pc) ==
  /\ cpc' = [cpc EXCEPT ![c] = pc]
  /\ cconn' = [cconn EXCEPT ![c] = "closed"]
  /\ chan' = [chan EXCEPT ![c] = <<>>]
  /\ UNCHANGED <<listening, backlog, sconn, reg>>

Dial(c) ==
  /\ cpc[c] = "dial"
  /\ IF listening
     THEN /\ backlog' = backlog \cup {c}
          /\ cconn' = [cconn EXCEPT ![c] = "open"]
          /\ cpc' = [cpc EXCEPT ![c] = "register"]
     ELSE cpc' = [cpc EXCEPT ![c] = "gone"] /\ UNCHANGED <<backlog, cconn>>
  /\ UNCHANGED <<listening, sconn, reg, chan, cfd, coordVars, workerVars,
                 acceptVars, callVars>>

EncodeRegistration(c) ==
  /\ cpc[c] = "register"
  /\ \/ /\ sconn[c] # "closed"
        /\ \E p \in PidOf[c] : reg' = [reg EXCEPT ![c] = p]
        /\ cpc' = [cpc EXCEPT ![c] = "response"]
        /\ UNCHANGED <<listening, backlog, cconn, sconn, chan>>
     \/ sconn[c] = "closed" /\ Hangup(c, "gone")
  /\ UNCHANGED <<cfd, coordVars, workerVars, acceptVars, callVars>>

(* The decoder of the response reads whatever has arrived.  A descriptor   *)
(* that comes with a byte read this way is closed by the kernel.           *)
DecodeResponse(c) ==
  /\ cpc[c] = "response"
  /\ \/ /\ chan[c] # <<>> /\ Head(chan[c]) = "ok"
        /\ cpc' = [cpc EXCEPT ![c] = "receive"]
        /\ chan' = [chan EXCEPT ![c] = <<>>]
        /\ UNCHANGED <<listening, backlog, cconn, sconn, reg>>
     \/ chan[c] # <<>> /\ Head(chan[c]) = "err" /\ Hangup(c, "gone")
     \/ chan[c] = <<>> /\ sconn[c] = "closed" /\ Hangup(c, "gone")
  /\ UNCHANGED <<cfd, coordVars, workerVars, acceptVars, callVars>>

ReceiveFD(c) ==
  /\ cpc[c] = "receive"
  /\ \/ /\ chan[c] # <<>>
        /\ cpc' = [cpc EXCEPT ![c] = "serving"]
        /\ cfd' = [cfd EXCEPT ![c] = TRUE]
        /\ chan' = [chan EXCEPT ![c] = Tail(@)]
        /\ UNCHANGED <<listening, backlog, cconn, sconn, reg>>
     \/ /\ chan[c] = <<>> /\ sconn[c] = "closed"
        /\ Hangup(c, "gone") /\ UNCHANGED cfd
  /\ UNCHANGED <<coordVars, workerVars, acceptVars, callVars>>

WorkerClientClose(c) ==
  /\ cpc[c] = "serving"
  /\ Hangup(c, IF cfd[c] THEN "closed" ELSE "gone")
  /\ UNCHANGED <<cfd, coordVars, workerVars, acceptVars, callVars>>

WorkerClientCloseFd(c) ==
  /\ cpc[c] \in {"serving", "closed"} /\ cfd[c]
  /\ cfd' = [cfd EXCEPT ![c] = FALSE]
  /\ cpc' = [cpc EXCEPT ![c] = IF @ = "closed" THEN "gone" ELSE @]
  /\ UNCHANGED <<sockVars, coordVars, workerVars, acceptVars, callVars>>

(* The worker process dies with its connection or descriptor open.         *)
Crash(c) ==
  /\ cconn[c] = "open" \/ cfd[c]
  /\ Hangup(c, "gone")
  /\ cfd' = [cfd EXCEPT ![c] = FALSE]
  /\ UNCHANGED <<coordVars, workerVars, acceptVars, callVars>>

-----------------------------------------------------------------------------
(* Coordinator.AcceptWorker, called by goroutine a                         *)

(* AcceptWorker gives up on its connection, and the clone if it has one.   *)
Abandon(a, c, sent) ==
  /\ sconn' = [sconn EXCEPT ![c] = "closed"]
  /\ chan' = [chan EXCEPT ![c] = IF cconn[c] = "open" THEN @ \o sent ELSE @]
  /\ clone' = [clone EXCEPT ![c] = IF @ = "open" THEN "closed" ELSE @]
  /\ closes' = [closes EXCEPT ![c] = IF clone[c] = "open" THEN @ + 1 ELSE @]
  /\ apc' = [apc EXCEPT ![a] = "idle"]
  /\ acur' = [acur EXCEPT ![a] = Nobody]
  /\ UNCHANGED <<listening, backlog, cconn, reg, clientVars, coordVars, made,
                 wclosed, wfd, held, callVars>>

(* AcceptWorker goes on to pc.                                             *)
Proceed(a, pc) ==
  /\ apc' = [apc EXCEPT ![a] = pc]
  /\ UNCHANGED <<listening, backlog, cconn, reg, clientVars, closed, workersMu,
                 wclosed, closes, held, callVars>>

(* The check of c.closed, under closeMu; a call that fails it changes      *)
(* nothing.                                                                *)
AcceptWorker(a) ==
  /\ apc[a] = "idle" /\ ~closed
  /\ Proceed(a, "accept")
  /\ UNCHANGED <<sconn, chan, workers, clone, made, wfd, acur>>

AcceptUnix(a) ==
  /\ apc[a] = "accept"
  /\ \/ \E c \in backlog :
          /\ backlog' = backlog \ {c}
          /\ sconn' = [sconn EXCEPT ![c] = "open"]
          /\ apc' = [apc EXCEPT ![a] = "decode"]
          /\ acur' = [acur EXCEPT ![a] = c]
     \/ /\ ~listening
        /\ apc' = [apc EXCEPT ![a] = "idle"]
        /\ UNCHANGED <<backlog, sconn, acur>>
  /\ UNCHANGED <<listening, cconn, reg, chan, clientVars, coordVars,
                 workerVars, callVars>>

(* Waits, without a deadline, for the registration or the end of it.       *)
DecodeRegistration(a) ==
  LET c == acur[a] IN
  /\ apc[a] = "decode"
  /\ \/ /\ reg[c] # Nobody /\ Proceed(a, "clone")
        /\ UNCHANGED <<sconn, chan, workers, clone, made, wfd, acur>>
     \/ reg[c] = Nobody /\ cconn[c] = "closed" /\ Abandon(a, c, <<>>)

(* CloneFuseFD fails without leaving a descriptor behind; the worker       *)
(* process is told.                                                        *)
CloneFuseFD(a) ==
  LET c == acur[a] IN
  /\ apc[a] = "clone"
  /\ \/ /\ clone' = [clone EXCEPT ![c] = "open"]
        /\ Proceed(a, "respond")
        /\ UNCHANGED <<sconn, chan, workers, made, wfd, acur>>
     \/ Abandon(a, c, <<"err">>)

(* Mutant: an error of Encode leaves the clone open.                       *)
EncodeResponse_leaks(a) ==
  LET c == acur[a] IN
  /\ apc[a] = "respond"
  /\ \/ /\ cconn[c] = "open"
        /\ chan' = [chan EXCEPT ![c] = Append(@, "ok")]
        /\ Proceed(a, "send")
        /\ UNCHANGED <<sconn, workers, clone, made, wfd, acur>>
     \/ /\ cconn[c] = "closed"
        /\ sconn' = [sconn EXCEPT ![c] = "closed"]
        /\ acur' = [acur EXCEPT ![a] = Nobody]
        /\ Proceed(a, "idle")
        /\ UNCHANGED <<chan, workers, clone, made, wfd>>

(* Mutant: the response goes out after the descriptor.                     *)
EncodeResponse_late(a) ==
  LET c == acur[a] IN
  /\ apc[a] = "respond"
  /\ \/ /\ cconn[c] = "open"
        /\ chan' = [chan EXCEPT ![c] = @ \o <<"fd", "ok">>]
        /\ Proceed(a, "register")
        /\ UNCHANGED <<sconn, workers, clone, made, wfd, acur>>
     \/ cconn[c] = "closed" /\ Abandon(a, c, <<>>)

EncodeResponse(a) ==
  LET c == acur[a] IN
  /\ apc[a] = "respond"
  /\ \/ /\ cconn[c] = "open"
        /\ chan' = [chan EXCEPT ![c] = Append(@, "ok")]
        /\ Proceed(a, "send")
        /\ UNCHANGED <<sconn, workers, clone, made, wfd, acur>>
     \/ cconn[c] = "closed" /\ Abandon(a, c, <<>>)

(* Mutant: SendFD reports an error after the message has gone out.         *)
SendFD_lateError(a) ==
  LET c == acur[a] IN
  /\ apc[a] = "send"
  /\ \/ /\ cconn[c] = "open"
        /\ chan' = [chan EXCEPT ![c] = Append(@, "fd")]
        /\ Proceed(a, "register")
        /\ UNCHANGED <<sconn, workers, clone, made, wfd, acur>>
     \/ Abandon(a, c, <<"fd">>)

(* SendFD fails when the worker process is gone, or for want of resources. *)
SendFD(a) ==
  LET c == acur[a] IN
  /\ apc[a] = "send"
  /\ \/ /\ cconn[c] = "open"
        /\ chan' = [chan EXCEPT ![c] = Append(@, "fd")]
        /\ Proceed(a, "register")
        /\ UNCHANGED <<sconn, workers, clone, made, wfd, acur>>
     \/ Abandon(a, c, <<>>)

(* The Worker enters the map, under workersMu, and is returned.            *)
Register(a) ==
  LET c == acur[a] IN
  /\ apc[a] = "register" /\ workersMu = Nobody
  /\ workers' = [workers EXCEPT ![reg[c]] = c]
  /\ made' = [made EXCEPT ![c] = TRUE]
  /\ wfd' = [wfd EXCEPT ![c] = TRUE]
  /\ acur' = [acur EXCEPT ![a] = Nobody]
  /\ Proceed(a, "idle")
  /\ UNCHANGED <<sconn, chan, clone>>

-----------------------------------------------------------------------------
(* RemoveWorker, Coordinator.Close and Worker.Close, called by goroutine k *)

callFrame ==
  <<listening, backlog, cconn, reg, chan, clientVars, made, acceptVars>>

Goto(k, pc) ==
  /\ kpc' = [kpc EXCEPT ![k] = pc]
  /\ UNCHANGED <<callFrame, held>>

(* Mutant: RemoveWorker leaves the worker in the map.                      *)
RemoveWorker_keeps(k, p) ==
  /\ kpc[k] = "start" /\ workersMu = Nobody
  /\ workers[p] # Nobody
  /\ kcur' = [kcur EXCEPT ![k] = workers[p]]
  /\ Goto(k, "check")
  /\ UNCHANGED <<sconn, coordVars, clone, wclosed, wfd, closes>>

(* RemoveWorker takes the worker out of the map and goes on to close it; a *)
(* PID it does not find changes nothing.                                   *)
RemoveWorker(k, p) ==
  /\ kpc[k] = "start" /\ workersMu = Nobody
  /\ workers[p] # Nobody
  /\ workers' = [workers EXCEPT ![p] = Nobody]
  /\ kcur' = [kcur EXCEPT ![k] = workers[p]]
  /\ Goto(k, "check")
  /\ UNCHANGED <<sconn, closed, workersMu, clone, wclosed, wfd, closes>>

(* The owner of a Worker, from AcceptWorker or Workers, closes it.         *)
CloseHeld(k, c) ==
  /\ kpc[k] = "start" /\ made[c]
  /\ kcur' = [kcur EXCEPT ![k] = c]
  /\ held' = held \cup {c}
  /\ kpc' = [kpc EXCEPT ![k] = "check"]
  /\ UNCHANGED <<callFrame, sconn, coordVars, clone, wclosed, wfd, closes>>

CloseSetClosed(k) ==
  /\ kpc[k] = "start"
  /\ closed' = TRUE
  /\ Goto(k, "lock")
  /\ UNCHANGED <<sconn, workers, workersMu, clone, wclosed, wfd, closes, kcur>>

CloseLock(k) ==
  /\ kpc[k] = "lock" /\ workersMu = Nobody
  /\ workersMu' = k
  /\ Goto(k, "sweep")
  /\ UNCHANGED <<sconn, closed, workers, clone, wclosed, wfd, closes, kcur>>

InMap(c) == \E p \in Pids : workers[p] = c

(* Close calls Worker.Close on every worker in the map (to no effect on    *)
(* one that is closed), then empties the map and unlocks it.               *)
CloseSweep(k) ==
  LET left == {c \in Clients : ~wclosed[c] /\ InMap(c)} IN
  /\ kpc[k] = "sweep"
  /\ \/ /\ \E c \in left : kcur' = [kcur EXCEPT ![k] = c]
        /\ Goto(k, "check")
        /\ UNCHANGED <<workers, workersMu>>
     \/ /\ left = {}
        /\ workers' = [p \in Pids |-> Nobody] /\ workersMu' = Nobody
        /\ Goto(k, "listener")
        /\ UNCHANGED kcur
  /\ UNCHANGED <<sconn, closed, clone, wclosed, wfd, closes>>

(* Mutant: Close does not close the listener.                              *)
CloseListener_not(k) ==
  /\ kpc[k] = "listener"
  /\ kpc' = [kpc EXCEPT ![k] = "returned"]
  /\ UNCHANGED <<sockVars, clientVars, coordVars, workerVars, acceptVars,
                 kcur>>

(* Connections not accepted are reset with the listener.                   *)
CloseListener(k) ==
  /\ kpc[k] = "listener"
  /\ listening' = FALSE /\ backlog' = {}
  /\ sconn' = [c \in Clients |-> IF c \in backlog THEN "closed" ELSE sconn[c]]
  /\ kpc' = [kpc EXCEPT ![k] = "returned"]
  /\ UNCHANGED <<cconn, reg, chan, clientVars, coordVars, workerVars,
                 acceptVars, kcur>>

(* Worker.Close ends: in Close the sweep goes on, otherwise the call       *)
(* returns.                                                                *)
WorkerCloseEnds(k) ==
  /\ Goto(k, IF k \in Closers THEN "sweep" ELSE "returned")
  /\ kcur' = [kcur EXCEPT ![k] = Nobody]

WorkerCloseCheck(k) ==
  /\ kpc[k] = "check"
  /\ IF wclosed[kcur[k]] THEN WorkerCloseEnds(k)
                        ELSE Goto(k, "set") /\ UNCHANGED kcur
  /\ UNCHANGED <<sconn, coordVars, clone, wclosed, wfd, closes>>

WorkerCloseSet(k) ==
  /\ kpc[k] = "set"
  /\ wclosed' = [wclosed EXCEPT ![kcur[k]] = TRUE]
  /\ Goto(k, "conn")
  /\ UNCHANGED <<sconn, coordVars, clone, wfd, closes, kcur>>

WorkerCloseConn(k) ==
  /\ kpc[k] = "conn"
  /\ sconn' = [sconn EXCEPT ![kcur[k]] = "closed"]
  /\ Goto(k, "fd")
  /\ UNCHANGED <<coordVars, clone, wclosed, wfd, closes, kcur>>

(* The test of w.fd and the system call, on whatever the number means.     *)
WorkerCloseFd(k) ==
  LET c == kcur[k] IN
  /\ kpc[k] = "fd"
  /\ IF wfd[c]
     THEN /\ clone' = [clone EXCEPT ![c] = "closed"]
          /\ closes' = [closes EXCEPT ![c] = @ + 1]
          /\ Goto(k, "clear") /\ UNCHANGED kcur
     ELSE WorkerCloseEnds(k) /\ UNCHANGED <<clone, closes>>
  /\ UNCHANGED <<sconn, coordVars, wclosed, wfd>>

WorkerCloseClear(k) ==
  /\ kpc[k] = "clear"
  /\ wfd' = [wfd EXCEPT ![kcur[k]] = FALSE]
  /\ WorkerCloseEnds(k)
  /\ UNCHANGED <<sconn, coordVars, clone, wclosed, closes>>

-----------------------------------------------------------------------------
Connect(c) == Dial(c) \/ DecodeResponse(c) \/ ReceiveFD(c)

Accept(a) ==
  \/ AcceptUnix(a) \/ DecodeRegistration(a) \/ CloneFuseFD(a)
  \/ EncodeResponse(a) \/ SendFD(a) \/ Register(a)

WorkerClose(k) ==
  \/ WorkerCloseCheck(k) \/ WorkerCloseSet(k) \/ WorkerCloseConn(k)
  \/ WorkerCloseFd(k) \/ WorkerCloseClear(k)

Close(k) ==
  CloseLock(k) \/ CloseSweep(k) \/ CloseListener(k) \/ WorkerClose(k)

Next ==
  \/ \E c \in Clients : \/ Connect(c) \/ EncodeRegistration(c) \/ Crash(c)
                        \/ WorkerClientClose(c) \/ WorkerClientCloseFd(c)
  \/ \E a \in Acceptors : AcceptWorker(a) \/ Accept(a)
  \/ \E k \in Removers : WorkerClose(k) \/ \E p \in Pids : RemoveWorker(k, p)
  \/ \E k \in Holders : WorkerClose(k) \/ \E c \in Clients : CloseHeld(k, c)
  \/ \E k \in Closers : CloseSetClosed(k) \/ Close(k)

Spec == Init /\ [][Next]_vars

(* Goroutines and worker processes run; a call once made goes on.  Nothing *)
(* is assumed of when calls are made, of when a process dies, or of the    *)
(* peers in Silent once they are connected.                                *)
Fairness ==
  /\ \A c \in Silent : WF_vars(Connect(c))
  /\ \A c \in Clients \ Silent : WF_vars(Connect(c) \/ EncodeRegistration(c))
  /\ \A a \in Acceptors : WF_vars(Accept(a))
  /\ \A k \in Removers \cup Holders : WF_vars(WorkerClose(k))
  /\ \A k \in Closers : WF_vars(Close(k))

FairSpec == Spec /\ Fairness

-----------------------------------------------------------------------------
(* Properties                                                              *)

(* Who is responsible for the connection and the clone of c.               *)
InAccept(c) == \E a \in Acceptors : acur[a] = c
BeingClosed(c) == \E k \in Callers : kcur[k] = c

(* Another worker has registered with c's PID, and may have taken c's      *)
(* place in the map.                                                       *)
Overwritten(c) == \E d \in Clients \ {c} : made[d] /\ reg[d] = reg[c]

(* No error path of AcceptWorker leaks: an open connection or clone is in  *)
(* the hands of a running AcceptWorker, of the map or of a running         *)
(* Worker.Close; only a second registration of a PID can lose the first.   *)
Owned ==
  \A c \in Clients :
    sconn[c] = "open" \/ clone[c] = "open" =>
      \/ InAccept(c) \/ InMap(c) \/ BeingClosed(c)
      \/ made[c] /\ Overwritten(c)

(* A clone's number is closed at most once, by AcceptWorker's error paths, *)
(* RemoveWorker and Close together: a second close would hit whatever file *)
(* has the number by then.  Worker.Close takes no lock: an owner that calls*)
(* it as well has no such promise.                                         *)
ClosedOnce == \A c \in Clients : c \notin held => closes[c] <= 1

(* A process that holds the descriptor is known to the coordinator: its    *)
(* AcceptWorker did not fail, and only RemoveWorker, Close or a second     *)
(* registration of its PID took it out of the map.                         *)
HolderKnown ==
  \A c \in Clients :
    cfd[c] => \/ \E a \in Acceptors : acur[a] = c /\ apc[a] = "register"
              \/ /\ made[c]
                 /\ InMap(c) \/ BeingClosed(c) \/ wclosed[c] \/ Overwritten(c)

AllClosed == \A k \in Closers : kpc[k] = "returned"

(* Once Close has returned, every worker process that was connecting gets  *)
(* an answer, except one whose AcceptWorker registered it after Close had  *)
(* emptied the map.                                                        *)
CloseReleases ==
  \A c \in Clients :
    AllClosed /\ cpc[c] \notin {"dial", "register"} ~>
      (cpc[c] \in {"serving", "closed", "gone"} \/ made[c])

(* Once Close has returned, so does every AcceptWorker, except one that    *)
(* waits for the registration of a peer that stays silent: the read has no *)
(* deadline and Close does not know the connection yet.                    *)
AcceptReturns ==
  \A a \in Acceptors :
    AllClosed ~> (apc[a] = "idle" \/ (apc[a] = "decode" /\ acur[a] \in Silent))

-----------------------------------------------------------------------------
(* What the repository's comments say, and the code does not do.           *)

(* "Close closes the coordinator and all worker connections."              *)
(* (src/sharing/coordinator.go:156): once it has returned, with no         *)
(* AcceptWorker running, no connection is open.                            *)
CloseClosesAll ==
  /\ AllClosed
  /\ \A a \in Acceptors : apc[a] = "idle"
  => \A c \in Clients : sconn[c] # "open"

(* "ConnectToCoordinator connects to a coordinator and receives a FUSE FD."*)
(* (src/sharing/coordinator.go:202): what AcceptWorker has sent to a       *)
(* process that waits for it is there to be received.                      *)
FdReceived ==
  \A c \in Clients : made[c] /\ cpc[c] = "receive" => chan[c] = <<"fd">>

=============================================================================
