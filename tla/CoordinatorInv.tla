--------------------------- MODULE CoordinatorInv ---------------------------
(***************************************************************************)
(* Why Owned, ClosedOnce and HolderKnown hold in Coordinator: an invariant *)
(* that every step preserves.                                              *)
(***************************************************************************)
EXTENDS Coordinator

(* A connection before the coordinator accepts it.                         *)
SockOK(c) ==
  /\ cpc[c] = "dial" => sconn[c] = "none" /\ c \notin backlog
  /\ c \in backlog => sconn[c] = "none"
  /\ cpc[c] \in {"dial", "register"} => reg[c] = Nobody
  /\ sconn[c] = "none" =>
       /\ clone[c] = "none" /\ closes[c] = 0 /\ ~made[c]
       /\ chan[c] = <<>> /\ cpc[c] # "receive"
SockView == \A c \in Clients : SockOK(c)

(* What AcceptWorker knows of its connection c at pc.                      *)
AcceptOK(c, pc) ==
  /\ c \in Clients /\ sconn[c] = "open" /\ ~made[c] /\ closes[c] = 0
  /\ clone[c] = IF pc \in {"respond", "send", "register"} THEN "open"
                ELSE "none"
  /\ pc # "decode" => reg[c] # Nobody
  /\ pc \in {"decode", "clone", "respond"} =>
       chan[c] = <<>> /\ cpc[c] # "receive"
  /\ pc = "send" => chan[c] \in {<<>>, <<"ok">>}
AcceptAt(a) ==
  IF apc[a] \in {"idle", "accept"} THEN acur[a] = Nobody
  ELSE AcceptOK(acur[a], apc[a])
AcceptView == \A a \in Acceptors : AcceptAt(a)

(* A connection is in the hands of one AcceptWorker.                       *)
OneAccepts ==
  \A a, b \in Acceptors : acur[a] = acur[b] /\ acur[a] # Nobody => a = b

(* Where a descriptor that a process has or is about to have comes from.   *)
Sent(c) == \E a \in Acceptors : acur[a] = c /\ apc[a] = "register"
ChanOK(c) ==
  /\ cpc[c] = "receive" => chan[c] \in {<<>>, <<"fd">>}
  /\ cfd[c] \/ chan[c] \in {<<"fd">>, <<"ok", "fd">>} => made[c] \/ Sent(c)
ChanView == \A c \in Clients : ChanOK(c)

(* Before and after AcceptWorker has made the Worker.                      *)
MadeOK(c) ==
  IF made[c]
  THEN reg[c] # Nobody /\ (~wfd[c] => clone[c] = "closed")
  ELSE /\ ~wclosed[c] /\ ~wfd[c] /\ c \notin held /\ closes[c] \in {0, 1}
       /\ sconn[c] = "open" \/ clone[c] = "open" => InAccept(c)
MadeView == \A c \in Clients : MadeOK(c)

(* A Worker is in the map under its PID.                                   *)
MapView ==
  \A p \in Pids :
    workers[p] # Nobody => made[workers[p]] /\ reg[workers[p]] = p

(* What Worker.Close knows of its Worker.                                  *)
Closing == {"check", "set", "conn", "fd", "clear"}
CallOK(k) ==
  IF kpc[k] \in Closing
  THEN /\ kcur[k] \in Clients /\ made[kcur[k]]
       /\ kpc[k] \in {"conn", "fd", "clear"} => wclosed[kcur[k]]
       /\ kpc[k] = "clear" => clone[kcur[k]] = "closed"
  ELSE kcur[k] = Nobody
CallView == \A k \in Callers : CallOK(k)

(* Somebody will close what is open; pcs is where it may be.               *)
At(c, pcs) == \E k \in Callers : kcur[k] = c /\ kpc[k] \in pcs
OwnerOK(c) ==
  made[c] =>
    /\ ~wclosed[c] => InMap(c) \/ At(c, {"check", "set"}) \/ Overwritten(c)
    /\ wclosed[c] /\ sconn[c] = "open" => At(c, {"conn"})
    /\ wclosed[c] /\ clone[c] = "open" => At(c, {"conn", "fd"})
OwnerView == \A c \in Clients : OwnerOK(c)

(* Close holds workersMu through the whole sweep.                          *)
LockView ==
  \A k \in Callers :
    IF k \in Closers
    THEN workersMu = k <=> kpc[k] \in Closing \cup {"sweep"}
    ELSE kpc[k] \in {"start", "returned"} \cup Closing

(* A Worker that only the coordinator closes is closed by one goroutine.   *)
OnceOK(c) ==
  c \notin held =>
    /\ closes[c] \in {0, 1}
    /\ ~wclosed[c] /\ made[c] => closes[c] = 0
    /\ InMap(c) /\ wclosed[c] => workersMu # Nobody
OnceView == \A c \in Clients : OnceOK(c)

SoleOK(k) ==
  kpc[k] \in Closing /\ kcur[k] \notin held =>
    /\ \A j \in Callers : kcur[j] = kcur[k] => j = k
    /\ k \notin Closers => ~InMap(kcur[k])
    /\ kpc[k] \in {"check", "set"} => ~wclosed[kcur[k]]
    /\ kpc[k] \in {"conn", "fd"} => closes[kcur[k]] = 0
SoleView == \A k \in Callers : SoleOK(k)

(* The inductive invariant.                                                *)
IInv ==
  /\ TypeOK /\ SockView /\ AcceptView /\ OneAccepts /\ ChanView /\ MadeView
  /\ MapView /\ CallView /\ OwnerView /\ LockView /\ OnceView /\ SoleView

=============================================================================
