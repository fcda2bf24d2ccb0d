---------------------------- MODULE FuseService ----------------------------
(***************************************************************************)
(* What the library promises the kernel and the Filesystem, without        *)
(* buffers, goroutines or descriptors: the Filesystem gets each request at *)
(* most once and only after its Init has succeeded, the kernel gets at     *)
(* most one reply to each, and that reply is the one the request and the   *)
(* Filesystem's result determine.                                          *)
(***************************************************************************)
EXTENDS Opcodes

CONSTANT Reqs

VARIABLES
  kind,   \* what each request is
  call,   \* the Filesystem call made for it: no, in (progress), or a result
  reply   \* the reply the kernel has to it

svars == <<kind, call, reply>>

Results == {"ok", "err", "eof"}

(* The requests that are the Filesystem's business.                        *)
Delivered(k) ==
  /\ k.op \in HandledOps \ {"FLUSH", "INTERRUPT"}
  /\ k.arg \in {"any", "match", "full"}

(* What a delivered request is told of its call's result.                  *)
Told == [no |-> "none", in |-> "none", ok |-> "OK", err |-> "ERR",
         eof |-> "EMPTY"]

(* The one reply a request may get, given what its call returned; "none"   *)
(* when it must not get one (yet).                                         *)
Answer(k, r) ==
  IF k.op \in WriteOps THEN "EROFS"
  ELSE IF k.op \notin HandledOps THEN "ENOSYS"
  ELSE IF k.op \in ForgetOps \cup {"INTERRUPT"} THEN "none"
  ELSE IF k.op = "FLUSH" THEN "OK"
  ELSE IF k.arg = "major" THEN "VERSION"
  ELSE IF k.arg = "minor" THEN "EPROTO"
  ELSE Told[r]

SInit ==
  /\ kind = [u \in Reqs |-> NoKind]
  /\ call = [u \in Reqs |-> "no"]
  /\ reply = [u \in Reqs |-> "none"]

Arrive(u) ==
  /\ kind[u] = NoKind
  /\ \E k \in AllKinds : kind' = [kind EXCEPT ![u] = k]
  /\ UNCHANGED <<call, reply>>

Call(u) ==
  /\ Delivered(kind[u]) /\ call[u] = "no"
  /\ kind[u].op # "INIT" =>
       \E v \in Reqs : kind[v].op = "INIT" /\ call[v] = "ok"
  /\ call' = [call EXCEPT ![u] = "in"]
  /\ UNCHANGED <<kind, reply>>

Return(u) ==
  /\ call[u] = "in"
  /\ \E r \in Results : call' = [call EXCEPT ![u] = r]
  /\ UNCHANGED <<kind, reply>>

Reply(u) ==
  /\ kind[u] # NoKind /\ reply[u] = "none"
  /\ Answer(kind[u], call[u]) # "none"
  /\ reply' = [reply EXCEPT ![u] = Answer(kind[u], call[u])]
  /\ UNCHANGED <<kind, call>>

SNext == \E u \in Reqs : Arrive(u) \/ Call(u) \/ Return(u) \/ Reply(u)

SSpec == SInit /\ [][SNext]_svars

=============================================================================
