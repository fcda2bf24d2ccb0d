---------------------------- MODULE MCFuseServer ----------------------------
(* Instances of FuseServer for TLC.                                        *)
EXTENDS FuseServerInv, TLC

(* Requests and buffers are interchangeable: no definition tells them      *)
(* apart.                                                                  *)
Symmetry == Permutations(Reqs) \cup Permutations(Bufs)

Plain(ops) == {[op |-> o, arg |-> "any"] : o \in ops}
InitMatch == [op |-> "INIT", arg |-> "match"]

(* Every request the kernel can send.                                      *)
EveryKind == AllKinds \ {[op |-> "BATCH_FORGET", arg |-> "short"]}

(* What can be under way while the server stops.                           *)
ShutdownKinds == {InitMatch} \cup Plain({"READ", "DESTROY"})

FewKinds == {InitMatch} \cup Plain({"READ"})

NoKinds == {}
SomeJunk == Plain({"READ"}) \cup {[op |-> "BATCH_FORGET", arg |-> "short"]}
=============================================================================
