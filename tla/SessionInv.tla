----------------------------- MODULE SessionInv -----------------------------
(***************************************************************************)
(* Why Negotiated, ThresholdKept, FaithfulReply, TimeoutKept and           *)
(* ErrorArrives hold in Session: an invariant that every step preserves.   *)
(***************************************************************************)
EXTENDS Session

(* What handleInit stores and replies when it accepts the offer.           *)
Agreed ==
  [ProtoMajor |-> 7, ProtoMinor |-> protoMinor(offer.Minor),
   MaxReadahead |-> Least(offer.MaxReadahead, opts.MaxReadahead),
   MaxWrite |-> opts.MaxWrite]
AgreedOut ==
  [Major |-> 7, Minor |-> Agreed.ProtoMinor, TimeGran |-> 1,
   MaxReadahead |-> Agreed.MaxReadahead, MaxPages |-> 32,
   Flags |-> Caps \cap offer.Flags, MaxBackground |-> opts.MaxBackground,
   CongestionThreshold |-> CongestionThreshold(opts.MaxBackground),
   MaxWrite |-> opts.MaxWrite]

(* Where the kernel is, what it waits for and what it has.                 *)
Phases ==
  /\ kst = "init" <=> op = "Init"
  /\ op \in Queries => kst = "ready"
  /\ op = "none" => reply = NoReply
  /\ op # "none" \/ kst # "ready" => got = Nothing
  /\ kst \in {"none", "mounted"} => result = NoResult
  /\ opts \in [MaxReadahead : Nat, MaxWrite : Nat,
               MaxBackground : 0..(Two16 - 1)]
  /\ offer \in [Major : Nat, Minor : Nat, MaxReadahead : Nat,
                Flags : SUBSET STRING]
  /\ kst # "none" => bufSize = newBufferPool(opts.MaxWrite + 40 + 4096)

(* Only a number that is out of range is dropped.                          *)
TooLarge(err) == Numbers(err) # {} /\ err[Min(Numbers(err))].n >= 512

(* What the reply to INIT says, while it is on its way.                    *)
InitOnItsWay ==
  op = "Init" =>
    \/ reply = NoReply /\ result = NoResult
    \/ reply = Dropped /\ TooLarge(result.error)
    \/ /\ offer.Major # 7 /\ result = NoResult
       /\ reply = InitReply([Major |-> 7, Minor |-> 41])
    \/ /\ offer.Major = 7 /\ result = NoResult
       /\ reply = ErrorReply(<<Errno(71)>>)
    \/ /\ result.error \in Errors /\ reply = ErrorReply(result.error)
    \/ /\ offer.Major = 7 /\ offer.Minor >= 26 /\ initialized
       /\ config = Agreed /\ reply = InitReply(AgreedOut)
       /\ result = NoResult

(* What the reply to another request says, while it is on its way, and     *)
(* what the kernel has made of it.                                         *)
AnswerOnItsWay ==
  op \in Queries =>
    \/ reply = NoReply /\ result = NoResult
    \/ reply = Dropped /\ TooLarge(result.error)
    \/ result \in Results /\ reply = Answer(op, result)
AnswerTaken ==
  \/ got = Nothing
  \/ /\ got.op \in Queries /\ op = "none" /\ result \in Results
     /\ InRange(Answer(got.op, result).error)
     /\ got = Taken(got.op, Answer(got.op, result))

(* What the kernel works with once INIT is done.                           *)
Connected ==
  kst = "ready" =>
    /\ initialized /\ config = Agreed /\ offer.Minor >= 26
    /\ kconn = [Minor |-> Agreed.ProtoMinor, Flags |-> Caps \cap offer.Flags,
                MaxReadahead |-> Agreed.MaxReadahead,
                MaxBackground |-> opts.MaxBackground,
                CongestionThreshold |->
                  Default(CongestionThreshold(opts.MaxBackground), 9),
                MaxWrite |-> Most(opts.MaxWrite, 4096)]

(* The inductive invariant: what Mount, handleInit, the handlers and the   *)
(* kernel know of each other at every point of a session.                  *)
IInv ==
  /\ TypeOK /\ Phases /\ InitOnItsWay /\ AnswerOnItsWay /\ AnswerTaken
  /\ Connected

=============================================================================
