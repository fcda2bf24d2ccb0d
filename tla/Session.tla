------------------------------ MODULE Session ------------------------------
(***************************************************************************)
(* One mount seen from both sides: the options and defaults of Mount       *)
(* (src/server.go), the negotiation of handleInit, and the values that     *)
(* LOOKUP, GETATTR, OPEN, STATFS and READ carry to the kernel              *)
(* (src/handlers.go, src/types.go), as bytes (module Wire).                *)
(*                                                                         *)
(* One request at a time: what requests do to each other is the subject of *)
(* FuseServer.  External to src/: the kernel's side of the protocol.       *)
(***************************************************************************)
EXTENDS Wire

CONSTANTS
  Options,    \* MountOptions: [MaxReadahead, MaxWrite, MaxBackground]
  Offers,     \* InitIn of kernels: [Major, Minor, MaxReadahead, Flags]
  Durations,  \* EntryTimeout and AttrTimeout that a Filesystem returns
  Errors      \* errors that a Filesystem returns

Two16 == 65536

(* MaxReadahead and MaxWrite are uint32, MaxBackground is a uint16.        *)
ASSUME OptionsAssumption ==
  Options \subseteq [MaxReadahead : Nat, MaxWrite : Nat,
                     MaxBackground : 0..(Two16 - 1)]
ASSUME OffersAssumption ==
  Offers \subseteq [Major : Nat, Minor : Nat, MaxReadahead : Nat,
                    Flags : SUBSET STRING]
(* A time.Duration is an int64.                                            *)
ASSUME DurationsAssumption ==
  \A d \in Durations : d \in Int /\ -Two64 < d /\ d < Two64
(* An error is one, and a syscall.Errno is a uintptr.                      *)
ASSUME ErrorsAssumption ==
  \A e \in Errors : e # <<>> /\ e \in Seq([kind : STRING, n : Nat])

VARIABLES
  \* Server
  opts, bufSize, config, initialized,
  \* the kernel
  offer,   \* its InitIn
  kst,     \* "none", "mounted", "init", "ready" or "failed"
  kconn,   \* what it took from InitOut
  op,      \* the request it waits for, or "none"
  got,     \* what it made of the last reply
  \* what is on its way to the kernel: header.error, the struct and its fields
  reply,
  result   \* what the Filesystem returned for it: an error, and timeouts

svars == <<opts, bufSize, config, initialized>>
kvars == <<offer, kst, kconn, op, got>>
vars == <<svars, kvars, reply, result>>

Queries == {"Read"} \cup (Replies \ {"Init"})
Least(a, b) == IF a < b THEN a ELSE b
Most(a, b) == IF a > b THEN a ELSE b

NoReply == [error |-> 0, struct |-> "nothing", out |-> <<>>]
Dropped == [NoReply EXCEPT !.struct = "dropped"]
NoConfig == [ProtoMajor |-> 0, ProtoMinor |-> 0, MaxReadahead |-> 0,
             MaxWrite |-> 0]
NoResult == [error |-> <<>>, entry |-> 0, attr |-> 0]
NoConn == [Minor |-> 0, MaxReadahead |-> 0, Flags |-> {}, MaxBackground |-> 0,
           CongestionThreshold |-> 0, MaxWrite |-> 0]
Nothing == [op |-> "none", error |-> 0, out |-> <<>>]

(* The flags that handleInit asks for.                                     *)
Caps == {"CapAsyncRead", "CapParallelDirops", "CapAutoInvalData",
         "CapReaddirplus", "CapReaddirplusAuto", "CapCacheSymlinks",
         "CapExportSupport", "CapMaxPages"}

(* The type invariant.                                                     *)
TypeOK ==
  /\ opts.MaxBackground \in 0..(Two16 - 1) /\ bufSize \in Nat
  /\ kst \in {"none", "mounted", "init", "ready", "failed"}
  /\ op \in {"none", "Read"} \cup Replies
  /\ reply.struct \in {"nothing", "dropped", "none", "data"} \cup Replies
  /\ reply.error \in Int /\ reply.error <= 0
  /\ kconn.Flags \subseteq Caps /\ initialized \in BOOLEAN

Init ==
  /\ opts \in Options /\ bufSize = 0 /\ config = NoConfig
  /\ initialized = FALSE
  /\ offer \in Offers /\ kst = "none" /\ kconn = NoConn /\ op = "none"
  /\ got = Nothing /\ reply = NoReply /\ result = NoResult

-----------------------------------------------------------------------------
(* Mount *)

Default(value, default) == IF value = 0 THEN default ELSE value

(* Mutant: the smallest buffer is not the kernel's.                        *)
newBufferPool_small(size) == Most(size, 4096)

newBufferPool(size) == Most(size, 8192)

Mount ==
  /\ kst = "none"
  /\ opts' = [MaxReadahead |-> Default(opts.MaxReadahead, 131072),
              MaxWrite |-> Default(opts.MaxWrite, 131072),
              MaxBackground |-> Default(opts.MaxBackground, 12)]
  /\ bufSize' = newBufferPool(opts'.MaxWrite + 40 + 4096)
  /\ kst' = "mounted"
  /\ UNCHANGED <<config, initialized, offer, kconn, op, got, reply, result>>

-----------------------------------------------------------------------------
(* FUSE_INIT *)

SendInit ==
  /\ kst = "mounted"
  /\ kst' = "init" /\ op' = "Init"
  /\ UNCHANGED <<svars, offer, kconn, got, reply, result>>

(* sendError.                                                              *)
ErrorReply(err) == [error |-> toErrno(err), struct |-> "none", out |-> <<>>]

(* sendResponse of an InitOut; fields that are not set are zero.           *)
InitReply(set) ==
  LET Zero(f) == IF f = "Flags" THEN {} ELSE 0 IN
  [error |-> 0, struct |-> "Init",
   out |-> [f \in Names(InitOut) \cup DOMAIN set |->
              IF f \in DOMAIN set THEN set[f] ELSE Zero(f)]]

(* Mutant: divided first.                                                  *)
CongestionThreshold_early(maxBackground) == (maxBackground \div 4) * 3

(* MaxBackground * 3 / 4, in uint16.                                       *)
CongestionThreshold(maxBackground) == ((maxBackground * 3) % Two16) \div 4

(* Mutant: a newer kernel has its way.                                     *)
protoMinor_newer(minor) == minor

protoMinor(minor) == Least(minor, 41)

(* fs.Init returns err; an error after the config is stored leaves it.     *)
handleInit(err) ==
  /\ op = "Init" /\ reply = NoReply
  /\ LET minor == protoMinor(offer.Minor)
         readahead == Least(offer.MaxReadahead, opts.MaxReadahead) IN
     \/ /\ offer.Major # 7
        /\ reply' = InitReply([Major |-> 7, Minor |-> 41])
        /\ UNCHANGED <<config, initialized, result>>
     \/ /\ offer.Major = 7 /\ offer.Minor < 26
        /\ reply' = ErrorReply(<<Errno(71)>>)
        /\ UNCHANGED <<config, initialized, result>>
     \/ /\ offer.Major = 7 /\ offer.Minor >= 26
        /\ config' = [ProtoMajor |-> 7, ProtoMinor |-> minor,
                      MaxReadahead |-> readahead, MaxWrite |-> opts.MaxWrite]
        /\ result' = [NoResult EXCEPT !.error = err]
        /\ initialized' = (initialized \/ err = <<>>)
        /\ reply' = IF err # <<>> THEN ErrorReply(err) ELSE
             InitReply([Major |-> 7, Minor |-> minor, TimeGran |-> 1,
                        MaxReadahead |-> readahead, MaxPages |-> 32,
                        Flags |-> Caps \cap offer.Flags,
                        MaxBackground |-> opts.MaxBackground,
                        CongestionThreshold |->
                          CongestionThreshold(opts.MaxBackground),
                        MaxWrite |-> opts.MaxWrite])
  /\ UNCHANGED <<opts, bufSize, kvars>>

-----------------------------------------------------------------------------
(* Requests that the Filesystem answers *)

Query(o) ==
  /\ kst = "ready" /\ op = "none"
  /\ op' = o /\ got' = Nothing /\ result' = NoResult
  /\ UNCHANGED <<svars, offer, kst, kconn, reply>>

(* What the fields of a struct are worth: the times come from the          *)
(* conversion, the fields that the handler leaves alone are zero, and any  *)
(* other has a value of its own, for which its place stands.               *)
Unset == {"Dummy", "Padding", "Spare", "Flags"}
Field(struct, f, r) ==
  LET entry == durationToTimespec(r.entry)
      attr == durationToTimespec(r.attr) IN
  CASE f \in Unset -> 0
    [] f = "EntryValid" -> entry.sec
    [] f = "EntryValidNsec" -> entry.nsec
    [] f = "AttrValid" -> IF struct = "Attr" THEN 1 ELSE attr.sec
    [] f = "AttrValidNsec" -> IF struct = "Attr" THEN 0 ELSE attr.nsec
    [] OTHER -> 1 + Place(Structs[struct], f).at

Fields(struct, r) ==
  [f \in Names(Structs[struct]) |-> Field(struct, f, r)]

(* handleLookup, handleGetattr, handleOpen, handleOpendir, handleStatfs and*)
(* handleRead, for what the Filesystem returned.                           *)
Answer(o, r) ==
  IF r.error # <<>> THEN ErrorReply(r.error)
  ELSE IF o = "Read" THEN [error |-> 0, struct |-> "data", out |-> <<>>]
  ELSE [error |-> 0, struct |-> o, out |-> Fields(o, r)]

handleQuery(r) ==
  /\ op \in Queries /\ reply = NoReply
  /\ result' = r
  /\ reply' = Answer(op, r)
  /\ UNCHANGED <<svars, kvars>>

-----------------------------------------------------------------------------
(* The kernel takes a reply (external).  It drops one whose error is out   *)
(* of range, and goes on waiting; a payload of another size than it wants  *)
(* fails the request with EIO.                                             *)

InRange(error) == -512 < error /\ error <= 0
Fits(o, a) == IF o = "Read" THEN a.struct \in {"none", "data"}
              ELSE a.struct = o /\ Accepts(o)

(* What it takes from an InitOut.                                          *)
Connection(out) ==
  LET Seen(f) == Reads("Init", f, out, 0, -1) IN
  [Minor |-> Seen("Minor"), Flags |-> Seen("Flags"),
   MaxReadahead |-> Seen("MaxReadahead"),
   MaxBackground |-> Seen("MaxBackground"),
   CongestionThreshold |-> Default(Seen("CongestionThreshold"), 9),
   MaxWrite |-> Most(Seen("MaxWrite"), 4096)]

(* What it makes of the answer to a query.                                 *)
Taken(o, a) ==
  [op |-> o,
   error |-> IF a.error = 0 /\ ~Fits(o, a) THEN EIO ELSE -a.error,
   out |-> IF a.error # 0 \/ ~Fits(o, a) \/ o = "Read" THEN <<>>
           ELSE [f \in Names(Structs[o]) |-> Reads(o, f, a.out, 0, -1)]]

ReceiveInit ==
  /\ op = "Init" /\ reply \notin {NoReply, Dropped}
  /\ \/ /\ InRange(reply.error)
        /\ op' = "none"
        /\ \/ /\ reply.error # 0 \/ ~Fits(op, reply)
              /\ kst' = "failed" /\ UNCHANGED <<offer, kconn>>
           \/ /\ reply.error = 0 /\ Fits(op, reply) /\ offer.Major # 7
              /\ offer' = [offer EXCEPT !.Major = 7]
              /\ kst' = "mounted" /\ UNCHANGED kconn
           \/ /\ reply.error = 0 /\ Fits(op, reply) /\ offer.Major = 7
              /\ kconn' = Connection(reply.out)
              /\ kst' = "ready" /\ UNCHANGED offer
        /\ reply' = NoReply
     \/ /\ ~InRange(reply.error)
        /\ reply' = Dropped
        /\ UNCHANGED <<op, kst, offer, kconn>>
  /\ UNCHANGED <<svars, got, result>>

ReceiveReply ==
  /\ op \notin {"none", "Init"} /\ reply \notin {NoReply, Dropped}
  /\ IF InRange(reply.error)
     THEN op' = "none" /\ got' = Taken(op, reply) /\ reply' = NoReply
     ELSE reply' = Dropped /\ UNCHANGED <<op, got>>
  /\ UNCHANGED <<svars, offer, kst, kconn, result>>

-----------------------------------------------------------------------------
Results == {[NoResult EXCEPT !.error = e] : e \in Errors}
           \cup [error : {<<>>}, entry : Durations, attr : Durations]

Next ==
  \/ Mount \/ SendInit \/ ReceiveInit \/ ReceiveReply
  \/ \E err \in Errors \cup {<<>>} : handleInit(err)
  \/ \E o \in Queries : Query(o)
  \/ \E r \in Results : handleQuery(r)

Spec == Init /\ [][Next]_vars

-----------------------------------------------------------------------------
(* Properties *)

(* Both sides agree after INIT, on what both can do: the version and the   *)
(* read-ahead that the kernel uses are those in the Config that fs.Init    *)
(* was given, and no capability is used that one side does not have.       *)
Negotiated ==
  kst = "ready" =>
    /\ initialized
    /\ kconn.Minor = config.ProtoMinor /\ kconn.Minor \in 26..41
    /\ kconn.Minor <= offer.Minor
    /\ kconn.MaxReadahead = config.MaxReadahead
    /\ kconn.MaxReadahead <= offer.MaxReadahead
    /\ kconn.Flags \subseteq offer.Flags
    /\ kconn.MaxWrite = Most(config.MaxWrite, 4096)

(* Whatever MaxWrite is set to, a buffer of the pool is one the kernel     *)
(* agrees to fill: at least FUSE_MIN_READ_BUFFER, and room for a write of  *)
(* the size negotiated with its two headers.                               *)
BufferSuffices ==
  kst = "ready" => bufSize >= 8192 /\ bufSize >= kconn.MaxWrite + 80

(* The kernel throttles at three quarters of MaxBackground; from 21846 the *)
(* product wraps, and the threshold is lower, never higher.  (The zero     *)
(* that 1 leads to makes the kernel fall back to its own default.)         *)
ThresholdKept ==
  kst = "ready" /\ kconn.MaxBackground > 1 =>
    /\ 4 * kconn.CongestionThreshold <= 3 * kconn.MaxBackground
    /\ kconn.MaxBackground <= 21845 =>
         3 * kconn.MaxBackground < 4 * (kconn.CongestionThreshold + 1)

(* Every field of every reply that the kernel accepts is read where the    *)
(* writers put it.                                                         *)
FaithfulReply ==
  got.out # <<>> => got.out = Fields(got.op, result)

(* A timeout that is not negative is how long the kernel caches; a         *)
(* negative one is never taken for "do not cache".                         *)
TimeoutKept ==
  got.op = "Entry" /\ got.error = 0 =>
    LET Cached(valid, nsec) ==
          Validity([sec |-> got.out[valid], nsec |-> got.out[nsec]])
        Kept(d, cached) == IF d >= 0 THEN cached = d ELSE cached > 0
    IN  /\ Kept(result.entry, Cached("EntryValid", "EntryValidNsec"))
        /\ Kept(result.attr, Cached("AttrValid", "AttrValidNsec"))

(* An error of the Filesystem fails the request, with the first number in  *)
(* its chain if there is one; only a READ can make success of io.EOF, or   *)
(* of the number 0, and only a number that the protocol has no room for    *)
(* leaves the request without an answer.                                   *)
ErrorArrives ==
  LET numbers == Numbers(result.error)
      first == IF numbers = {} THEN 0 ELSE result.error[Min(numbers)].n IN
  /\ reply = Dropped => first >= 512
  /\ got.op # "none" /\ result.error # <<>> =>
       /\ first # 0 => got.error = first
       /\ got.error = 0 =>
            /\ got.op = "Read"
            /\ \/ numbers # {}
               \/ \E j \in DOMAIN result.error :
                    result.error[j] = Plain("EOF")

-----------------------------------------------------------------------------
(* What the repository's comments say, and the code does not do.           *)

(* "KstatfsSize is the size of Kstatfs in bytes."                          *)
(* (src/proto/types.go:228): a StatFS that succeeds is a STATFS that       *)
(* succeeds.                                                               *)
StatfsSucceeds ==
  got.op = "Statfs" /\ op = "none" /\ result.error = <<>> => got.error = 0

=============================================================================
