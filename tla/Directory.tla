----------------------------- MODULE Directory -----------------------------
(***************************************************************************)
(* Listing a directory, and the lookup counts of the inodes in it: the     *)
(* handlers of READDIR, READDIRPLUS, LOOKUP, FORGET and BATCH_FORGET       *)
(* (src/handlers.go), each in a goroutine of its own, between the kernel   *)
(* and a Filesystem.                                                       *)
(*                                                                         *)
(* External to src/, and modelled from how src/ uses them: the kernel,     *)
(* which goes through a directory reply by reply and counts the inodes it  *)
(* is given, and the Filesystem, which counts the inodes it gives out      *)
(* (Filesystem.Lookup, ReadDirPlus, Forget and BatchForget, src/fs.go).    *)
(***************************************************************************)
EXTENDS Dirents

CONSTANTS
  Stream,      \* the directory: what the Filesystem knows of each entry
  Processes,   \* how many processes list the directory
  Sizes,       \* the reply sizes the kernel asks for
  MaxLookups   \* bound: how many LOOKUPs the kernel sends

Readers == 1..Processes
Cookies == [name : Nat, ino : Nat, offset : Nat, gen : Nat, mode : FileModes,
            nameLen : Nat]
Inodes == {Stream[i].ino : i \in DOMAIN Stream}

(* Offsets go up along the directory, and a reply has room for any entry:  *)
(* the kernel asks for a page at least.                                    *)
ASSUME StreamAssumption ==
  /\ Stream \in Seq(Cookies)
  /\ \A i \in DOMAIN Stream : Stream[i].name = i /\ Stream[i].offset > 0
  /\ \A i, j \in DOMAIN Stream : i < j => Stream[i].offset < Stream[j].offset
ASSUME SizesAssumption ==
  /\ Sizes # {} /\ Sizes \subseteq Nat
  /\ \A s \in Sizes, i \in DOMAIN Stream :
       padded(DirentPlusSize + Stream[i].nameLen) <= s
ASSUME BoundsAssumption == Processes \in Nat /\ MaxLookups \in Nat

VARIABLES
  rpc,      \* each reader: "idle", "sent", "replied", "ended" or "failed"
  rop,      \* the operation it has sent
  rsize,    \* and the size it asked for
  pos,      \* the offset it has come to
  reply,    \* the entries in the reply it has not read yet
  seen,     \* the names it has read
  left,     \* how many LOOKUPs the kernel may still send
  asked,    \* LOOKUPs of each inode that are sent and not answered
  answered, \* and those whose answers the kernel has not read
  kref,     \* the kernel's lookup count of each inode
  forgets,  \* FORGETs on their way, for each inode: their counts
  fsref,    \* the Filesystem's lookup count of each inode
  lost,     \* counted by the Filesystem and not to be forgotten by the kernel
  base      \* BatchForget is FilesystemBase's, Forget the Filesystem's own

readerVars == <<rpc, rop, rsize, pos, reply, seen>>
lookups == <<left, asked, answered>>
vars == <<readerVars, lookups, kref, forgets, fsref, lost, base>>

(* What a reply says of an entry, without and with attributes.             *)
Listed == [name : DOMAIN Stream, ino : Inodes, off : Nat]
ListedPlus == [name : DOMAIN Stream, ino : Inodes, off : Nat, type : Nat,
               mode : Nat]

(* The type invariant.                                                     *)
TypeOK ==
  /\ rpc \in [Readers -> {"idle", "sent", "replied", "ended", "failed"}]
  /\ rop \in [Readers -> {"READDIR", "READDIRPLUS"}]
  /\ rsize \in [Readers -> Sizes]
  /\ pos \in [Readers -> Nat]
  /\ reply \in [Readers -> Seq(Listed \cup ListedPlus)]
  /\ seen \in [Readers -> Seq(DOMAIN Stream)]
  /\ asked \in [Inodes -> Nat] /\ answered \in [Inodes -> Nat]
  /\ left \in 0..MaxLookups
  /\ kref \in [Inodes -> Nat] /\ fsref \in [Inodes -> Int]
  /\ forgets \in [Inodes -> Seq(Nat \ {0})]
  /\ lost \in [Inodes -> Nat]
  /\ base \in BOOLEAN

None == [i \in Inodes |-> 0]

Init ==
  /\ rpc = [r \in Readers |-> "idle"] /\ rop = [r \in Readers |-> "READDIR"]
  /\ rsize = [r \in Readers |-> CHOOSE s \in Sizes : TRUE]
  /\ pos = [r \in Readers |-> 0] /\ reply = [r \in Readers |-> <<>>]
  /\ seen = [r \in Readers |-> <<>>]
  /\ left = MaxLookups /\ asked = None /\ answered = None
  /\ kref = None /\ fsref = None /\ lost = None
  /\ forgets = [i \in Inodes |-> <<>>]
  /\ base \in BOOLEAN

-----------------------------------------------------------------------------
(* How often an inode is among entries, and that for every inode.          *)
Count(entries, i) == Cardinality({n \in DOMAIN entries : entries[n].ino = i})
Plus(f, entries) == [i \in Inodes |-> f[i] + Count(entries, i)]

(* The next page of the directory (external): the kernel asks for more,    *)
(* plainly or with attributes, until a reply is empty.                     *)
SendReaddir(r, op, size) ==
  /\ rpc[r] = "idle"
  /\ rpc' = [rpc EXCEPT ![r] = "sent"]
  /\ rop' = [rop EXCEPT ![r] = op]
  /\ rsize' = [rsize EXCEPT ![r] = size]
  /\ UNCHANGED <<pos, reply, seen, lookups, kref, forgets, fsref, lost, base>>

(* What ReadDir and ReadDirPlus may return (external): some of the entries *)
(* behind offset, none only at the end.                                    *)
Passed(offset) ==
  Cardinality({i \in DOMAIN Stream : Stream[i].offset <= offset})
Pages(offset) ==
  LET n == Passed(offset) IN
  IF n = Len(Stream) THEN {<<>>}
  ELSE {SubSeq(Stream, n + 1, m) : m \in (n + 1)..Len(Stream)}

Reply(r, entries) ==
  /\ rpc' = [rpc EXCEPT ![r] = "replied"]
  /\ reply' = [reply EXCEPT ![r] = entries]
  /\ UNCHANGED <<rop, rsize, pos, seen>>

(* A handler returns the Filesystem's error: the listing fails.  (io.EOF   *)
(* becomes an empty reply, which Pages has.)                               *)
ReplyError(r) ==
  /\ rpc' = [rpc EXCEPT ![r] = "failed"]
  /\ UNCHANGED <<rop, rsize, pos, reply, seen>>

(* Mutant: the end of the directory is not replied to.                     *)
handleReaddir_noEnd(r) ==
  /\ rpc[r] = "sent" /\ rop[r] = "READDIR"
  /\ Passed(pos[r]) < Len(Stream)
  /\ \/ \E page \in Pages(pos[r]) :
          Reply(r, serializeDirents(page, rsize[r]))
     \/ ReplyError(r)
  /\ UNCHANGED <<lookups, kref, forgets, fsref, lost, base>>

handleReaddir(r) ==
  /\ rpc[r] = "sent" /\ rop[r] = "READDIR"
  /\ \/ \E page \in Pages(pos[r]) :
          Reply(r, serializeDirents(page, rsize[r]))
     \/ ReplyError(r)
  /\ UNCHANGED <<lookups, kref, forgets, fsref, lost, base>>

(* ReadDirPlus counts every entry it returns; those that do not fit into   *)
(* the reply are dropped.                                                  *)
handleReaddirplus(r) ==
  /\ rpc[r] = "sent" /\ rop[r] = "READDIRPLUS"
  /\ \/ \E page \in Pages(pos[r]) :
          LET sent == serializeDirentsPlus(page, rsize[r]) IN
          /\ Reply(r, sent)
          /\ fsref' = Plus(fsref, page)
          /\ lost' = [i \in Inodes |->
                        lost[i] + Count(page, i) - Count(sent, i)]
     \/ ReplyError(r) /\ UNCHANGED <<fsref, lost>>
  /\ UNCHANGED <<lookups, kref, forgets, base>>

(* The kernel reads the reply (external): it counts every entry with       *)
(* attributes, hands the first n to the process and goes on behind them.   *)
ReadReply(r) ==
  /\ rpc[r] = "replied"
  /\ IF reply[r] = <<>>
     THEN rpc' = [rpc EXCEPT ![r] = "ended"] /\ UNCHANGED <<pos, seen>>
     ELSE \E n \in 1..Len(reply[r]) :
            /\ rpc' = [rpc EXCEPT ![r] = "idle"]
            /\ pos' = [pos EXCEPT ![r] = reply[r][n].off]
            /\ seen' = [seen EXCEPT ![r] =
                          @ \o [i \in 1..n |-> reply[r][i].name]]
  /\ kref' = IF rop[r] = "READDIRPLUS" THEN Plus(kref, reply[r]) ELSE kref
  /\ reply' = [reply EXCEPT ![r] = <<>>]
  /\ UNCHANGED <<rop, rsize, lookups, forgets, fsref, lost, base>>

-----------------------------------------------------------------------------
Add(f, i, n) == [f EXCEPT ![i] = @ + n]

(* LOOKUP: sent by the kernel (external), handled, read by the kernel.     *)
SendLookup(i) ==
  /\ left > 0
  /\ left' = left - 1 /\ asked' = Add(asked, i, 1)
  /\ UNCHANGED <<readerVars, answered, kref, forgets, fsref, lost, base>>

(* Mutant: a LOOKUP is handled again.                                      *)
handleLookup_again(i) ==
  /\ asked' = Add(asked, i, -1)
  /\ answered' = Add(answered, i, 1) /\ fsref' = Add(fsref, i, 1)
  /\ UNCHANGED <<readerVars, left, kref, forgets, lost, base>>

handleLookup(i) ==
  /\ asked[i] > 0
  /\ asked' = Add(asked, i, -1)
  /\ \/ answered' = Add(answered, i, 1) /\ fsref' = Add(fsref, i, 1)
     \/ UNCHANGED <<answered, fsref>>
  /\ UNCHANGED <<readerVars, left, kref, forgets, lost, base>>

ReadLookup(i) ==
  /\ answered[i] > 0
  /\ answered' = Add(answered, i, -1)
  /\ kref' = Add(kref, i, 1)
  /\ UNCHANGED <<readerVars, left, asked, forgets, fsref, lost, base>>

(* The kernel drops an inode from its cache (external).                    *)
Evict(i) ==
  /\ kref[i] > 0
  /\ forgets' = [forgets EXCEPT ![i] = Append(@, kref[i])]
  /\ kref' = [kref EXCEPT ![i] = 0]
  /\ UNCHANGED <<readerVars, lookups, fsref, lost, base>>

(* Handlers run in any order, so any of the FORGETs may come first.        *)
Without(s, n) == SubSeq(s, 1, n - 1) \o SubSeq(s, n + 1, Len(s))
handleForget(i, n) ==
  /\ fsref' = Add(fsref, i, -forgets[i][n])
  /\ forgets' = [forgets EXCEPT ![i] = Without(@, n)]
  /\ UNCHANGED <<readerVars, lookups, kref, lost, base>>

(* Mutant: an inode that is named is dropped whatever its count.           *)
handleBatchForget_all(S) ==
  /\ Cardinality(S) > 1 /\ \A i \in S : forgets[i] # <<>>
  /\ fsref' = [i \in Inodes |-> IF i \in S THEN 0 ELSE fsref[i]]
  /\ forgets' = [i \in Inodes |->
                   IF i \in S THEN Tail(forgets[i]) ELSE forgets[i]]
  /\ UNCHANGED <<readerVars, lookups, kref, lost, base>>

(* The Filesystem's BatchForget, or FilesystemBase's, which calls          *)
(* FilesystemBase's Forget and so forgets nothing.                         *)
handleBatchForget(S) ==
  LET named(i) == IF i \in S THEN Head(forgets[i]) ELSE 0 IN
  /\ Cardinality(S) > 1 /\ \A i \in S : forgets[i] # <<>>
  /\ IF base
     THEN /\ lost' = [i \in Inodes |-> lost[i] + named(i)]
          /\ UNCHANGED fsref
     ELSE /\ fsref' = [i \in Inodes |-> fsref[i] - named(i)]
          /\ UNCHANGED lost
  /\ forgets' = [i \in Inodes |->
                   IF i \in S THEN Tail(forgets[i]) ELSE forgets[i]]
  /\ UNCHANGED <<readerVars, lookups, kref, base>>

-----------------------------------------------------------------------------
Listing(r) ==
  \/ \E op \in {"READDIR", "READDIRPLUS"}, size \in Sizes :
       SendReaddir(r, op, size)
  \/ handleReaddir(r) \/ handleReaddirplus(r) \/ ReadReply(r)

Next ==
  \/ \E r \in Readers : Listing(r)
  \/ \E i \in Inodes :
       \/ SendLookup(i) \/ handleLookup(i) \/ ReadLookup(i) \/ Evict(i)
       \/ \E n \in DOMAIN forgets[i] : handleForget(i, n)
  \/ \E S \in SUBSET Inodes : handleBatchForget(S)

Spec == Init /\ [][Next]_vars

(* A process that lists the directory goes on to the end, and its requests *)
(* are handled.                                                            *)
FairSpec == Spec /\ \A r \in Readers : WF_vars(Listing(r))

-----------------------------------------------------------------------------
(* Properties *)

(* The directory comes in order, nothing twice and nothing left out,       *)
(* however the pages of ReadDir and ReadDirPlus, the packing of replies,   *)
(* the kernel's reading of them and its choice of operation fall.          *)
InOrder ==
  \A r \in Readers :
    /\ \A i \in DOMAIN seen[r] : seen[r][i] = i
    /\ rpc[r] = "ended" => Len(seen[r]) = Len(Stream)

(* A reply is never longer than the kernel asked for, which it would       *)
(* reject: the room an entry takes is that of its header, its name and the *)
(* padding.                                                                *)
ReplyFits ==
  \A r \in Readers :
    LET header == IF rop[r] = "READDIR" THEN DirentSize ELSE DirentPlusSize
        listed == [n \in 1..Len(reply[r]) |-> Stream[reply[r][n].name]]
    IN  Total(rooms(listed, header)) <= rsize[r]

(* Every listing ends.                                                     *)
ListingEnds == \A r \in Readers : <>(rpc[r] \in {"ended", "failed"})

(* The type a READDIRPLUS entry is listed with is the type in its          *)
(* attributes.                                                             *)
TypesAgree ==
  \A r \in Readers : rop[r] = "READDIRPLUS" =>
    \A n \in DOMAIN reply[r] : KernelType(reply[r][n].mode) = reply[r][n].type

(* What is on its way between the Filesystem's count and the kernel's.     *)
Unread(i) ==
  Total([r \in Readers |->
           IF rop[r] = "READDIRPLUS" THEN Count(reply[r], i) ELSE 0])
Unheard(i) == Total(forgets[i])

(* The Filesystem's count of an inode covers the kernel's, the answers the *)
(* kernel has not read and the FORGETs on their way, to the last one, so   *)
(* no order of handlers makes it drop an inode in use; what is too much is *)
(* what a reply had no room for, or FilesystemBase was told.               *)
CountsMatch ==
  \A i \in Inodes :
    fsref[i] = kref[i] + answered[i] + Unread(i) + Unheard(i) + lost[i]

-----------------------------------------------------------------------------
(* What the repository's comments say, and the code does not do.           *)

(* "offset is the position in the directory stream (from previous          *)
(* DirEntry.Offset)." (src/fs.go:43): a listing goes on behind an entry of *)
(* the directory, the one it came to.                                      *)
OffsetIsPosition ==
  \A r \in Readers :
    seen[r] # <<>> => pos[r] = Stream[seen[r][Len(seen[r])]].offset

=============================================================================
