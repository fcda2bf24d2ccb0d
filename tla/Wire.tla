-------------------------------- MODULE Wire --------------------------------
(***************************************************************************)
(* Replies as bytes, and the conversions that make their fields.  Sources: *)
(* the structs and sizes of src/proto/types.go and src/proto/init.go, the  *)
(* writers of src/handlers.go, durationToTimespec (src/types.go) and       *)
(* toErrno (src/errors.go).                                                *)
(*                                                                         *)
(* A struct is the sequence of its fields and their widths in bytes, a     *)
(* writer the set of its PutUint calls; what a field is worth is the       *)
(* business of the modules that use this one.                              *)
(***************************************************************************)
EXTENDS Sums, FiniteSetsExt

CONSTANTS
  Second,  \* nanoseconds in a second
  Two32,   \* 2^32, the range of uint32
  Two64    \* 2^64, the range of uint64

ASSUME WidthAssumption ==
  /\ Second \in Nat \ {0} /\ Two32 \in Nat /\ Two64 \in Nat
  /\ Second < Two32 /\ Two32 < Two64

-----------------------------------------------------------------------------
(* Structs *)

U64(name) == [name |-> name, width |-> 8]
U32(name) == [name |-> name, width |-> 4]
U16(name) == [name |-> name, width |-> 2]
Array32(name, n) == [name |-> name, width |-> 4 * n]

Attr ==
  <<U64("Ino"), U64("Size"), U64("Blocks"), U64("Atime"), U64("Mtime"),
    U64("Ctime"), U32("AtimeNsec"), U32("MtimeNsec"), U32("CtimeNsec"),
    U32("Mode"), U32("Nlink"), U32("Uid"), U32("Gid"), U32("Rdev"),
    U32("Blksize"), U32("Flags")>>

EntryOut ==
  <<U64("NodeID"), U64("Generation"), U64("EntryValid"), U64("AttrValid"),
    U32("EntryValidNsec"), U32("AttrValidNsec")>> \o Attr

AttrOut == <<U64("AttrValid"), U32("AttrValidNsec"), U32("Dummy")>> \o Attr

OpenOut == <<U64("Fh"), U32("OpenFlags"), U32("Padding")>>

Kstatfs ==
  <<U64("Blocks"), U64("Bfree"), U64("Bavail"), U64("Files"), U64("Ffree"),
    U32("Bsize"), U32("Namelen"), U32("Frsize"), U32("Padding"),
    Array32("Spare", 6)>>

InitOut ==
  <<U32("Major"), U32("Minor"), U32("MaxReadahead"), U32("Flags"),
    U16("MaxBackground"), U16("CongestionThreshold"), U32("MaxWrite"),
    U32("TimeGran"), U16("MaxPages"), U16("MapAlignment"), U32("Flags2"),
    U32("MaxStackDepth"), Array32("Unused", 6)>>

Structs == [Init |-> InitOut, Entry |-> EntryOut, Attr |-> AttrOut,
            Open |-> OpenOut, Statfs |-> Kstatfs]
Replies == DOMAIN Structs

Widths(struct) == [i \in 1..Len(struct) |-> struct[i].width]
SizeOf(struct) == Total(Widths(struct))
Names(struct) == {struct[i].name : i \in DOMAIN struct}

(* Where a field is: Go aligns fields of these widths as C does.           *)
Place(struct, name) ==
  LET i == CHOOSE j \in DOMAIN struct : struct[j].name = name
  IN  [at |-> PrefixSums(Widths(struct))[i - 1], width |-> struct[i].width]

-----------------------------------------------------------------------------
(* Writers: name, offset and width of each PutUint *)

Put(name, at, width) == [name |-> name, at |-> at, width |-> width]

writeAttr(at) ==
  { Put("Ino", at, 8), Put("Size", at + 8, 8), Put("Blocks", at + 16, 8),
    Put("Atime", at + 24, 8), Put("Mtime", at + 32, 8),
    Put("Ctime", at + 40, 8), Put("AtimeNsec", at + 48, 4),
    Put("MtimeNsec", at + 52, 4), Put("CtimeNsec", at + 56, 4),
    Put("Mode", at + 60, 4), Put("Nlink", at + 64, 4), Put("Uid", at + 68, 4),
    Put("Gid", at + 72, 4), Put("Rdev", at + 76, 4),
    Put("Blksize", at + 80, 4), Put("Flags", at + 84, 4) }

initOutBytes ==
  [size |-> 64,
   puts |-> { Put("Major", 0, 4), Put("Minor", 4, 4),
              Put("MaxReadahead", 8, 4), Put("Flags", 12, 4),
              Put("MaxBackground", 16, 2),
              Put("CongestionThreshold", 18, 2), Put("MaxWrite", 20, 4),
              Put("TimeGran", 24, 4), Put("MaxPages", 28, 2),
              Put("MapAlignment", 30, 2), Put("Flags2", 32, 4),
              Put("MaxStackDepth", 36, 4) }]

(* Mutant: the nanoseconds follow their seconds, as in AttrOut.            *)
entryOutBytes_paired ==
  [size |-> 128,
   puts |-> { Put("NodeID", 0, 8), Put("Generation", 8, 8),
              Put("EntryValid", 16, 8), Put("EntryValidNsec", 24, 4),
              Put("AttrValid", 28, 8), Put("AttrValidNsec", 36, 4) }
            \cup writeAttr(40)]

entryOutBytes ==
  [size |-> 128,
   puts |-> { Put("NodeID", 0, 8), Put("Generation", 8, 8),
              Put("EntryValid", 16, 8), Put("AttrValid", 24, 8),
              Put("EntryValidNsec", 32, 4), Put("AttrValidNsec", 36, 4) }
            \cup writeAttr(40)]

attrOutBytes ==
  [size |-> 104,
   puts |-> { Put("AttrValid", 0, 8), Put("AttrValidNsec", 8, 4),
              Put("Dummy", 12, 4) } \cup writeAttr(16)]

openOutBytes ==
  [size |-> 16,
   puts |-> { Put("Fh", 0, 8), Put("OpenFlags", 8, 4), Put("Padding", 12, 4) }]

statfsOutBytes ==
  [size |-> 64,
   puts |-> { Put("Blocks", 0, 8), Put("Bfree", 8, 8), Put("Bavail", 16, 8),
              Put("Files", 24, 8), Put("Ffree", 32, 8), Put("Bsize", 40, 4),
              Put("Namelen", 44, 4), Put("Frsize", 48, 4) }]

Bytes == [Init |-> initOutBytes, Entry |-> entryOutBytes,
          Attr |-> attrOutBytes, Open |-> openOutBytes,
          Statfs |-> statfsOutBytes]

-----------------------------------------------------------------------------
(* The kernel's side (external): it takes a reply whose payload has the    *)
(* size of the struct, and reads the struct's fields from it.              *)

Accepts(reply) == Bytes[reply].size = SizeOf(Structs[reply])

(* What the kernel reads in place of a field: the value put there, the     *)
(* zero that make left there, or bytes of something else.                  *)
Reads(reply, name, out, zero, garbled) ==
  LET p == Place(Structs[reply], name)
      over == {q \in Bytes[reply].puts : /\ q.at < p.at + p.width
                                         /\ p.at < q.at + q.width}
  IN  IF over = {} THEN zero
      ELSE IF over = {Put(name, p.at, p.width)} THEN out[name] ELSE garbled

-----------------------------------------------------------------------------
(* Conversions *)

(* Go's division truncates towards zero, and the remainder has the sign of *)
(* the dividend.                                                           *)
GoDiv(a, b) == IF a >= 0 THEN a \div b ELSE -((-a) \div b)
GoMod(a, b) == a - b * GoDiv(a, b)

(* Mutant: the nanoseconds of the whole duration, not of its last second.  *)
durationToTimespec_whole(d) ==
  [sec |-> GoDiv(d, Second) % Two64, nsec |-> d % Two32]

durationToTimespec(d) ==
  [sec |-> GoDiv(d, Second) % Two64, nsec |-> GoMod(d, Second) % Two32]

(* How long the kernel caches (external): it bounds the nanoseconds.       *)
Validity(t) ==
  t.sec * Second + (IF t.nsec < Second THEN t.nsec ELSE Second - 1)

(* An error is the chain of what it wraps: numbers are syscall.Errno, the  *)
(* other members the package's sentinels, or "other".                      *)
Sentinels == <<"ErrNotExist", "ErrExist", "ErrPermission", "ErrClosed",
               "ErrInvalid", "EOF", "Canceled", "DeadlineExceeded">>
SentinelErrno == <<2, 17, 13, 9, 22, 0, 4, 110>>
EIO == 5

Errno(n) == [kind |-> "errno", n |-> n]
Plain(s) == [kind |-> s, n |-> 0]

(* Mutant: the numbers keep their sign.                                    *)
toErrno_positive(err) ==
  IF err = <<>> THEN 0 ELSE IF err[1].kind = "errno" THEN err[1].n ELSE EIO

(* Where an error's chain has numbers, and which sentinels are in it.      *)
Numbers(err) == {i \in DOMAIN err : err[i].kind = "errno"}
Listed(err) == {i \in DOMAIN Sentinels :
                  \E j \in DOMAIN err : err[j] = Plain(Sentinels[i])}

(* Mutant: the sentinels are looked for before the numbers.                *)
toErrno_sentinelsFirst(err) ==
  IF err = <<>> THEN 0
  ELSE IF Listed(err) # {} THEN -SentinelErrno[Min(Listed(err))]
  ELSE IF Numbers(err) # {} THEN -err[Min(Numbers(err))].n ELSE -EIO

(* errors.As takes the first number in the chain; without one, the switch  *)
(* takes the first sentinel it lists that is anywhere in it.               *)
toErrno(err) ==
  IF err = <<>> THEN 0
  ELSE IF Numbers(err) # {} THEN -err[Min(Numbers(err))].n
  ELSE IF Listed(err) # {} THEN -SentinelErrno[Min(Listed(err))] ELSE -EIO

=============================================================================
