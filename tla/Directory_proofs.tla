-------------------------- MODULE Directory_proofs --------------------------
(***************************************************************************)
(* A listing is in order, its replies fit, and the lookup counts of the    *)
(* Filesystem and of the kernel match, for all directories, reply sizes    *)
(* and numbers of processes.  What only TLC checks is that listings end.   *)
(***************************************************************************)
EXTENDS DirectoryInv, Counting_proofs

-----------------------------------------------------------------------------
(* Modes and types *)

(* The permission and setuid, setgid and sticky bits stay below the type.  *)
LEMMA TopBits ==
  ASSUME NEW k \in {1, 4, 6, 8, 10, 12}, NEW p \in Nat, p < 512,
         NEW u \in {0, 2048}, NEW g \in {0, 1024}, NEW t \in {0, 512}
  PROVE  KernelType(p + 4096 * k + u + g + t) = k
<1>1. PICK q \in Nat : q = p + u + g + t /\ q < 4096
  BY SMT
<1>2. p + 4096 * k + u + g + t = q + 4096 * k
  BY <1>1, SMT
<1>3. (q + 4096 * k) \div 4096 = k
  BY <1>1, SMT
<1> QED BY <1>2, <1>3, SMT DEF KernelType

(* A mode's type, on both of its ways to the kernel.                       *)
LEMMA TypeNumbers ==
  ASSUME NEW mode \in FileModes
  PROVE  \E k \in {1, 4, 6, 8, 10, 12} :
           fileModeToType(mode) = k /\ unixType(mode) = 4096 * k
<1>1. CASE mode.type = {"dir"}
  <2>1. fileModeToType(mode) = 4
    BY <1>1 DEF fileModeToType
  <2>2. unixType(mode) = 16384
    BY <1>1 DEF unixType
  <2> QED BY <2>1, <2>2
<1>2. CASE mode.type = {"symlink"}
  <2>1. fileModeToType(mode) = 10
    BY <1>2 DEF fileModeToType
  <2>2. unixType(mode) = 40960
    BY <1>2 DEF unixType
  <2> QED BY <2>1, <2>2
<1>3. CASE mode.type = {"pipe"}
  <2>1. fileModeToType(mode) = 1
    BY <1>3 DEF fileModeToType
  <2>2. unixType(mode) = 4096
    BY <1>3 DEF unixType
  <2> QED BY <2>1, <2>2
<1>4. CASE mode.type = {"socket"}
  <2>1. fileModeToType(mode) = 12
    BY <1>4 DEF fileModeToType
  <2>2. unixType(mode) = 49152
    BY <1>4 DEF unixType
  <2> QED BY <2>1, <2>2
<1>5. CASE mode.type = {"device"}
  <2>1. fileModeToType(mode) = 6
    BY <1>5 DEF fileModeToType
  <2>2. unixType(mode) = 24576
    BY <1>5 DEF unixType
  <2> QED BY <2>1, <2>2
<1>6. CASE mode.type \notin {{"dir"}, {"symlink"}, {"pipe"}, {"socket"},
                           {"device"}}
  <2>1. fileModeToType(mode) = 8
    BY <1>6 DEF fileModeToType
  <2>2. unixType(mode) = 32768
    BY <1>6 DEF unixType
  <2> QED BY <2>1, <2>2
<1> QED BY <1>1, <1>2, <1>3, <1>4, <1>5, <1>6

(* Both are numbers.                                                       *)
LEMMA ModesAreNumbers ==
  ASSUME NEW mode \in FileModes
  PROVE  fileModeToType(mode) \in Nat /\ fileModeToUnix(mode) \in Nat
<1>1. fileModeToType(mode) \in Nat /\ unixType(mode) \in Nat
  BY TypeNumbers
<1>2. /\ mode.perm \in Nat /\ Bit(mode.setuid, 2048) \in Nat
      /\ Bit(mode.setgid, 1024) \in Nat /\ Bit(mode.sticky, 512) \in Nat
  BY SMT DEF FileModes, Bit
<1> QED BY <1>1, <1>2, SMT DEF fileModeToUnix

(* A READDIRPLUS entry and its attributes agree on the type of a file,     *)
(* whatever os.FileMode the Filesystem returns.                            *)
THEOREM TypesAlike ==
  ASSUME NEW mode \in FileModes
  PROVE  KernelType(fileModeToUnix(mode)) = fileModeToType(mode)
<1>1. /\ mode.perm \in Nat /\ mode.perm < 512
      /\ Bit(mode.setuid, 2048) \in {0, 2048}
      /\ Bit(mode.setgid, 1024) \in {0, 1024}
      /\ Bit(mode.sticky, 512) \in {0, 512}
  BY SMT DEF FileModes, Bit
<1>2. PICK k \in {1, 4, 6, 8, 10, 12} :
        fileModeToType(mode) = k /\ unixType(mode) = 4096 * k
  BY TypeNumbers
<1>3. KernelType(mode.perm + 4096 * k + Bit(mode.setuid, 2048)
                 + Bit(mode.setgid, 1024) + Bit(mode.sticky, 512)) = k
  BY <1>1, TopBits, SMT
<1> QED BY <1>2, <1>3, SMT DEF fileModeToUnix

-----------------------------------------------------------------------------
(* Packing *)

(* The room that an entry takes is a multiple of eight, and no more than   *)
(* it needs.                                                               *)
THEOREM PaddingTight ==
  ASSUME NEW n \in Nat
  PROVE  padded(n) % 8 = 0 /\ n <= padded(n) /\ padded(n) < n + 8
BY DEF padded

(* A longer name takes no less room.                                       *)
LEMMA PaddingGrows ==
  ASSUME NEW m \in Nat, NEW n \in Nat, m <= n
  PROVE  padded(m) \in Nat /\ padded(m) <= padded(n)
BY DEF padded

(* The fields of an entry of the directory.                                *)
LEMMA Cookie ==
  ASSUME NEW e \in Cookies
  PROVE  /\ e.nameLen \in Nat /\ e.ino \in Nat /\ e.offset \in Nat
         /\ e.gen \in Nat /\ e.mode \in FileModes
BY DEF Cookies

(* The rooms of entries.                                                   *)
LEMMA RoomsType ==
  ASSUME NEW entries \in Seq(Cookies), NEW header \in Nat
  PROVE  /\ rooms(entries, header) \in Seq(Nat)
         /\ Len(rooms(entries, header)) = Len(entries)
         /\ \A i \in 1..Len(entries) :
              rooms(entries, header)[i] = padded(header + entries[i].nameLen)
<1>1. \A i \in 1..Len(entries) : padded(header + entries[i].nameLen) \in Nat
  <2> SUFFICES ASSUME NEW i \in 1..Len(entries)
               PROVE  padded(header + entries[i].nameLen) \in Nat
    OBVIOUS
  <2>1. entries[i] \in Cookies
    OBVIOUS
  <2>2. header + entries[i].nameLen \in Nat
    BY <2>1, Cookie
  <2> QED BY <2>2, PaddingGrows
<1> QED BY <1>1 DEF rooms

(* The loop packs a prefix, which fits; the next entry would not.          *)
LEMMA PackPrefix ==
  ASSUME NEW entries \in Seq(Cookies), NEW header \in Nat, NEW maxSize \in Nat
  PROVE  \E n \in 0..Len(entries) :
           /\ pack(entries, header, maxSize) = SubSeq(entries, 1, n)
           /\ PrefixSums(rooms(entries, header))[n] <= maxSize
           /\ n < Len(entries) =>
                PrefixSums(rooms(entries, header))[n + 1] > maxSize
<1> DEFINE w == rooms(entries, header)
           used == PrefixSums(w)
           stops == {n \in 0..Len(entries) :
                       n = Len(entries) \/ used[n + 1] > maxSize}
<1>1. pack(entries, header, maxSize) = SubSeq(entries, 1, Min(stops))
  BY Zenon DEF pack
<1>2. w \in Seq(Nat) /\ Len(w) = Len(entries) /\ Len(entries) \in Nat
  BY RoomsType
<1>3. used \in [0..Len(entries) -> Nat] /\ used[0] = 0
  BY <1>2, SumsStep
<1>4. stops \in SUBSET Nat /\ Len(entries) \in stops
  BY <1>2
<1> HIDE DEF used
<1>5. \E n \in stops : \A k \in stops : n <= k
  <2> HIDE DEF stops
  <2> QED BY <1>4, LeastOf
<1>6. PICK m \in stops : m = Min(stops) /\ \A k \in stops : m <= k
  <2> HIDE DEF stops
  <2> QED BY <1>5, Zenon DEF Min
<1>7. m \in 0..Len(entries) /\ (m < Len(entries) => used[m + 1] > maxSize)
  BY <1>2
<1>8. used[m] <= maxSize
  <2>1. CASE m = 0
    BY <1>3, <2>1
  <2>2. CASE m # 0
    <3>1. m - 1 \in 0..Len(entries) /\ m - 1 # Len(entries) /\ ~(m <= m - 1)
          /\ (m - 1) + 1 = m
      BY <1>2, <1>7, <2>2
    <3>2. m - 1 \notin stops
      BY <1>6, <3>1, Zenon
    <3>3. ~(used[m] > maxSize)
      BY <3>1, <3>2, Zenon
    <3>4. used[m] \in Nat
      BY <1>3, <1>7
    <3> QED BY <3>3, <3>4
  <2> QED BY <2>1, <2>2
<1> QED BY <1>1, <1>6, <1>7, <1>8, Zenon DEF used

(* A part of a directory: m entries behind the first k.                    *)
Part(entries, k, m) ==
  /\ k \in Nat /\ m \in Nat /\ k + m <= Len(Stream)
  /\ entries \in Seq(Cookies) /\ Len(entries) = m
  /\ \A i \in 1..m : entries[i] = Stream[k + i]

(* The directory.                                                          *)
LEMMA StreamType ==
  /\ Stream \in Seq(Cookies) /\ Len(Stream) \in Nat
  /\ DOMAIN Stream = 1..Len(Stream)
  /\ \A i \in 1..Len(Stream) : Stream[i] \in Cookies
BY StreamAssumption

(* What ReadDir and ReadDirPlus return is a part, empty at the end only.   *)
LEMMA PageIsPart ==
  ASSUME NEW offset, NEW page \in Pages(offset)
  PROVE  /\ Passed(offset) \in 0..Len(Stream)
         /\ Part(page, Passed(offset), Len(page))
         /\ Len(page) = 0 => Passed(offset) = Len(Stream)
<1>1. Passed(offset) \in 0..Len(Stream)
  <2> DEFINE S == {i \in DOMAIN Stream : Stream[i].offset <= offset}
  <2>1. /\ IsFiniteSet(1..Len(Stream))
        /\ Cardinality(1..Len(Stream)) = Len(Stream)
    BY StreamType, UpTo, IntervalSize
  <2>2. S \in SUBSET (1..Len(Stream))
    BY StreamType
  <2> HIDE DEF S
  <2>3. IsFiniteSet(S) /\ Cardinality(S) <= Cardinality(1..Len(Stream))
    BY <2>1, <2>2, PartSize, Zenon
  <2>4. Cardinality(S) \in Nat
    BY <2>3, SizeIsNat, Zenon
  <2>5. Cardinality(S) \in 0..Len(Stream)
    BY <2>1, <2>3, <2>4, StreamType
  <2> QED BY <2>5 DEF Passed, S
<1>2. PICK k : k = Passed(offset)
  OBVIOUS
<1>3. CASE k = Len(Stream)
  <2>1. page = <<>>
    BY <1>2, <1>3 DEF Pages
  <2>2. page \in Seq(Cookies) /\ Len(page) = 0
    BY <2>1
  <2> QED BY <1>1, <1>2, <1>3, <2>2, StreamType DEF Part
<1>4. CASE k # Len(Stream)
  <2>1. PICK m \in (k + 1)..Len(Stream) : page = SubSeq(Stream, k + 1, m)
    BY <1>2, <1>4 DEF Pages
  <2>2. k \in Nat /\ m \in Nat /\ k < m /\ m <= Len(Stream)
    BY <1>1, <1>2, <2>1, StreamType
  <2>3. /\ page \in Seq(Cookies) /\ Len(page) = m - k
        /\ \A i \in 1..(m - k) : page[i] = Stream[k + i]
    BY <2>1, <2>2, StreamType
  <2>4. m - k \in Nat /\ k + (m - k) <= Len(Stream) /\ m - k # 0
    BY <2>2, StreamType
  <2> QED BY <1>1, <1>2, <2>2, <2>3, <2>4, Zenon DEF Part
<1> QED BY <1>3, <1>4

(* A listing that has come to the k-th entry goes on behind it.            *)
LEMMA PassedIs ==
  ASSUME NEW k \in 0..Len(Stream)
  PROVE  Passed(IF k = 0 THEN 0 ELSE Stream[k].offset) = k
<1> DEFINE offset == IF k = 0 THEN 0 ELSE Stream[k].offset
           S == {i \in DOMAIN Stream : Stream[i].offset <= offset}
<1>1. \A i \in 1..Len(Stream) : Stream[i].offset \in Nat
  BY StreamType, Cookie
<1>2. \A i \in 1..Len(Stream) : Stream[i].offset <= offset <=> i <= k
  <2> SUFFICES ASSUME NEW i \in 1..Len(Stream)
               PROVE  Stream[i].offset <= offset <=> i <= k
    OBVIOUS
  <2>1. CASE k = 0
    <3>1. Stream[i].offset > 0
      BY StreamType, StreamAssumption
    <3> QED BY <1>1, <2>1, <3>1
  <2>2. CASE k # 0
    <3>1. k \in 1..Len(Stream) /\ offset = Stream[k].offset
      BY <2>2, StreamType
    <3>2. /\ i < k => Stream[i].offset < Stream[k].offset
          /\ k < i => Stream[k].offset < Stream[i].offset
      BY <3>1, StreamType, StreamAssumption
    <3>3. Stream[i].offset \in Nat /\ Stream[k].offset \in Nat
      BY <1>1, <3>1
    <3>4. i < k \/ i = k \/ k < i
      BY <3>1
    <3> HIDE DEF offset
    <3> QED BY <3>1, <3>2, <3>3, <3>4
  <2> QED BY <2>1, <2>2
<1> HIDE DEF offset
<1>3. S = 1..k
  BY <1>2, StreamType
<1>4. Cardinality(1..k) = k
  BY IntervalSize
<1> QED BY <1>3, <1>4, Zenon DEF Passed, offset

(* What pack keeps of a page: a part from its beginning, which fits, and   *)
(* which is empty at the end of the directory only.                        *)
IsPacked(taken, page, k, header, size) ==
  /\ Part(taken, k, Len(taken)) /\ Len(taken) <= Len(page)
  /\ \A i \in 1..Len(taken) : taken[i] = page[i]
  /\ Len(taken) = 0 => k = Len(Stream)
  /\ Total(rooms(taken, header)) <= size
LEMMA Packed ==
  ASSUME NEW offset, NEW page \in Pages(offset),
         NEW header \in {DirentSize, DirentPlusSize}, NEW size \in Sizes
  PROVE  IsPacked(pack(page, header, size), page, Passed(offset), header,
                  size)
<1> DEFINE k == Passed(offset)
<1>1. /\ k \in Nat /\ page \in Seq(Cookies) /\ Len(page) \in Nat
      /\ k + Len(page) <= Len(Stream) /\ Len(Stream) \in Nat
  BY PageIsPart, StreamType DEF Part
<1>2. /\ \A i \in 1..Len(page) : page[i] = Stream[k + i]
      /\ Len(page) = 0 => k = Len(Stream)
  BY PageIsPart DEF Part
<1> HIDE DEF k
<1>3. header \in Nat /\ header <= DirentPlusSize /\ size \in Nat
  BY SizesAssumption DEF DirentSize, DirentPlusSize, EntryOutSize
<1> DEFINE taken == pack(page, header, size)
<1>4. PICK n \in 0..Len(page) :
        /\ taken = SubSeq(page, 1, n)
        /\ PrefixSums(rooms(page, header))[n] <= size
        /\ n < Len(page) => PrefixSums(rooms(page, header))[n + 1] > size
  BY <1>1, <1>3, PackPrefix, Zenon
<1> HIDE DEF taken
<1>5. /\ taken \in Seq(Cookies) /\ Len(taken) = n /\ n \in Nat
      /\ n <= Len(page) /\ \A i \in 1..n : taken[i] = page[i]
  BY <1>1, <1>4
<1>6. Part(taken, k, n)
  <2>1. k + n <= Len(Stream)
    BY <1>1
  <2>2. \A i \in 1..n : i \in 1..Len(page)
    BY <1>1
  <2>3. \A i \in 1..n : taken[i] = Stream[k + i]
    BY <1>2, <1>5, <2>2, Zenon
  <2> QED BY <1>1, <1>5, <2>1, <2>3, Zenon DEF Part
<1>7. n = 0 => k = Len(Stream)
  <2> SUFFICES ASSUME n = 0, Len(page) # 0 PROVE FALSE
    BY <1>2
  <2> DEFINE w == rooms(page, header)
             x == Stream[k + 1].nameLen
  <2>1. /\ w \in Seq(Nat) /\ Len(w) = Len(page)
        /\ \A i \in 1..Len(page) : w[i] = padded(header + page[i].nameLen)
    BY <1>1, <1>3, RoomsType, Zenon
  <2>2. 1 \in 1..Len(page) /\ k + 1 \in 1..Len(Stream)
    BY <1>1
  <2>3. page[1] = Stream[k + 1] /\ w[1] = padded(header + x)
    BY <1>2, <2>1, <2>2, Zenon
  <2>4. x \in Nat
    BY <2>2, StreamType, Cookie, Zenon
  <2>5. padded(DirentPlusSize + x) <= size
    BY <2>2, StreamType, SizesAssumption, Zenon
  <2> HIDE DEF x
  <2>6. /\ header + x \in Nat /\ DirentPlusSize + x \in Nat
        /\ header + x <= DirentPlusSize + x
    BY <1>3, <2>4 DEF DirentPlusSize, EntryOutSize, DirentSize
  <2>7. /\ padded(header + x) \in Nat
        /\ padded(header + x) <= padded(DirentPlusSize + x)
        /\ padded(DirentPlusSize + x) \in Nat
    <3>1. DirentPlusSize + x <= DirentPlusSize + x
      BY <2>6
    <3> QED BY <2>6, <3>1, PaddingGrows, Zenon
  <2> HIDE DEF w
  <2>8. PrefixSums(w)[1] = w[1]
    <3>1. /\ PrefixSums(w)[0] = 0
          /\ \A m \in 1..Len(w) :
               PrefixSums(w)[m] = PrefixSums(w)[m - 1] + w[m]
      BY <2>1, SumsStep, Zenon
    <3>2. PrefixSums(w)[1] = PrefixSums(w)[1 - 1] + w[1]
      BY <2>1, <2>2, <3>1, Zenon
    <3> QED BY <2>3, <2>7, <3>1, <3>2
  <2>9. PrefixSums(w)[1] > size
    BY <1>1, <1>4 DEF w
  <2> QED BY <1>3, <2>3, <2>5, <2>7, <2>8, <2>9
<1>8. Total(rooms(taken, header)) <= size
  <2> DEFINE v == rooms(taken, header)
             w == rooms(page, header)
  <2>1. /\ v \in Seq(Nat) /\ Len(v) = n
        /\ \A i \in 1..n : v[i] = padded(header + taken[i].nameLen)
    BY <1>3, <1>5, RoomsType, Zenon
  <2>2. /\ w \in Seq(Nat) /\ Len(w) = Len(page)
        /\ \A i \in 1..Len(page) : w[i] = padded(header + page[i].nameLen)
    BY <1>1, <1>3, RoomsType, Zenon
  <2>3. \A i \in 1..n : i \in 1..Len(page)
    BY <1>1
  <2>4. \A i \in 1..n : v[i] = w[i]
    BY <1>5, <2>1, <2>2, <2>3, Zenon
  <2> HIDE DEF v, w
  <2>5. n <= Len(v) /\ n <= Len(w)
    BY <1>5, <2>1, <2>2
  <2>6. PrefixSums(v)[n] = PrefixSums(w)[n]
    BY <1>5, <2>1, <2>2, <2>4, <2>5, SumsAgree, Zenon
  <2> QED BY <1>4, <2>1, <2>6, Zenon DEF Total, v, w
<1> QED BY <1>5, <1>6, <1>7, <1>8, Zenon DEF k, taken, IsPacked

-----------------------------------------------------------------------------
(* Entries of an inode *)

(* Their number is one.                                                    *)
LEMMA CountType ==
  ASSUME NEW entries, NEW m \in Nat, DOMAIN entries = 1..m, NEW i
  PROVE  Count(entries, i) \in Nat
<1> DEFINE S == {n \in DOMAIN entries : entries[n].ino = i}
<1>1. S \in SUBSET (1..m)
  OBVIOUS
<1>2. IsFiniteSet(1..m)
  BY UpTo
<1> HIDE DEF S
<1>3. IsFiniteSet(S)
  BY <1>1, <1>2, PartSize, Zenon
<1>4. Cardinality(S) \in Nat
  BY <1>3, SizeIsNat, Zenon
<1> QED BY <1>4 DEF Count, S

(* There is none among no entries.                                         *)
LEMMA CountNone ==
  ASSUME NEW i
  PROVE  Count(<<>>, i) = 0
<1>1. {n \in DOMAIN <<>> : <<>>[n].ino = i} = {}
  OBVIOUS
<1> QED BY <1>1, EmptySize, Zenon DEF Count

(* A prefix has no more.                                                   *)
LEMMA CountPart ==
  ASSUME NEW sent, NEW page, NEW m \in Nat, NEW n \in Nat, m <= n,
         DOMAIN sent = 1..m, DOMAIN page = 1..n,
         \A j \in 1..m : sent[j].ino = page[j].ino, NEW i
  PROVE  Count(sent, i) <= Count(page, i)
<1> DEFINE S == {j \in DOMAIN sent : sent[j].ino = i}
           T == {j \in DOMAIN page : page[j].ino = i}
<1>1. T \in SUBSET (1..n) /\ S \in SUBSET T
  OBVIOUS
<1>2. IsFiniteSet(1..n)
  BY UpTo
<1> HIDE DEF S, T
<1>3. IsFiniteSet(T)
  BY <1>1, <1>2, PartSize, Zenon
<1>4. Cardinality(S) <= Cardinality(T)
  BY <1>1, <1>3, PartSize, Zenon
<1> QED BY <1>4 DEF Count, S, T

-----------------------------------------------------------------------------
(* What the serializers send *)

(* The entries of the directory that a reply lists.                        *)
ListedIn(rep) == [n \in 1..Len(rep) |-> Stream[rep[n].name]]

(* The names in a reply are those of the entries taken.                    *)
Named(sent, taken) ==
  /\ Len(sent) = Len(taken)
  /\ \A n \in 1..Len(taken) : sent[n].name = taken[n].name

(* Of a part, as the serializers name it: these are its entries.           *)
Lists(sent, taken, k) ==
  /\ ListedIn(sent) = taken
  /\ \A n \in 1..Len(taken) : /\ sent[n].name = k + n
                              /\ k + n \in 1..Len(Stream)
                              /\ taken[n] = Stream[k + n]
LEMMA ListsTaken ==
  ASSUME NEW taken, NEW k, NEW sent, Part(taken, k, Len(taken)),
         Named(sent, taken)
  PROVE  Lists(sent, taken, k)
<1>0. /\ Len(sent) = Len(taken)
      /\ \A n \in 1..Len(taken) : sent[n].name = taken[n].name
  BY DEF Named
<1>1. /\ k \in Nat /\ Len(taken) \in Nat /\ k + Len(taken) <= Len(Stream)
      /\ taken \in Seq(Cookies) /\ Len(Stream) \in Nat
      /\ \A n \in 1..Len(taken) : taken[n] = Stream[k + n]
  BY StreamType DEF Part
<1>2. \A n \in 1..Len(taken) : k + n \in 1..Len(Stream)
  BY <1>1
<1>3. \A n \in 1..Len(Stream) : Stream[n].name = n
  BY StreamType, StreamAssumption
<1>4. \A n \in 1..Len(taken) : /\ sent[n].name = k + n
                               /\ k + n \in 1..Len(Stream)
                               /\ taken[n] = Stream[k + n]
  BY <1>0, <1>1, <1>2, <1>3, Zenon
<1>5. \A n \in 1..Len(taken) : Stream[sent[n].name] = taken[n]
  BY <1>4, Zenon
<1>6. taken = [n \in 1..Len(taken) |-> taken[n]]
  BY <1>1
<1>7. ListedIn(sent) = [n \in 1..Len(taken) |-> taken[n]]
  BY <1>0, <1>5, Zenon DEF ListedIn
<1> QED BY <1>4, <1>6, <1>7, Zenon DEF Lists

(* An entry of the directory, by its place.                                *)
LEMMA At ==
  ASSUME NEW n \in 1..Len(Stream)
  PROVE  /\ n \in DOMAIN Stream /\ Stream[n].name = n
         /\ Stream[n].ino \in Inodes /\ Stream[n].offset \in Nat
         /\ Stream[n].gen \in Nat /\ Stream[n].mode \in FileModes
<1>1. n \in DOMAIN Stream /\ Stream[n] \in Cookies
  BY StreamType
<1>2. Stream[n].ino \in Inodes
  BY <1>1 DEF Inodes
<1> QED BY <1>1, <1>2, Cookie, StreamAssumption

(* Without attributes.                                                     *)
IsPlain(sent, k, size) ==
  /\ sent \in Seq(Listed)
  /\ \A n \in DOMAIN sent : /\ sent[n].name = k + n
                            /\ sent[n].off = Stream[k + n].offset
  /\ sent = <<>> => k = Len(Stream)
  /\ Total(rooms(ListedIn(sent), DirentSize)) <= size
LEMMA PlainSent ==
  ASSUME NEW offset, NEW page \in Pages(offset), NEW size \in Sizes,
         NEW sent, sent = serializeDirents(page, size)
  PROVE  IsPlain(sent, Passed(offset), size)
<1> DEFINE k == Passed(offset)
<1>1. PICK taken : taken = pack(page, DirentSize, size)
  OBVIOUS
<1>2. DirentSize \in {DirentSize, DirentPlusSize}
  OBVIOUS
<1>3. /\ Part(taken, k, Len(taken)) /\ (Len(taken) = 0 => k = Len(Stream))
      /\ Total(rooms(taken, DirentSize)) <= size
  <2>1. IsPacked(taken, page, k, DirentSize, size)
    BY <1>1, <1>2, Packed, Zenon
  <2> HIDE DEF k
  <2> QED BY <2>1, Zenon DEF IsPacked
<1>4. sent = [i \in 1..Len(taken) |->
                [name |-> taken[i].name, ino |-> taken[i].ino,
                 off |-> taken[i].offset]]
  BY <1>1, Zenon DEF serializeDirents
<1> HIDE DEF k
<1>5. Len(taken) \in Nat
  BY <1>3 DEF Part
<1>6. /\ DOMAIN sent = 1..Len(taken) /\ Len(sent) = Len(taken)
      /\ \A i \in 1..Len(taken) : /\ sent[i].name = taken[i].name
                                  /\ sent[i].off = taken[i].offset
  BY <1>4, <1>5
<1>7. /\ ListedIn(sent) = taken
      /\ \A n \in 1..Len(taken) : /\ sent[n].name = k + n
                                  /\ k + n \in 1..Len(Stream)
                                  /\ taken[n] = Stream[k + n]
  <2>1. Named(sent, taken)
    BY <1>6, Zenon DEF Named
  <2>2. Part(taken, k, Len(taken))
    BY <1>3
  <2>3. Lists(sent, taken, k)
    BY <2>1, <2>2, ListsTaken, Zenon
  <2> QED BY <2>3, Zenon DEF Lists
<1>8. \A i \in 1..Len(taken) :
        [name |-> taken[i].name, ino |-> taken[i].ino,
         off |-> taken[i].offset] \in Listed
  <2> SUFFICES ASSUME NEW i \in 1..Len(taken)
               PROVE  [name |-> taken[i].name, ino |-> taken[i].ino,
                       off |-> taken[i].offset] \in Listed
    OBVIOUS
  <2>1. /\ taken[i].name \in DOMAIN Stream /\ taken[i].ino \in Inodes
        /\ taken[i].offset \in Nat
    <3>1. k + i \in 1..Len(Stream) /\ taken[i] = Stream[k + i]
      BY <1>7, Zenon
    <3> QED BY <3>1, At
  <2> QED BY <2>1 DEF Listed
<1>9. sent \in Seq(Listed)
  BY <1>4, <1>5, <1>8
<1>10. sent = <<>> => k = Len(Stream)
  BY <1>3, <1>6
<1>11. ASSUME NEW n \in DOMAIN sent
       PROVE  sent[n].name = k + n /\ sent[n].off = Stream[k + n].offset
  <2>1. n \in 1..Len(taken)
    BY <1>6, <1>11
  <2> QED BY <1>6, <1>7, <2>1, Zenon
<1>12. Total(rooms(ListedIn(sent), DirentSize)) <= size
  BY <1>3, <1>7, Zenon
<1> QED BY <1>9, <1>10, <1>11, <1>12, Zenon DEF k, IsPlain

(* With attributes: the types agree, and no inode is listed more often     *)
(* than ReadDirPlus counted it.                                            *)
IsPlus(sent, k, size) ==
  /\ sent \in Seq(ListedPlus)
  /\ \A n \in DOMAIN sent : /\ sent[n].name = k + n /\ k + n \in DOMAIN Stream
                            /\ sent[n].off = Stream[k + n].gen
                            /\ KernelType(sent[n].mode) = sent[n].type
  /\ sent = <<>> => k = Len(Stream)
  /\ Total(rooms(ListedIn(sent), DirentPlusSize)) <= size
Counts(sent, page) ==
  \A i : /\ Count(sent, i) \in Nat /\ Count(page, i) \in Nat
         /\ Count(sent, i) <= Count(page, i)
LEMMA PlusSent ==
  ASSUME NEW offset, NEW page \in Pages(offset), NEW size \in Sizes,
         NEW sent, sent = serializeDirentsPlus(page, size)
  PROVE  IsPlus(sent, Passed(offset), size) /\ Counts(sent, page)
<1> DEFINE k == Passed(offset)
           plus(e) == [name |-> e.name, ino |-> e.ino, off |-> e.gen,
                       type |-> fileModeToType(e.mode),
                       mode |-> fileModeToUnix(e.mode)]
<1>1. PICK taken : taken = pack(page, DirentPlusSize, size)
  OBVIOUS
<1>2. DirentPlusSize \in {DirentSize, DirentPlusSize}
  OBVIOUS
<1>3. /\ Part(taken, k, Len(taken)) /\ (Len(taken) = 0 => k = Len(Stream))
      /\ Len(taken) <= Len(page)
      /\ \A i \in 1..Len(taken) : taken[i] = page[i]
      /\ Total(rooms(taken, DirentPlusSize)) <= size
  <2>1. IsPacked(taken, page, k, DirentPlusSize, size)
    BY <1>1, <1>2, Packed, Zenon
  <2> HIDE DEF k
  <2> QED BY <2>1, Zenon DEF IsPacked
<1>4. sent = [i \in 1..Len(taken) |-> plus(taken[i])]
  BY <1>1, Zenon DEF serializeDirentsPlus
<1> HIDE DEF k
<1>5. Len(taken) \in Nat
  BY <1>3 DEF Part
<1>6. /\ DOMAIN sent = 1..Len(taken) /\ Len(sent) = Len(taken)
      /\ \A i \in 1..Len(taken) : sent[i] = plus(taken[i])
  <2> HIDE DEF plus
  <2> QED BY <1>4, <1>5
<1>7. \A i \in 1..Len(taken) :
        /\ sent[i].name = taken[i].name /\ sent[i].ino = taken[i].ino
        /\ sent[i].off = taken[i].gen
        /\ sent[i].type = fileModeToType(taken[i].mode)
        /\ sent[i].mode = fileModeToUnix(taken[i].mode)
  BY <1>6
<1>8. /\ ListedIn(sent) = taken
      /\ \A n \in 1..Len(taken) : /\ sent[n].name = k + n
                                  /\ k + n \in 1..Len(Stream)
                                  /\ taken[n] = Stream[k + n]
  <2>1. Named(sent, taken)
    BY <1>6, <1>7, Zenon DEF Named
  <2>2. Part(taken, k, Len(taken))
    BY <1>3
  <2>3. Lists(sent, taken, k)
    BY <2>1, <2>2, ListsTaken, Zenon
  <2> QED BY <2>3, Zenon DEF Lists
<1>9. ASSUME NEW i \in 1..Len(taken)
      PROVE  /\ plus(taken[i]) \in ListedPlus
             /\ KernelType(sent[i].mode) = sent[i].type
  <2>1. /\ taken[i].name \in DOMAIN Stream /\ taken[i].ino \in Inodes
        /\ taken[i].gen \in Nat /\ taken[i].mode \in FileModes
    <3>1. k + i \in 1..Len(Stream) /\ taken[i] = Stream[k + i]
      BY <1>8, <1>9, Zenon
    <3> QED BY <3>1, At
  <2>2. /\ fileModeToType(taken[i].mode) \in Nat
        /\ fileModeToUnix(taken[i].mode) \in Nat
    BY <2>1, ModesAreNumbers, Zenon
  <2>3. plus(taken[i]) \in ListedPlus
    BY <2>1, <2>2 DEF ListedPlus
  <2>4. KernelType(sent[i].mode) = sent[i].type
    BY <1>7, <1>9, <2>1, TypesAlike, Zenon
  <2> QED BY <2>3, <2>4
<1>10. sent \in Seq(ListedPlus)
  <2> HIDE DEF plus
  <2> QED BY <1>4, <1>5, <1>9
<1>11. sent = <<>> => k = Len(Stream)
  BY <1>3, <1>6
<1>12. DOMAIN page = 1..Len(page) /\ Len(page) \in Nat
  BY PageIsPart DEF Part
<1>13. ASSUME NEW i
       PROVE  /\ Count(sent, i) \in Nat /\ Count(page, i) \in Nat
              /\ Count(sent, i) <= Count(page, i)
  <2>1. \A j \in 1..Len(taken) : sent[j].ino = page[j].ino
    BY <1>3, <1>7, Zenon
  <2>2. Len(taken) <= Len(page)
    BY <1>3
  <2>3. Count(sent, i) \in Nat /\ Count(page, i) \in Nat
    BY <1>5, <1>6, <1>12, CountType, Zenon
  <2>4. Count(sent, i) <= Count(page, i)
    BY <1>5, <1>6, <1>12, <2>1, <2>2, CountPart, Zenon
  <2> QED BY <2>3, <2>4
<1>14. ASSUME NEW n \in DOMAIN sent
       PROVE  /\ sent[n].name = k + n /\ k + n \in DOMAIN Stream
              /\ sent[n].off = Stream[k + n].gen
              /\ KernelType(sent[n].mode) = sent[n].type
  <2>1. n \in 1..Len(taken)
    BY <1>6, <1>14
  <2>2. sent[n].name = k + n /\ k + n \in 1..Len(Stream)
    BY <1>8, <2>1, Zenon
  <2>3. k + n \in DOMAIN Stream
    BY <2>2, At, Zenon
  <2>4. sent[n].off = Stream[k + n].gen
    BY <1>7, <1>8, <2>1, Zenon
  <2> QED BY <1>9, <2>1, <2>2, <2>3, <2>4, Zenon
<1>15. Total(rooms(ListedIn(sent), DirentPlusSize)) <= size
  BY <1>3, <1>8, Zenon
<1> HIDE DEF plus
<1>16. Counts(sent, page)
  BY <1>13, Zenon DEF Counts
<1> QED BY <1>10, <1>11, <1>14, <1>15, <1>16, Zenon DEF k, IsPlus

-----------------------------------------------------------------------------
(* The invariant, reader by reader *)

(* Of one reader: its reply fits, ...                                      *)
FitsIn(op, size, rep) ==
  Total(rooms(ListedIn(rep),
              IF op = "READDIR" THEN DirentSize ELSE DirentPlusSize)) <= size
(* ... lists every entry with the type it has, ...                         *)
AgreesIn(op, rep) ==
  op = "READDIRPLUS" =>
    \A n \in DOMAIN rep : KernelType(rep[n].mode) = rep[n].type
(* ... and goes on where the reader is.                                    *)
FollowsIn(pc, at, rep, names) ==
  LET k == Len(names) IN
  /\ k <= Len(Stream)
  /\ \A i \in DOMAIN names : names[i] = i
  /\ at = IF k = 0 THEN 0 ELSE Stream[k].offset
  /\ \A n \in DOMAIN rep : /\ rep[n].name = k + n
                           /\ rep[n].off = Stream[k + n].offset
  /\ pc = "replied" /\ rep = <<>> => k = Len(Stream)
  /\ pc = "ended" => k = Len(Stream)
GoodIn(pc, op, size, at, rep, names) ==
  /\ pc # "replied" => rep = <<>>
  /\ FitsIn(op, size, rep) /\ AgreesIn(op, rep)
  /\ CookiesAreOffsets => FollowsIn(pc, at, rep, names)
Good(r) == GoodIn(rpc[r], rop[r], rsize[r], pos[r], reply[r], seen[r])

(* The types of what readers have, and of the counts.                      *)
ReaderTypes ==
  /\ rpc \in [Readers -> {"idle", "sent", "replied", "ended", "failed"}]
  /\ rop \in [Readers -> {"READDIR", "READDIRPLUS"}]
  /\ rsize \in [Readers -> Sizes] /\ pos \in [Readers -> Nat]
  /\ reply \in [Readers -> Seq(Listed \cup ListedPlus)]
  /\ seen \in [Readers -> Seq(DOMAIN Stream)]
CountTypes ==
  /\ asked \in [Inodes -> Nat] /\ answered \in [Inodes -> Nat]
  /\ left \in 0..MaxLookups
  /\ kref \in [Inodes -> Nat] /\ fsref \in [Inodes -> Int]
  /\ forgets \in [Inodes -> Seq(Nat \ {0})] /\ lost \in [Inodes -> Nat]
  /\ base \in BOOLEAN

(* IInv says this of every reader, and that the counts match.              *)
LEMMA Split ==
  IInv <=> /\ ReaderTypes /\ CountTypes /\ CountsMatch
           /\ \A r \in Readers : Good(r)
<1>1. TypeOK <=> ReaderTypes /\ CountTypes
  BY Zenon DEF TypeOK, ReaderTypes, CountTypes
<1>2. ReplyFits <=> \A r \in Readers : FitsIn(rop[r], rsize[r], reply[r])
  BY Zenon DEF ReplyFits, FitsIn, ListedIn
<1>3. TypesAgree <=> \A r \in Readers : AgreesIn(rop[r], reply[r])
  BY Zenon DEF TypesAgree, AgreesIn
<1>4. ASSUME NEW r \in Readers
      PROVE  InStep(r) <=> FollowsIn(rpc[r], pos[r], reply[r], seen[r])
  BY Zenon DEF InStep, FollowsIn
<1>5. Quiet <=> \A r \in Readers : rpc[r] # "replied" => reply[r] = <<>>
  BY Zenon DEF Quiet
<1> QED BY <1>1, <1>2, <1>3, <1>4, <1>5, Zenon DEF IInv, Good, GoodIn
(* So it does after a step.                                                *)
LEMMA SplitNext ==
  IInv' <=> /\ ReaderTypes' /\ CountTypes' /\ CountsMatch'
            /\ \A r \in Readers : Good(r)'
<1>1. TypeOK' <=> ReaderTypes' /\ CountTypes'
  BY Zenon DEF TypeOK, ReaderTypes, CountTypes
<1>2. ReplyFits' <=> \A r \in Readers : FitsIn(rop'[r], rsize'[r], reply'[r])
  BY Zenon DEF ReplyFits, FitsIn, ListedIn
<1>3. TypesAgree' <=> \A r \in Readers : AgreesIn(rop'[r], reply'[r])
  BY Zenon DEF TypesAgree, AgreesIn
<1>4. ASSUME NEW r \in Readers
      PROVE  InStep(r)' <=> FollowsIn(rpc'[r], pos'[r], reply'[r], seen'[r])
  BY Zenon DEF InStep, FollowsIn
<1>5. Quiet' <=> \A r \in Readers : rpc'[r] # "replied" => reply'[r] = <<>>
  BY Zenon DEF Quiet
<1> QED BY <1>1, <1>2, <1>3, <1>4, <1>5, Zenon
           DEF IInv, Good, GoodIn, CookiesAreOffsets

(* A step leaves what a reader has.                                        *)
Same(r) ==
  /\ rpc'[r] = rpc[r] /\ rop'[r] = rop[r] /\ rsize'[r] = rsize[r]
  /\ pos'[r] = pos[r] /\ reply'[r] = reply[r] /\ seen'[r] = seen[r]

(* Then what holds of the reader still does.                               *)
LEMMA Stays ==
  ASSUME NEW r \in Readers, Good(r), Same(r)
  PROVE  Good(r)'
BY Zenon DEF Good, Same

(* What the kernel has not read of an inode in a reader's reply.           *)
Viewed(op, rep, i) == IF op = "READDIRPLUS" THEN Count(rep, i) ELSE 0
ViewOf(op, rep, i) == [r \in Readers |-> Viewed(op[r], rep[r], i)]

(* The readers' replies as a sequence of numbers.                          *)
IsView(v, op, rep, i) ==
  /\ v \in Seq(Nat) /\ Len(v) = Processes /\ Total(v) \in Nat
  /\ \A r \in Readers : /\ v[r] = Viewed(op[r], rep[r], i)
                        /\ Viewed(op[r], rep[r], i) \in Nat
LEMMA ViewType ==
  ASSUME NEW op, NEW rep \in [Readers -> Seq(Listed \cup ListedPlus)], NEW i
  PROVE  IsView(ViewOf(op, rep, i), op, rep, i)
<1>1. Processes \in Nat /\ Readers = 1..Processes
  BY BoundsAssumption DEF Readers
<1>2. ASSUME NEW r \in Readers
      PROVE  Viewed(op[r], rep[r], i) \in Nat
  <2>1. /\ Len(rep[r]) \in Nat /\ DOMAIN rep[r] = 1..Len(rep[r])
    <3> DEFINE E == Listed \cup ListedPlus
    <3>1. rep[r] \in Seq(E)
      OBVIOUS
    <3> HIDE DEF E
    <3> QED BY <3>1
  <2>2. Count(rep[r], i) \in Nat
    BY <2>1, CountType, Zenon
  <2> QED BY <2>2 DEF Viewed
<1>3. PICK v : v = ViewOf(op, rep, i)
  OBVIOUS
<1>4. /\ v \in Seq(Nat) /\ Len(v) = Processes
      /\ \A r \in Readers : v[r] = Viewed(op[r], rep[r], i)
  BY <1>1, <1>2, <1>3 DEF ViewOf
<1>5. Total(v) \in Nat
  <2>1. 0 \in Nat
    OBVIOUS
  <2> QED BY <1>4, <2>1, TotalAppend, Zenon
<1> QED BY <1>2, <1>3, <1>4, <1>5, Zenon DEF IsView

(* Unread adds them up, before and after a step.                           *)
LEMMA UnreadIs ==
  \A i : /\ Unread(i) = Total(ViewOf(rop, reply, i))
         /\ Unread(i)' = Total(ViewOf(rop', reply', i))
BY Zenon DEF Unread, ViewOf, Viewed

(* A step of one reader changes Unread by what it changes of its reply.    *)
LEMMA UnreadChange ==
  ASSUME ReaderTypes, ReaderTypes', NEW r \in Readers, NEW i,
         \A q \in Readers \ {r} : rop'[q] = rop[q] /\ reply'[q] = reply[q]
  PROVE  /\ Unread(i)' + Viewed(rop[r], reply[r], i)
              = Unread(i) + Viewed(rop'[r], reply'[r], i)
         /\ Unread(i) \in Nat /\ Unread(i)' \in Nat
         /\ Viewed(rop[r], reply[r], i) \in Nat
         /\ Viewed(rop'[r], reply'[r], i) \in Nat
<1>1. PICK v, w : v = ViewOf(rop', reply', i) /\ w = ViewOf(rop, reply, i)
  OBVIOUS
<1>2. /\ v \in Seq(Nat) /\ Len(v) = Processes /\ Total(v) \in Nat
      /\ \A q \in Readers : /\ v[q] = Viewed(rop'[q], reply'[q], i)
                            /\ Viewed(rop'[q], reply'[q], i) \in Nat
  <2>1. reply' \in [Readers -> Seq(Listed \cup ListedPlus)]
    BY Zenon DEF ReaderTypes
  <2>2. IsView(v, rop', reply', i)
    BY <1>1, <2>1, ViewType, Zenon
  <2> QED BY <2>2, Zenon DEF IsView
<1>3. /\ w \in Seq(Nat) /\ Len(w) = Processes /\ Total(w) \in Nat
      /\ \A q \in Readers : /\ w[q] = Viewed(rop[q], reply[q], i)
                            /\ Viewed(rop[q], reply[q], i) \in Nat
  <2>1. reply \in [Readers -> Seq(Listed \cup ListedPlus)]
    BY Zenon DEF ReaderTypes
  <2>2. IsView(w, rop, reply, i)
    BY <1>1, <2>1, ViewType, Zenon
  <2> QED BY <2>2, Zenon DEF IsView
<1>4. Readers = 1..Len(w) /\ Len(v) = Len(w)
  BY <1>2, <1>3, Zenon DEF Readers
<1>5. \A q \in Readers \ {r} : v[q] = w[q]
  BY <1>2, <1>3, Zenon
<1>6. OnlyAt(v, w, r)
  BY <1>4, <1>5, Zenon DEF OnlyAt
<1>7. Total(v) + w[r] = Total(w) + v[r]
  BY <1>2, <1>3, <1>4, <1>6, TotalChange, Zenon
<1>8. /\ w[r] = Viewed(rop[r], reply[r], i) /\ w[r] \in Nat
      /\ v[r] = Viewed(rop'[r], reply'[r], i) /\ v[r] \in Nat
  BY <1>2, <1>3, Zenon
<1>9. Unread(i) = Total(w) /\ Unread(i)' = Total(v)
  BY <1>1, UnreadIs, Zenon
<1> QED BY <1>2, <1>3, <1>7, <1>8, <1>9, Zenon

(* The counts of an inode.                                                 *)
LEMMA Numbers ==
  ASSUME ReaderTypes, CountTypes, NEW i \in Inodes
  PROVE  /\ kref[i] \in Nat /\ answered[i] \in Nat /\ asked[i] \in Nat
         /\ lost[i] \in Nat /\ fsref[i] \in Int
         /\ Unread(i) \in Nat /\ Unheard(i) \in Nat
         /\ forgets[i] \in Seq(Nat \ {0}) /\ forgets[i] \in Seq(Nat)
<1>1. forgets[i] \in Seq(Nat \ {0})
  BY DEF CountTypes
<1>2. forgets[i] \in Seq(Nat)
  BY <1>1
<1>3. Unheard(i) \in Nat
  BY <1>2, TotalAppend DEF Unheard
<1>4. Unread(i) \in Nat
  <2>1. Total(ViewOf(rop, reply, i)) \in Nat
    BY ViewType, Zenon DEF ReaderTypes, IsView
  <2> QED BY <2>1, UnreadIs, Zenon
<1> QED BY <1>1, <1>2, <1>3, <1>4 DEF CountTypes

(* References that change by as much on both sides stay equal.             *)
Sum(f, k, a, u, h, l) ==
  /\ f \in Int /\ k \in Nat /\ a \in Nat /\ u \in Nat /\ h \in Nat /\ l \in Nat
  /\ f = k + a + u + h + l
Change(u, t, x, y) ==
  /\ u \in Nat /\ t \in Nat /\ x \in Nat /\ y \in Nat /\ t + x = u + y
Moves(f, g, x, y, k, m, l, o) ==
  /\ f \in Int /\ g \in Int /\ x \in Nat /\ y \in Nat /\ k \in Nat /\ m \in Nat
  /\ l \in Nat /\ o \in Nat /\ g + x + k + l = f + y + m + o
LEMMA StillMatch ==
  ASSUME NEW f, NEW k, NEW a, NEW u, NEW h, NEW l, Sum(f, k, a, u, h, l),
         NEW t, NEW x, NEW y, Change(u, t, x, y),
         NEW g, NEW m, NEW o, Moves(f, g, x, y, k, m, l, o)
  PROVE  Sum(g, m, a, t, h, o)
BY DEF Sum, Change, Moves

(* So they do when FORGETs are heard of, or lost.                          *)
Hears(f, g, x, h, b, l, o) ==
  /\ f \in Int /\ g \in Int /\ x \in Nat /\ h \in Nat /\ b \in Nat /\ l \in Nat
  /\ o \in Nat /\ h = b + x /\ g + x + l = f + o
LEMMA MatchForgets ==
  ASSUME NEW f, NEW k, NEW a, NEW u, NEW h, NEW l, Sum(f, k, a, u, h, l),
         NEW g, NEW x, NEW b, NEW o, Hears(f, g, x, h, b, l, o)
  PROVE  Sum(g, k, a, u, b, o)
BY DEF Sum, Hears

(* What is left to show of a step that one reader is part of.              *)
LEMMA OneReader ==
  ASSUME IInv, NEW r \in Readers, ReaderTypes', CountTypes',
         \A q \in Readers \ {r} : Same(q), Good(r)',
         forgets' = forgets, answered' = answered,
         \A i \in Inodes :
           fsref'[i] + Viewed(rop[r], reply[r], i) + kref[i] + lost[i]
             = fsref[i] + Viewed(rop'[r], reply'[r], i) + kref'[i] + lost'[i]
  PROVE  IInv'
<1>1. /\ ReaderTypes /\ CountTypes /\ CountsMatch
      /\ \A q \in Readers : Good(q)
  BY Split
<1>2. \A q \in Readers : Good(q)'
  BY <1>1, Stays, Zenon
<1>3. CountsMatch'
  <2> SUFFICES ASSUME NEW i \in Inodes
               PROVE  fsref'[i] = kref'[i] + answered'[i] + Unread(i)'
                                  + Unheard(i)' + lost'[i]
    BY DEF CountsMatch
  <2>1. /\ kref[i] \in Nat /\ answered[i] \in Nat /\ lost[i] \in Nat
        /\ fsref[i] \in Int /\ Unheard(i) \in Nat
    BY <1>1, Numbers, Zenon
  <2>2. kref'[i] \in Nat /\ lost'[i] \in Nat /\ fsref'[i] \in Int
    BY DEF CountTypes
  <2>3. Unheard(i)' = Unheard(i) /\ answered'[i] = answered[i]
    BY Zenon DEF Unheard
  <2>4. /\ Unread(i)' + Viewed(rop[r], reply[r], i)
             = Unread(i) + Viewed(rop'[r], reply'[r], i)
        /\ Unread(i) \in Nat /\ Unread(i)' \in Nat
        /\ Viewed(rop[r], reply[r], i) \in Nat
        /\ Viewed(rop'[r], reply'[r], i) \in Nat
    <3>1. \A q \in Readers \ {r} : rop'[q] = rop[q] /\ reply'[q] = reply[q]
      BY Zenon DEF Same
    <3> QED BY <1>1, <3>1, UnreadChange, Zenon
  <2>5. fsref[i] = kref[i] + answered[i] + Unread(i) + Unheard(i) + lost[i]
    BY <1>1 DEF CountsMatch
  <2>6. fsref'[i] + Viewed(rop[r], reply[r], i) + kref[i] + lost[i]
          = fsref[i] + Viewed(rop'[r], reply'[r], i) + kref'[i] + lost'[i]
    OBVIOUS
  <2>7. Sum(fsref'[i], kref'[i], answered[i], Unread(i)', Unheard(i),
            lost'[i])
    <3>1. Sum(fsref[i], kref[i], answered[i], Unread(i), Unheard(i), lost[i])
      BY <2>1, <2>4, <2>5, Zenon DEF Sum
    <3>2. Change(Unread(i), Unread(i)', Viewed(rop[r], reply[r], i),
                 Viewed(rop'[r], reply'[r], i))
      BY <2>4, Zenon DEF Change
    <3>3. Moves(fsref[i], fsref'[i], Viewed(rop[r], reply[r], i),
                Viewed(rop'[r], reply'[r], i), kref[i], kref'[i],
                lost[i], lost'[i])
      BY <2>1, <2>2, <2>4, <2>6, Zenon DEF Moves
    <3> QED BY <3>1, <3>2, <3>3, StillMatch, Zenon
  <2> QED BY <2>3, <2>7, Zenon DEF Sum
<1> QED BY <1>2, <1>3, SplitNext

(* And of one that no reader is part of.                                   *)
LEMMA NoReader ==
  ASSUME IInv, UNCHANGED readerVars, CountTypes',
         \A i \in Inodes : fsref'[i] = kref'[i] + answered'[i] + Unread(i)
                                       + Unheard(i)' + lost'[i]
  PROVE  IInv'
<1>1. /\ ReaderTypes /\ \A q \in Readers : Good(q)
  BY Split
<1>2. /\ rpc' = rpc /\ rop' = rop /\ rsize' = rsize /\ pos' = pos
      /\ reply' = reply /\ seen' = seen
  BY DEF readerVars
<1>3. ReaderTypes'
  BY <1>1, <1>2 DEF ReaderTypes
<1>4. \A q \in Readers : Good(q)'
  BY <1>1, <1>2, Stays DEF Same
<1>5. \A i \in Inodes : Unread(i)' = Unread(i)
  BY <1>2, Zenon DEF Unread
<1>6. CountsMatch'
  BY <1>5 DEF CountsMatch
<1> QED BY <1>3, <1>4, <1>6, SplitNext

-----------------------------------------------------------------------------
(* Steps of readers *)

(* An empty reply is good for a reader that has just asked, or read.       *)
LEMMA EmptyReply ==
  ASSUME NEW op \in {"READDIR", "READDIRPLUS"}, NEW size \in Sizes
  PROVE  /\ FitsIn(op, size, <<>>) /\ AgreesIn(op, <<>>)
         /\ \A i : Viewed(op, <<>>, i) = 0
<1>1. ListedIn(<<>>) = <<>>
  BY DEF ListedIn
<1>2. PICK header \in Nat :
        header = IF op = "READDIR" THEN DirentSize ELSE DirentPlusSize
  BY DEF DirentSize, DirentPlusSize, EntryOutSize
<1>3. rooms(<<>>, header) = <<>>
  BY DEF rooms
<1>4. Total(<<>>) = 0
  <2>1. <<>> \in Seq(Nat) /\ \A i \in 1..Len(<<>>) : <<>>[i] = 0
    OBVIOUS
  <2> QED BY <2>1, TotalZero, Zenon
<1>5. size \in Nat
  BY SizesAssumption
<1>6. FitsIn(op, size, <<>>)
  BY <1>1, <1>2, <1>3, <1>4, <1>5 DEF FitsIn
<1>7. AgreesIn(op, <<>>)
  BY DEF AgreesIn
<1> QED BY <1>6, <1>7, CountNone, Zenon DEF Viewed

(* What a reader has.                                                      *)
LEMMA ReaderHas ==
  ASSUME IInv, NEW r \in Readers
  PROVE  /\ ReaderTypes /\ CountTypes /\ Good(r)
         /\ rop[r] \in {"READDIR", "READDIRPLUS"} /\ rsize[r] \in Sizes
         /\ pos[r] \in Nat
         /\ rpc[r] # "replied" => reply[r] = <<>>
<1>1. ReaderTypes /\ CountTypes /\ Good(r)
  BY Split
<1> QED BY <1>1 DEF ReaderTypes, Good, GoodIn

(* A reply with or without attributes is a reply.                          *)
LEMMA Wider ==
  /\ \A s \in Seq(Listed) : s \in Seq(Listed \cup ListedPlus)
  /\ \A s \in Seq(ListedPlus) : s \in Seq(Listed \cup ListedPlus)
<1>1. ASSUME NEW S, NEW T, NEW s \in Seq(S), S \subseteq T
      PROVE  s \in Seq(T)
  BY <1>1
<1> QED BY <1>1, Zenon

(* What a reply has: names of entries, and inodes.                         *)
LEMMA ReplyHas ==
  ASSUME ReaderTypes, NEW r \in Readers
  PROVE  /\ Len(reply[r]) \in Nat /\ DOMAIN reply[r] = 1..Len(reply[r])
         /\ \A n \in 1..Len(reply[r]) : /\ reply[r][n].name \in DOMAIN Stream
                                       /\ reply[r][n].off \in Nat
<1> DEFINE E == Listed \cup ListedPlus
<1>1. reply[r] \in Seq(E)
  BY DEF ReaderTypes
<1>2. \A e \in E : e.name \in DOMAIN Stream /\ e.off \in Nat
  BY DEF Listed, ListedPlus
<1> HIDE DEF E
<1>3. /\ Len(reply[r]) \in Nat /\ DOMAIN reply[r] = 1..Len(reply[r])
      /\ \A n \in 1..Len(reply[r]) : reply[r][n] \in E
  BY <1>1
<1> QED BY <1>2, <1>3, Zenon

(* The kernel asks for a page.                                             *)
LEMMA Step_SendReaddir ==
  ASSUME IInv, NEW r \in Readers, NEW op \in {"READDIR", "READDIRPLUS"},
         NEW size \in Sizes, SendReaddir(r, op, size)
  PROVE  IInv'
<1>1. /\ ReaderTypes /\ CountTypes /\ Good(r) /\ reply[r] = <<>>
      /\ rop[r] \in {"READDIR", "READDIRPLUS"} /\ rsize[r] \in Sizes
  BY ReaderHas DEF SendReaddir
<1>2. /\ rpc[r] = "idle"
      /\ rpc' = [rpc EXCEPT ![r] = "sent"] /\ rop' = [rop EXCEPT ![r] = op]
      /\ rsize' = [rsize EXCEPT ![r] = size]
      /\ pos' = pos /\ reply' = reply /\ seen' = seen
      /\ asked' = asked /\ answered' = answered /\ left' = left
      /\ kref' = kref /\ forgets' = forgets /\ fsref' = fsref
      /\ lost' = lost /\ base' = base
  BY DEF SendReaddir, lookups
<1>3. ReaderTypes'
  BY <1>1, <1>2 DEF ReaderTypes
<1>4. CountTypes'
  BY <1>1, <1>2 DEF CountTypes
<1>5. \A q \in Readers \ {r} : Same(q)
  BY <1>1, <1>2 DEF Same, ReaderTypes
<1>6. /\ rpc'[r] = "sent" /\ rop'[r] = op /\ rsize'[r] = size
      /\ pos'[r] = pos[r] /\ reply'[r] = <<>> /\ seen'[r] = seen[r]
  BY <1>1, <1>2 DEF ReaderTypes
<1>7. CookiesAreOffsets => FollowsIn("sent", pos[r], <<>>, seen[r])
  BY <1>1 DEF Good, GoodIn, FollowsIn
<1>8. Good(r)'
  <2>1. GoodIn("sent", op, size, pos[r], <<>>, seen[r])
    BY <1>7, EmptyReply DEF GoodIn
  <2> QED BY <1>6, <2>1, Zenon DEF Good
<1>9. \A i \in Inodes :
        fsref'[i] + Viewed(rop[r], reply[r], i) + kref[i] + lost[i]
          = fsref[i] + Viewed(rop'[r], reply'[r], i) + kref'[i] + lost'[i]
  <2>1. \A i : Viewed(rop[r], reply[r], i) = Viewed(rop'[r], reply'[r], i)
    BY <1>1, <1>6, EmptyReply, Zenon
  <2> QED BY <1>2, <2>1, Zenon
<1> QED BY <1>2, <1>3, <1>4, <1>5, <1>8, <1>9, OneReader, Zenon

(* A handler fails.                                                        *)
LEMMA Fails ==
  ASSUME IInv, NEW r \in Readers, rpc[r] = "sent", ReplyError(r),
         UNCHANGED <<lookups, kref, forgets, fsref, lost, base>>
  PROVE  IInv'
<1>1. /\ ReaderTypes /\ CountTypes /\ Good(r) /\ reply[r] = <<>>
  BY ReaderHas
<1>2. /\ rpc' = [rpc EXCEPT ![r] = "failed"] /\ rop' = rop
      /\ rsize' = rsize /\ pos' = pos /\ reply' = reply /\ seen' = seen
      /\ asked' = asked /\ answered' = answered /\ left' = left
      /\ kref' = kref /\ forgets' = forgets /\ fsref' = fsref
      /\ lost' = lost /\ base' = base
  BY DEF ReplyError, lookups
<1>3. ReaderTypes'
  BY <1>1, <1>2 DEF ReaderTypes
<1>4. CountTypes'
  BY <1>1, <1>2 DEF CountTypes
<1>5. \A q \in Readers \ {r} : Same(q)
  BY <1>1, <1>2 DEF Same, ReaderTypes
<1>6. rpc'[r] = "failed"
  BY <1>1, <1>2 DEF ReaderTypes
<1>7. CookiesAreOffsets => FollowsIn("failed", pos[r], <<>>, seen[r])
  BY <1>1 DEF Good, GoodIn, FollowsIn
<1>8. Good(r)'
  <2>1. GoodIn("failed", rop[r], rsize[r], pos[r], <<>>, seen[r])
    BY <1>1, <1>7 DEF Good, GoodIn
  <2> QED BY <1>1, <1>2, <1>6, <2>1, Zenon DEF Good
<1>9. \A i \in Inodes :
        fsref'[i] + Viewed(rop[r], reply[r], i) + kref[i] + lost[i]
          = fsref[i] + Viewed(rop'[r], reply'[r], i) + kref'[i] + lost'[i]
  BY <1>2, Zenon
<1> QED BY <1>2, <1>3, <1>4, <1>5, <1>8, <1>9, OneReader, Zenon

(* A handler's reply goes on after the first k entries.                    *)
Continues(sent, k) ==
  /\ \A n \in DOMAIN sent : /\ sent[n].name = k + n
                            /\ sent[n].off = Stream[k + n].offset
  /\ sent = <<>> => k = Len(Stream)

(* What the file system counts and the reply does not list is lost.        *)
LEMMA LostMoves ==
  ASSUME NEW i, NEW y \in Nat, kref[i] \in Nat,
         lost[i] \in Nat, fsref[i] \in Int, lost'[i] \in Nat,
         fsref'[i] \in Int, fsref'[i] + lost[i] = fsref[i] + y + lost'[i]
  PROVE  fsref'[i] + 0 + kref[i] + lost[i]
           = fsref[i] + y + kref[i] + lost'[i]
OBVIOUS

(* A handler replies.                                                      *)
LEMMA Replies ==
  ASSUME IInv, NEW r \in Readers, rpc[r] = "sent",
         NEW sent \in Seq(Listed \cup ListedPlus), Reply(r, sent),
         FitsIn(rop[r], rsize[r], sent), AgreesIn(rop[r], sent),
         CookiesAreOffsets => Continues(sent, Passed(pos[r])),
         UNCHANGED <<lookups, kref, forgets, base>>, CountTypes',
         \A i \in Inodes : fsref'[i] + lost[i]
                           = fsref[i] + Viewed(rop[r], sent, i) + lost'[i]
  PROVE  IInv'
<1>1. /\ ReaderTypes /\ CountTypes /\ Good(r) /\ reply[r] = <<>>
      /\ rop[r] \in {"READDIR", "READDIRPLUS"} /\ rsize[r] \in Sizes
  BY ReaderHas
<1>2. /\ rpc' = [rpc EXCEPT ![r] = "replied"] /\ rop' = rop
      /\ rsize' = rsize /\ pos' = pos /\ seen' = seen
      /\ reply' = [reply EXCEPT ![r] = sent]
      /\ answered' = answered /\ kref' = kref /\ forgets' = forgets
  BY DEF Reply, lookups
<1>3. ReaderTypes'
  <2> DEFINE E == Listed \cup ListedPlus
  <2>1. reply \in [Readers -> Seq(E)] /\ sent \in Seq(E)
    BY <1>1 DEF ReaderTypes
  <2>2. reply' \in [Readers -> Seq(E)]
    <3> HIDE DEF E
    <3> QED BY <1>2, <2>1
  <2>3. rpc' \in [Readers -> {"idle", "sent", "replied", "ended", "failed"}]
    BY <1>1, <1>2 DEF ReaderTypes
  <2> QED BY <1>1, <1>2, <2>2, <2>3, Zenon DEF ReaderTypes
<1>4. \A q \in Readers \ {r} : Same(q)
  BY <1>1, <1>2 DEF Same, ReaderTypes
<1>5. rpc'[r] = "replied" /\ reply'[r] = sent
  BY <1>1, <1>2 DEF ReaderTypes
<1>6. ASSUME CookiesAreOffsets
      PROVE  FollowsIn("replied", pos[r], sent, seen[r])
  <2>1. PICK k : k = Len(seen[r])
    BY Zenon
  <2>2. k \in Nat
    <3> DEFINE E == DOMAIN Stream
    <3>1. seen[r] \in Seq(E)
      BY <1>1 DEF ReaderTypes
    <3> HIDE DEF E
    <3> QED BY <2>1, <3>1
  <2>3. /\ k <= Len(Stream) /\ \A i \in DOMAIN seen[r] : seen[r][i] = i
        /\ pos[r] = IF k = 0 THEN 0 ELSE Stream[k].offset
    BY <1>1, <1>6, <2>1, Zenon DEF Good, GoodIn, FollowsIn
  <2>4. Passed(pos[r]) = k
    <3>1. k \in 0..Len(Stream)
      BY <2>2, <2>3, StreamType
    <3> QED BY <2>3, <3>1, PassedIs, Zenon
  <2>5. Continues(sent, k)
    BY <1>6, <2>4, Zenon
  <2> QED BY <2>1, <2>3, <2>5, Zenon DEF FollowsIn, Continues
<1>7. Good(r)'
  <2>1. GoodIn("replied", rop[r], rsize[r], pos[r], sent, seen[r])
    BY <1>6 DEF GoodIn
  <2> QED BY <1>2, <1>5, <2>1, Zenon DEF Good
<1>8. \A i \in Inodes :
        fsref'[i] + Viewed(rop[r], reply[r], i) + kref[i] + lost[i]
          = fsref[i] + Viewed(rop'[r], reply'[r], i) + kref'[i] + lost'[i]
  <2> SUFFICES ASSUME NEW i \in Inodes
               PROVE  fsref'[i] + Viewed(rop[r], reply[r], i) + kref[i]
                        + lost[i]
                      = fsref[i] + Viewed(rop'[r], reply'[r], i) + kref'[i]
                        + lost'[i]
    OBVIOUS
  <2>1. /\ Viewed(rop[r], reply[r], i) = 0 /\ kref'[i] = kref[i]
        /\ Viewed(rop'[r], reply'[r], i) = Viewed(rop[r], sent, i)
    BY <1>1, <1>2, <1>5, EmptyReply, Zenon
  <2>2. /\ kref[i] \in Nat /\ lost[i] \in Nat /\ fsref[i] \in Int
        /\ lost'[i] \in Nat /\ fsref'[i] \in Int
    BY <1>1 DEF CountTypes
  <2>3. Viewed(rop[r], sent, i) \in Nat
    <3>1. reply' \in [Readers -> Seq(Listed \cup ListedPlus)]
      BY <1>3, Zenon DEF ReaderTypes
    <3>2. Viewed(rop'[r], reply'[r], i) \in Nat
      BY <3>1, ViewType, Zenon DEF IsView
    <3> QED BY <2>1, <3>2, Zenon
  <2>4. fsref'[i] + lost[i] = fsref[i] + Viewed(rop[r], sent, i) + lost'[i]
    BY Zenon
  <2>5. fsref'[i] + 0 + kref[i] + lost[i]
          = fsref[i] + Viewed(rop[r], sent, i) + kref[i] + lost'[i]
    BY <2>2, <2>3, <2>4, LostMoves, Zenon
  <2> QED BY <2>1, <2>5, Zenon
<1> QED BY <1>2, <1>3, <1>4, <1>7, <1>8, OneReader, Zenon

(* handleReaddir.                                                          *)
LEMMA Step_handleReaddir ==
  ASSUME IInv, NEW r \in Readers, handleReaddir(r)
  PROVE  IInv'
<1>1. /\ rpc[r] = "sent" /\ rop[r] = "READDIR"
      /\ UNCHANGED <<lookups, kref, forgets, fsref, lost, base>>
  BY DEF handleReaddir
<1>2. CASE ReplyError(r)
  BY <1>1, <1>2, Fails
<1>3. ASSUME NEW page \in Pages(pos[r]),
             Reply(r, serializeDirents(page, rsize[r]))
      PROVE  IInv'
  <2>1. PICK sent : sent = serializeDirents(page, rsize[r])
    OBVIOUS
  <2>2. ReaderTypes /\ CountTypes /\ rsize[r] \in Sizes
    BY ReaderHas
  <2>3. /\ sent \in Seq(Listed) /\ Continues(sent, Passed(pos[r]))
        /\ Total(rooms(ListedIn(sent), DirentSize)) <= rsize[r]
    <3>1. IsPlain(sent, Passed(pos[r]), rsize[r])
      BY <1>3, <2>1, <2>2, PlainSent, Zenon
    <3> QED BY <3>1, Zenon DEF IsPlain, Continues
  <2>4. sent \in Seq(Listed \cup ListedPlus)
    BY <2>3, Wider, Zenon
  <2>5. FitsIn(rop[r], rsize[r], sent) /\ AgreesIn(rop[r], sent)
    BY <1>1, <2>3 DEF FitsIn, AgreesIn
  <2>6. CountTypes'
    BY <1>1, <2>2 DEF CountTypes, lookups
  <2>7. \A i \in Inodes : fsref'[i] + lost[i]
                          = fsref[i] + Viewed(rop[r], sent, i) + lost'[i]
    BY <1>1, <2>2 DEF Viewed, CountTypes
  <2>8. UNCHANGED <<lookups, kref, forgets, base>>
    BY <1>1
  <2> QED BY <1>1, <1>3, <2>1, <2>3, <2>4, <2>5, <2>6, <2>7, <2>8, Replies,
             Zenon
<1> QED BY <1>2, <1>3 DEF handleReaddir

(* handleReaddirplus.                                                      *)
LEMMA Step_handleReaddirplus ==
  ASSUME IInv, NEW r \in Readers, handleReaddirplus(r)
  PROVE  IInv'
<1>1. /\ rpc[r] = "sent" /\ rop[r] = "READDIRPLUS"
      /\ UNCHANGED <<lookups, kref, forgets, base>>
  BY DEF handleReaddirplus
<1>2. CASE ReplyError(r) /\ UNCHANGED <<fsref, lost>>
  <2>1. UNCHANGED <<lookups, kref, forgets, fsref, lost, base>>
    BY <1>1, <1>2
  <2> QED BY <1>1, <1>2, <2>1, Fails
<1>3. ASSUME NEW page \in Pages(pos[r]), NEW sent,
             sent = serializeDirentsPlus(page, rsize[r]), Reply(r, sent),
             fsref' = Plus(fsref, page),
             lost' = [i \in Inodes |->
                        lost[i] + Count(page, i) - Count(sent, i)]
      PROVE  IInv'
  <2>1. ReaderTypes /\ CountTypes /\ rsize[r] \in Sizes
    BY ReaderHas
  <2>2. IsPlus(sent, Passed(pos[r]), rsize[r]) /\ Counts(sent, page)
    BY <1>3, <2>1, PlusSent, Zenon
  <2>3. sent \in Seq(Listed \cup ListedPlus)
    BY <2>2, Wider, Zenon DEF IsPlus
  <2>4. FitsIn(rop[r], rsize[r], sent) /\ AgreesIn(rop[r], sent)
    <3>1. /\ Total(rooms(ListedIn(sent), DirentPlusSize)) <= rsize[r]
          /\ \A n \in DOMAIN sent : KernelType(sent[n].mode) = sent[n].type
      BY <2>2, Zenon DEF IsPlus
    <3> QED BY <1>1, <3>1 DEF FitsIn, AgreesIn
  <2>5. CookiesAreOffsets => Continues(sent, Passed(pos[r]))
    BY <2>2, Zenon DEF CookiesAreOffsets, IsPlus, Continues
  <2>6. ASSUME NEW i \in Inodes
        PROVE  /\ fsref'[i] = fsref[i] + Count(page, i)
               /\ lost'[i] = lost[i] + Count(page, i) - Count(sent, i)
               /\ fsref'[i] \in Int /\ lost'[i] \in Nat
               /\ fsref'[i] + lost[i]
                    = fsref[i] + Viewed(rop[r], sent, i) + lost'[i]
    <3>1. /\ fsref'[i] = fsref[i] + Count(page, i)
          /\ lost'[i] = lost[i] + Count(page, i) - Count(sent, i)
      BY <1>3, Zenon DEF Plus
    <3>2. fsref[i] \in Int /\ lost[i] \in Nat
      BY <2>1 DEF CountTypes
    <3>3. /\ Count(sent, i) \in Nat /\ Count(page, i) \in Nat
          /\ Count(sent, i) <= Count(page, i)
      BY <2>2, Zenon DEF Counts
    <3>4. Viewed(rop[r], sent, i) = Count(sent, i)
      BY <1>1 DEF Viewed
    <3> QED BY <3>1, <3>2, <3>3, <3>4
  <2>7. CountTypes'
    <3>1. fsref' \in [Inodes -> Int] /\ lost' \in [Inodes -> Nat]
      <4>1. /\ fsref' = [i \in Inodes |-> fsref'[i]]
            /\ lost' = [i \in Inodes |-> lost'[i]]
        BY <1>3 DEF Plus
      <4> QED BY <2>6, <4>1
    <3> QED BY <1>1, <2>1, <3>1 DEF CountTypes, lookups
  <2> QED BY <1>1, <1>3, <2>3, <2>4, <2>5, <2>6, <2>7, Replies, Zenon
<1> QED BY <1>2, <1>3 DEF handleReaddirplus

(* The kernel reads a reply: to the end of the directory, ...              *)
LEMMA ReadsEnd ==
  ASSUME NEW r \in Readers, Good(r), rpc[r] = "replied", reply[r] = <<>>
  PROVE  CookiesAreOffsets => FollowsIn("ended", pos[r], <<>>, seen[r])
BY DEF Good, GoodIn, FollowsIn

(* A sequence after another.                                               *)
Joins(u, s, t) ==
  /\ DOMAIN u = 1..(Len(s) + Len(t)) /\ Len(u) = Len(s) + Len(t)
  /\ \A i \in 1..Len(s) : u[i] = s[i]
  /\ \A i \in 1..(Len(s) + Len(t)) : i > Len(s) => u[i] = t[i - Len(s)]
LEMMA Joined ==
  ASSUME NEW S, NEW s \in Seq(S), NEW t \in Seq(S)
  PROVE  Joins(s \o t, s, t) /\ s \o t \in Seq(S)
BY DEF Joins

(* ... or some of its entries, which are the next ones.                    *)
LEMMA ReadsOn ==
  ASSUME ReaderTypes, NEW r \in Readers, Good(r), CookiesAreOffsets,
         NEW n \in 1..Len(reply[r]), NEW names,
         names = seen[r] \o [i \in 1..n |-> reply[r][i].name]
  PROVE  FollowsIn("idle", reply[r][n].off, <<>>, names)
<1> DEFINE k == Len(seen[r])
           E == DOMAIN Stream
           more == [i \in 1..n |-> reply[r][i].name]
<1>1. seen[r] \in Seq(E) /\ k \in Nat /\ Len(Stream) \in Nat
  <2>1. seen[r] \in Seq(E)
    BY DEF ReaderTypes
  <2> HIDE DEF E
  <2> QED BY <2>1, StreamType
<1>2. /\ Len(reply[r]) \in Nat /\ DOMAIN reply[r] = 1..Len(reply[r])
      /\ \A i \in 1..Len(reply[r]) : reply[r][i].name \in E
  BY ReplyHas
<1>3. /\ \A i \in DOMAIN seen[r] : seen[r][i] = i
      /\ \A i \in DOMAIN reply[r] : /\ reply[r][i].name = k + i
                                    /\ reply[r][i].off = Stream[k + i].offset
  BY DEF Good, GoodIn, FollowsIn
<1>4. more \in Seq(E) /\ Len(more) = n /\ n \in Nat
  <2>1. \A i \in 1..n : reply[r][i].name \in E
    BY <1>2
  <2> HIDE DEF E
  <2> QED BY <2>1
<1>5. \A i \in 1..n : more[i] = k + i
  <2>1. \A i \in 1..n : i \in DOMAIN reply[r]
    BY <1>2
  <2> QED BY <1>3, <2>1, Zenon
<1>6. k + n \in 1..Len(Stream) /\ reply[r][n].off = Stream[k + n].offset
  <2>1. n \in DOMAIN reply[r] /\ n \in 1..Len(reply[r])
    BY <1>2
  <2>2. /\ reply[r][n].name = k + n /\ reply[r][n].name \in E
        /\ reply[r][n].off = Stream[k + n].offset
    BY <1>2, <1>3, <2>1, Zenon
  <2>3. E = 1..Len(Stream)
    BY StreamType
  <2> QED BY <2>2, <2>3, Zenon
<1> HIDE DEF more, E
<1>7. names = seen[r] \o more
  BY Zenon DEF more
<1>8. Joins(names, seen[r], more)
  BY <1>1, <1>4, <1>7, Joined, Zenon
<1> HIDE DEF k
<1>9. /\ DOMAIN names = 1..(k + n) /\ Len(names) = k + n
      /\ \A i \in 1..k : names[i] = seen[r][i]
      /\ \A i \in 1..(k + n) : i > k => names[i] = more[i - k]
  BY <1>4, <1>8, Zenon DEF Joins, k
<1>10. \A i \in DOMAIN names : names[i] = i
  <2> SUFFICES ASSUME NEW i \in 1..(k + n) PROVE names[i] = i
    BY <1>9, Zenon
  <2>1. CASE i <= k
    <3>1. i \in 1..k /\ DOMAIN seen[r] = 1..k
      BY <1>1, <2>1 DEF k
    <3> QED BY <1>3, <1>9, <3>1, Zenon
  <2>2. CASE ~(i <= k)
    <3>1. i - k \in 1..n /\ k + (i - k) = i /\ i > k
      BY <1>1, <1>4, <2>2
    <3>2. names[i] = more[i - k]
      BY <1>9, <3>1, Zenon
    <3>3. more[i - k] = k + (i - k)
      BY <1>5, <3>1, Zenon
    <3> QED BY <3>1, <3>2, <3>3, Zenon
  <2> QED BY <2>1, <2>2, Zenon
<1>11. k + n # 0 /\ k + n <= Len(Stream)
  BY <1>1, <1>6
<1>12. \A i \in DOMAIN <<>> : FALSE
  OBVIOUS
<1> QED BY <1>6, <1>9, <1>10, <1>11, <1>12, Zenon DEF FollowsIn

(* The names that a reader has read.                                       *)
LEMMA NamesType ==
  ASSUME ReaderTypes, NEW r \in Readers, NEW n \in 1..Len(reply[r])
  PROVE  seen[r] \o [i \in 1..n |-> reply[r][i].name] \in Seq(DOMAIN Stream)
<1> DEFINE E == DOMAIN Stream
           more == [i \in 1..n |-> reply[r][i].name]
<1>1. seen[r] \in Seq(E)
  BY DEF ReaderTypes
<1>2. \A i \in 1..n : reply[r][i].name \in E
  BY ReplyHas
<1> HIDE DEF E
<1>3. more \in Seq(E)
  BY <1>2
<1> HIDE DEF more
<1>4. seen[r] \o more \in Seq(E)
  BY <1>1, <1>3
<1> QED BY <1>4 DEF E, more

(* ReadReply: the end, or the next entries.                                *)
LEMMA Step_ReadReply ==
  ASSUME IInv, NEW r \in Readers, ReadReply(r)
  PROVE  IInv'
<1>1. /\ ReaderTypes /\ CountTypes /\ Good(r)
      /\ rop[r] \in {"READDIR", "READDIRPLUS"} /\ rsize[r] \in Sizes
  BY ReaderHas
<1>2. /\ rpc[r] = "replied" /\ reply' = [reply EXCEPT ![r] = <<>>]
      /\ kref' = IF rop[r] = "READDIRPLUS" THEN Plus(kref, reply[r]) ELSE kref
      /\ rop' = rop /\ rsize' = rsize
      /\ asked' = asked /\ answered' = answered /\ left' = left
      /\ forgets' = forgets /\ fsref' = fsref /\ lost' = lost /\ base' = base
  BY DEF ReadReply, lookups
<1>3. PICK pc, at, names :
        /\ pc \in {"idle", "ended"} /\ at \in Nat
        /\ names \in Seq(DOMAIN Stream)
        /\ rpc' = [rpc EXCEPT ![r] = pc]
        /\ pos' = [pos EXCEPT ![r] = at]
        /\ seen' = [seen EXCEPT ![r] = names]
        /\ CookiesAreOffsets => FollowsIn(pc, at, <<>>, names)
  <2>1. CASE reply[r] = <<>>
    <3>1. rpc' = [rpc EXCEPT ![r] = "ended"] /\ pos' = pos /\ seen' = seen
      BY <2>1 DEF ReadReply
    <3>2. /\ pos = [pos EXCEPT ![r] = pos[r]] /\ pos[r] \in Nat
          /\ seen = [seen EXCEPT ![r] = seen[r]]
          /\ seen[r] \in Seq(DOMAIN Stream)
      BY <1>1 DEF ReaderTypes
    <3>3. CookiesAreOffsets => FollowsIn("ended", pos[r], <<>>, seen[r])
      BY <1>1, <1>2, <2>1, ReadsEnd
    <3> QED BY <3>1, <3>2, <3>3, Zenon
  <2>2. CASE reply[r] # <<>>
    <3>1. PICK n \in 1..Len(reply[r]) :
            /\ rpc' = [rpc EXCEPT ![r] = "idle"]
            /\ pos' = [pos EXCEPT ![r] = reply[r][n].off]
            /\ seen' = [seen EXCEPT ![r] =
                          @ \o [i \in 1..n |-> reply[r][i].name]]
      BY <2>2, Zenon DEF ReadReply
    <3>2. PICK names : names = seen[r] \o [i \in 1..n |-> reply[r][i].name]
      BY Zenon
    <3>3. seen' = [seen EXCEPT ![r] = names]
      BY <1>1, <3>1, <3>2 DEF ReaderTypes
    <3>4. names \in Seq(DOMAIN Stream)
      BY <1>1, <3>2, NamesType
    <3>5. reply[r][n].off \in Nat
      BY <1>1, ReplyHas
    <3>6. CookiesAreOffsets =>
            FollowsIn("idle", reply[r][n].off, <<>>, names)
      BY <1>1, <3>2, ReadsOn, Zenon
    <3> QED BY <3>1, <3>3, <3>4, <3>5, <3>6, Zenon
  <2> QED BY <2>1, <2>2, Zenon
<1>4. ReaderTypes'
  <2>1. rpc' \in [Readers -> {"idle", "sent", "replied", "ended", "failed"}]
    BY <1>1, <1>3 DEF ReaderTypes
  <2>2. pos' \in [Readers -> Nat]
    BY <1>1, <1>3 DEF ReaderTypes
  <2>3. reply' \in [Readers -> Seq(Listed \cup ListedPlus)]
    <3> DEFINE E == Listed \cup ListedPlus
    <3>1. reply \in [Readers -> Seq(E)] /\ <<>> \in Seq(E)
      BY <1>1 DEF ReaderTypes
    <3>2. reply' \in [Readers -> Seq(E)]
      <4> HIDE DEF E
      <4> QED BY <1>2, <3>1
    <3> QED BY <3>2
  <2>4. seen' \in [Readers -> Seq(DOMAIN Stream)]
    BY <1>1, <1>3 DEF ReaderTypes
  <2> QED BY <1>1, <1>2, <2>1, <2>2, <2>3, <2>4, Zenon DEF ReaderTypes
<1>5. /\ rpc'[r] = pc /\ pos'[r] = at /\ reply'[r] = <<>>
      /\ seen'[r] = names
  BY <1>1, <1>2, <1>3 DEF ReaderTypes
<1>6. \A q \in Readers \ {r} : Same(q)
  BY <1>1, <1>2, <1>3 DEF Same, ReaderTypes
<1>7. Good(r)'
  <2>1. GoodIn(pc, rop[r], rsize[r], at, <<>>, names)
    BY <1>1, <1>3, EmptyReply DEF GoodIn
  <2> QED BY <1>2, <1>5, <2>1, Zenon DEF Good
<1>8. ASSUME NEW i \in Inodes
      PROVE  kref'[i] = kref[i] + Viewed(rop[r], reply[r], i)
             /\ kref'[i] \in Nat
  <2>1. kref[i] \in Nat /\ Viewed(rop[r], reply[r], i) \in Nat
    BY <1>1, ViewType, Zenon DEF ReaderTypes, CountTypes, IsView
  <2>2. CASE rop[r] = "READDIRPLUS"
    BY <1>2, <2>1, <2>2 DEF Plus, Viewed
  <2>3. CASE rop[r] # "READDIRPLUS"
    BY <1>2, <2>1, <2>3 DEF Viewed
  <2> QED BY <2>2, <2>3
<1>9. CountTypes'
  <2>1. kref' = [i \in Inodes |-> kref'[i]]
    BY <1>1, <1>2 DEF Plus, CountTypes
  <2>2. kref' \in [Inodes -> Nat]
    BY <1>8, <2>1
  <2> QED BY <1>1, <1>2, <2>2 DEF CountTypes
<1>10. ASSUME NEW i \in Inodes
       PROVE  fsref'[i] + Viewed(rop[r], reply[r], i) + kref[i] + lost[i]
              = fsref[i] + Viewed(rop'[r], reply'[r], i) + kref'[i] + lost'[i]
  <2>1. Viewed(rop'[r], reply'[r], i) = 0
    BY <1>1, <1>2, <1>5, EmptyReply, Zenon
  <2>2. /\ kref[i] \in Nat /\ Viewed(rop[r], reply[r], i) \in Nat
        /\ fsref[i] \in Int /\ lost[i] \in Nat
    BY <1>1, ViewType, Zenon DEF ReaderTypes, CountTypes, IsView
  <2>3. fsref'[i] = fsref[i] /\ lost'[i] = lost[i]
    BY <1>2
  <2> QED BY <1>8, <2>1, <2>2, <2>3
<1> QED BY <1>2, <1>4, <1>6, <1>7, <1>9, <1>10, OneReader, Zenon

-----------------------------------------------------------------------------
(* Steps of the counts *)

(* What no reader's step changes.                                          *)
LEMMA Counted ==
  ASSUME IInv
  PROVE  /\ ReaderTypes /\ CountTypes
         /\ \A i \in Inodes :
              fsref[i] = kref[i] + answered[i] + Unread(i) + Unheard(i)
                         + lost[i]
<1>1. ReaderTypes /\ CountTypes /\ CountsMatch
  BY Split
<1> QED BY <1>1 DEF CountsMatch

(* The kernel sends a LOOKUP.                                              *)
LEMMA Step_SendLookup ==
  ASSUME IInv, NEW i \in Inodes, SendLookup(i)
  PROVE  IInv'
<1>1. /\ left > 0 /\ left' = left - 1 /\ asked' = Add(asked, i, 1)
      /\ UNCHANGED readerVars
      /\ answered' = answered /\ kref' = kref /\ forgets' = forgets
      /\ fsref' = fsref /\ lost' = lost /\ base' = base
  BY DEF SendLookup
<1>2. CountTypes'
  <2>1. left' \in 0..MaxLookups
    BY <1>1, Counted, BoundsAssumption DEF CountTypes
  <2>2. asked' \in [Inodes -> Nat]
    BY <1>1, Counted DEF CountTypes, Add
  <2> QED BY <1>1, <2>1, <2>2, Counted DEF CountTypes
<1>3. \A j \in Inodes : fsref'[j] = kref'[j] + answered'[j] + Unread(j)
                                    + Unheard(j)' + lost'[j]
  BY <1>1, Counted, Zenon DEF Unheard
<1> QED BY <1>1, <1>2, <1>3, NoReader

(* handleLookup: it finds the inode, or not.                               *)
LEMMA Step_handleLookup ==
  ASSUME IInv, NEW i \in Inodes, handleLookup(i)
  PROVE  IInv'
<1>1. /\ asked[i] > 0 /\ asked' = Add(asked, i, -1)
      /\ UNCHANGED readerVars
      /\ left' = left /\ kref' = kref /\ forgets' = forgets
      /\ lost' = lost /\ base' = base
  BY DEF handleLookup
<1>2. PICK n \in {0, 1} :
        /\ \A j \in Inodes :
             /\ answered'[j] = answered[j] + (IF j = i THEN n ELSE 0)
             /\ fsref'[j] = fsref[j] + (IF j = i THEN n ELSE 0)
        /\ answered' \in [Inodes -> Nat] /\ fsref' \in [Inodes -> Int]
  <2>1. answered \in [Inodes -> Nat] /\ fsref \in [Inodes -> Int]
    BY Counted DEF CountTypes
  <2>2. CASE answered' = Add(answered, i, 1) /\ fsref' = Add(fsref, i, 1)
    <3>1. /\ \A j \in Inodes :
               /\ answered'[j] = answered[j] + (IF j = i THEN 1 ELSE 0)
               /\ fsref'[j] = fsref[j] + (IF j = i THEN 1 ELSE 0)
          /\ answered' \in [Inodes -> Nat] /\ fsref' \in [Inodes -> Int]
      BY <2>1, <2>2 DEF Add
    <3> QED BY <3>1
  <2>3. CASE UNCHANGED <<answered, fsref>>
    <3>1. /\ \A j \in Inodes :
               /\ answered'[j] = answered[j] + (IF j = i THEN 0 ELSE 0)
               /\ fsref'[j] = fsref[j] + (IF j = i THEN 0 ELSE 0)
          /\ answered' \in [Inodes -> Nat] /\ fsref' \in [Inodes -> Int]
      BY <2>1, <2>3
    <3> QED BY <3>1
  <2> QED BY <2>2, <2>3 DEF handleLookup
<1>3. CountTypes'
  <2>1. asked' \in [Inodes -> Nat]
    BY <1>1, Counted DEF CountTypes, Add
  <2> QED BY <1>1, <1>2, <2>1, Counted, Zenon DEF CountTypes
<1>4. ASSUME NEW j \in Inodes
      PROVE  fsref'[j] = kref'[j] + answered'[j] + Unread(j) + Unheard(j)'
                         + lost'[j]
  <2>1. /\ kref[j] \in Nat /\ answered[j] \in Nat /\ lost[j] \in Nat
        /\ Unread(j) \in Nat /\ Unheard(j) \in Nat
    BY Counted, Numbers, Zenon
  <2>2. kref'[j] = kref[j] /\ Unheard(j)' = Unheard(j) /\ lost'[j] = lost[j]
    BY <1>1, Zenon DEF Unheard
  <2>3. fsref[j] = kref[j] + answered[j] + Unread(j) + Unheard(j) + lost[j]
    BY Counted, Zenon
  <2>4. PICK m \in {0, 1} : /\ answered'[j] = answered[j] + m
                            /\ fsref'[j] = fsref[j] + m
    BY <1>2
  <2> QED BY <2>1, <2>2, <2>3, <2>4
<1> QED BY <1>1, <1>3, <1>4, NoReader

(* The kernel takes the answer to a LOOKUP.                                *)
LEMMA Step_ReadLookup ==
  ASSUME IInv, NEW i \in Inodes, ReadLookup(i)
  PROVE  IInv'
<1>1. /\ answered[i] > 0 /\ answered' = Add(answered, i, -1)
      /\ kref' = Add(kref, i, 1) /\ UNCHANGED readerVars
      /\ left' = left /\ asked' = asked /\ forgets' = forgets
      /\ fsref' = fsref /\ lost' = lost /\ base' = base
  BY DEF ReadLookup
<1>2. CountTypes'
  <2>1. answered' \in [Inodes -> Nat] /\ kref' \in [Inodes -> Nat]
    BY <1>1, Counted DEF CountTypes, Add
  <2> QED BY <1>1, <2>1, Counted DEF CountTypes
<1>3. ASSUME NEW j \in Inodes
      PROVE  fsref'[j] = kref'[j] + answered'[j] + Unread(j) + Unheard(j)'
                         + lost'[j]
  <2>1. /\ kref[j] \in Nat /\ answered[j] \in Nat /\ lost[j] \in Nat
        /\ Unread(j) \in Nat /\ Unheard(j) \in Nat
    BY Counted, Numbers, Zenon
  <2>2. fsref'[j] = fsref[j] /\ Unheard(j)' = Unheard(j) /\ lost'[j] = lost[j]
    BY <1>1, Zenon DEF Unheard
  <2>3. fsref[j] = kref[j] + answered[j] + Unread(j) + Unheard(j) + lost[j]
    BY Counted, Zenon
  <2>4. PICK m \in {0, 1} : /\ answered'[j] = answered[j] - m
                            /\ kref'[j] = kref[j] + m
    <3>1. answered \in [Inodes -> Nat] /\ kref \in [Inodes -> Nat]
      BY Counted DEF CountTypes
    <3>2. CASE j = i
      <4>1. answered'[j] = answered[j] - 1 /\ kref'[j] = kref[j] + 1
        BY <1>1, <3>1, <3>2 DEF Add
      <4> QED BY <4>1
    <3>3. CASE j # i
      <4>1. answered'[j] = answered[j] - 0 /\ kref'[j] = kref[j] + 0
        BY <1>1, <3>1, <3>3 DEF Add
      <4> QED BY <4>1
    <3> QED BY <3>2, <3>3
  <2> QED BY <2>1, <2>2, <2>3, <2>4
<1> QED BY <1>1, <1>2, <1>3, NoReader

(* The kernel drops an inode.                                              *)
LEMMA Step_Evict ==
  ASSUME IInv, NEW i \in Inodes, Evict(i)
  PROVE  IInv'
<1>1. /\ kref[i] > 0 /\ kref' = [kref EXCEPT ![i] = 0]
      /\ forgets' = [forgets EXCEPT ![i] = Append(@, kref[i])]
      /\ UNCHANGED readerVars
      /\ left' = left /\ asked' = asked /\ answered' = answered
      /\ fsref' = fsref /\ lost' = lost /\ base' = base
  BY DEF Evict, lookups
<1>2. /\ CountTypes /\ forgets \in [Inodes -> Seq(Nat \ {0})]
      /\ kref \in [Inodes -> Nat]
  BY Counted DEF CountTypes
<1>3. /\ forgets'[i] = Append(forgets[i], kref[i])
      /\ \A j \in Inodes \ {i} : forgets'[j] = forgets[j]
      /\ kref'[i] = 0 /\ \A j \in Inodes \ {i} : kref'[j] = kref[j]
  BY <1>1, <1>2
<1>4. CountTypes'
  <2>1. Append(forgets[i], kref[i]) \in Seq(Nat \ {0})
    BY <1>1, <1>2
  <2>2. forgets' \in [Inodes -> Seq(Nat \ {0})]
    BY <1>1, <1>2, <2>1
  <2>3. kref' \in [Inodes -> Nat]
    BY <1>1, <1>2
  <2> QED BY <1>1, <1>2, <2>2, <2>3 DEF CountTypes
<1>5. ASSUME NEW j \in Inodes
      PROVE  fsref'[j] = kref'[j] + answered'[j] + Unread(j) + Unheard(j)'
                         + lost'[j]
  <2>1. /\ kref[j] \in Nat /\ answered[j] \in Nat /\ lost[j] \in Nat
        /\ Unread(j) \in Nat /\ Unheard(j) \in Nat
        /\ forgets[j] \in Seq(Nat)
    BY Counted, Numbers, Zenon
  <2>2. /\ fsref'[j] = fsref[j] /\ answered'[j] = answered[j]
        /\ lost'[j] = lost[j]
    BY <1>1, Zenon
  <2>3. fsref[j] = kref[j] + answered[j] + Unread(j) + Unheard(j) + lost[j]
    BY Counted, Zenon
  <2>4. CASE j = i
    <3>1. Total(Append(forgets[j], kref[j])) = Total(forgets[j]) + kref[j]
      BY <2>1, TotalAppend
    <3>2. Unheard(j)' = Unheard(j) + kref[j] /\ kref'[j] = 0
      BY <1>3, <2>4, <3>1, Zenon DEF Unheard
    <3> QED BY <2>1, <2>2, <2>3, <3>2
  <2>5. CASE j # i
    <3>1. Unheard(j)' = Unheard(j) /\ kref'[j] = kref[j]
      BY <1>3, <2>5, Zenon DEF Unheard
    <3> QED BY <2>2, <2>3, <3>1
  <2> QED BY <2>4, <2>5
<1> QED BY <1>1, <1>4, <1>5, NoReader

(* A FORGET less.                                                          *)
LEMMA ForgetLess ==
  ASSUME NEW w \in Seq(Nat \ {0}), NEW k \in 1..Len(w), NEW v,
         v = Without(w, k)
  PROVE  v \in Seq(Nat \ {0}) /\ Total(w) = Total(v) + w[k]
<1> DEFINE a == SubSeq(w, 1, k - 1)
           b == SubSeq(w, k + 1, Len(w))
<1>1. Len(w) \in Nat /\ k \in Nat /\ 1 <= k /\ k <= Len(w)
  OBVIOUS
<1>2. /\ a \in Seq(Nat \ {0}) /\ Len(a) = k - 1
      /\ \A i \in 1..(k - 1) : a[i] = w[i]
  BY <1>1
<1>3. /\ b \in Seq(Nat \ {0}) /\ Len(b) = Len(w) - k
      /\ \A i \in 1..(Len(w) - k) : b[i] = w[k + i]
  BY <1>1
<1>4. v = a \o b
  BY DEF Without
<1> HIDE DEF a, b
<1>5. v \in Seq(Nat \ {0}) /\ Len(v) = Len(w) - 1 /\ Joins(v, a, b)
  <2>1. v \in Seq(Nat \ {0}) /\ Joins(v, a, b)
    BY <1>2, <1>3, <1>4, Joined, Zenon
  <2>2. Len(v) = Len(a) + Len(b)
    BY <2>1, Zenon DEF Joins
  <2> QED BY <1>1, <1>2, <1>3, <2>1, <2>2
<1>6. ASSUME NEW i \in 1..Len(v)
      PROVE  v[i] = IF i < k THEN w[i] ELSE w[i + 1]
  <2>1. i \in Nat /\ 1 <= i /\ i <= Len(w) - 1
    BY <1>1, <1>5
  <2>2. CASE i < k
    <3>1. i \in 1..(k - 1) /\ Len(a) = k - 1
      BY <1>1, <1>2, <2>1, <2>2
    <3>2. v[i] = a[i]
      BY <1>5, <3>1, Zenon DEF Joins
    <3>3. a[i] = w[i]
      BY <1>2, <3>1, Zenon
    <3> QED BY <2>2, <3>2, <3>3, Zenon
  <2>3. CASE ~(i < k)
    <3>1. /\ i - Len(a) \in 1..(Len(w) - k) /\ i > Len(a)
          /\ i \in 1..(Len(a) + Len(b)) /\ k + (i - Len(a)) = i + 1
      BY <1>1, <1>2, <1>3, <2>1, <2>3
    <3>2. v[i] = b[i - Len(a)]
      BY <1>5, <3>1, Zenon DEF Joins
    <3>3. b[i - Len(a)] = w[k + (i - Len(a))]
      BY <1>3, <3>1, Zenon
    <3> QED BY <2>3, <3>1, <3>2, <3>3, Zenon
  <2> QED BY <2>2, <2>3
<1>7. /\ v \in Seq(Nat) /\ w \in Seq(Nat) /\ Len(w) = Len(v) + 1
  BY <1>1, <1>5
<1>8. Total(w) = Total(v) + w[k]
  BY <1>6, <1>7, TotalRemove, Zenon
<1> QED BY <1>5, <1>8

(* The first one.                                                          *)
LEMMA FirstLess ==
  ASSUME NEW w \in Seq(Nat \ {0}), w # <<>>
  PROVE  /\ Tail(w) \in Seq(Nat \ {0}) /\ Total(w) = Total(Tail(w)) + Head(w)
         /\ Head(w) \in Nat
<1>1. PICK v : v = Tail(w)
  BY Zenon
<1>2. /\ v \in Seq(Nat \ {0}) /\ Len(w) = Len(v) + 1 /\ Len(v) \in Nat
      /\ \A i \in 1..Len(v) : v[i] = w[i + 1]
      /\ w[1] = Head(w) /\ Head(w) \in Nat /\ 1 \in 1..Len(w)
  BY <1>1
<1>3. \A i \in 1..Len(v) : v[i] = IF i < 1 THEN w[i] ELSE w[i + 1]
  BY <1>2
<1>4. v \in Seq(Nat) /\ w \in Seq(Nat)
  BY <1>2
<1>5. Total(w) = Total(v) + w[1]
  BY <1>2, <1>3, <1>4, TotalRemove, Zenon
<1> QED BY <1>1, <1>2, <1>5

(* handleForget: any of the FORGETs that are on their way.                 *)
LEMMA Step_handleForget ==
  ASSUME IInv, NEW i \in Inodes, NEW n \in DOMAIN forgets[i],
         handleForget(i, n)
  PROVE  IInv'
<1>1. /\ fsref' = Add(fsref, i, -forgets[i][n])
      /\ forgets' = [forgets EXCEPT ![i] = Without(@, n)]
      /\ UNCHANGED readerVars
      /\ left' = left /\ asked' = asked /\ answered' = answered
      /\ kref' = kref /\ lost' = lost /\ base' = base
  BY DEF handleForget, lookups
<1>2. /\ CountTypes /\ forgets \in [Inodes -> Seq(Nat \ {0})]
      /\ fsref \in [Inodes -> Int] /\ n \in 1..Len(forgets[i])
      /\ forgets[i][n] \in Nat
  <2>1. CountTypes
    BY Counted, Zenon
  <2>2. forgets \in [Inodes -> Seq(Nat \ {0})] /\ fsref \in [Inodes -> Int]
    BY <2>1, Zenon DEF CountTypes
  <2>3. PICK s \in Seq(Nat \ {0}) : s = forgets[i]
    BY <2>2
  <2>4. n \in 1..Len(s) /\ s[n] \in Nat
    BY <2>3
  <2> QED BY <2>1, <2>2, <2>3, <2>4, Zenon
<1>3. PICK v : v = Without(forgets[i], n)
  OBVIOUS
<1>4. v \in Seq(Nat \ {0}) /\ Total(forgets[i]) = Total(v) + forgets[i][n]
  BY <1>2, <1>3, ForgetLess
<1>5. /\ forgets'[i] = v /\ \A j \in Inodes \ {i} : forgets'[j] = forgets[j]
      /\ fsref'[i] = fsref[i] - forgets[i][n]
      /\ \A j \in Inodes \ {i} : fsref'[j] = fsref[j]
  BY <1>1, <1>2, <1>3 DEF Add
<1>6. CountTypes'
  <2>1. forgets' = [forgets EXCEPT ![i] = v]
    BY <1>1, <1>2, <1>3
  <2>2. forgets' \in [Inodes -> Seq(Nat \ {0})]
    BY <1>2, <1>4, <2>1
  <2>3. fsref' \in [Inodes -> Int]
    BY <1>1, <1>2 DEF Add
  <2> QED BY <1>1, <1>2, <2>2, <2>3 DEF CountTypes
<1>7. ASSUME NEW j \in Inodes
      PROVE  fsref'[j] = kref'[j] + answered'[j] + Unread(j) + Unheard(j)'
                         + lost'[j]
  <2>1. /\ kref[j] \in Nat /\ answered[j] \in Nat /\ lost[j] \in Nat
        /\ Unread(j) \in Nat /\ Unheard(j) \in Nat
    BY Counted, Numbers, Zenon
  <2>2. /\ kref'[j] = kref[j] /\ answered'[j] = answered[j]
        /\ lost'[j] = lost[j]
    BY <1>1, Zenon
  <2>3. fsref[j] = kref[j] + answered[j] + Unread(j) + Unheard(j) + lost[j]
    BY Counted, Zenon
  <2>4. CASE j = i
    <3>1. v \in Seq(Nat)
      BY <1>4
    <3>2. Total(v) \in Nat
      BY <3>1, TotalAppend
    <3>3. /\ Unheard(j)' = Total(v) /\ Unheard(j) = Total(v) + forgets[i][n]
          /\ fsref'[j] = fsref[j] - forgets[i][n]
      BY <1>4, <1>5, <2>4, Zenon DEF Unheard
    <3>4. fsref[j] \in Int /\ forgets[i][n] \in Nat
      BY <1>2
    <3>5. Hears(fsref[j], fsref'[j], forgets[i][n], Unheard(j), Unheard(j)',
                lost[j], lost[j])
      BY <2>1, <3>2, <3>3, <3>4 DEF Hears
    <3>6. Sum(fsref[j], kref[j], answered[j], Unread(j), Unheard(j), lost[j])
      BY <2>1, <2>3, <3>4, Zenon DEF Sum
    <3>7. Sum(fsref'[j], kref[j], answered[j], Unread(j), Unheard(j)',
              lost[j])
      BY <3>5, <3>6, MatchForgets, Zenon
    <3> QED BY <2>2, <3>7, Zenon DEF Sum
  <2>5. CASE j # i
    <3>1. Unheard(j)' = Unheard(j) /\ fsref'[j] = fsref[j]
      BY <1>5, <2>5, Zenon DEF Unheard
    <3> QED BY <2>2, <2>3, <3>1
  <2> QED BY <2>4, <2>5
<1> QED BY <1>1, <1>6, <1>7, NoReader

(* handleBatchForget: what FilesystemBase is told is lost.                 *)
LEMMA Step_handleBatchForget ==
  ASSUME IInv, NEW S \in SUBSET Inodes, handleBatchForget(S)
  PROVE  IInv'
<1> DEFINE named(j) == IF j \in S THEN Head(forgets[j]) ELSE 0
<1>1. /\ \A j \in S : forgets[j] # <<>>
      /\ forgets' = [j \in Inodes |->
                       IF j \in S THEN Tail(forgets[j]) ELSE forgets[j]]
      /\ UNCHANGED readerVars
      /\ left' = left /\ asked' = asked /\ answered' = answered
      /\ kref' = kref /\ base' = base
  BY DEF handleBatchForget, lookups
<1>2. \/ /\ lost' = [j \in Inodes |-> lost[j] + named(j)]
         /\ fsref' = fsref
      \/ /\ fsref' = [j \in Inodes |-> fsref[j] - named(j)]
         /\ lost' = lost
  BY DEF handleBatchForget
<1>3. CountTypes
  BY Counted
<1>4. ASSUME NEW j \in Inodes
      PROVE  /\ forgets'[j] \in Seq(Nat \ {0}) /\ named(j) \in Nat
             /\ Unheard(j) = Unheard(j)' + named(j) /\ Unheard(j)' \in Nat
  <2>1. forgets[j] \in Seq(Nat \ {0})
    BY <1>3 DEF CountTypes
  <2>2. CASE j \in S
    <3>1. forgets'[j] = Tail(forgets[j]) /\ named(j) = Head(forgets[j])
      BY <1>1, <2>2
    <3>2. /\ Tail(forgets[j]) \in Seq(Nat \ {0}) /\ Head(forgets[j]) \in Nat
          /\ Total(forgets[j]) = Total(Tail(forgets[j])) + Head(forgets[j])
      BY <1>1, <2>1, <2>2, FirstLess
    <3>3. Tail(forgets[j]) \in Seq(Nat)
      BY <3>2
    <3>4. Total(Tail(forgets[j])) \in Nat
      BY <3>3, TotalAppend, Zenon
    <3> QED BY <3>1, <3>2, <3>4, Zenon DEF Unheard
  <2>3. CASE j \notin S
    <3>1. forgets'[j] = forgets[j] /\ named(j) = 0
      BY <1>1, <2>3
    <3>2. Unheard(j) \in Nat
      BY Counted, Numbers
    <3>3. Unheard(j)' = Unheard(j)
      BY <3>1, Zenon DEF Unheard
    <3> QED BY <2>1, <3>1, <3>2, <3>3
  <2> QED BY <2>2, <2>3
<1> HIDE DEF named
<1>5. ASSUME NEW j \in Inodes
      PROVE  /\ lost'[j] \in Nat /\ fsref'[j] \in Int
             /\ fsref'[j] + named(j) + lost[j] = fsref[j] + lost'[j]
  <2>1. lost[j] \in Nat /\ fsref[j] \in Int /\ named(j) \in Nat
    BY <1>3, <1>4 DEF CountTypes
  <2>2. CASE /\ lost' = [q \in Inodes |-> lost[q] + named(q)]
             /\ fsref' = fsref
    BY <2>1, <2>2
  <2>3. CASE /\ fsref' = [q \in Inodes |-> fsref[q] - named(q)]
             /\ lost' = lost
    BY <2>1, <2>3
  <2> QED BY <1>2, <2>2, <2>3
<1>6. CountTypes'
  <2>1. /\ lost' = [j \in Inodes |-> lost'[j]]
        /\ fsref' = [j \in Inodes |-> fsref'[j]]
    BY <1>2, <1>3 DEF CountTypes
  <2>2. lost' \in [Inodes -> Nat] /\ fsref' \in [Inodes -> Int]
    BY <1>5, <2>1
  <2>3. forgets' = [j \in Inodes |-> forgets'[j]]
    BY <1>1
  <2>4. forgets' \in [Inodes -> Seq(Nat \ {0})]
    BY <1>4, <2>3
  <2> QED BY <1>1, <1>3, <2>2, <2>4 DEF CountTypes
<1>7. ASSUME NEW j \in Inodes
      PROVE  fsref'[j] = kref'[j] + answered'[j] + Unread(j) + Unheard(j)'
                         + lost'[j]
  <2>1. /\ kref[j] \in Nat /\ answered[j] \in Nat /\ lost[j] \in Nat
        /\ Unread(j) \in Nat /\ fsref[j] \in Int
    BY Counted, Numbers, Zenon
  <2>2. kref'[j] = kref[j] /\ answered'[j] = answered[j]
    BY <1>1, Zenon
  <2>3. fsref[j] = kref[j] + answered[j] + Unread(j) + Unheard(j) + lost[j]
    BY Counted, Zenon
  <2>4. Unheard(j) \in Nat
    BY Counted, Numbers, Zenon
  <2>5. Hears(fsref[j], fsref'[j], named(j), Unheard(j), Unheard(j)',
              lost[j], lost'[j])
    BY <1>4, <1>5, <2>1, <2>4, Zenon DEF Hears
  <2>6. Sum(fsref[j], kref[j], answered[j], Unread(j), Unheard(j), lost[j])
    BY <2>1, <2>3, <2>4, Zenon DEF Sum
  <2>7. Sum(fsref'[j], kref[j], answered[j], Unread(j), Unheard(j)', lost'[j])
    BY <2>5, <2>6, MatchForgets, Zenon
  <2> QED BY <2>2, <2>7, Zenon DEF Sum
<1> QED BY <1>1, <1>6, <1>7, NoReader

-----------------------------------------------------------------------------
(* The invariant *)

(* Init.                                                                   *)
LEMMA Starts == Init => IInv
<1> SUFFICES ASSUME Init PROVE IInv
  OBVIOUS
<1>1. PICK size \in Sizes : size = CHOOSE s \in Sizes : TRUE
  BY SizesAssumption
<1>2. /\ rpc = [r \in Readers |-> "idle"]
      /\ rop = [r \in Readers |-> "READDIR"]
      /\ rsize = [r \in Readers |-> size] /\ pos = [r \in Readers |-> 0]
      /\ reply = [r \in Readers |-> <<>>] /\ seen = [r \in Readers |-> <<>>]
  BY <1>1 DEF Init
<1>3. ReaderTypes
  <2>1. <<>> \in Seq(Listed \cup ListedPlus) /\ <<>> \in Seq(DOMAIN Stream)
    OBVIOUS
  <2> QED BY <1>2, <2>1 DEF ReaderTypes
<1>4. /\ left = MaxLookups /\ base \in BOOLEAN
      /\ asked = None /\ answered = None /\ kref = None /\ fsref = None
      /\ lost = None /\ forgets = [i \in Inodes |-> <<>>]
  BY DEF Init
<1>5. CountTypes
  BY <1>4, BoundsAssumption DEF CountTypes, None
<1>6. ASSUME NEW r \in Readers
      PROVE  Good(r) /\ \A i : Viewed(rop[r], reply[r], i) = 0
  <2>1. FollowsIn("idle", 0, <<>>, <<>>)
    BY StreamType DEF FollowsIn
  <2>2. GoodIn("idle", "READDIR", size, 0, <<>>, <<>>)
    BY <2>1, EmptyReply DEF GoodIn
  <2>3. /\ rpc[r] = "idle" /\ rop[r] = "READDIR" /\ rsize[r] = size
        /\ pos[r] = 0 /\ reply[r] = <<>> /\ seen[r] = <<>>
    BY <1>2
  <2>4. Good(r)
    BY <2>2, <2>3, Zenon DEF Good
  <2>5. \A i : Viewed(rop[r], reply[r], i) = 0
    BY <2>3 DEF Viewed
  <2> QED BY <2>4, <2>5
<1>7. ASSUME NEW i \in Inodes
      PROVE  fsref[i] = kref[i] + answered[i] + Unread(i) + Unheard(i)
                        + lost[i]
  <2>1. /\ fsref[i] = 0 /\ kref[i] = 0 /\ answered[i] = 0 /\ lost[i] = 0
        /\ forgets[i] = <<>>
    BY <1>4 DEF None
  <2>2. Unheard(i) = 0
    <3>1. <<>> \in Seq(Nat) /\ \A n \in 1..Len(<<>>) : <<>>[n] = 0
      OBVIOUS
    <3>2. Total(<<>>) = 0
      BY <3>1, TotalZero, Zenon
    <3> QED BY <2>1, <3>2, Zenon DEF Unheard
  <2>3. Unread(i) = 0
    <3>1. PICK v : v = ViewOf(rop, reply, i)
      OBVIOUS
    <3>2. /\ v \in Seq(Nat) /\ Len(v) = Processes /\ Unread(i) = Total(v)
          /\ \A r \in Readers : v[r] = Viewed(rop[r], reply[r], i)
      BY <1>3, <3>1, ViewType, UnreadIs, Zenon DEF ReaderTypes, IsView
    <3>3. \A r \in 1..Len(v) : v[r] = 0
      BY <1>6, <3>2, Zenon DEF Readers
    <3> QED BY <3>2, <3>3, TotalZero
  <2> QED BY <2>1, <2>2, <2>3
<1>8. CountsMatch
  BY <1>7 DEF CountsMatch
<1> QED BY <1>3, <1>5, <1>6, <1>8, Split

(* Every step preserves IInv.                                              *)
LEMMA Inductive == IInv /\ [Next]_vars => IInv'
<1> SUFFICES ASSUME IInv, [Next]_vars PROVE IInv'
  OBVIOUS
<1>1. ASSUME NEW r \in Readers, Listing(r)
      PROVE  IInv'
  <2>1. ASSUME NEW op \in {"READDIR", "READDIRPLUS"}, NEW size \in Sizes,
               SendReaddir(r, op, size)
        PROVE  IInv'
    BY <2>1, Step_SendReaddir
  <2>2. CASE handleReaddir(r)
    BY <2>2, Step_handleReaddir
  <2>3. CASE handleReaddirplus(r)
    BY <2>3, Step_handleReaddirplus
  <2>4. CASE ReadReply(r)
    BY <2>4, Step_ReadReply
  <2> QED BY <1>1, <2>1, <2>2, <2>3, <2>4 DEF Listing
<1>2. ASSUME NEW i \in Inodes, SendLookup(i) PROVE IInv'
  BY <1>2, Step_SendLookup
<1>3. ASSUME NEW i \in Inodes, handleLookup(i) PROVE IInv'
  BY <1>3, Step_handleLookup
<1>4. ASSUME NEW i \in Inodes, ReadLookup(i) PROVE IInv'
  BY <1>4, Step_ReadLookup
<1>5. ASSUME NEW i \in Inodes, Evict(i) PROVE IInv'
  BY <1>5, Step_Evict
<1>6. ASSUME NEW i \in Inodes, NEW n \in DOMAIN forgets[i],
             handleForget(i, n)
      PROVE  IInv'
  BY <1>6, Step_handleForget
<1>7. ASSUME NEW S \in SUBSET Inodes, handleBatchForget(S) PROVE IInv'
  BY <1>7, Step_handleBatchForget
<1>8. CASE UNCHANGED vars
  <2>1. /\ UNCHANGED readerVars
        /\ left' = left /\ asked' = asked /\ answered' = answered
        /\ kref' = kref /\ forgets' = forgets /\ fsref' = fsref
        /\ lost' = lost /\ base' = base
    BY <1>8 DEF vars, lookups
  <2>2. CountTypes'
    BY <2>1, Counted DEF CountTypes
  <2>3. \A j \in Inodes : fsref'[j] = kref'[j] + answered'[j] + Unread(j)
                                      + Unheard(j)' + lost'[j]
    BY <2>1, Counted, Zenon DEF Unheard
  <2> QED BY <2>1, <2>2, <2>3, NoReader
<1> QED BY <1>1, <1>2, <1>3, <1>4, <1>5, <1>6, <1>7, <1>8, Zenon DEF Next

(* For all directories, reply sizes and numbers of processes, what the     *)
(* kernel has, what it is sent and what the Filesystem has counted fit     *)
(* together, whatever the handlers do.                                     *)
THEOREM DirectoryInvariant == Spec => []IInv
BY Starts, Inductive, PTL DEF Spec

(* No reply to READDIR or READDIRPLUS is longer than the kernel asked for. *)
THEOREM RepliesFit == Spec => []ReplyFits
<1>1. IInv => ReplyFits
  BY DEF IInv
<1> QED BY <1>1, DirectoryInvariant, PTL

(* Every entry of a READDIRPLUS reply has the type of its attributes.      *)
THEOREM TypesMatch == Spec => []TypesAgree
<1>1. IInv => TypesAgree
  BY DEF IInv
<1> QED BY <1>1, DirectoryInvariant, PTL

(* In every order of handlers, the Filesystem's count of an inode is the   *)
(* kernel's and what is on its way, and what a reply had no room for or    *)
(* FilesystemBase was told.                                                *)
THEOREM CountsKept == Spec => []CountsMatch
<1>1. IInv => CountsMatch
  BY DEF IInv
<1> QED BY <1>1, DirectoryInvariant, PTL

(* If the generations that ReadDirPlus returns are the offsets of ReadDir, *)
(* every process lists the directory in order, nothing twice and nothing   *)
(* left out.                                                               *)
THEOREM ListedInOrder == Spec => [](CookiesAreOffsets => InOrder)
<1>1. IInv => (CookiesAreOffsets => InOrder)
  BY DEF IInv, InStep, InOrder
<1> QED BY <1>1, DirectoryInvariant, PTL

=============================================================================
