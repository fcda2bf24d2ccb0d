--------------------------- MODULE Session_proofs ---------------------------
(***************************************************************************)
(* What both sides agree on after INIT, and what the kernel makes of the   *)
(* fields, timeouts and errors of replies, for all options, kernels,       *)
(* durations and errors.                                                   *)
(***************************************************************************)
EXTENDS SessionInv, Counting_proofs

(* A table of sums, checked row by row, is that of PrefixSums.             *)
LEMMA SumsTable ==
  ASSUME NEW w \in Seq(Nat), NEW at \in Seq(Nat), Len(at) = Len(w) + 1,
         at[1] = 0, \A i \in 1..Len(w) : at[i + 1] = at[i] + w[i]
  PROVE  \A i \in 0..Len(w) : PrefixSums(w)[i] = at[i + 1]
<1> DEFINE s == PrefixSums(w)
           T == {i \in 0..Len(w) : s[i] = at[i + 1]}
<1>1. s[0] = 0 /\ \A i \in 1..Len(w) : s[i] = s[i - 1] + w[i]
  BY SumsStep
<1> HIDE DEF s
<1>2. 0 \in T
  BY <1>1
<1>3. ASSUME NEW i \in 1..Len(w), i - 1 \in T PROVE i \in T
  <2>1. s[i] = s[i - 1] + w[i] /\ s[i - 1] = at[i] /\ at[i + 1] = at[i] + w[i]
    BY <1>1, <1>3
  <2> QED BY <2>1
<1> HIDE DEF T
<1>4. Len(w) \in Nat
  OBVIOUS
<1>5. \A i \in 0..Len(w) : i \in T
  BY <1>2, <1>3, <1>4, Climb
<1> QED BY <1>5 DEF T, s

(* Fields of a struct, all with names of their own, and where they begin;  *)
(* the last number is where the struct ends.                               *)
Layout(struct, at) ==
  /\ Len(struct) \in Nat /\ DOMAIN struct = 1..Len(struct)
  /\ \A i \in 1..Len(struct) : struct[i].width \in Nat \ {0}
  /\ at \in Seq(Nat) /\ Len(at) = Len(struct) + 1 /\ at[1] = 0
  /\ \A i \in 1..Len(struct) : at[i + 1] = at[i] + struct[i].width
  /\ \A i, j \in 1..Len(struct) : struct[i].name = struct[j].name => i = j

(* The rows of a layout.                                                   *)
LEMMA LayoutRow ==
  ASSUME NEW struct, NEW at, Layout(struct, at), NEW i \in 1..Len(struct)
  PROVE  /\ at[i] \in Nat /\ at[i + 1] \in Nat
         /\ struct[i].width \in Nat /\ struct[i].width > 0
         /\ at[i + 1] = at[i] + struct[i].width
<1>1. /\ Len(struct) \in Nat /\ at \in Seq(Nat) /\ Len(at) = Len(struct) + 1
      /\ struct[i].width \in Nat \ {0}
      /\ at[i + 1] = at[i] + struct[i].width
  BY Zenon DEF Layout
<1>2. i \in 1..Len(at) /\ i + 1 \in 1..Len(at)
  BY <1>1
<1>3. at[i] \in Nat /\ at[i + 1] \in Nat
  BY <1>1, <1>2
<1> QED BY <1>1, <1>3

(* SizeOf and Place are what a layout says.                                *)
LEMMA LaidOut ==
  ASSUME NEW struct, NEW at, Layout(struct, at)
  PROVE  /\ SizeOf(struct) = at[Len(struct) + 1]
         /\ \A k \in 1..Len(struct) :
              Place(struct, struct[k].name)
                = [at |-> at[k], width |-> struct[k].width]
         /\ \A i, j \in 1..Len(struct) : i < j => at[i + 1] <= at[j]
<1> DEFINE w == Widths(struct)
<1>1. /\ Len(struct) \in Nat /\ DOMAIN struct = 1..Len(struct)
      /\ at \in Seq(Nat) /\ Len(at) = Len(struct) + 1 /\ at[1] = 0
  BY DEF Layout
<1>2. w \in Seq(Nat) /\ Len(w) = Len(struct)
      /\ \A i \in 1..Len(struct) : w[i] = struct[i].width
  <2>1. \A i \in 1..Len(struct) : struct[i].width \in Nat
    BY LayoutRow
  <2> QED BY <1>1, <2>1 DEF Widths
<1> HIDE DEF w
<1>3. \A i \in 0..Len(w) : PrefixSums(w)[i] = at[i + 1]
  <2>1. \A i \in 1..Len(w) : at[i + 1] = at[i] + w[i]
    BY <1>2, LayoutRow
  <2>2. Len(at) = Len(w) + 1
    BY <1>1, <1>2
  <2> QED BY <1>1, <1>2, <2>1, <2>2, SumsTable
<1>4. SizeOf(struct) = at[Len(struct) + 1]
  BY <1>1, <1>2, <1>3 DEF SizeOf, Total, w
<1>5. ASSUME NEW k \in 1..Len(struct)
      PROVE  Place(struct, struct[k].name)
               = [at |-> at[k], width |-> struct[k].width]
  <2> DEFINE i == CHOOSE j \in DOMAIN struct : struct[j].name = struct[k].name
  <2>1. i = k
    BY <1>1 DEF Layout
  <2>2. PrefixSums(w)[k - 1] = at[k]
    <3>1. k - 1 \in 0..Len(w) /\ (k - 1) + 1 = k
      BY <1>1, <1>2
    <3> QED BY <1>3, <3>1, Zenon
  <2> QED BY <2>1, <2>2 DEF Place, w
<1>6. ASSUME NEW i \in 1..Len(struct), NEW j \in 1..Len(struct), i < j
      PROVE  at[i + 1] <= at[j]
  <2>1. i \in 0..Len(w) /\ j - 1 \in i..Len(w)
    BY <1>1, <1>2, <1>6
  <2>2. PrefixSums(w)[i] <= PrefixSums(w)[j - 1]
    BY <1>2, <2>1, SumsGrow
  <2>3. PrefixSums(w)[i] = at[i + 1] /\ PrefixSums(w)[j - 1] = at[j]
    <3>1. j - 1 \in 0..Len(w) /\ (j - 1) + 1 = j
      BY <2>1
    <3> QED BY <1>3, <2>1, <3>1, Zenon
  <2> QED BY <2>2, <2>3, Zenon
<1> QED BY <1>4, <1>5, <1>6

(* Fields do not overlap.                                                  *)
LEMMA Apart ==
  ASSUME NEW struct, NEW at, Layout(struct, at),
         NEW i \in 1..Len(struct), NEW k \in 1..Len(struct)
  PROVE  /\ at[i] < at[k] + struct[k].width
         /\ at[k] < at[i] + struct[i].width
         <=> i = k
<1>1. /\ at[i] \in Nat /\ struct[i].width \in Nat /\ struct[i].width > 0
      /\ at[k] \in Nat /\ struct[k].width \in Nat /\ struct[k].width > 0
      /\ at[i + 1] = at[i] + struct[i].width
      /\ at[k + 1] = at[k] + struct[k].width
  BY LayoutRow
<1>2. (i < k => at[i + 1] <= at[k]) /\ (k < i => at[k + 1] <= at[i])
  BY LaidOut
<1>3. i \in Int /\ k \in Int
  OBVIOUS
<1>4. CASE i < k
  BY <1>1, <1>2, <1>3, <1>4
<1>5. CASE k < i
  BY <1>1, <1>2, <1>3, <1>5
<1>6. CASE i = k
  BY <1>1, <1>6
<1> QED BY <1>3, <1>4, <1>5, <1>6

(* A writer puts the first n fields of a struct where they belong.         *)
Writes(puts, struct, at, n) ==
  puts = {Put(struct[i].name, at[i], struct[i].width) : i \in 1..n}

(* A reply whose first n fields are put where the struct has them.         *)
Laid(o, at, n) ==
  /\ Layout(Structs[o], at) /\ n \in 0..Len(Structs[o])
  /\ Writes(Bytes[o].puts, Structs[o], at, n)

(* What is put there is what is read there, and the rest is zero.          *)
LEMMA ReadBack ==
  ASSUME NEW o, NEW at, NEW n, Laid(o, at, n)
  PROVE  \A k \in 1..Len(Structs[o]) : \A out :
           Reads(o, Structs[o][k].name, out, 0, -1)
             = IF k <= n THEN out[Structs[o][k].name] ELSE 0
<1> SUFFICES ASSUME NEW k \in 1..Len(Structs[o]), NEW out
             PROVE  Reads(o, Structs[o][k].name, out, 0, -1)
                      = IF k <= n THEN out[Structs[o][k].name] ELSE 0
  OBVIOUS
<1>0. /\ Layout(Structs[o], at) /\ n \in 0..Len(Structs[o])
      /\ Writes(Bytes[o].puts, Structs[o], at, n)
  BY Zenon DEF Laid
<1> DEFINE struct == Structs[o]
           row(i) == Put(struct[i].name, at[i], struct[i].width)
           over == {q \in Bytes[o].puts :
                      /\ q.at < at[k] + struct[k].width
                      /\ at[k] < q.at + q.width}
<1>1. Place(struct, struct[k].name) = [at |-> at[k], width |-> struct[k].width]
  BY <1>0, LaidOut
<1>2. Len(struct) \in Nat
  BY <1>0 DEF Layout
<1> HIDE DEF struct
<1>3. \A i \in 1..n : row(i).at = at[i] /\ row(i).width = struct[i].width
  BY DEF Put
<1>4. ASSUME NEW i \in 1..n
      PROVE  /\ row(i).at < at[k] + struct[k].width
             /\ at[k] < row(i).at + row(i).width
             <=> i = k
  <2>1. i \in 1..Len(struct)
    BY <1>0, <1>2 DEF struct
  <2> QED BY <1>0, <1>3, <2>1, Apart DEF struct
<1> HIDE DEF row
<1>5. \A q : q \in Bytes[o].puts <=> \E i \in 1..n : q = row(i)
  BY <1>0 DEF Writes, row, struct
<1>6. over = IF k <= n THEN {row(k)} ELSE {}
  <2>1. CASE k <= n
    <3>1. k \in 1..n
      BY <1>0, <2>1
    <3> QED BY <1>4, <1>5, <2>1, <3>1, Zenon
  <2>2. CASE ~(k <= n)
    <3>1. k \notin 1..n
      BY <1>0, <2>2
    <3> QED BY <1>4, <1>5, <2>2, <3>1, Zenon
  <2> QED BY <2>1, <2>2
<1>7. Reads(o, struct[k].name, out, 0, -1)
        = IF over = {} THEN 0
          ELSE IF over = {row(k)} THEN out[struct[k].name] ELSE -1
  BY <1>1 DEF Reads, struct, row
<1> QED BY <1>6, <1>7, Zenon DEF struct

-----------------------------------------------------------------------------
(* The structs *)

InitAt == <<0, 4, 8, 12, 16, 18, 20, 24, 28, 30, 32, 36, 40, 64>>
OpenAt == <<0, 8, 12, 16>>
StatfsAt == <<0, 8, 16, 24, 32, 40, 44, 48, 52, 56, 80>>
EntryAt == <<0, 8, 16, 24, 32, 36, 40, 48, 56, 64, 72, 80, 88, 92, 96, 100,
             104, 108, 112, 116, 120, 124, 128>>
AttrAt == <<0, 8, 12, 16, 24, 32, 40, 48, 56, 64, 68, 72, 76, 80, 84, 88, 92,
            96, 100, 104>>

(* OpenOut.                                                                *)
LEMMA OpenLayout ==
  /\ Layout(OpenOut, OpenAt) /\ Len(OpenOut) = 3
  /\ Writes(openOutBytes.puts, OpenOut, OpenAt, 3)
<1>1. Layout(OpenOut, OpenAt)
  <2> USE DEF OpenOut, OpenAt, U64, U32
  <2>1. Len(OpenOut) = 3 /\ DOMAIN OpenOut = 1..3
    OBVIOUS
  <2>2. OpenAt \in Seq(Nat) /\ Len(OpenAt) = 4 /\ OpenAt[1] = 0
    OBVIOUS
  <2>3. \A i \in 1..3 : /\ OpenOut[i].width \in Nat \ {0}
                         /\ OpenAt[i + 1] = OpenAt[i] + OpenOut[i].width
    OBVIOUS
  <2>4. \A i, j \in 1..3 : OpenOut[i].name = OpenOut[j].name => i = j
    OBVIOUS
  <2> HIDE DEF OpenOut, OpenAt
  <2>5. Len(OpenOut) \in Nat /\ Len(OpenAt) = Len(OpenOut) + 1
    BY <2>1, <2>2
  <2> QED BY <2>1, <2>2, <2>3, <2>4, <2>5, Zenon DEF Layout
<1>2. Writes(openOutBytes.puts, OpenOut, OpenAt, 3)
  BY DEF Writes, openOutBytes, OpenOut, OpenAt, U64, U32
<1>3. Len(OpenOut) = 3
  BY DEF OpenOut
<1> QED BY <1>1, <1>2, <1>3

(* InitOut.                                                                *)
LEMMA InitLayout ==
  /\ Layout(InitOut, InitAt) /\ Len(InitOut) = 13
  /\ Writes(initOutBytes.puts, InitOut, InitAt, 12)
<1>1. Layout(InitOut, InitAt)
  <2> USE DEF InitOut, InitAt, U32, U16, Array32
  <2>1. Len(InitOut) = 13 /\ DOMAIN InitOut = 1..13
    OBVIOUS
  <2>2. InitAt \in Seq(Nat) /\ Len(InitAt) = 14 /\ InitAt[1] = 0
    OBVIOUS
  <2>3. \A i \in 1..13 : /\ InitOut[i].width \in Nat \ {0}
                         /\ InitAt[i + 1] = InitAt[i] + InitOut[i].width
    OBVIOUS
  <2>4. \A i, j \in 1..13 : InitOut[i].name = InitOut[j].name => i = j
    OBVIOUS
  <2> HIDE DEF InitOut, InitAt
  <2>5. Len(InitOut) \in Nat /\ Len(InitAt) = Len(InitOut) + 1
    BY <2>1, <2>2
  <2> QED BY <2>1, <2>2, <2>3, <2>4, <2>5, Zenon DEF Layout
<1>2. Writes(initOutBytes.puts, InitOut, InitAt, 12)
  BY DEF Writes, initOutBytes, InitOut, InitAt, U64, U32, U16, Array32
<1>3. Len(InitOut) = 13
  BY DEF InitOut
<1> QED BY <1>1, <1>2, <1>3

(* A sequence, and one sequence behind another.                            *)
Row(a) == Len(a) \in Nat /\ a = [i \in 1..Len(a) |-> a[i]]
Joined(a, b) ==
  [i \in 1..(Len(a) + Len(b)) |-> IF i <= Len(a) THEN a[i] ELSE b[i - Len(a)]]
LEMMA Join ==
  ASSUME NEW a, NEW b, Row(a), Row(b)
  PROVE  a \o b = Joined(a, b)
<1> DEFINE m == Len(a)
           n == Len(b)
           S == {a[i] : i \in 1..m} \cup {b[i] : i \in 1..n}
<1>1. a \in [1..m -> S] /\ b \in [1..n -> S]
  BY Zenon DEF Row
<1> HIDE DEF S
<1>2. a \in Seq(S) /\ b \in Seq(S)
  BY <1>1 DEF Row
<1>3. a \o b = [i \in 1..(m + n) |-> (a \o b)[i]]
  <2>1. a \o b \in Seq(S) /\ Len(a \o b) = m + n
    BY <1>2
  <2>2. \A s \in Seq(S) : s \in [1..Len(s) -> S]
    OBVIOUS
  <2> QED BY <2>1, <2>2, Zenon
<1>4. \A i \in 1..(m + n) :
        (a \o b)[i] = IF i <= m THEN a[i] ELSE b[i - m]
  BY <1>2
<1> QED BY <1>3, <1>4, Zenon DEF Joined

(* The fields of EntryOut, its Attr spelt out.                             *)
EntryFields ==
  <<U64("NodeID"), U64("Generation"), U64("EntryValid"),
    U64("AttrValid"), U32("EntryValidNsec"), U32("AttrValidNsec"),
    U64("Ino"), U64("Size"), U64("Blocks"), U64("Atime"), U64("Mtime"),
    U64("Ctime"), U32("AtimeNsec"), U32("MtimeNsec"), U32("CtimeNsec"),
    U32("Mode"), U32("Nlink"), U32("Uid"), U32("Gid"), U32("Rdev"),
    U32("Blksize"), U32("Flags")>>

LEMMA EntrySpelt == EntryOut = EntryFields
<1> DEFINE h == <<U64("NodeID"), U64("Generation"), U64("EntryValid"),
    U64("AttrValid"), U32("EntryValidNsec"), U32("AttrValidNsec")>>
<1>1. Row(h) /\ Row(Attr) /\ Len(h) = 6 /\ Len(Attr) = 16
  BY DEF Attr, Row
<1>2. \A i \in 1..22 : EntryFields[i] = IF i <= 6 THEN h[i] ELSE Attr[i - 6]
  BY DEF EntryFields, Attr
<1>3. EntryFields = [i \in 1..22 |-> EntryFields[i]]
  BY DEF EntryFields
<1>4. EntryOut = h \o Attr
  BY DEF EntryOut
<1> HIDE DEF h
<1>5. h \o Attr = Joined(h, Attr)
  BY <1>1, Join
<1>6. Joined(h, Attr) =
        [i \in 1..22 |-> IF i <= 6 THEN h[i] ELSE Attr[i - 6]]
  BY <1>1 DEF Joined
<1> QED BY <1>2, <1>3, <1>4, <1>5, <1>6, Zenon

(* EntryOut, as the writer of its reply lays it out.                       *)
LEMMA EntryLayout ==
  /\ Layout(EntryOut, EntryAt) /\ Len(EntryOut) = 22
  /\ Writes(entryOutBytes.puts, EntryOut, EntryAt, 22)
<1>1. Layout(EntryFields, EntryAt)
  <2> USE DEF EntryFields, EntryAt, U64, U32
  <2>1. Len(EntryFields) = 22 /\ DOMAIN EntryFields = 1..22
    OBVIOUS
  <2>2. EntryAt \in Seq(Nat) /\ Len(EntryAt) = 23 /\ EntryAt[1] = 0
    OBVIOUS
  <2>3. \A i \in 1..22 : /\ EntryFields[i].width \in Nat \ {0}
                         /\ EntryAt[i + 1] = EntryAt[i] + EntryFields[i].width
    OBVIOUS
  <2>4. \A i, j \in 1..22 : EntryFields[i].name = EntryFields[j].name => i = j
    OBVIOUS
  <2> HIDE DEF EntryFields, EntryAt
  <2>5. Len(EntryFields) \in Nat /\ Len(EntryAt) = Len(EntryFields) + 1
    BY <2>1, <2>2
  <2> QED BY <2>1, <2>2, <2>3, <2>4, <2>5, Zenon DEF Layout
<1>2. Writes(entryOutBytes.puts, EntryFields, EntryAt, 22)
  BY DEF Writes, entryOutBytes, writeAttr, EntryFields, EntryAt, U64, U32
<1>3. Len(EntryFields) = 22
  BY DEF EntryFields
<1> QED BY <1>1, <1>2, <1>3, EntrySpelt

(* The fields of AttrOut, its Attr spelt out.                              *)
AttrFields ==
  <<U64("AttrValid"), U32("AttrValidNsec"), U32("Dummy"),
    U64("Ino"), U64("Size"), U64("Blocks"), U64("Atime"), U64("Mtime"),
    U64("Ctime"), U32("AtimeNsec"), U32("MtimeNsec"), U32("CtimeNsec"),
    U32("Mode"), U32("Nlink"), U32("Uid"), U32("Gid"), U32("Rdev"),
    U32("Blksize"), U32("Flags")>>

LEMMA AttrSpelt == AttrOut = AttrFields
<1> DEFINE h == <<U64("AttrValid"), U32("AttrValidNsec"), U32("Dummy")>>
<1>1. Row(h) /\ Row(Attr) /\ Len(h) = 3 /\ Len(Attr) = 16
  BY DEF Attr, Row
<1>2. \A i \in 1..19 : AttrFields[i] = IF i <= 3 THEN h[i] ELSE Attr[i - 3]
  BY DEF AttrFields, Attr
<1>3. AttrFields = [i \in 1..19 |-> AttrFields[i]]
  BY DEF AttrFields
<1>4. AttrOut = h \o Attr
  BY DEF AttrOut
<1> HIDE DEF h
<1>5. h \o Attr = Joined(h, Attr)
  BY <1>1, Join
<1>6. Joined(h, Attr) =
        [i \in 1..19 |-> IF i <= 3 THEN h[i] ELSE Attr[i - 3]]
  BY <1>1 DEF Joined
<1> QED BY <1>2, <1>3, <1>4, <1>5, <1>6, Zenon

(* AttrOut, as the writer of its reply lays it out.                        *)
LEMMA AttrLayout ==
  /\ Layout(AttrOut, AttrAt) /\ Len(AttrOut) = 19
  /\ Writes(attrOutBytes.puts, AttrOut, AttrAt, 19)
<1>1. Layout(AttrFields, AttrAt)
  <2> USE DEF AttrFields, AttrAt, U64, U32
  <2>1. Len(AttrFields) = 19 /\ DOMAIN AttrFields = 1..19
    OBVIOUS
  <2>2. AttrAt \in Seq(Nat) /\ Len(AttrAt) = 20 /\ AttrAt[1] = 0
    OBVIOUS
  <2>3. \A i \in 1..19 : /\ AttrFields[i].width \in Nat \ {0}
                         /\ AttrAt[i + 1] = AttrAt[i] + AttrFields[i].width
    OBVIOUS
  <2>4. \A i, j \in 1..19 : AttrFields[i].name = AttrFields[j].name => i = j
    OBVIOUS
  <2> HIDE DEF AttrFields, AttrAt
  <2>5. Len(AttrFields) \in Nat /\ Len(AttrAt) = Len(AttrFields) + 1
    BY <2>1, <2>2
  <2> QED BY <2>1, <2>2, <2>3, <2>4, <2>5, Zenon DEF Layout
<1>2. Writes(attrOutBytes.puts, AttrFields, AttrAt, 19)
  BY DEF Writes, attrOutBytes, writeAttr, AttrFields, AttrAt, U64, U32
<1>3. Len(AttrFields) = 19
  BY DEF AttrFields
<1> QED BY <1>1, <1>2, <1>3, AttrSpelt

(* Kstatfs is larger than the writer of its reply believes.                *)
LEMMA StatfsLayout == Layout(Kstatfs, StatfsAt)
<1> USE DEF Kstatfs, StatfsAt, U64, U32, Array32
<1>1. Len(Kstatfs) = 10 /\ DOMAIN Kstatfs = 1..10
  OBVIOUS
<1>2. StatfsAt \in Seq(Nat) /\ Len(StatfsAt) = 11 /\ StatfsAt[1] = 0
  OBVIOUS
<1>3. \A i \in 1..10 : /\ Kstatfs[i].width \in Nat \ {0}
                       /\ StatfsAt[i + 1] = StatfsAt[i] + Kstatfs[i].width
  OBVIOUS
<1>4. \A i, j \in 1..10 : Kstatfs[i].name = Kstatfs[j].name => i = j
  OBVIOUS
<1> HIDE DEF Kstatfs, StatfsAt
<1>5. Len(Kstatfs) \in Nat /\ Len(StatfsAt) = Len(Kstatfs) + 1
  BY <1>1, <1>2
<1> QED BY <1>1, <1>2, <1>3, <1>4, <1>5, Zenon DEF Layout

(* The sizes that the writers of src/handlers.go allocate are those of the *)
(* structs, and so the kernel takes the replies; all but that of STATFS.   *)
THEOREM SizesAgree ==
  /\ Accepts("Init") /\ Accepts("Entry") /\ Accepts("Attr")
  /\ Accepts("Open") /\ ~Accepts("Statfs")
<1>1. Accepts("Init")
  <2>1. SizeOf(InitOut) = 64
    <3>1. SizeOf(InitOut) = InitAt[Len(InitOut) + 1]
      BY InitLayout, LaidOut, Zenon
    <3>2. Len(InitOut) + 1 = 14 /\ InitAt[14] = 64
      BY DEF InitOut, InitAt
    <3> QED BY <3>1, <3>2, Zenon
  <2> QED BY <2>1 DEF Accepts, Bytes, Structs, initOutBytes
<1>2. Accepts("Entry")
  <2>1. SizeOf(EntryOut) = 128
    <3>1. SizeOf(EntryOut) = EntryAt[Len(EntryOut) + 1]
      BY EntryLayout, LaidOut, Zenon
    <3>2. Len(EntryOut) + 1 = 23 /\ EntryAt[23] = 128
      BY EntryLayout DEF EntryAt
    <3> QED BY <3>1, <3>2, Zenon
  <2> QED BY <2>1 DEF Accepts, Bytes, Structs, entryOutBytes
<1>3. Accepts("Attr")
  <2>1. SizeOf(AttrOut) = 104
    <3>1. SizeOf(AttrOut) = AttrAt[Len(AttrOut) + 1]
      BY AttrLayout, LaidOut, Zenon
    <3>2. Len(AttrOut) + 1 = 20 /\ AttrAt[20] = 104
      BY AttrLayout DEF AttrAt
    <3> QED BY <3>1, <3>2, Zenon
  <2> QED BY <2>1 DEF Accepts, Bytes, Structs, attrOutBytes
<1>4. Accepts("Open")
  <2>1. SizeOf(OpenOut) = 16
    <3>1. SizeOf(OpenOut) = OpenAt[Len(OpenOut) + 1]
      BY OpenLayout, LaidOut, Zenon
    <3>2. Len(OpenOut) + 1 = 4 /\ OpenAt[4] = 16
      BY DEF OpenOut, OpenAt
    <3> QED BY <3>1, <3>2, Zenon
  <2> QED BY <2>1 DEF Accepts, Bytes, Structs, openOutBytes
<1>5. ~Accepts("Statfs")
  <2>1. SizeOf(Kstatfs) = 80
    <3>1. SizeOf(Kstatfs) = StatfsAt[Len(Kstatfs) + 1]
      BY StatfsLayout, LaidOut, Zenon
    <3>2. Len(Kstatfs) + 1 = 11 /\ StatfsAt[11] = 80
      BY DEF Kstatfs, StatfsAt
    <3> QED BY <3>1, <3>2, Zenon
  <2> QED BY <2>1 DEF Accepts, Bytes, Structs, statfsOutBytes
<1> QED BY <1>1, <1>2, <1>3, <1>4, <1>5

(* Where a writer puts all fields of a struct, all are read back.          *)
LEMMA AllRead ==
  ASSUME NEW o, NEW at, Laid(o, at, Len(Structs[o]))
  PROVE  \A f \in Names(Structs[o]) :
           \A out : Reads(o, f, out, 0, -1) = out[f]
<1>1. Len(Structs[o]) \in Nat /\ DOMAIN Structs[o] = 1..Len(Structs[o])
  BY Zenon DEF Laid, Layout
<1>2. \A k \in 1..Len(Structs[o]) : k <= Len(Structs[o])
  BY <1>1
<1>3. \A k \in 1..Len(Structs[o]) : \A out :
        Reads(o, Structs[o][k].name, out, 0, -1)
          = IF k <= Len(Structs[o]) THEN out[Structs[o][k].name] ELSE 0
  BY ReadBack, Zenon
<1> QED BY <1>1, <1>2, <1>3, Zenon DEF Names

(* The fields of the replies to LOOKUP, GETATTR and OPEN are read where    *)
(* entryOutBytes, attrOutBytes and openOutBytes put them, whatever their   *)
(* values.                                                                 *)
THEOREM FieldsRead ==
  ASSUME NEW o \in {"Entry", "Attr", "Open"}
  PROVE  \A f \in Names(Structs[o]) :
           \A out : Reads(o, f, out, 0, -1) = out[f]
<1>1. CASE o = "Entry"
  <2>1. Structs["Entry"] = EntryOut /\ Bytes["Entry"] = entryOutBytes
    BY DEF Structs, Bytes
  <2>2. Len(EntryOut) \in 0..Len(EntryOut)
    BY EntryLayout
  <2>3. Laid("Entry", EntryAt, Len(EntryOut))
    BY <2>1, <2>2, EntryLayout, Zenon DEF Laid
  <2> QED BY <1>1, <2>1, <2>3, AllRead, Zenon
<1>2. CASE o = "Attr"
  <2>1. Structs["Attr"] = AttrOut /\ Bytes["Attr"] = attrOutBytes
    BY DEF Structs, Bytes
  <2>2. Len(AttrOut) \in 0..Len(AttrOut)
    BY AttrLayout
  <2>3. Laid("Attr", AttrAt, Len(AttrOut))
    BY <2>1, <2>2, AttrLayout, Zenon DEF Laid
  <2> QED BY <1>2, <2>1, <2>3, AllRead, Zenon
<1>3. CASE o = "Open"
  <2>1. Structs["Open"] = OpenOut /\ Bytes["Open"] = openOutBytes
    BY DEF Structs, Bytes
  <2>2. Len(OpenOut) \in 0..Len(OpenOut)
    BY OpenLayout
  <2>3. Laid("Open", OpenAt, Len(OpenOut))
    BY <2>1, <2>2, OpenLayout, Zenon DEF Laid
  <2> QED BY <1>3, <2>1, <2>3, AllRead, Zenon
<1> QED BY <1>1, <1>2, <1>3

(* So are those of the reply to INIT, but for the last, which is not set.  *)
LEMMA InitRead ==
  ASSUME NEW out, NEW k \in 1..12
  PROVE  Reads("Init", InitOut[k].name, out, 0, -1) = out[InitOut[k].name]
<1>1. Structs["Init"] = InitOut /\ Bytes["Init"] = initOutBytes
  BY DEF Structs, Bytes
<1>2. k \in 1..Len(InitOut) /\ 12 \in 0..Len(InitOut) /\ k <= 12
  BY InitLayout
<1>3. Laid("Init", InitAt, 12)
  BY <1>1, <1>2, InitLayout, Zenon DEF Laid
<1>4. Reads("Init", InitOut[k].name, out, 0, -1)
        = IF k <= 12 THEN out[InitOut[k].name] ELSE 0
  BY <1>1, <1>2, <1>3, ReadBack, Zenon
<1> QED BY <1>2, <1>4, Zenon

-----------------------------------------------------------------------------
(* The conversions *)

(* Division by a positive number, as a quotient and a remainder.           *)
LEMMA Division ==
  ASSUME NEW a \in Nat, NEW b \in Nat \ {0}
  PROVE  /\ a \div b \in Nat /\ a % b \in 0..(b - 1)
         /\ a = b * (a \div b) + (a % b)
OBVIOUS

(* A number below the modulus is its own remainder, and a negative one     *)
(* wraps to the top.                                                       *)
LEMMA Wraps ==
  ASSUME NEW m \in Nat, NEW a \in Int, -m <= a, a < m, m > 0
  PROVE  a % m = IF a >= 0 THEN a ELSE a + m
OBVIOUS

(* durationToTimespec keeps every duration that is not negative and fits a *)
(* time.Duration: the seconds and nanoseconds add up to it, and the        *)
(* nanoseconds are less than a second.                                     *)
THEOREM TimespecExact ==
  ASSUME NEW d \in Nat, d < Two64
  PROVE  /\ durationToTimespec(d).nsec < Second
         /\ Validity(durationToTimespec(d)) = d
<1>1. PICK q \in Nat, r \in Nat :
        q = d \div Second /\ d = Second * q + r /\ r < Second
  BY WidthAssumption, Division
<1>2. q <= d
  BY <1>1, WidthAssumption
<1>3. GoDiv(d, Second) = q /\ GoMod(d, Second) = r
  BY <1>1, WidthAssumption DEF GoDiv, GoMod
<1>4. q % Two64 = q /\ r % Two32 = r
  BY <1>1, <1>2, WidthAssumption, Wraps
<1>5. durationToTimespec(d) = [sec |-> q, nsec |-> r]
  BY <1>3, <1>4 DEF durationToTimespec
<1>6. Validity([sec |-> q, nsec |-> r]) = q * Second + r
  BY <1>1 DEF Validity
<1>7. q * Second + r = d
  BY <1>1, WidthAssumption
<1> QED BY <1>1, <1>5, <1>6, <1>7

(* A negative duration becomes one that does not expire at once: 0, which  *)
(* would turn caching off, is never what the kernel reads.                 *)
THEOREM NegativeKept ==
  ASSUME NEW d \in Nat \ {0}, d < Two64
  PROVE  Validity(durationToTimespec(-d)) > 0
<1>1. PICK q \in Nat, r \in Nat :
        q = d \div Second /\ d = Second * q + r /\ r < Second
  BY WidthAssumption, Division
<1>2. q <= d
  BY <1>1, WidthAssumption
<1>3. GoDiv(-d, Second) = -q /\ GoMod(-d, Second) = -r
  BY <1>1, WidthAssumption DEF GoDiv, GoMod
<1>4. PICK s \in Nat, n \in Nat :
        /\ durationToTimespec(-d) = [sec |-> s, nsec |-> n]
        /\ q > 0 => s > 0
        /\ r > 0 => n > 0
  <2>1. (-q) % Two64 = IF q = 0 THEN 0 ELSE Two64 - q
    BY <1>1, <1>2, WidthAssumption, Wraps
  <2>2. (-r) % Two32 = IF r = 0 THEN 0 ELSE Two32 - r
    BY <1>1, WidthAssumption, Wraps
  <2> QED BY <1>1, <1>2, <1>3, <2>1, <2>2, WidthAssumption
          DEF durationToTimespec
<1>5. s * Second \in Nat /\ (s > 0 => s * Second > 0)
  BY WidthAssumption
<1>6. q > 0 \/ (r > 0 /\ Second > 1)
  BY <1>1, WidthAssumption
<1>7. Validity(durationToTimespec(-d))
        = s * Second + (IF n < Second THEN n ELSE Second - 1)
  BY <1>4 DEF Validity
<1> QED BY <1>4, <1>5, <1>6, <1>7, WidthAssumption

(* For every MaxBackground, handleInit's congestion threshold is not above *)
(* three quarters of it, the wrap of the uint16 included; it is exact, but *)
(* for the rounding, where the product does not wrap.                      *)
THEOREM ThresholdBounds ==
  ASSUME NEW b \in Nat, b < Two16
  PROVE  /\ 4 * CongestionThreshold(b) <= 3 * b
         /\ b <= 21845 => 3 * b < 4 * (CongestionThreshold(b) + 1)
<1>1. b \in Nat /\ b * 3 \in Nat /\ Two16 = 65536
  BY SMT DEF Two16
<1>2. PICK q \in Nat, n \in Nat :
        b * 3 = Two16 * q + n /\ n < Two16 /\ n = (b * 3) % Two16
  BY <1>1, Division, SMT
<1>3. n <= 3 * b /\ (b <= 21845 => n = 3 * b)
  BY <1>1, <1>2, SMT
<1>4. PICK t \in Nat, r \in Nat : n = 4 * t + r /\ r < 4 /\ t = n \div 4
  BY Division, SMT
<1>5. CongestionThreshold(b) = t
  BY <1>2, <1>4, SMT DEF CongestionThreshold
<1> QED BY <1>1, <1>3, <1>4, <1>5, SMT

(* An error that toErrno can be given.                                     *)
IsError(err) ==
  /\ err # <<>> /\ Len(err) \in Nat /\ DOMAIN err = 1..Len(err)
  /\ \A i \in DOMAIN err : err[i].n \in Nat

(* The errors of a Filesystem are, and so is the one that handleInit makes.*)
LEMMA AreErrors == (\A e \in Errors : IsError(e)) /\ IsError(<<Errno(71)>>)
<1>1. ASSUME NEW e \in Errors
      PROVE  IsError(e)
  <2> DEFINE S == [kind : STRING, n : Nat]
  <2>1. e # <<>> /\ e \in Seq(S)
    BY ErrorsAssumption
  <2>2. \A x \in S : x.n \in Nat
    OBVIOUS
  <2> HIDE DEF S
  <2>3. /\ Len(e) \in Nat /\ DOMAIN e = 1..Len(e)
        /\ \A i \in DOMAIN e : e[i] \in S
    BY <2>1
  <2> QED BY <2>1, <2>2, <2>3, Zenon DEF IsError
<1>2. IsError(<<Errno(71)>>)
  BY DEF IsError, Errno
<1> QED BY <1>1, <1>2

(* The first number of an error that has one.                              *)
LEMMA FirstNumber ==
  ASSUME NEW err, IsError(err), Numbers(err) # {}
  PROVE  Min(Numbers(err)) \in Numbers(err) /\ err[Min(Numbers(err))].n \in Nat
<1>1. Numbers(err) \in SUBSET Nat /\ Numbers(err) \subseteq DOMAIN err
  BY DEF Numbers, IsError
<1>2. \E n \in Numbers(err) : \A k \in Numbers(err) : n <= k
  BY <1>1, LeastOf, Zenon
<1>3. Min(Numbers(err)) \in Numbers(err)
  BY <1>2, Zenon DEF Min
<1> QED BY <1>1, <1>3, Zenon DEF IsError

(* toErrno gives the first number of the chain, with its sign turned; an   *)
(* error without a number becomes one of the errnos of the switch, and     *)
(* success only if io.EOF is in its chain.                                 *)
THEOREM ErrnoOf ==
  ASSUME NEW err, IsError(err)
  PROVE  /\ toErrno(err) \in Int /\ toErrno(err) <= 0
         /\ Numbers(err) # {} => toErrno(err) = -err[Min(Numbers(err))].n
         /\ Numbers(err) = {} =>
              /\ toErrno(err) > -512
              /\ toErrno(err) = 0 =>
                   \E j \in DOMAIN err : err[j] = Plain("EOF")
<1>1. err # <<>>
  BY DEF IsError
<1>2. CASE Numbers(err) # {}
  <2>1. toErrno(err) = -err[Min(Numbers(err))].n
    BY <1>1, <1>2 DEF toErrno
  <2>2. err[Min(Numbers(err))].n \in Nat
    BY <1>2, FirstNumber
  <2> QED BY <1>2, <2>1, <2>2
<1>3. CASE Numbers(err) = {} /\ Listed(err) # {}
  <2>1. DOMAIN Sentinels = 1..8
    BY DEF Sentinels
  <2>2. Listed(err) \in SUBSET Nat /\ Listed(err) \subseteq 1..8
    BY <2>1 DEF Listed
  <2>3. \E n \in Listed(err) : \A k \in Listed(err) : n <= k
    BY <1>3, <2>2, LeastOf, Zenon
  <2>4. PICK m \in Listed(err) : m = Min(Listed(err))
    BY <2>3, Zenon DEF Min
  <2>5. toErrno(err) = -SentinelErrno[m]
    BY <1>1, <1>3, <2>4, Zenon DEF toErrno
  <2>6. m \in 1..8 /\ \E j \in DOMAIN err : err[j] = Plain(Sentinels[m])
    BY <2>2, <2>4, Zenon DEF Listed
  <2>7. /\ SentinelErrno[m] \in 0..110
        /\ SentinelErrno[m] = 0 => m = 6 /\ Sentinels[m] = "EOF"
    BY <2>6 DEF SentinelErrno, Sentinels
  <2>8. toErrno(err) = 0 => \E j \in DOMAIN err : err[j] = Plain("EOF")
    <3>1. toErrno(err) = 0 => SentinelErrno[m] = 0
      BY <2>5, <2>7
    <3> QED BY <2>6, <2>7, <3>1, Zenon
  <2> QED BY <1>3, <2>5, <2>7, <2>8
<1>4. CASE Numbers(err) = {} /\ Listed(err) = {}
  BY <1>1, <1>4 DEF toErrno, EIO
<1> QED BY <1>2, <1>3, <1>4

(* Only a number that is too large makes a reply that the kernel drops.    *)
LEMMA DroppedNumber ==
  ASSUME NEW err, IsError(err), ~InRange(toErrno(err))
  PROVE  TooLarge(err)
<1>1. CASE Numbers(err) = {}
  BY <1>1, ErrnoOf DEF InRange
<1>2. CASE Numbers(err) # {}
  BY <1>2, ErrnoOf, FirstNumber DEF InRange, TooLarge
<1> QED BY <1>1, <1>2

(* The version that handleInit refuses is refused with EPROTO.             *)
LEMMA Refused == InRange(toErrno(<<Errno(71)>>)) /\ toErrno(<<Errno(71)>>) # 0
<1>1. Numbers(<<Errno(71)>>) = {1}
  BY DEF Numbers, Errno
<1>2. Min(Numbers(<<Errno(71)>>)) = 1
  BY <1>1, FirstNumber, AreErrors
<1>3. toErrno(<<Errno(71)>>) = -71
  BY <1>1, <1>2, ErrnoOf, AreErrors DEF Errno
<1> QED BY <1>3 DEF InRange

-----------------------------------------------------------------------------
(* The replies *)

(* The names of requests and structs.                                      *)
LEMMA Kinds ==
  /\ Replies = {"Init", "Entry", "Attr", "Open", "Statfs"}
  /\ Queries = {"Read", "Entry", "Attr", "Open", "Statfs"}
<1>1. Replies = {"Init", "Entry", "Attr", "Open", "Statfs"}
  BY DEF Replies, Structs
<1> QED BY <1>1 DEF Queries

(* An error reply.                                                         *)
LEMMA ErrorReplies ==
  ASSUME NEW err, IsError(err)
  PROVE  /\ ErrorReply(err).error = toErrno(err)
         /\ ErrorReply(err).error \in Int /\ ErrorReply(err).error <= 0
         /\ ErrorReply(err).struct = "none"
         /\ ErrorReply(err) \notin {NoReply, Dropped}
<1>1. toErrno(err) \in Int /\ toErrno(err) <= 0
  BY ErrnoOf
<1> QED BY <1>1 DEF ErrorReply, NoReply, Dropped

(* A reply to INIT.                                                        *)
LEMMA InitReplies ==
  ASSUME NEW set
  PROVE  /\ InitReply(set).error = 0 /\ InitReply(set).struct = "Init"
         /\ InitReply(set) \notin {NoReply, Dropped}
BY DEF InitReply, NoReply, Dropped

(* What a Filesystem returns: an error, or two timeouts.                   *)
LEMMA ResultKinds ==
  ASSUME NEW r \in Results
  PROVE  \/ r.error \in Errors /\ IsError(r.error) /\ r.error # <<>>
         \/ /\ r.error = <<>> /\ r.entry \in Durations
            /\ r.attr \in Durations
<1>1. CASE \E e \in Errors : r = [NoResult EXCEPT !.error = e]
  <2>1. r.error \in Errors
    BY <1>1 DEF NoResult
  <2> QED BY <2>1, AreErrors DEF IsError
<1>2. CASE r \in [error : {<<>>}, entry : Durations, attr : Durations]
  BY <1>2
<1> QED BY <1>1, <1>2 DEF Results

(* The answer to a request.                                                *)
LEMMA Answers ==
  ASSUME NEW o \in Queries, NEW r \in Results
  PROVE  /\ Answer(o, r).error \in Int /\ Answer(o, r).error <= 0
         /\ Answer(o, r).struct \in {"none", "data"} \cup Replies
         /\ Answer(o, r) \notin {NoReply, Dropped}
         /\ ~InRange(Answer(o, r).error) => TooLarge(r.error)
<1>1. CASE r.error # <<>>
  <2>1. IsError(r.error) /\ Answer(o, r) = ErrorReply(r.error)
    BY <1>1, ResultKinds DEF Answer
  <2> QED BY <2>1, ErrorReplies, DroppedNumber
<1>2. CASE r.error = <<>>
  <2>1. Answer(o, r).error = 0 /\ Answer(o, r).struct \in {"data", o}
    BY <1>2 DEF Answer
  <2>2. {"data", o} \subseteq {"data", "Read"} \cup Replies
    BY Kinds
  <2>3. Answer(o, r).struct = "data" \/ Answer(o, r).struct \in Replies
    BY <1>2, <2>1, <2>2 DEF Answer
  <2>4. Answer(o, r).struct \notin {"nothing", "dropped"}
    BY <2>3, Kinds
  <2>5. Answer(o, r) \notin {NoReply, Dropped}
    BY <2>4 DEF NoReply, Dropped
  <2>6. InRange(Answer(o, r).error)
    BY <2>1 DEF InRange
  <2> QED BY <2>1, <2>3, <2>5, <2>6
<1> QED BY <1>1, <1>2

(* What the kernel takes from the reply that handleInit makes of an offer. *)
LEMMA Heard ==
  Connection(InitReply(AgreedOut).out)
    = [Minor |-> Agreed.ProtoMinor, Flags |-> Caps \cap offer.Flags,
       MaxReadahead |-> Agreed.MaxReadahead,
       MaxBackground |-> opts.MaxBackground,
       CongestionThreshold |->
         Default(CongestionThreshold(opts.MaxBackground), 9),
       MaxWrite |-> Most(opts.MaxWrite, 4096)]
<1> DEFINE out == InitReply(AgreedOut).out
<1>1. /\ out["Minor"] = Agreed.ProtoMinor
      /\ out["Flags"] = Caps \cap offer.Flags
      /\ out["MaxReadahead"] = Agreed.MaxReadahead
      /\ out["MaxBackground"] = opts.MaxBackground
      /\ out["CongestionThreshold"] = CongestionThreshold(opts.MaxBackground)
      /\ out["MaxWrite"] = opts.MaxWrite
  BY DEF InitReply, AgreedOut
<1> HIDE DEF out
<1>2. /\ InitOut[2].name = "Minor" /\ InitOut[3].name = "MaxReadahead"
      /\ InitOut[4].name = "Flags" /\ InitOut[5].name = "MaxBackground"
      /\ InitOut[6].name = "CongestionThreshold"
      /\ InitOut[7].name = "MaxWrite"
  BY DEF InitOut, U32, U16
<1>3. {2, 3, 4, 5, 6, 7} \subseteq 1..12
  OBVIOUS
<1>4. \A k \in {2, 3, 4, 5, 6, 7} :
        Reads("Init", InitOut[k].name, out, 0, -1) = out[InitOut[k].name]
  BY <1>3, InitRead, Zenon
<1>5. /\ Reads("Init", "Minor", out, 0, -1) = out["Minor"]
      /\ Reads("Init", "MaxReadahead", out, 0, -1) = out["MaxReadahead"]
      /\ Reads("Init", "Flags", out, 0, -1) = out["Flags"]
      /\ Reads("Init", "MaxBackground", out, 0, -1) = out["MaxBackground"]
      /\ Reads("Init", "CongestionThreshold", out, 0, -1)
           = out["CongestionThreshold"]
      /\ Reads("Init", "MaxWrite", out, 0, -1) = out["MaxWrite"]
  BY <1>2, <1>4
<1>6. Connection(out)
        = [Minor |-> out["Minor"], Flags |-> out["Flags"],
           MaxReadahead |-> out["MaxReadahead"],
           MaxBackground |-> out["MaxBackground"],
           CongestionThreshold |-> Default(out["CongestionThreshold"], 9),
           MaxWrite |-> Most(out["MaxWrite"], 4096)]
  BY <1>5 DEF Connection
<1>7. Connection(InitReply(AgreedOut).out) = Connection(out)
  BY DEF out
<1> QED BY <1>1, <1>6, <1>7

-----------------------------------------------------------------------------
(* The invariant *)

(* Before INIT nothing is on its way.                                      *)
LEMMA Idle ==
  ASSUME IInv, kst \in {"none", "mounted"}
  PROVE  op = "none" /\ reply = NoReply /\ got = Nothing /\ result = NoResult
<1>1. op = "none"
  BY Kinds DEF IInv, TypeOK, Phases
<1> QED BY <1>1 DEF IInv, Phases

(* Init.                                                                   *)
LEMMA Starts == Init => IInv
<1> SUFFICES ASSUME Init PROVE IInv
  OBVIOUS
<1>1. /\ opts \in [MaxReadahead : Nat, MaxWrite : Nat,
                   MaxBackground : 0..(Two16 - 1)]
      /\ offer \in [Major : Nat, Minor : Nat, MaxReadahead : Nat,
                    Flags : SUBSET STRING]
  BY OptionsAssumption, OffersAssumption, Zenon DEF Init
<1>2. /\ bufSize = 0 /\ initialized = FALSE /\ kst = "none"
      /\ kconn = NoConn /\ op = "none" /\ got = Nothing
      /\ reply = NoReply /\ result = NoResult
  BY DEF Init
<1>3. TypeOK
  <2>1. opts.MaxBackground \in 0..(Two16 - 1)
    BY <1>1
  <2>2. /\ op \in {"none", "Read"} \cup Replies
        /\ kst \in {"none", "mounted", "init", "ready", "failed"}
        /\ initialized \in BOOLEAN
    BY <1>2, Zenon
  <2>3. kconn.Flags \subseteq Caps
    BY <1>2 DEF NoConn
  <2>4. /\ reply.struct \in {"nothing", "dropped", "none", "data"} \cup Replies
        /\ reply.error \in Int /\ reply.error <= 0
    BY <1>2 DEF NoReply
  <2>5. bufSize \in Nat
    BY <1>2
  <2> QED BY <2>1, <2>2, <2>3, <2>4, <2>5, Zenon DEF TypeOK
<1>4. Phases
  BY <1>1, <1>2, Kinds DEF Phases
<1>5. InitOnItsWay /\ AnswerOnItsWay /\ AnswerTaken /\ Connected
  BY <1>2, Kinds DEF InitOnItsWay, AnswerOnItsWay, AnswerTaken, Connected
<1> QED BY <1>3, <1>4, <1>5 DEF IInv

(* A default is as large as what it stands for may be.                     *)
LEMMA DefaultsType ==
  /\ \A v \in Nat : Default(v, 131072) \in Nat
  /\ \A v \in 0..(Two16 - 1) : Default(v, 12) \in 0..(Two16 - 1)
<1>1. Two16 \in Nat /\ 12 < Two16
  BY DEF Two16
<1> QED BY <1>1 DEF Default

(* What a step that changes neither side of the connection leaves.         *)
LEMMA ConnectedStays ==
  ASSUME IInv, UNCHANGED <<opts, config, initialized, offer, kst, kconn>>
  PROVE  Connected'
<1>1. /\ opts' = opts /\ config' = config /\ initialized' = initialized
      /\ offer' = offer /\ kst' = kst /\ kconn' = kconn
  BY Zenon
<1>2. Agreed' = Agreed
  BY <1>1, Zenon DEF Agreed
<1>3. Connected
  BY Zenon DEF IInv
<1> QED BY <1>1, <1>2, <1>3 DEF Connected

(* Mount.                                                                  *)
LEMMA Step_Mount ==
  ASSUME IInv, Mount
  PROVE  IInv'
<1>1. /\ op = "none" /\ reply = NoReply /\ got = Nothing /\ result = NoResult
      /\ kst = "none"
  BY Idle DEF Mount
<1>2. /\ UNCHANGED <<config, initialized, offer, kconn, op, got, reply,
                     result>>
      /\ kst' = "mounted"
      /\ bufSize' = newBufferPool(opts'.MaxWrite + 40 + 4096)
  BY DEF Mount
<1>3. opts' \in [MaxReadahead : Nat, MaxWrite : Nat,
                 MaxBackground : 0..(Two16 - 1)]
  <2>1. /\ opts.MaxReadahead \in Nat /\ opts.MaxWrite \in Nat
        /\ opts.MaxBackground \in 0..(Two16 - 1)
    BY DEF IInv, Phases
  <2>2. /\ Default(opts.MaxReadahead, 131072) \in Nat
        /\ Default(opts.MaxWrite, 131072) \in Nat
        /\ Default(opts.MaxBackground, 12) \in 0..(Two16 - 1)
    BY <2>1, DefaultsType
  <2>3. opts' = [MaxReadahead |-> Default(opts.MaxReadahead, 131072),
                 MaxWrite |-> Default(opts.MaxWrite, 131072),
                 MaxBackground |-> Default(opts.MaxBackground, 12)]
    BY DEF Mount
  <2> QED BY <2>2, <2>3
<1>4. bufSize' \in Nat
  BY <1>2, <1>3 DEF newBufferPool, Most
<1>5. TypeOK'
  BY <1>2, <1>3, <1>4 DEF IInv, TypeOK
<1>6. Phases'
  BY <1>1, <1>2, <1>3, Kinds DEF IInv, Phases
<1>7. (InitOnItsWay /\ AnswerOnItsWay /\ AnswerTaken /\ Connected)'
  BY <1>1, <1>2, Kinds
     DEF InitOnItsWay, AnswerOnItsWay, AnswerTaken, Connected
<1> QED BY <1>5, <1>6, <1>7 DEF IInv

(* The kernel asks for INIT.                                               *)
LEMMA Step_SendInit ==
  ASSUME IInv, SendInit
  PROVE  IInv'
<1>1. /\ op = "none" /\ reply = NoReply /\ got = Nothing /\ result = NoResult
      /\ kst = "mounted"
  BY Idle DEF SendInit
<1>2. /\ UNCHANGED <<opts, bufSize, config, initialized, offer, kconn, got,
                     reply, result>>
      /\ kst' = "init" /\ op' = "Init"
  BY DEF SendInit, svars
<1>3. TypeOK'
  BY <1>2, Kinds DEF IInv, TypeOK
<1>4. Phases'
  BY <1>1, <1>2, Kinds DEF IInv, Phases
<1>5. (InitOnItsWay /\ AnswerOnItsWay /\ AnswerTaken /\ Connected)'
  BY <1>1, <1>2, Kinds
     DEF InitOnItsWay, AnswerOnItsWay, AnswerTaken, Connected
<1> QED BY <1>3, <1>4, <1>5 DEF IInv

(* handleInit: a version that is refused, an error of fs.Init, or what     *)
(* both sides will work with.                                              *)
LEMMA Step_handleInit ==
  ASSUME IInv, NEW err \in Errors \cup {<<>>}, handleInit(err)
  PROVE  IInv'
<1>1. /\ op = "Init" /\ reply = NoReply /\ kst = "init" /\ got = Nothing
      /\ UNCHANGED <<opts, bufSize, offer, kst, kconn, op, got>>
  BY DEF handleInit, kvars, IInv, Phases
<1>2. result = NoResult
  BY <1>1, InitReplies, ErrorReplies, AreErrors
     DEF IInv, InitOnItsWay, NoReply, Dropped
<1>3. \/ /\ offer.Major # 7 /\ result' = NoResult
         /\ reply' = InitReply([Major |-> 7, Minor |-> 41])
         /\ UNCHANGED initialized
      \/ /\ offer.Major = 7 /\ result' = NoResult
         /\ reply' = ErrorReply(<<Errno(71)>>) /\ UNCHANGED initialized
      \/ /\ err \in Errors /\ result'.error = err
         /\ reply' = ErrorReply(err) /\ initialized' = initialized
      \/ /\ offer.Major = 7 /\ offer.Minor >= 26 /\ initialized' = TRUE
         /\ config' = Agreed /\ reply' = InitReply(AgreedOut)
         /\ result' = NoResult
  <2>1. CASE offer.Major # 7
    BY <1>2, <2>1 DEF handleInit
  <2>2. CASE offer.Major = 7 /\ offer.Minor < 26
    BY <1>2, <2>2 DEF handleInit, IInv, Phases
  <2>3. CASE offer.Major = 7 /\ offer.Minor >= 26
    <3>1. /\ config' = Agreed /\ result' = [NoResult EXCEPT !.error = err]
          /\ initialized' = (initialized \/ err = <<>>)
          /\ reply' = IF err # <<>> THEN ErrorReply(err)
                      ELSE InitReply(AgreedOut)
      BY <2>3 DEF handleInit, IInv, Phases, Agreed, AgreedOut
    <3>2. CASE err = <<>>
      BY <2>3, <3>1, <3>2 DEF NoResult
    <3>3. CASE err # <<>>
      BY <2>3, <3>1, <3>3 DEF NoResult, IInv, TypeOK
    <3> QED BY <3>2, <3>3
  <2>4. offer.Minor \in Nat
    BY DEF IInv, Phases
  <2>5. offer.Minor < 26 \/ offer.Minor >= 26
    BY <2>4
  <2> QED BY <2>1, <2>2, <2>3, <2>5, Zenon
<1>4. /\ reply'.error \in Int /\ reply'.error <= 0
      /\ reply'.struct \in {"none", "Init"} /\ initialized' \in BOOLEAN
  <2>1. \/ \E e : IsError(e) /\ reply' = ErrorReply(e)
        \/ \E set : reply' = InitReply(set)
    BY <1>3, AreErrors, Zenon
  <2>2. /\ reply'.error \in Int /\ reply'.error <= 0
        /\ reply'.struct \in {"none", "Init"}
    BY <2>1, InitReplies, ErrorReplies
  <2>3. initialized \in BOOLEAN
    BY DEF IInv, TypeOK
  <2>4. initialized' = initialized \/ initialized' = TRUE
    BY <1>3, Zenon
  <2> QED BY <2>2, <2>3, <2>4, Zenon
<1>5. TypeOK'
  BY <1>1, <1>4, Kinds DEF IInv, TypeOK
<1>6. Phases'
  BY <1>1, Kinds DEF IInv, Phases
<1>7. InitOnItsWay'
  BY <1>1, <1>3 DEF InitOnItsWay, Agreed, AgreedOut
<1>8. (AnswerOnItsWay /\ AnswerTaken /\ Connected)'
  BY <1>1, Kinds DEF AnswerOnItsWay, AnswerTaken, Connected
<1> QED BY <1>5, <1>6, <1>7, <1>8 DEF IInv

(* The kernel takes the reply to INIT: it fails, asks again with a version *)
(* that the server speaks, or starts to work.                              *)
LEMMA Step_ReceiveInit ==
  ASSUME IInv, ReceiveInit
  PROVE  IInv'
<1>1. /\ op = "Init" /\ kst = "init" /\ got = Nothing
      /\ reply \notin {NoReply, Dropped}
      /\ UNCHANGED <<opts, bufSize, config, initialized, got, result>>
  BY DEF ReceiveInit, svars, IInv, Phases
<1>2. \/ /\ offer.Major # 7 /\ result = NoResult
         /\ reply = InitReply([Major |-> 7, Minor |-> 41])
      \/ reply = ErrorReply(<<Errno(71)>>)
      \/ result.error \in Errors /\ reply = ErrorReply(result.error)
      \/ /\ offer.Major = 7 /\ offer.Minor >= 26 /\ initialized
         /\ config = Agreed /\ reply = InitReply(AgreedOut)
         /\ result = NoResult
  BY <1>1 DEF IInv, InitOnItsWay
<1>3. CASE ~InRange(reply.error)
  <2>1. /\ reply' = Dropped
        /\ UNCHANGED <<op, kst, offer, kconn>>
    BY <1>3 DEF ReceiveInit
  <2>2. TooLarge(result.error)
    <3>1. CASE reply = ErrorReply(<<Errno(71)>>)
      BY <1>3, <3>1, ErrorReplies, AreErrors, Refused
    <3>2. CASE result.error \in Errors /\ reply = ErrorReply(result.error)
      BY <1>3, <3>2, ErrorReplies, AreErrors, DroppedNumber
    <3>3. CASE reply.error = 0
      BY <1>3, <3>3 DEF InRange
    <3> QED BY <1>2, <3>1, <3>2, <3>3, InitReplies
  <2>3. TypeOK'
    BY <1>1, <2>1 DEF IInv, TypeOK, Dropped, NoReply
  <2>4. Phases'
    BY <1>1, <2>1, Kinds DEF IInv, Phases
  <2>5. InitOnItsWay'
    BY <1>1, <2>1, <2>2 DEF InitOnItsWay
  <2>6. (AnswerOnItsWay /\ AnswerTaken /\ Connected)'
    BY <1>1, <2>1, Kinds DEF AnswerOnItsWay, AnswerTaken, Connected
  <2> QED BY <2>3, <2>4, <2>5, <2>6 DEF IInv
<1>4. CASE InRange(reply.error)
  <2>1. op' = "none" /\ reply' = NoReply
    BY <1>4 DEF ReceiveInit
  <2>2. \/ kst' = "failed" /\ UNCHANGED <<offer, kconn>>
        \/ /\ reply.struct = "Init" /\ offer.Major # 7
           /\ offer' = [offer EXCEPT !.Major = 7]
           /\ kst' = "mounted" /\ UNCHANGED kconn
        \/ /\ reply.struct = "Init" /\ offer.Major = 7
           /\ kconn' = Connection(reply.out)
           /\ kst' = "ready" /\ UNCHANGED offer
    BY <1>1, <1>4 DEF ReceiveInit, Fits
  <2>3. reply.struct = "Init" =>
          \/ offer.Major # 7 /\ result = NoResult
          \/ /\ offer.Major = 7 /\ offer.Minor >= 26 /\ initialized
             /\ config = Agreed /\ reply = InitReply(AgreedOut)
             /\ result = NoResult
    BY <1>2, ErrorReplies, AreErrors
  <2>4. kst' = "ready" =>
          /\ initialized /\ config = Agreed /\ offer.Minor >= 26
          /\ UNCHANGED offer /\ kconn' = Connection(InitReply(AgreedOut).out)
    BY <2>2, <2>3
  <2>5. Connected'
    BY <1>1, <2>4, Heard DEF Connected, Agreed
  <2>6. kconn'.Flags \subseteq Caps
    BY <2>2, <2>4, Heard DEF IInv, TypeOK
  <2>7. offer' \in [Major : Nat, Minor : Nat, MaxReadahead : Nat,
                    Flags : SUBSET STRING]
    BY <2>2 DEF IInv, Phases
  <2>8. TypeOK'
    BY <1>1, <2>1, <2>2, <2>6 DEF IInv, TypeOK, NoReply
  <2>9. Phases'
    BY <1>1, <2>1, <2>2, <2>3, <2>7, Kinds DEF IInv, Phases
  <2>10. (InitOnItsWay /\ AnswerOnItsWay /\ AnswerTaken)'
    BY <1>1, <2>1, Kinds DEF InitOnItsWay, AnswerOnItsWay, AnswerTaken
  <2> QED BY <2>5, <2>8, <2>9, <2>10 DEF IInv
<1> QED BY <1>3, <1>4

(* The kernel asks for something.                                          *)
LEMMA Step_Query ==
  ASSUME IInv, NEW o \in Queries, Query(o)
  PROVE  IInv'
<1>1. /\ kst = "ready" /\ op = "none" /\ reply = NoReply
      /\ UNCHANGED <<opts, bufSize, config, initialized, offer, kst, kconn,
                     reply>>
      /\ op' = o /\ got' = Nothing /\ result' = NoResult
  BY DEF Query, svars, IInv, Phases
<1>2. TypeOK'
  BY <1>1, Kinds DEF IInv, TypeOK
<1>3. Phases'
  BY <1>1, Kinds DEF IInv, Phases
<1>4. (InitOnItsWay /\ AnswerOnItsWay /\ AnswerTaken)'
  BY <1>1, Kinds DEF InitOnItsWay, AnswerOnItsWay, AnswerTaken
<1>5. Connected'
  BY <1>1, ConnectedStays, Zenon
<1> QED BY <1>2, <1>3, <1>4, <1>5 DEF IInv

(* A handler replies what the Filesystem returned.                         *)
LEMMA Step_handleQuery ==
  ASSUME IInv, NEW r \in Results, handleQuery(r)
  PROVE  IInv'
<1>1. /\ op \in Queries /\ kst = "ready" /\ got = Nothing
      /\ UNCHANGED <<opts, bufSize, config, initialized, offer, kst, kconn,
                     op, got>>
      /\ result' = r /\ reply' = Answer(op, r)
  BY Kinds DEF handleQuery, svars, kvars, IInv, Phases
<1>2. TypeOK'
  BY <1>1, Answers DEF IInv, TypeOK
<1>3. Phases'
  BY <1>1, Kinds DEF IInv, Phases
<1>4. (InitOnItsWay /\ AnswerOnItsWay /\ AnswerTaken)'
  BY <1>1, Kinds DEF InitOnItsWay, AnswerOnItsWay, AnswerTaken
<1>5. Connected'
  BY <1>1, ConnectedStays, Zenon
<1> QED BY <1>2, <1>3, <1>4, <1>5 DEF IInv

(* The kernel takes the reply, or drops it.                                *)
LEMMA Step_ReceiveReply ==
  ASSUME IInv, ReceiveReply
  PROVE  IInv'
<1>1. /\ op \in Queries /\ kst = "ready" /\ got = Nothing
      /\ UNCHANGED <<opts, bufSize, config, initialized, offer, kst, kconn,
                     result>>
      /\ reply \notin {NoReply, Dropped}
  BY Kinds DEF ReceiveReply, svars, IInv, Phases, TypeOK
<1>2. result \in Results /\ reply = Answer(op, result)
  BY <1>1 DEF IInv, AnswerOnItsWay
<1>3. \/ /\ InRange(reply.error) /\ op' = "none" /\ reply' = NoReply
         /\ got' = Taken(op, reply)
      \/ /\ ~InRange(reply.error) /\ reply' = Dropped
         /\ UNCHANGED <<op, got>>
  BY DEF ReceiveReply
<1>4. ~InRange(reply.error) => TooLarge(result.error)
  BY <1>1, <1>2, Answers
<1>5. TypeOK'
  BY <1>1, <1>3 DEF IInv, TypeOK, NoReply, Dropped
<1>6. Phases'
  BY <1>1, <1>3, Kinds DEF IInv, Phases
<1>7. (InitOnItsWay /\ AnswerOnItsWay)'
  BY <1>1, <1>3, <1>4, Kinds DEF InitOnItsWay, AnswerOnItsWay
<1>8. AnswerTaken'
  <2>1. CASE op' = "none"
    <3>1. got' = Taken(op, Answer(op, result)) /\ got'.op = op
      BY <1>1, <1>2, <1>3, <2>1, Kinds DEF Taken
    <3>2. InRange(Answer(op, result).error)
      BY <1>1, <1>2, <1>3, <2>1, Kinds
    <3> QED BY <1>1, <1>2, <2>1, <3>1, <3>2 DEF AnswerTaken
  <2>2. CASE got' = got
    BY <1>1, <2>2 DEF AnswerTaken
  <2> QED BY <1>3, <2>1, <2>2
<1>9. Connected'
  BY <1>1, ConnectedStays, Zenon
<1> QED BY <1>5, <1>6, <1>7, <1>8, <1>9 DEF IInv

(* Every step preserves IInv.                                              *)
LEMMA Inductive == IInv /\ [Next]_vars => IInv'
<1> SUFFICES ASSUME IInv, [Next]_vars PROVE IInv'
  OBVIOUS
<1>1. CASE Mount
  BY <1>1, Step_Mount
<1>2. CASE SendInit
  BY <1>2, Step_SendInit
<1>3. CASE ReceiveInit
  BY <1>3, Step_ReceiveInit
<1>4. CASE ReceiveReply
  BY <1>4, Step_ReceiveReply
<1>5. ASSUME NEW err \in Errors \cup {<<>>}, handleInit(err)
      PROVE  IInv'
  BY <1>5, Step_handleInit
<1>6. ASSUME NEW o \in Queries, Query(o)
      PROVE  IInv'
  BY <1>6, Step_Query
<1>7. ASSUME NEW r \in Results, handleQuery(r)
      PROVE  IInv'
  BY <1>7, Step_handleQuery
<1>8. CASE UNCHANGED vars
  <2>1. UNCHANGED <<opts, bufSize, config, initialized, offer, kst, kconn, op,
                    got, reply, result>>
    BY <1>8 DEF vars, svars, kvars
  <2>2. TypeOK' /\ Phases'
    BY <2>1 DEF IInv, TypeOK, Phases
  <2>3. (InitOnItsWay /\ AnswerOnItsWay /\ AnswerTaken /\ Connected)'
    <3>1. InitOnItsWay'
      BY <2>1 DEF IInv, InitOnItsWay, Agreed, AgreedOut
    <3>2. AnswerOnItsWay'
      BY <2>1 DEF IInv, AnswerOnItsWay
    <3>3. AnswerTaken'
      BY <2>1 DEF IInv, AnswerTaken
    <3>4. Connected'
      BY <2>1, ConnectedStays, Zenon
    <3> QED BY <3>1, <3>2, <3>3, <3>4
  <2> QED BY <2>2, <2>3 DEF IInv
<1> QED BY <1>1, <1>2, <1>3, <1>4, <1>5, <1>6, <1>7, <1>8 DEF Next

(* For all options, offers, durations and errors, what Mount, handleInit,  *)
(* the handlers and the kernel know of each other stays consistent through *)
(* a session.                                                              *)
THEOREM SessionInvariant == Spec => []IInv
BY Starts, Inductive, PTL DEF Spec

(* Whatever is offered and configured, the kernel works with the version,  *)
(* the read-ahead and the write size of the Config that fs.Init was given, *)
(* and with no capability that it did not offer.                           *)
THEOREM Negotiation == Spec => []Negotiated
<1>1. IInv => Negotiated
  <2> SUFFICES ASSUME IInv, kst = "ready" PROVE Negotiated
    BY DEF Negotiated
  <2>1. /\ initialized /\ config = Agreed /\ offer.Minor >= 26
        /\ kconn.Minor = Agreed.ProtoMinor
        /\ kconn.Flags = Caps \cap offer.Flags
        /\ kconn.MaxReadahead = Agreed.MaxReadahead
        /\ kconn.MaxWrite = Most(opts.MaxWrite, 4096)
    BY DEF IInv, Connected
  <2>2. /\ offer.Minor \in Nat /\ offer.MaxReadahead \in Nat
        /\ opts.MaxReadahead \in Nat
    BY DEF IInv, Phases
  <2>3. /\ Agreed.ProtoMinor \in 26..41 /\ Agreed.ProtoMinor <= offer.Minor
        /\ Agreed.MaxReadahead <= offer.MaxReadahead
        /\ Agreed.MaxWrite = opts.MaxWrite
    BY <2>1, <2>2 DEF Agreed, protoMinor, Least
  <2>4. kconn.Flags \subseteq offer.Flags
    BY <2>1
  <2> QED BY <2>1, <2>3, <2>4 DEF Negotiated
<1> QED BY <1>1, SessionInvariant, PTL

(* Whatever options and offers there are, once the kernel is ready a       *)
(* buffer of the pool (newBufferPool, from what Mount makes of MaxWrite)   *)
(* is as large as the kernel demands of the MaxWrite it was told.          *)
THEOREM BuffersLargeEnough == Spec => []BufferSuffices
<1>1. IInv => BufferSuffices
  <2> SUFFICES ASSUME IInv, kst = "ready" PROVE BufferSuffices
    BY DEF BufferSuffices
  <2>1. bufSize = Most(opts.MaxWrite + 40 + 4096, 8192)
    BY DEF IInv, Phases, newBufferPool
  <2>2. opts.MaxWrite \in Nat /\ kconn.MaxWrite = Most(opts.MaxWrite, 4096)
    BY DEF IInv, Phases, Connected
  <2> QED BY <2>1, <2>2 DEF BufferSuffices, Most
<1> QED BY <1>1, SessionInvariant, PTL

(* For every MaxBackground, the kernel throttles at three quarters of it,  *)
(* or lower where the product of handleInit wraps.                         *)
THEOREM Throttling == Spec => []ThresholdKept
<1>1. IInv => ThresholdKept
  <2> SUFFICES ASSUME IInv, kst = "ready", kconn.MaxBackground > 1
               PROVE  ThresholdKept
    BY DEF ThresholdKept
  <2>1. PICK b : b = opts.MaxBackground
    OBVIOUS
  <2>2. PICK t : t = CongestionThreshold(b)
    OBVIOUS
  <2>3. kconn.MaxBackground = b /\ kconn.CongestionThreshold = Default(t, 9)
    BY <2>1, <2>2 DEF IInv, Connected
  <2>4. b \in 0..(Two16 - 1)
    BY <2>1 DEF IInv, Phases
  <2>5. b \in Nat /\ b < Two16 /\ b > 1
    <3>1. Two16 \in Nat
      BY DEF Two16
    <3> QED BY <2>3, <2>4, <3>1
  <2>6. /\ 4 * t <= 3 * b
        /\ b <= 21845 => 3 * b < 4 * (t + 1)
    BY <2>2, <2>5, ThresholdBounds
  <2>7. t \in Int
    BY <2>2, <2>5 DEF CongestionThreshold, Two16
  <2>8. CASE t = 0
    BY <2>3, <2>5, <2>6, <2>8 DEF ThresholdKept, Default
  <2>9. CASE t # 0
    BY <2>3, <2>5, <2>6, <2>7, <2>9 DEF ThresholdKept, Default
  <2> QED BY <2>8, <2>9
<1> QED BY <1>1, SessionInvariant, PTL

(* A reply that the kernel takes for a success has every field of what the *)
(* Filesystem returned.                                                    *)
LEMMA SuccessRead ==
  ASSUME AnswerTaken, got # Nothing, got.op # "Read", got.error = 0
  PROVE  /\ got.op \in Queries /\ result \in Results
         /\ result.error = <<>> /\ got.out = Fields(got.op, result)
<1>1. PICK o, a :
        /\ o \in Queries /\ o # "Read" /\ a = Answer(o, result)
        /\ got = Taken(o, a) /\ got.op = o /\ result \in Results
  BY DEF AnswerTaken
<1>2. a.error \in Int
  BY <1>1, Answers
<1>3. a.error = 0 /\ Fits(o, a)
  BY <1>1, <1>2 DEF Taken, EIO
<1>4. result.error = <<>>
  <2>1. o # "none"
    BY <1>1, Kinds
  <2> QED BY <1>1, <1>3, <2>1 DEF Fits, Answer, ErrorReply
<1>5. o \in {"Entry", "Attr", "Open"}
  BY <1>1, <1>3, SizesAgree, Kinds DEF Fits
<1>6. a.out = Fields(o, result)
  BY <1>1, <1>4 DEF Answer
<1>7. got.out = [f \in Names(Structs[o]) |-> Reads(o, f, a.out, 0, -1)]
  BY <1>1, <1>3 DEF Taken
<1>8. \A f \in Names(Structs[o]) :
        Reads(o, f, a.out, 0, -1) = Fields(o, result)[f]
  BY <1>5, <1>6, FieldsRead, Zenon
<1>9. got.out = Fields(o, result)
  BY <1>7, <1>8, Zenon DEF Fields
<1> QED BY <1>1, <1>4, <1>9, Zenon

(* Every field of every reply that the kernel accepts has the value that   *)
(* the handler put there, for all durations and errors.                    *)
THEOREM Faithfulness == Spec => []FaithfulReply
<1>1. IInv => FaithfulReply
  <2> SUFFICES ASSUME IInv, got.out # <<>> PROVE FaithfulReply
    BY DEF FaithfulReply
  <2>1. AnswerTaken /\ got # Nothing
    BY DEF IInv, Nothing
  <2>2. PICK o, a :
          /\ o \in Queries /\ a = Answer(o, result)
          /\ got = Taken(o, a) /\ got.op = o
    BY <2>1 DEF AnswerTaken
  <2>3. got.op # "Read" /\ got.error = 0
    BY <2>2 DEF Taken
  <2> QED BY <2>1, <2>3, SuccessRead DEF FaithfulReply
<1> QED BY <1>1, SessionInvariant, PTL

(* How long the kernel caches a duration that durationToTimespec converts. *)
LEMMA CachedFor ==
  ASSUME NEW d \in Durations
  PROVE  IF d >= 0 THEN Validity(durationToTimespec(d)) = d
         ELSE Validity(durationToTimespec(d)) > 0
<1>1. d \in Int /\ -Two64 < d /\ d < Two64
  BY DurationsAssumption
<1>2. CASE d >= 0
  <2>1. d \in Nat
    BY <1>1, <1>2
  <2> QED BY <1>1, <1>2, <2>1, TimespecExact
<1>3. CASE ~(d >= 0)
  <2>1. PICK e \in Nat \ {0} : d = -e /\ e < Two64
    <3>1. -d \in Nat \ {0} /\ d = -(-d) /\ -d < Two64
      BY <1>1, <1>3, WidthAssumption
    <3> QED BY <3>1
  <2>2. Validity(durationToTimespec(-e)) > 0
    BY <2>1, NegativeKept
  <2> QED BY <1>3, <2>1, <2>2
<1> QED BY <1>2, <1>3

(* For all durations of an int64, the kernel caches for as long as the     *)
(* Filesystem said, and never takes a negative timeout for zero.           *)
THEOREM Timeouts == Spec => []TimeoutKept
<1>1. IInv => TimeoutKept
  <2> SUFFICES ASSUME IInv, got.op = "Entry", got.error = 0
               PROVE  TimeoutKept
    BY DEF TimeoutKept
  <2>1. AnswerTaken /\ got # Nothing
    BY DEF IInv, Nothing
  <2>2. /\ result \in Results /\ result.error = <<>>
        /\ got.out = Fields("Entry", result)
    BY <2>1, SuccessRead
  <2>3. {"EntryValid", "EntryValidNsec", "AttrValid", "AttrValidNsec"}
          \subseteq Names(Structs["Entry"])
    <3>1. Structs["Entry"] = EntryFields
      BY EntrySpelt DEF Structs
    <3>2. /\ EntryFields[3].name = "EntryValid"
          /\ EntryFields[4].name = "AttrValid"
          /\ EntryFields[5].name = "EntryValidNsec"
          /\ EntryFields[6].name = "AttrValidNsec"
          /\ {3, 4, 5, 6} \subseteq DOMAIN EntryFields
      BY DEF EntryFields, U64, U32
    <3> QED BY <3>1, <3>2 DEF Names
  <2>4. PICK entry, attr : /\ entry = durationToTimespec(result.entry)
                           /\ attr = durationToTimespec(result.attr)
    OBVIOUS
  <2>5. /\ got.out["EntryValid"] = entry.sec
        /\ got.out["EntryValidNsec"] = entry.nsec
        /\ got.out["AttrValid"] = attr.sec
        /\ got.out["AttrValidNsec"] = attr.nsec
    BY <2>2, <2>3, <2>4 DEF Fields, Field, Unset
  <2>6. result.entry \in Durations /\ result.attr \in Durations
    BY <2>2, ResultKinds
  <2>7. /\ entry = [sec |-> entry.sec, nsec |-> entry.nsec]
        /\ attr = [sec |-> attr.sec, nsec |-> attr.nsec]
    BY <2>4 DEF durationToTimespec
  <2>8. /\ IF result.entry >= 0 THEN Validity(entry) = result.entry
           ELSE Validity(entry) > 0
        /\ IF result.attr >= 0 THEN Validity(attr) = result.attr
           ELSE Validity(attr) > 0
    BY <2>4, <2>6, CachedFor
  <2> QED BY <2>5, <2>7, <2>8 DEF TimeoutKept
<1> QED BY <1>1, SessionInvariant, PTL

(* Whatever chain of errors the Filesystem returns, the request fails with *)
(* its first number, succeeds only as a READ that met io.EOF or the number *)
(* 0, and stays without an answer only if that number is out of range.     *)
THEOREM ErrorsArrive == Spec => []ErrorArrives
<1>1. IInv => ErrorArrives
  <2> SUFFICES ASSUME IInv PROVE ErrorArrives
    OBVIOUS
  <2> DEFINE numbers == Numbers(result.error)
             first == IF numbers = {} THEN 0
                      ELSE result.error[Min(numbers)].n
  <2>1. reply = Dropped => first >= 512
    <3>1. ASSUME reply = Dropped
          PROVE  TooLarge(result.error)
      <4>1. op = "Init" \/ op \in Queries
        BY <3>1, Kinds DEF IInv, TypeOK, Phases, NoReply, Dropped
      <4>2. Dropped # NoReply /\ Dropped.struct = "dropped"
        BY DEF NoReply, Dropped
      <4>3. CASE op = "Init"
        BY <3>1, <4>2, <4>3, InitReplies, ErrorReplies, AreErrors
           DEF IInv, InitOnItsWay
      <4>4. CASE op \in Queries
        BY <3>1, <4>2, <4>4, Answers DEF IInv, AnswerOnItsWay
      <4> QED BY <4>1, <4>3, <4>4
    <3> QED BY <3>1 DEF TooLarge
  <2>2. ASSUME got.op # "none", result.error # <<>>
        PROVE  /\ first # 0 => got.error = first
               /\ got.error = 0 =>
                    /\ got.op = "Read"
                    /\ \/ numbers # {}
                       \/ \E j \in DOMAIN result.error :
                            result.error[j] = Plain("EOF")
    <3>1. PICK o, a :
            /\ o \in Queries /\ result \in Results /\ a = Answer(o, result)
            /\ got = Taken(o, a) /\ got.op = o
      BY <2>2 DEF IInv, AnswerTaken, Nothing
    <3>2. IsError(result.error) /\ a = ErrorReply(result.error)
      BY <2>2, <3>1, ResultKinds DEF Answer
    <3>3. a.error = toErrno(result.error) /\ a.struct = "none"
      BY <3>2, ErrorReplies
    <3>4. Fits(o, a) <=> o = "Read"
      BY <3>1, <3>3, Kinds DEF Fits
    <3>5. got.error = IF a.error = 0 /\ o # "Read" THEN EIO ELSE -a.error
      BY <3>1, <3>4 DEF Taken
    <3>6. CASE numbers = {}
      BY <3>1, <3>2, <3>3, <3>5, <3>6, ErrnoOf DEF EIO
    <3>7. CASE numbers # {}
      <4>1. first \in Nat /\ a.error = -first
        BY <3>2, <3>3, <3>7, ErrnoOf, FirstNumber
      <4> QED BY <3>1, <3>5, <3>7, <4>1 DEF EIO
    <3> QED BY <3>6, <3>7
  <2> QED BY <2>1, <2>2, Zenon DEF ErrorArrives
<1> QED BY <1>1, SessionInvariant, PTL

=============================================================================
