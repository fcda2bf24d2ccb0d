---------------------------- MODULE DirectoryInv ----------------------------
(***************************************************************************)
(* Why InOrder, ReplyFits, TypesAgree and CountsMatch hold in Directory:   *)
(* an invariant that every step preserves.                                 *)
(***************************************************************************)
EXTENDS Directory

(* A reader has a reply only while it is about to read it.                 *)
Quiet == \A r \in Readers : rpc[r] # "replied" => reply[r] = <<>>

(* What InOrder needs of the Filesystem: that the generations it returns   *)
(* from ReadDirPlus are the offsets that ReadDir returns.                  *)
CookiesAreOffsets ==
  \A i \in DOMAIN Stream : Stream[i].gen = Stream[i].offset

(* A reader has seen the first k entries and is at the offset of the last; *)
(* its reply goes on from there, and is empty at the end only.             *)
InStep(r) ==
  LET k == Len(seen[r]) IN
  /\ k <= Len(Stream)
  /\ \A i \in DOMAIN seen[r] : seen[r][i] = i
  /\ pos[r] = IF k = 0 THEN 0 ELSE Stream[k].offset
  /\ \A n \in DOMAIN reply[r] : /\ reply[r][n].name = k + n
                                /\ reply[r][n].off = Stream[k + n].offset
  /\ rpc[r] = "replied" /\ reply[r] = <<>> => k = Len(Stream)
  /\ rpc[r] = "ended" => k = Len(Stream)

(* The inductive invariant: what the kernel has, what it is sent and what  *)
(* the Filesystem has counted fit together, whatever the handlers do.      *)
IInv ==
  /\ TypeOK /\ Quiet /\ ReplyFits /\ TypesAgree /\ CountsMatch
  /\ CookiesAreOffsets => \A r \in Readers : InStep(r)

=============================================================================
