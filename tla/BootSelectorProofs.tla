------------------------- MODULE BootSelectorProofs -------------------------
(***************************************************************************)
(* The safety of rt3bcwrite for every set of callers that serialises it,   *)
(* every selector width and every block content.                           *)
(***************************************************************************)
EXTENDS BootSelector, TLAPS

(* Copy c holds the selector p was asked to store. *)
Holds(p, c) == media[c].ok /\ media[c].sel = op[p].want

SameRest(p, c) == media[c].rest = base[p][c].rest

(* At most one invocation exists. *)
Alone == \A p, q \in Proc : pc[p] # "idle" /\ pc[q] # "idle" => p = q

(* What p knows of the flash before it writes anything ... *)
Reading(p) ==
    /\ pc[p] \in {"pre", "decide"} => wrote[p] = {} /\ \A c \in Copy : SameRest(p, c)
    /\ pc[p] = "pre" /\ cur[p] = "mtd2" =>
          media["mtd3"].ok /\ sel[p]["mtd3"] = media["mtd3"].sel
    /\ pc[p] = "decide" =>
          /\ cur[p] = "mtd3"
          /\ \A c \in Copy : media[c].ok /\ sel[p][c] = media[c].sel

(* ... while it is in a transaction on one copy: the other copy is good ... *)
Writing(p) ==
    pc[p] \in {"load", "erase", "head", "tail", "readback"} =>
        /\ cur[p] = "mtd3" => "mtd2" \notin wrote[p] /\ media["mtd2"].ok /\ SameRest(p, "mtd2")
        /\ cur[p] = "mtd2" => Holds(p, "mtd3") /\ SameRest(p, "mtd3")
        /\ pc[p] = "load" => media[cur[p]].ok /\ SameRest(p, cur[p])
        /\ pc[p] # "load" =>
              /\ img[p].ok /\ img[p].sel = op[p].want
              /\ img[p].rest = base[p][cur[p]].rest

(* ... and when it is through. *)
Through(p) ==
    /\ pc[p] \in {"post", "confirm", "done"} =>
          \A c \in Copy : Holds(p, c) /\ SameRest(p, c)
    /\ Succeeded(p) => \A c \in Copy : Holds(p, c) /\ SameRest(p, c)
    /\ pc[p] = "exit" /\ "mtd2" \in wrote[p] => Holds(p, "mtd3")
    /\ pc[p] = "idle" => wrote[p] = {} /\ cur[p] = "mtd3"

Safe == Alone /\ OneCopyValid /\ \A p \in Proc : Reading(p) /\ Writing(p) /\ Through(p)

----------------------------------------------------------------------------
(* Type correctness *)

LEMMA CodesTyped ==
    /\ \A c \in Copy : /\ TxnStatus(c, EX_STRUCT) \in Code
                       /\ TxnStatus(c, EX_IO) \in Code
                       /\ TxnStatus(c, EX_WRITE1) \in Code
                       /\ TxnStatus(c, EX_VERIFY1) \in Code
    /\ NoCode \in Code /\ EX_OK \in Code /\ EX_STRUCT \in Code
    /\ EX_IO \in Code /\ EX_VERIFY2 \in Code /\ 7 \in Code
  BY DEF TxnStatus, Code, NoCode, EX_OK, EX_STRUCT, EX_IO, EX_WRITE1, EX_WRITE2,
         EX_VERIFY1, EX_VERIFY2, Copy

LEMMA DataTyped ==
    /\ Erased \in Block /\ NoOp \in Op /\ 0 \in Selectors
    /\ \A b \in Block, w \in {0, 1} : Patch(b, w) \in Block
    /\ \A b \in Block, r \in Rest : [b EXCEPT !.rest = r] \in Block
  BY SelectorAssumption, RestAssumption DEF Erased, Block, NoOp, Op, Patch

(* The building blocks of the steps are well typed. *)
LEMMA GotoTyped ==
    ASSUME TypeOK, NEW p \in Proc, NEW l \in Stage, Goto(p, l)
    PROVE  pc' \in [Proc -> Stage]
  BY DEF TypeOK, Goto

LEMMA FinishTyped ==
    ASSUME TypeOK, NEW p \in Proc, NEW k \in Code, Finish(p, k)
    PROVE  pc' \in [Proc -> Stage] /\ code' \in [Proc -> Code]
  BY DEF TypeOK, Finish, Stage

LEMMA TxnFailedTyped ==
    ASSUME TypeOK, NEW p \in Proc, NEW r,
           r = EX_IO \/ r = EX_WRITE1 \/ r = EX_VERIFY1, TxnFailed(p, r)
    PROVE  pc' \in [Proc -> Stage] /\ code' \in [Proc -> Code] /\ hurt' \subseteq Proc
<1>1. TxnStatus(cur[p], r) \in Code
  BY CodesTyped DEF TypeOK
<1> QED
  BY <1>1, FinishTyped DEF TxnFailed, TypeOK

LEMMA TxnPassedTyped ==
    ASSUME TypeOK, NEW p \in Proc, TxnPassed(p)
    PROVE  pc' \in [Proc -> Stage] /\ cur' \in [Proc -> Copy]
  BY DEF TypeOK, TxnPassed, NextCopy, Goto, Stage, Copy

LEMMA MediaTyped ==
    ASSUME TypeOK, NEW c \in Copy, NEW b \in Block, SetMedia(c, b)
    PROVE  media' \in [Copy -> Block]
  BY DEF TypeOK, SetMedia

LEMMA StagesTyped ==
    /\ "pre" \in Stage /\ "decide" \in Stage /\ "load" \in Stage /\ "erase" \in Stage
    /\ "head" \in Stage /\ "tail" \in Stage /\ "readback" \in Stage
    /\ "confirm" \in Stage /\ "done" \in Stage /\ "idle" \in Stage
  BY DEF Stage

(* Every step of the tool keeps the variables in their types. *)
LEMMA TypeStep == TypeOK /\ [Next]_vars => TypeOK'
<1> SUFFICES ASSUME TypeOK, [Next]_vars PROVE TypeOK'
  OBVIOUS
<1> USE StagesTyped
<1>1. ASSUME NEW p \in Proc, NEW o \in Op, Start(p, o) PROVE TypeOK'
  <2>1. pc' \in [Proc -> Stage] /\ code' \in [Proc -> Code]
    BY <1>1, GotoTyped, FinishTyped, CodesTyped DEF Start, TypeOK
  <2> QED BY <1>1, <2>1 DEF Start, TypeOK
<1>2. ASSUME NEW p \in Proc, NEW next \in Stage, ReadStruct(p, next) PROVE TypeOK'
  BY <1>2 DEF TypeOK, ReadStruct, NextCopy, Goto, Copy, Block
<1>3. ASSUME NEW p \in Proc, ReadStructRefuses(p) \/ ReadStructFails(p) PROVE TypeOK'
  <2>1. pc' \in [Proc -> Stage] /\ code' \in [Proc -> Code]
    BY <1>3, FinishTyped, CodesTyped DEF ReadStructRefuses, ReadStructFails
  <2> QED BY <1>3, <2>1 DEF ReadStructRefuses, ReadStructFails, TypeOK
<1>4. ASSUME NEW p \in Proc, Decide(p) PROVE TypeOK'
  <2>1. pc' \in [Proc -> Stage] /\ code' \in [Proc -> Code]
    BY <1>4, GotoTyped, FinishTyped, CodesTyped DEF Decide, TypeOK
  <2> QED BY <1>4, <2>1 DEF Decide, TypeOK
<1>5. ASSUME NEW p \in Proc, Load(p) PROVE TypeOK'
  <2>1. cur[p] \in Copy /\ TxnStatus(cur[p], EX_STRUCT) \in Code
    BY CodesTyped DEF TypeOK
  <2>2. /\ pc' \in [Proc -> Stage] /\ code' \in [Proc -> Code]
        /\ cur' \in [Proc -> Copy] /\ hurt' \subseteq Proc
    BY <1>5, <2>1, GotoTyped, FinishTyped, TxnFailedTyped, TxnPassedTyped DEF Load, TypeOK
  <2>3. media[cur[p]] \in Block /\ media[cur[p]].sel \in Selectors /\ op[p].want \in {0, 1}
    BY DEF TypeOK, Block, Op
  <2>4. sel' \in [Proc -> [Copy -> Selectors]]
    <3>1. sel' = sel \/ sel' = [sel EXCEPT ![p][cur[p]] = media[cur[p]].sel]
      BY <1>5 DEF Load
    <3>2. [sel EXCEPT ![p][cur[p]] = media[cur[p]].sel] \in [Proc -> [Copy -> Selectors]]
      BY <2>1, <2>3 DEF TypeOK
    <3> QED BY <3>1, <3>2 DEF TypeOK
  <2>5. img' \in [Proc -> Block]
    <3>1. Patch(media[cur[p]], op[p].want) \in Block
      BY <2>3, DataTyped
    <3> QED BY <1>5, <3>1 DEF Load, TypeOK
  <2> QED BY <1>5, <2>2, <2>4, <2>5 DEF Load, TypeOK
<1>6. ASSUME NEW p \in Proc, Erase(p) PROVE TypeOK'
  <2>1. cur[p] \in Copy
    BY DEF TypeOK
  <2>2. media' \in [Copy -> Block]
    BY <1>6, <2>1, MediaTyped, DataTyped DEF Erase
  <2>3. pc' \in [Proc -> Stage] /\ code' \in [Proc -> Code] /\ hurt' \subseteq Proc
    BY <1>6, GotoTyped, TxnFailedTyped DEF Erase, TypeOK
  <2>4. wrote' \in [Proc -> SUBSET Copy]
    BY <1>6, <2>1 DEF Erase, TypeOK
  <2> QED BY <1>6, <2>2, <2>3, <2>4 DEF Erase, TypeOK
<1>7. ASSUME NEW p \in Proc, Head(p) PROVE TypeOK'
  <2>1. cur[p] \in Copy
    BY DEF TypeOK
  <2>2. media' \in [Copy -> Block]
    BY <1>7, <2>1, MediaTyped DEF Head
  <2>3. pc' \in [Proc -> Stage] /\ code' \in [Proc -> Code] /\ hurt' \subseteq Proc
    BY <1>7, GotoTyped, TxnFailedTyped DEF Head, TypeOK
  <2> QED BY <1>7, <2>2, <2>3 DEF Head, TypeOK
<1>8. ASSUME NEW p \in Proc, Tail(p) PROVE TypeOK'
  <2>1. cur[p] \in Copy /\ \A r \in Rest : [media[cur[p]] EXCEPT !.rest = r] \in Block
    BY DataTyped DEF TypeOK
  <2>2. media' \in [Copy -> Block]
    BY <1>8, <2>1, MediaTyped DEF Tail
  <2>3. pc' \in [Proc -> Stage] /\ code' \in [Proc -> Code] /\ hurt' \subseteq Proc
    BY <1>8, GotoTyped, TxnFailedTyped DEF Tail, TypeOK
  <2> QED BY <1>8, <2>2, <2>3 DEF Tail, TypeOK
<1>9. ASSUME NEW p \in Proc, Readback(p) PROVE TypeOK'
  <2>1. TxnStatus(cur[p], EX_VERIFY1) \in Code
    BY CodesTyped DEF TypeOK
  <2>2. /\ pc' \in [Proc -> Stage] /\ code' \in [Proc -> Code]
        /\ cur' \in [Proc -> Copy] /\ hurt' \subseteq Proc
    BY <1>9, <2>1, FinishTyped, TxnFailedTyped, TxnPassedTyped DEF Readback, Mismatch, TypeOK
  <2>3. sel' \in [Proc -> [Copy -> Selectors]]
    <3>1. cur[p] \in Copy /\ media[cur[p]].sel \in Selectors
      BY DEF TypeOK, Block
    <3> QED BY <1>9, <3>1 DEF Readback, Mismatch, TypeOK
  <2> QED BY <1>9, <2>2, <2>3 DEF Readback, Mismatch, TypeOK
<1>10. ASSUME NEW p \in Proc, Confirm(p) PROVE TypeOK'
  <2>1. pc' \in [Proc -> Stage] /\ code' \in [Proc -> Code]
    BY <1>10, GotoTyped, FinishTyped, CodesTyped DEF Confirm, TypeOK
  <2> QED BY <1>10, <2>1 DEF Confirm, TypeOK
<1>11. ASSUME Restart PROVE TypeOK'
  BY <1>11, CodesTyped, DataTyped DEF Restart, TypeOK, Copy
<1>12. ASSUME NEW p \in Proc, Done(p) PROVE TypeOK'
  <2>1. CASE Restart
    BY <1>11, <2>1
  <2>2. CASE ~Restart
    <3>1. pc' \in [Proc -> Stage] /\ code' \in [Proc -> Code]
      BY <1>12, <2>2, FinishTyped, CodesTyped DEF Done
    <3> QED BY <1>12, <2>2, <3>1 DEF Done, TypeOK
  <2> QED BY <2>1, <2>2
<1>13. ASSUME NEW p \in Proc, Reap(p) PROVE TypeOK'
  BY <1>13, CodesTyped, DataTyped DEF Reap, Goto, TypeOK, Copy
<1>14. CASE UNCHANGED vars
  BY <1>14 DEF vars, TypeOK
<1>15. ASSUME NEW p \in Proc, Pre(p) \/ Post(p) PROVE TypeOK'
  BY <1>2, <1>3, <1>15 DEF Pre, Post
<1> QED
  BY <1>1, <1>4, <1>5, <1>6, <1>7, <1>8, <1>9, <1>10, <1>11, <1>12, <1>13, <1>14, <1>15
  DEF Next, Step, PowerCut

(* TypeOK holds in every reachable state of rt3bcwrite, serialised or not. *)
THEOREM TypeCorrect == Spec => []TypeOK
<1>1. Init => TypeOK
  BY CodesTyped, DataTyped DEF Init, TypeOK, Stage, Copy
<1> QED
  BY <1>1, TypeStep, PTL DEF Spec

----------------------------------------------------------------------------
(* Safety of serialised invocations *)

Good(p) == Reading(p) /\ Writing(p) /\ Through(p)

(* Only the locals of p may change. *)
Frame(p) ==
    \A q \in Proc \ {p} : pc'[q] = pc[q] /\ wrote'[q] = wrote[q] /\ cur'[q] = cur[q]

(* A step of p keeps Safe if it leaves the others alone, keeps one copy    *)
(* valid and keeps what p knows of the flash.                              *)
LEMMA Combine ==
    ASSUME Safe, NEW p \in Proc, pc[p] # "idle" \/ \A q \in Proc : pc[q] = "idle",
           Frame(p), OneCopyValid', Good(p)'
    PROVE  Safe'
<1>1. \A q \in Proc \ {p} : pc'[q] = "idle" /\ wrote'[q] = {} /\ cur'[q] = "mtd3"
  BY DEF Safe, Alone, Through, Frame
<1>2. \A q \in Proc \ {p} : Reading(q)' /\ Writing(q)' /\ Through(q)'
  BY <1>1 DEF Reading, Writing, Through, Succeeded
<1>3. Alone'
  BY <1>1 DEF Alone
<1> QED
  BY <1>2, <1>3 DEF Safe, Good

(* No step of the tool disturbs Safe when its callers serialise it. *)
LEMMA SafeStep == Exclusive /\ TypeOK /\ Safe /\ [Next]_vars => Safe'
<1> SUFFICES ASSUME Exclusive, TypeOK, Safe, [Next]_vars PROVE Safe'
  OBVIOUS
<1> USE DEF Copy
<1>1. ASSUME NEW p \in Proc, NEW o \in Op, Start(p, o) PROVE Safe'
  <2>1. Frame(p) /\ OneCopyValid' /\ \A q \in Proc : pc[q] = "idle"
    BY <1>1 DEF TypeOK, Safe, OneCopyValid, Frame, Start, Goto, Finish
  <2>2. Good(p)'
    BY <1>1 DEF TypeOK, Safe, Good, Reading, Writing, Through, Succeeded, SameRest, Start,
                Goto, Finish, EX_IO, EX_OK
  <2> QED BY <2>1, <2>2, Combine
<1>2. ASSUME NEW p \in Proc, Pre(p) PROVE Safe'
  <2>1. Frame(p) /\ OneCopyValid' /\ pc[p] # "idle"
    BY <1>2 DEF TypeOK, Safe, OneCopyValid, Frame, Pre, ReadStruct, ReadStructRefuses,
                ReadStructFails, Goto, Finish
  <2>2. Good(p)'
    BY <1>2 DEF TypeOK, Safe, Good, Reading, Writing, Through, Succeeded, SameRest, Pre,
                ReadStruct, NextCopy, ReadStructRefuses, ReadStructFails, Goto, Finish,
                EX_IO, EX_OK, EX_STRUCT
  <2> QED BY <2>1, <2>2, Combine
<1>3. ASSUME NEW p \in Proc, Decide(p) PROVE Safe'
  <2>1. Frame(p) /\ OneCopyValid' /\ pc[p] # "idle"
    BY <1>3 DEF TypeOK, Safe, OneCopyValid, Frame, Decide, Goto, Finish
  <2>2. Good(p)'
    BY <1>3 DEF TypeOK, Safe, Good, Reading, Writing, Through, Succeeded, SameRest, Holds,
                Decide, BothAtTarget, Goto, Finish, EX_OK, EX_STRUCT, EX_VERIFY2
  <2> QED BY <2>1, <2>2, Combine
<1>4. ASSUME NEW p \in Proc, Load(p) PROVE Safe'
  <2>1. Frame(p) /\ OneCopyValid' /\ pc[p] # "idle"
    BY <1>4 DEF TypeOK, Safe, OneCopyValid, Frame, Load, Goto, Finish, TxnFailed, TxnPassed
  <2>2. Good(p)'
    <3> DEFINE b == media[cur[p]]
    <3>1. CASE pc'[p] = "exit"
      <4>1. code'[p] # EX_OK
        BY <1>4, <3>1 DEF TypeOK, Load, Goto, Finish, TxnFailed, TxnPassed, TxnStatus, EX_OK,
                          EX_STRUCT, EX_IO, EX_WRITE1
      <4>2. UNCHANGED <<media, op, wrote, base>> /\ pc[p] = "load"
        BY <1>4 DEF Load
      <4>3. "mtd2" \in wrote[p] => Holds(p, "mtd3")
        BY <4>2 DEF Safe, Writing, TypeOK
      <4> QED
        BY <3>1, <4>1, <4>2, <4>3 DEF Good, Reading, Writing, Through, Succeeded, Holds
    <3>2. CASE b.ok /\ b.sel = op[p].want /\ pc'[p] # "exit"
      <4>1. TxnPassed(p) /\ UNCHANGED <<media, op, base, wrote>>
        BY <1>4, <3>2 DEF Load, Goto, Finish, TxnFailed, TypeOK
      <4> QED
        BY <1>4, <3>2, <4>1 DEF TypeOK, Safe, Good, Reading, Writing, Through, Succeeded,
                                SameRest, Holds, Load, Goto, TxnPassed, NextCopy
    <3>3. CASE b.sel # op[p].want /\ pc'[p] # "exit"
      <4>1. /\ img'[p] = Patch(b, op[p].want) /\ pc'[p] = "erase"
            /\ UNCHANGED <<media, op, base, wrote, cur>>
        BY <1>4, <3>3 DEF Load, Goto, Finish, TxnFailed, TypeOK
      <4>2. b \in Block /\ b.ok
        BY <1>4 DEF TypeOK, Load, Safe, Writing
      <4>3. img'[p].ok /\ img'[p].sel = op[p].want /\ img'[p].rest = b.rest
        BY <4>1, <4>2 DEF Patch, Block
      <4> QED
        BY <1>4, <4>1, <4>3 DEF TypeOK, Safe, Good, Reading, Writing, Through, Succeeded,
                                SameRest, Holds, Load
    <3> QED
      BY <1>4, <3>1, <3>2, <3>3 DEF Load, Finish, TxnFailed, TypeOK
  <2> QED BY <2>1, <2>2, Combine
<1>5. ASSUME NEW p \in Proc, Erase(p) PROVE Safe'
  <2>1. Frame(p) /\ OneCopyValid' /\ pc[p] # "idle"
    BY <1>5 DEF TypeOK, Safe, OneCopyValid, Writing, Holds, Frame, Erase, SetMedia, Goto,
                Finish, TxnFailed
  <2>2. Good(p)'
    BY <1>5 DEF TypeOK, Safe, Good, Reading, Writing, Through, Succeeded, SameRest, Holds,
                Erase, SetMedia, Goto, Finish, TxnFailed, TxnStatus, EX_OK, EX_WRITE1
  <2> QED BY <2>1, <2>2, Combine
<1>6. ASSUME NEW p \in Proc, Head(p) PROVE Safe'
  <2>1. Frame(p) /\ OneCopyValid' /\ pc[p] # "idle"
    BY <1>6 DEF TypeOK, Safe, OneCopyValid, Writing, Holds, Frame, Head, SetMedia, Goto,
                Finish, TxnFailed
  <2>2. Good(p)'
    BY <1>6 DEF TypeOK, Safe, Good, Reading, Writing, Through, Succeeded, SameRest, Holds,
                Head, SetMedia, Goto, Finish, TxnFailed, TxnStatus, EX_OK, EX_WRITE1
  <2> QED BY <2>1, <2>2, Combine
<1>7. ASSUME NEW p \in Proc, Tail(p) PROVE Safe'
  <2>1. Frame(p) /\ OneCopyValid' /\ pc[p] # "idle"
    BY <1>7 DEF TypeOK, Safe, OneCopyValid, Writing, Holds, Frame, Tail, SetMedia, Goto,
                Finish, TxnFailed
  <2>2. Good(p)'
    BY <1>7 DEF TypeOK, Safe, Good, Reading, Writing, Through, Succeeded, SameRest, Holds,
                Tail, SetMedia, Goto, Finish, TxnFailed, TxnStatus, EX_OK, EX_WRITE1
  <2> QED BY <2>1, <2>2, Combine
<1>8. ASSUME NEW p \in Proc, Readback(p) PROVE Safe'
  <2>1. Frame(p) /\ OneCopyValid' /\ pc[p] # "idle"
    BY <1>8 DEF TypeOK, Safe, OneCopyValid, Frame, Readback, Mismatch, Goto, Finish, TxnFailed, TxnPassed
  <2>2. Good(p)'
    BY <1>8 DEF TypeOK, Safe, Good, Reading, Writing, Through, Succeeded, SameRest, Holds,
                Readback, Mismatch, Verified, NextCopy, Goto, Finish, TxnFailed, TxnPassed, TxnStatus,
                EX_OK, EX_VERIFY1
  <2> QED BY <2>1, <2>2, Combine
<1>9. ASSUME NEW p \in Proc, Post(p) \/ Confirm(p) PROVE Safe'
  <2>1. Frame(p) /\ OneCopyValid' /\ pc[p] # "idle"
    BY <1>9 DEF TypeOK, Safe, OneCopyValid, Frame, Post, Confirm, ReadStruct,
                ReadStructRefuses, ReadStructFails, Goto, Finish
  <2>2. Good(p)'
    BY <1>9 DEF TypeOK, Safe, Good, Reading, Writing, Through, Succeeded, SameRest, Holds,
                Post, Confirm, ReadStruct, NextCopy, ReadStructRefuses, ReadStructFails, Goto, Finish,
                EX_OK, EX_IO, EX_STRUCT, EX_VERIFY2
  <2> QED BY <2>1, <2>2, Combine
<1>10. ASSUME Restart PROVE Safe'
  BY <1>10 DEF Restart, Safe, Alone, OneCopyValid, Reading, Writing, Through, Succeeded
<1>11. ASSUME NEW p \in Proc, Done(p) PROVE Safe'
  <2>1. CASE Restart
    BY <2>1, <1>10
  <2>2. CASE ~Restart
    <3>1. Frame(p) /\ OneCopyValid' /\ pc[p] # "idle"
      BY <1>11, <2>2 DEF TypeOK, Safe, OneCopyValid, Frame, Done, Finish
    <3>2. Good(p)'
      BY <1>11, <2>2 DEF TypeOK, Safe, Good, Reading, Writing, Through, Succeeded, SameRest,
                         Holds, Done, Finish, EX_OK
    <3> QED BY <3>1, <3>2, Combine
  <2> QED BY <2>1, <2>2
<1>12. ASSUME NEW p \in Proc, Reap(p) PROVE Safe'
  <2>1. Frame(p) /\ OneCopyValid' /\ pc[p] # "idle"
    BY <1>12 DEF TypeOK, Safe, OneCopyValid, Frame, Reap, Goto
  <2>2. Good(p)'
    BY <1>12 DEF TypeOK, Good, Reading, Writing, Through, Succeeded, Reap, Goto
  <2> QED BY <2>1, <2>2, Combine
<1>13. CASE UNCHANGED vars
  BY <1>13 DEF vars, Safe, Alone, OneCopyValid, Reading, Writing, Through, Succeeded,
               SameRest, Holds
<1> QED
  BY <1>1, <1>2, <1>3, <1>4, <1>5, <1>6, <1>7, <1>8, <1>9, <1>10, <1>11, <1>12, <1>13
  DEF Next, Step, PowerCut

LEMMA SafeAlways == ASSUME Exclusive PROVE Spec => [](TypeOK /\ Safe)
<1>1. Init => Safe
  BY DEF Init, Safe, Alone, OneCopyValid, Reading, Writing, Through, Succeeded
<1>2. TypeOK /\ Safe /\ [Next]_vars => Safe'
  BY SafeStep
<1> QED
  BY <1>1, <1>2, TypeCorrect, PTL DEF Spec

(* Serialised invocations, whatever fails and whenever power is lost, keep *)
(* a copy the boot loader can parse.                                       *)
THEOREM NeverBricks == ASSUME Exclusive PROVE Spec => []OneCopyValid
<1>1. Safe => OneCopyValid
  BY DEF Safe
<1> QED
  BY <1>1, SafeAlways, PTL

(* A serialised invocation that reports success has stored the target in   *)
(* both copies ...                                                         *)
THEOREM SuccessIsSound == ASSUME Exclusive PROVE Spec => []SuccessMeansBoth
<1>1. Safe => SuccessMeansBoth
  BY DEF Safe, Through, Holds, SuccessMeansBoth
<1> QED
  BY <1>1, SafeAlways, PTL

(* ... and has changed nothing else in either block.                       *)
THEOREM SuccessKeepsBlob == ASSUME Exclusive PROVE Spec => []BlobPreserved
<1>1. Safe => BlobPreserved
  BY DEF Safe, Through, SameRest, BlobPreserved
<1> QED
  BY <1>1, SafeAlways, PTL

(* mtd2 is touched only by an invocation that has made mtd3 good.          *)
THEOREM FirstCopyFirst == ASSUME Exclusive PROVE Spec => []SecondNeedsFirst
<1>1. TypeOK /\ Safe => SecondNeedsFirst
  <2> SUFFICES ASSUME TypeOK, Safe, NEW p \in Proc, "mtd2" \in wrote[p] PROVE Holds(p, "mtd3")
    BY DEF SecondNeedsFirst, Holds
  <2>1. pc[p] \in Stage /\ cur[p] \in Copy
    BY DEF TypeOK
  <2> QED
    BY <2>1 DEF Safe, Reading, Writing, Through, Stage, Copy
<1> QED
  BY <1>1, SafeAlways, PTL

----------------------------------------------------------------------------
(* An invocation without a failing system call *)

(* It began with two valid copies, which it may converge, or only has to   *)
(* look at and which are as it is told.                                    *)
Convergeable(p) ==
    /\ \A c \in Copy : base[p][c].ok
    /\ IF op[p].set THEN base[p]["mtd3"].sel = base[p]["mtd2"].sel \/ op[p].force
                    ELSE \A c \in Copy : base[p][c].sel = op[p].want

(* Until it writes, the flash is as it found it; what it writes lands; and *)
(* what it reads at the end is the target.                                 *)
Faithful(p) ==
    /\ pc[p] \in {"pre", "decide"} => media = base[p]
    /\ pc[p] = "tail" /\ p \notin hurt => media[cur[p]] = HeadOnly(img[p])
    /\ pc[p] = "readback" /\ p \notin hurt => media[cur[p]] = img[p]
    /\ pc[p] = "post" /\ cur[p] = "mtd2" => sel[p]["mtd3"] = op[p].want
    /\ pc[p] = "confirm" => BothAtTarget(p)
    /\ pc[p] = "exit" /\ p \notin hurt /\ Convergeable(p) => code[p] = EX_OK

(* A step of p leaves nothing to show for the others, which do not run.    *)
LEMMA CombineFaithful ==
    ASSUME Safe, \A q \in Proc : Faithful(q), NEW p \in Proc,
           pc[p] # "idle" \/ \A q \in Proc : pc[q] = "idle", Frame(p), Faithful(p)'
    PROVE  \A q \in Proc : Faithful(q)'
<1>1. \A q \in Proc \ {p} : pc'[q] = "idle"
  BY DEF Safe, Alone, Frame
<1> QED
  BY <1>1 DEF Faithful

LEMMA FaithfulStep ==
    ASSUME Exclusive, TypeOK, Safe, \A q \in Proc : Faithful(q), [Next]_vars
    PROVE  \A q \in Proc : Faithful(q)'
<1> USE DEF Copy
<1>1. ASSUME NEW p \in Proc, NEW o \in Op, Start(p, o) PROVE \A q \in Proc : Faithful(q)'
  <2>1. Frame(p) /\ \A q \in Proc : pc[q] = "idle"
    BY <1>1 DEF TypeOK, Frame, Start, Goto, Finish
  <2>2. Faithful(p)'
    BY <1>1 DEF TypeOK, Faithful, Start, Goto, Finish
  <2> QED BY <2>1, <2>2, CombineFaithful
<1>2. ASSUME NEW p \in Proc, Pre(p) PROVE \A q \in Proc : Faithful(q)'
  <2>1. Frame(p) /\ pc[p] # "idle"
    BY <1>2 DEF TypeOK, Frame, Pre, ReadStruct, ReadStructRefuses, ReadStructFails, Goto, Finish
  <2>2. media = base[p] /\ UNCHANGED <<media, base, op>> /\ pc[p] = "pre"
    BY <1>2 DEF Pre, ReadStruct, ReadStructRefuses, ReadStructFails, Faithful
  <2>3. CASE ReadStruct(p, "decide")
    <3>1. pc'[p] \in {"pre", "decide"}
      BY <2>2, <2>3 DEF TypeOK, ReadStruct, Goto
    <3> QED BY <2>1, <2>2, <3>1, CombineFaithful DEF Faithful
  <2>4. CASE ReadStructRefuses(p)
    <3>1. pc'[p] = "exit"
      BY <2>4 DEF TypeOK, ReadStructRefuses, Finish
    <3>2. ~Convergeable(p)
      BY <2>2, <2>4 DEF TypeOK, ReadStructRefuses, Convergeable
    <3>3. Convergeable(p)' <=> Convergeable(p)
      BY <2>2 DEF Convergeable
    <3> QED BY <2>1, <3>1, <3>2, <3>3, CombineFaithful DEF Faithful
  <2>5. CASE ReadStructFails(p)
    <3>1. pc'[p] = "exit" /\ p \in hurt'
      BY <2>5 DEF TypeOK, ReadStructFails, Finish
    <3> QED BY <2>1, <3>1, CombineFaithful DEF Faithful
  <2> QED BY <1>2, <2>3, <2>4, <2>5 DEF Pre
<1>3. ASSUME NEW p \in Proc, Decide(p) PROVE \A q \in Proc : Faithful(q)'
  <2>1. Frame(p) /\ pc[p] # "idle"
    BY <1>3 DEF TypeOK, Frame, Decide, Goto, Finish
  <2>2. /\ media = base[p] /\ UNCHANGED <<media, base, op, hurt>> /\ pc[p] = "decide"
        /\ \A c \in Copy : sel[p][c] = media[c].sel
    BY <1>3 DEF Decide, Faithful, Safe, Reading
  <2>3. pc'[p] \in {"exit", "done", "load"}
    BY <1>3 DEF TypeOK, Decide, Goto, Finish
  <2>4. pc'[p] = "exit" => ~Convergeable(p) \/ code'[p] = EX_OK
    <3>1. CASE op[p].set
      BY <1>3, <2>2, <3>1 DEF TypeOK, Decide, Goto, Finish, Convergeable
    <3>2. CASE ~op[p].set
      <4>1. code'[p] = IF BothAtTarget(p) THEN EX_OK ELSE EX_VERIFY2
        BY <1>3, <3>2 DEF TypeOK, Decide, Finish
      <4>2. Convergeable(p) => BothAtTarget(p)
        BY <2>2, <3>2 DEF Convergeable, BothAtTarget
      <4> QED BY <4>1, <4>2
    <3> QED BY <3>1, <3>2
  <2>5. Convergeable(p)' <=> Convergeable(p)
    BY <2>2 DEF Convergeable
  <2> QED BY <2>1, <2>3, <2>4, <2>5, CombineFaithful DEF Faithful
<1>4. ASSUME NEW p \in Proc, Load(p) PROVE \A q \in Proc : Faithful(q)'
  <2>1. Frame(p) /\ pc[p] # "idle"
    BY <1>4 DEF TypeOK, Frame, Load, Goto, Finish, TxnFailed, TxnPassed
  <2>2. media[cur[p]].ok
    BY <1>4 DEF Load, Safe, Writing
  <2>3. pc'[p] = "exit" => p \in hurt'
    BY <1>4, <2>2 DEF TypeOK, Load, Goto, Finish, TxnFailed, TxnPassed
  <2>4. pc'[p] = "post" => cur'[p] = "mtd3"
    BY <1>4 DEF TypeOK, Load, Goto, Finish, TxnFailed, TxnPassed, NextCopy
  <2>5. pc'[p] \in {"exit", "post", "load", "erase"}
    BY <1>4 DEF TypeOK, Load, Goto, Finish, TxnFailed, TxnPassed
  <2> QED BY <2>1, <2>3, <2>4, <2>5, CombineFaithful DEF Faithful
<1>5. ASSUME NEW p \in Proc, Erase(p) PROVE \A q \in Proc : Faithful(q)'
  <2>1. Frame(p) /\ pc[p] # "idle"
    BY <1>5 DEF TypeOK, Frame, Erase, Goto, Finish, TxnFailed
  <2>2. pc'[p] = "head" \/ (pc'[p] = "exit" /\ p \in hurt')
    BY <1>5 DEF TypeOK, Erase, Goto, Finish, TxnFailed
  <2> QED BY <2>1, <2>2, CombineFaithful DEF Faithful
<1>6. ASSUME NEW p \in Proc, Head(p) PROVE \A q \in Proc : Faithful(q)'
  <2>1. Frame(p) /\ pc[p] # "idle"
    BY <1>6 DEF TypeOK, Frame, Head, Goto, Finish, TxnFailed
  <2>2. PICK b \in Block :
          /\ SetMedia(cur[p], b)
          /\ \/ /\ Goto(p, "tail")
                /\ hurt' = IF b = HeadOnly(img[p]) THEN hurt ELSE hurt \cup {p}
             \/ TxnFailed(p, EX_WRITE1)
    BY <1>6 DEF Head
  <2>3. UNCHANGED <<cur, img>>
    BY <1>6 DEF Head
  <2>4. media'[cur[p]] = b
    BY <2>2 DEF TypeOK, SetMedia
  <2>5. CASE TxnFailed(p, EX_WRITE1)
    <3>1. pc'[p] = "exit" /\ p \in hurt'
      BY <2>5 DEF TypeOK, TxnFailed, Finish
    <3> QED BY <2>1, <3>1, CombineFaithful DEF Faithful
  <2>6. CASE Goto(p, "tail") /\ hurt' = IF b = HeadOnly(img[p]) THEN hurt ELSE hurt \cup {p}
    <3>1. pc'[p] = "tail" /\ (p \notin hurt' => b = HeadOnly(img[p]))
      BY <2>6 DEF TypeOK, Goto
    <3>2. HeadOnly(img[p])' = HeadOnly(img[p])
      BY <2>3 DEF HeadOnly
    <3>3. Faithful(p)'
      BY <2>3, <2>4, <3>1, <3>2 DEF Faithful
    <3> QED BY <2>1, <3>3, CombineFaithful
  <2> QED BY <2>2, <2>5, <2>6
<1>7. ASSUME NEW p \in Proc, Tail(p) PROVE \A q \in Proc : Faithful(q)'
  <2>1. Frame(p) /\ pc[p] # "idle"
    BY <1>7 DEF TypeOK, Frame, Tail, Goto, Finish, TxnFailed
  <2>2. PICK r \in Rest :
          /\ SetMedia(cur[p], [media[cur[p]] EXCEPT !.rest = r])
          /\ \/ /\ Goto(p, "readback")
                /\ hurt' = IF r = img[p].rest THEN hurt ELSE hurt \cup {p}
             \/ TxnFailed(p, EX_WRITE1)
    BY <1>7 DEF Tail
  <2>3. UNCHANGED <<cur, img>> /\ pc[p] = "tail" /\ img[p] \in Block
    BY <1>7 DEF Tail, TypeOK
  <2>4. media'[cur[p]] = [media[cur[p]] EXCEPT !.rest = r]
    BY <2>2 DEF TypeOK, SetMedia
  <2>5. CASE TxnFailed(p, EX_WRITE1)
    <3>1. pc'[p] = "exit" /\ p \in hurt'
      BY <2>5 DEF TypeOK, TxnFailed, Finish
    <3> QED BY <2>1, <3>1, CombineFaithful DEF Faithful
  <2>6. CASE Goto(p, "readback") /\ hurt' = IF r = img[p].rest THEN hurt ELSE hurt \cup {p}
    <3>1. pc'[p] = "readback" /\ (p \notin hurt' => p \notin hurt /\ r = img[p].rest)
      BY <2>6 DEF TypeOK, Goto
    <3>2. [HeadOnly(img[p]) EXCEPT !.rest = img[p].rest] = img[p]
      BY <2>3 DEF HeadOnly, Block
    <3>3. p \notin hurt' => media'[cur'[p]] = img'[p]
      BY <2>3, <2>4, <3>1, <3>2 DEF Faithful
    <3>4. Faithful(p)'
      BY <3>1, <3>3 DEF Faithful
    <3> QED BY <2>1, <3>4, CombineFaithful
  <2> QED BY <2>2, <2>5, <2>6
<1>8. ASSUME NEW p \in Proc, Readback(p) PROVE \A q \in Proc : Faithful(q)'
  <2>1. Frame(p) /\ pc[p] # "idle" /\ pc[p] = "readback"
    BY <1>8 DEF TypeOK, Frame, Readback, Mismatch, Goto, Finish, TxnFailed, TxnPassed
  <2>2. p \notin hurt => Verified(p, media[cur[p]])
    BY <2>1 DEF Faithful, Safe, Writing, Verified
  <2>3. pc'[p] = "exit" => p \in hurt'
    BY <1>8, <2>2 DEF TypeOK, Readback, Mismatch, Goto, Finish, TxnFailed, TxnPassed
  <2>4. pc'[p] = "post" => cur'[p] = "mtd3"
    BY <1>8 DEF TypeOK, Readback, Mismatch, Goto, Finish, TxnFailed, TxnPassed, NextCopy
  <2>5. pc'[p] \in {"exit", "post", "load"}
    BY <1>8 DEF TypeOK, Readback, Mismatch, Goto, Finish, TxnFailed, TxnPassed
  <2> QED BY <2>1, <2>3, <2>4, <2>5, CombineFaithful DEF Faithful
<1>9. ASSUME NEW p \in Proc, Post(p) PROVE \A q \in Proc : Faithful(q)'
  <2>1. Frame(p) /\ pc[p] = "post"
    BY <1>9 DEF TypeOK, Frame, Post, ReadStruct, ReadStructRefuses, ReadStructFails, Goto, Finish
  <2>2. \A c \in Copy : media[c].ok /\ media[c].sel = op[p].want
    BY <2>1 DEF Safe, Through, Holds
  <2>3. CASE ReadStruct(p, "confirm")
    <3>1. /\ sel' = [sel EXCEPT ![p][cur[p]] = media[cur[p]].sel] /\ op' = op
          /\ cur'[p] = NextCopy(cur[p])
          /\ pc'[p] = IF cur[p] = "mtd3" THEN "post" ELSE "confirm"
      BY <2>1, <2>3 DEF TypeOK, ReadStruct, Goto
    <3>2. sel'[p][cur[p]] = op[p].want
      BY <2>2, <3>1 DEF TypeOK
    <3>3. cur[p] = "mtd2" => sel'[p]["mtd3"] = op[p].want
      BY <2>1, <3>1 DEF TypeOK, Faithful
    <3>4. CASE cur[p] = "mtd3"
      BY <2>1, <3>1, <3>2, <3>4, CombineFaithful DEF Faithful
    <3>5. CASE cur[p] = "mtd2"
      <4>1. BothAtTarget(p)'
        BY <3>1, <3>2, <3>3, <3>5 DEF BothAtTarget
      <4> QED BY <2>1, <3>1, <3>5, <4>1, CombineFaithful DEF Faithful
    <3> QED BY <3>4, <3>5 DEF TypeOK
  <2>4. CASE ReadStructFails(p)
    <3>1. pc'[p] = "exit" /\ p \in hurt'
      BY <2>4 DEF TypeOK, ReadStructFails, Finish
    <3> QED BY <2>1, <3>1, CombineFaithful DEF Faithful
  <2>5. ~ReadStructRefuses(p)
    BY <2>2 DEF TypeOK, ReadStructRefuses
  <2> QED BY <1>9, <2>3, <2>4, <2>5 DEF Post
<1>10. ASSUME NEW p \in Proc, Confirm(p) PROVE \A q \in Proc : Faithful(q)'
  <2>1. Frame(p) /\ pc[p] = "confirm"
    BY <1>10 DEF TypeOK, Frame, Confirm, Goto, Finish
  <2>2. pc'[p] = "done"
    BY <1>10, <2>1 DEF TypeOK, Confirm, Faithful, Goto
  <2> QED BY <2>1, <2>2, CombineFaithful DEF Faithful
<1>11. ASSUME Restart PROVE \A q \in Proc : Faithful(q)'
  BY <1>11 DEF Restart, Faithful
<1>12. ASSUME NEW p \in Proc, Done(p), ~Restart PROVE \A q \in Proc : Faithful(q)'
  <2>1. Frame(p) /\ pc[p] # "idle"
    BY <1>12 DEF TypeOK, Frame, Done, Finish
  <2>2. pc'[p] = "exit" /\ (p \in hurt' \/ code'[p] = EX_OK)
    BY <1>12 DEF TypeOK, Done, Finish
  <2> QED BY <2>1, <2>2, CombineFaithful DEF Faithful
<1>13. ASSUME NEW p \in Proc, Reap(p) PROVE \A q \in Proc : Faithful(q)'
  <2>1. Frame(p) /\ pc[p] # "idle" /\ pc'[p] = "idle"
    BY <1>13 DEF TypeOK, Frame, Reap, Goto
  <2> QED BY <2>1, CombineFaithful DEF Faithful
<1>14. CASE UNCHANGED vars
  BY <1>14 DEF vars, Faithful, Convergeable, BothAtTarget, HeadOnly
<1> QED
  BY <1>1, <1>2, <1>3, <1>4, <1>5, <1>6, <1>7, <1>8, <1>9, <1>10, <1>11, <1>12, <1>13, <1>14
  DEF Next, Step, PowerCut

(* All that is known of the writer. *)
Known == TypeOK /\ Safe /\ \A p \in Proc : Faithful(p)

LEMMA InitKnown == Init => Known
<1>1. Init => TypeOK
  BY CodesTyped, DataTyped DEF Init, TypeOK, Stage, Copy
<1>2. Init => Safe
  BY DEF Init, Safe, Alone, OneCopyValid, Reading, Writing, Through, Succeeded
<1>3. Init => \A p \in Proc : Faithful(p)
  BY DEF Init, Faithful
<1> QED
  BY <1>1, <1>2, <1>3 DEF Known

LEMMA KnownStep == Exclusive /\ Known /\ [Next]_vars => Known'
  BY TypeStep, SafeStep, FaithfulStep DEF Known

(* The board may restart at any moment. *)
LEMMA RestartKeeps ==
    ASSUME Known, Restart
    PROVE  Known'
<1>1. TypeOK'
  BY DataTyped, CodesTyped DEF Known, TypeOK, Restart, Copy, Stage
<1>2. Safe'
  BY DEF Known, Restart, Safe, Alone, OneCopyValid, Reading, Writing, Through, Succeeded
<1>3. \A p \in Proc : Faithful(p)'
  BY DEF Restart, Faithful
<1> QED
  BY <1>1, <1>2, <1>3 DEF Known

(* An invocation with --verify-only only looks. *)
LEMMA OnlyLooks ==
    ASSUME TypeOK, NEW p \in Proc, Step(p), ~op[p].set, pc[p] \in {"pre", "decide"}
    PROVE  /\ UNCHANGED <<media, op, base>>
           /\ pc'[p] \in {"pre", "decide", "exit"}
           /\ \A q \in Proc \ {p} : pc'[q] = pc[q]
<1>1. Pre(p) \/ Decide(p)
  BY DEF Step, Load, Erase, Head, Tail, Readback, Post, Confirm, Done
<1> QED
  BY <1>1 DEF TypeOK, Pre, Decide, ReadStruct, ReadStructRefuses, ReadStructFails, Goto, Finish

(* An invocation that goes on keeps its command line and where it began.   *)
LEMMA Persists ==
    ASSUME TypeOK, NEW p \in Proc, Step(p), ~op[p].reboot
    PROVE  /\ UNCHANGED <<op, base>> /\ pc[p] \notin {"idle", "exit"} /\ pc'[p] # "idle"
           /\ hurt \subseteq hurt'
           /\ \A q \in Proc \ {p} : pc'[q] = pc[q]
<1>1. CASE Pre(p) \/ Post(p)
  BY <1>1 DEF TypeOK, Pre, Post, ReadStruct, ReadStructRefuses, ReadStructFails, Goto, Finish
<1>2. CASE Decide(p) \/ Confirm(p) \/ Done(p)
  BY <1>2 DEF TypeOK, Decide, Confirm, Done, Goto, Finish
<1>3. CASE Load(p) \/ Readback(p)
  BY <1>3 DEF TypeOK, Load, Readback, Mismatch, TxnFailed, TxnPassed, Goto, Finish
<1>4. CASE Erase(p) \/ Head(p) \/ Tail(p)
  BY <1>4 DEF TypeOK, Erase, Head, Tail, TxnFailed, Goto, Finish
<1> QED
  BY <1>1, <1>2, <1>3, <1>4 DEF Step

(* A serialised invocation that meets two valid copies and no failing call *)
(* succeeds: no check of main or transaction is there for nothing else.    *)
THEOREM NothingElseFails == ASSUME Exclusive PROVE Spec => []NoSpuriousFailure
<1>1. Known => NoSpuriousFailure
  BY DEF Known, Faithful, Convergeable, NoSpuriousFailure
<1> QED
  BY <1>1, InitKnown, KnownStep, PTL DEF Spec

----------------------------------------------------------------------------
(* rt3bcwrite implements DualCopy *)

LEMMA ViewFacts ==
    ASSUME TypeOK, NEW p \in Proc, NEW b \in Block, SetMedia(cur[p], b),
           Writing(p), pc[p] \in {"erase", "head", "tail"}
    PROVE  Promise!Next
<1>1. PICK v \in Selectors \cup {-1} : View' = [View EXCEPT ![cur[p]] = v]
  <2> DEFINE v == IF b.ok THEN b.sel ELSE -1
  <2>1. v \in Selectors \cup {-1}
    BY DEF Block
  <2>2. View' = [View EXCEPT ![cur[p]] = v]
    BY DEF TypeOK, SetMedia, View
  <2> QED BY <2>1, <2>2
<1>2. cur[p] \in Copy /\ \A c \in Copy : media[c].ok => View[c] = media[c].sel /\ View[c] # -1
  BY SelectorAssumption DEF TypeOK, View, Block
<1>3. CASE cur[p] = "mtd3"
  BY <1>1, <1>2, <1>3 DEF Writing, Promise!Next, Promise!ChangeFirst, Promise!Value, Copy
<1>4. CASE cur[p] = "mtd2"
  <2>1. View["mtd3"] \in {0, 1}
    BY <1>2, <1>4 DEF Writing, Holds, TypeOK, Op, Copy
  <2> QED
    BY <1>1, <1>4, <2>1 DEF Promise!Next, Promise!ChangeSecond, Promise!Value
<1> QED
  BY <1>2, <1>3, <1>4 DEF Copy

(* Every behaviour of serialised invocations, seen through View, is a      *)
(* behaviour of DualCopy.                                                  *)
THEOREM Refinement == ASSUME Exclusive PROVE Spec => ImplementsDualCopy
<1>1. Init => Promise!Init
  BY SelectorAssumption DEF Init, Promise!Init, Promise!Value, View, Copy, Block
<1>2. TypeOK /\ Safe /\ [Next]_vars => [Promise!Next]_View
  <2> SUFFICES ASSUME TypeOK, Safe, [Next]_vars PROVE Promise!Next \/ UNCHANGED View
    OBVIOUS
  <2>1. ASSUME NEW p \in Proc, Erase(p) \/ Head(p) \/ Tail(p) PROVE Promise!Next
    <3>1. PICK b \in Block : SetMedia(cur[p], b)
      <4>1. cur[p] \in Copy /\ \A r \in Rest : [media[cur[p]] EXCEPT !.rest = r] \in Block
        BY DataTyped DEF TypeOK
      <4> QED
        BY <2>1, <4>1, DataTyped DEF Erase, Head, Tail
    <3> QED
      BY <2>1, <3>1, ViewFacts DEF Safe, Erase, Head, Tail
  <2>2. CASE UNCHANGED media
    BY <2>2 DEF View
  <2>3. ASSUME NEW p \in Proc,
               Pre(p) \/ Decide(p) \/ Load(p) \/ Readback(p) \/ Post(p) \/ Confirm(p)
               \/ Done(p) \/ Reap(p) \/ \E o \in Op : Start(p, o)
        PROVE  UNCHANGED media
    BY <2>3 DEF Pre, Decide, Load, Readback, Post, Confirm, Done, Reap, Start, ReadStruct,
                ReadStructRefuses, ReadStructFails, Restart
  <2> QED
    BY <2>1, <2>2, <2>3 DEF Next, Step, PowerCut, Restart, vars
<1> QED
  BY <1>1, <1>2, SafeAlways, PTL DEF Spec, ImplementsDualCopy, Promise!Spec

----------------------------------------------------------------------------
(* Nothing but the flash outlives an invocation: a process that is not     *)
(* there has left no value behind, so that a restart of a board on which   *)
(* nobody runs rt3bcwrite changes nothing.                                 *)

Fresh(p) ==
    /\ op[p] = NoOp /\ cur[p] = "mtd3" /\ sel[p] = [c \in Copy |-> 0] /\ img[p] = Erased
    /\ code[p] = NoCode /\ wrote[p] = {} /\ base[p] = [c \in Copy |-> Erased] /\ p \notin hurt

Forgotten == \A p \in Proc : pc[p] = "idle" => Fresh(p)

LEMMA InitForgotten == Init => Forgotten
  BY DEF Init, Forgotten, Fresh

(* The step of p leaves every other process alone, and p there.            *)
LEMMA OthersForgotten ==
    ASSUME TypeOK, Forgotten, NEW p \in Proc, pc'[p] # "idle" \/ Fresh(p)',
           \A q \in Proc \ {p} :
               /\ pc'[q] = pc[q] /\ op'[q] = op[q] /\ cur'[q] = cur[q] /\ sel'[q] = sel[q]
               /\ img'[q] = img[q] /\ code'[q] = code[q] /\ wrote'[q] = wrote[q]
               /\ base'[q] = base[q] /\ (q \in hurt' <=> q \in hurt)
    PROVE  Forgotten'
  BY DEF Forgotten, Fresh

LEMMA ForgottenStep == TypeOK /\ Forgotten /\ [Next]_vars => Forgotten'
<1> SUFFICES ASSUME TypeOK, Forgotten, [Next]_vars PROVE Forgotten'
  OBVIOUS
<1>1. ASSUME NEW p \in Proc, Pre(p) \/ Post(p) PROVE Forgotten'
  BY <1>1, OthersForgotten
     DEF TypeOK, Pre, Post, ReadStruct, ReadStructRefuses, ReadStructFails, Goto, Finish
<1>2. ASSUME NEW p \in Proc, Decide(p) \/ Confirm(p) PROVE Forgotten'
  BY <1>2, OthersForgotten DEF TypeOK, Decide, Confirm, Goto, Finish
<1>3. ASSUME NEW p \in Proc, Load(p) PROVE Forgotten'
  BY <1>3, OthersForgotten DEF TypeOK, Load, TxnFailed, TxnPassed, Goto, Finish
<1>4. ASSUME NEW p \in Proc, Readback(p) PROVE Forgotten'
  BY <1>4, OthersForgotten DEF TypeOK, Readback, Mismatch, TxnFailed, TxnPassed, Goto, Finish
<1>5. ASSUME NEW p \in Proc, Erase(p) PROVE Forgotten'
  BY <1>5, OthersForgotten DEF TypeOK, Erase, TxnFailed, Goto, Finish
<1>6. ASSUME NEW p \in Proc, Head(p) PROVE Forgotten'
  BY <1>6, OthersForgotten DEF TypeOK, Head, TxnFailed, Goto, Finish
<1>7. ASSUME NEW p \in Proc, Tail(p) PROVE Forgotten'
  BY <1>7, OthersForgotten DEF TypeOK, Tail, TxnFailed, Goto, Finish
<1>8. ASSUME Restart PROVE Forgotten'
  BY <1>8 DEF Restart, Forgotten, Fresh
<1>9. ASSUME NEW p \in Proc, Done(p), ~Restart PROVE Forgotten'
  BY <1>9, OthersForgotten DEF TypeOK, Done, Finish
<1>10. ASSUME NEW p \in Proc, NEW o \in Op, Start(p, o) PROVE Forgotten'
  BY <1>10, OthersForgotten DEF TypeOK, Start, Goto, Finish
<1>11. ASSUME NEW p \in Proc, Reap(p) PROVE Forgotten'
  BY <1>11, OthersForgotten DEF TypeOK, Reap, Goto, Fresh
<1>12. CASE UNCHANGED vars
  BY <1>12 DEF vars, Forgotten, Fresh
<1> QED
  BY <1>1, <1>2, <1>3, <1>4, <1>5, <1>6, <1>7, <1>8, <1>9, <1>10, <1>11, <1>12
  DEF Next, Step, PowerCut

(* Whoever restarts the board, for the writer it is a step of its own.     *)
LEMMA AnyRestart ==
    ASSUME TypeOK, Forgotten, Restart
    PROVE  [Next]_vars
<1>1. CASE \E p \in Proc : pc[p] # "idle"
  BY <1>1 DEF Next, PowerCut
<1>2. CASE \A p \in Proc : pc[p] = "idle"
  <2>1. \A p \in Proc : Fresh(p)
    BY <1>2 DEF Forgotten
  <2>2. pc' = pc /\ op' = op /\ cur' = cur /\ sel' = sel
    BY <1>2, <2>1 DEF TypeOK, Restart, Fresh
  <2>3. img' = img /\ code' = code /\ wrote' = wrote /\ base' = base
    BY <2>1 DEF TypeOK, Restart, Fresh
  <2>4. hurt' = hurt /\ media' = media
    BY <2>1 DEF TypeOK, Restart, Fresh
  <2> QED
    BY <2>2, <2>3, <2>4 DEF vars
<1> QED
  BY <1>1, <1>2

----------------------------------------------------------------------------
(* An invocation only goes forward.  Counted from its end, every step of   *)
(* it is nearer, there is nothing it repeats, and each copy is erased once *)
(* at most, however many invocations overlap.                              *)

StepsLeft(p) ==
    LET half == IF cur[p] = "mtd3" THEN 9 ELSE 4
    IN  CASE pc[p] = "pre" -> IF cur[p] = "mtd3" THEN 17 ELSE 16
          [] pc[p] = "decide" -> 15
          [] pc[p] = "load" -> half + 5
          [] pc[p] = "erase" -> half + 4
          [] pc[p] = "head" -> half + 3
          [] pc[p] = "tail" -> half + 2
          [] pc[p] = "readback" -> half + 1
          [] pc[p] = "post" -> IF cur[p] = "mtd3" THEN 4 ELSE 3
          [] pc[p] = "confirm" -> 2
          [] pc[p] = "done" -> 1
          [] pc[p] \in {"exit", "idle"} -> 0

OnlyForward ==
    /\ [](\A p \in Proc : StepsLeft(p) \in 0..17)
    /\ [][\A p \in Proc :
          /\ Step(p) => StepsLeft(p)' < StepsLeft(p)
          /\ pc[p] # "idle" => StepsLeft(p)' <= StepsLeft(p)
          /\ Erase(p) => cur[p] \notin wrote[p]]_vars

(* The first copy comes first, and what is ahead is untouched.             *)
InOrder(p) ==
    /\ pc[p] \in {"idle", "decide", "pre"} => wrote[p] = {}
    /\ pc[p] \in {"idle", "decide"} => cur[p] = "mtd3"
    /\ pc[p] \in {"load", "erase"} => cur[p] \notin wrote[p]
    /\ pc[p] \in {"load", "erase", "head", "tail", "readback"} /\ cur[p] = "mtd3" => "mtd2" \notin wrote[p]

LEMMA StepsAt ==
    ASSUME NEW p, cur[p] \in Copy
    PROVE  /\ pc[p] = "pre" => StepsLeft(p) = IF cur[p] = "mtd3" THEN 17 ELSE 16
           /\ pc[p] = "decide" => StepsLeft(p) = 15
           /\ pc[p] = "load" => StepsLeft(p) = IF cur[p] = "mtd3" THEN 14 ELSE 9
           /\ pc[p] = "erase" => StepsLeft(p) = IF cur[p] = "mtd3" THEN 13 ELSE 8
           /\ pc[p] = "head" => StepsLeft(p) = IF cur[p] = "mtd3" THEN 12 ELSE 7
           /\ pc[p] = "tail" => StepsLeft(p) = IF cur[p] = "mtd3" THEN 11 ELSE 6
           /\ pc[p] = "readback" => StepsLeft(p) = IF cur[p] = "mtd3" THEN 10 ELSE 5
           /\ pc[p] = "post" => StepsLeft(p) = IF cur[p] = "mtd3" THEN 4 ELSE 3
           /\ pc[p] = "confirm" => StepsLeft(p) = 2
           /\ pc[p] = "done" => StepsLeft(p) = 1
           /\ pc[p] \in {"exit", "idle"} => StepsLeft(p) = 0
<1>1. ASSUME pc[p] = "pre" PROVE StepsLeft(p) = IF cur[p] = "mtd3" THEN 17 ELSE 16
  BY <1>1 DEF StepsLeft
<1>2. ASSUME pc[p] = "decide" PROVE StepsLeft(p) = 15
  BY <1>2 DEF StepsLeft
<1>3. ASSUME pc[p] = "load" PROVE StepsLeft(p) = IF cur[p] = "mtd3" THEN 14 ELSE 9
  BY <1>3 DEF StepsLeft
<1>4. ASSUME pc[p] = "erase" PROVE StepsLeft(p) = IF cur[p] = "mtd3" THEN 13 ELSE 8
  BY <1>4 DEF StepsLeft
<1>5. ASSUME pc[p] = "head" PROVE StepsLeft(p) = IF cur[p] = "mtd3" THEN 12 ELSE 7
  BY <1>5 DEF StepsLeft
<1>6. ASSUME pc[p] = "tail" PROVE StepsLeft(p) = IF cur[p] = "mtd3" THEN 11 ELSE 6
  BY <1>6 DEF StepsLeft
<1>7. ASSUME pc[p] = "readback" PROVE StepsLeft(p) = IF cur[p] = "mtd3" THEN 10 ELSE 5
  BY <1>7 DEF StepsLeft
<1>8. ASSUME pc[p] = "post" PROVE StepsLeft(p) = IF cur[p] = "mtd3" THEN 4 ELSE 3
  BY <1>8 DEF StepsLeft
<1>9. ASSUME pc[p] = "confirm" PROVE StepsLeft(p) = 2
  BY <1>9 DEF StepsLeft
<1>10. ASSUME pc[p] = "done" PROVE StepsLeft(p) = 1
  BY <1>10 DEF StepsLeft
<1>11. ASSUME pc[p] \in {"exit", "idle"} PROVE StepsLeft(p) = 0
  BY <1>11 DEF StepsLeft
<1> QED
  BY <1>1, <1>2, <1>3, <1>4, <1>5, <1>6, <1>7, <1>8, <1>9, <1>10, <1>11

LEMMA StepsTyped ==
    ASSUME TypeOK, NEW p \in Proc
    PROVE  StepsLeft(p) \in 0..17 /\ (pc[p] # "idle" /\ pc[p] # "exit" => StepsLeft(p) > 0)
<1>1. pc[p] \in Stage /\ cur[p] \in Copy
  BY DEF TypeOK
<1> QED
  BY <1>1, StepsAt DEF Stage

Bounded == \A p \in Proc : StepsLeft(p) \in 0..17

LEMMA StepsBound == TypeOK => Bounded
  BY StepsTyped DEF Bounded

LEMMA StepsBoundNext == TypeOK' => Bounded'
  BY StepsBound, PTL

(* The step of p says nothing of the others.                               *)
LEMMA OthersInOrder ==
    ASSUME \A q \in Proc : InOrder(q), NEW p \in Proc, InOrder(p)',
           \A q \in Proc \ {p} : pc'[q] = pc[q] /\ cur'[q] = cur[q] /\ wrote'[q] = wrote[q]
    PROVE  \A q \in Proc : InOrder(q)'
  BY DEF InOrder

Ahead(p) ==
    /\ InOrder(p)' /\ StepsLeft(p)' < StepsLeft(p) /\ StepsLeft(p)' <= StepsLeft(p)
    /\ \A q \in Proc \ {p} : pc'[q] = pc[q] /\ cur'[q] = cur[q] /\ wrote'[q] = wrote[q]

LEMMA StepAhead ==
    ASSUME TypeOK, NEW p \in Proc, InOrder(p), Step(p), ~Restart
    PROVE  Ahead(p)
<1>0. cur[p] \in Copy
  BY DEF TypeOK
<1>1. CASE Pre(p)
  BY <1>0, <1>1 DEF TypeOK, Pre, ReadStruct, ReadStructRefuses, ReadStructFails, Goto, Finish, NextCopy,
     Ahead, InOrder, StepsLeft, Copy
<1>2. CASE Decide(p)
  <2>1. /\ pc[p] = "decide" /\ pc'[p] \in {"exit", "done", "load"} /\ cur' = cur /\ wrote' = wrote
        /\ \A q \in Proc \ {p} : pc'[q] = pc[q]
    BY <1>2 DEF TypeOK, Decide, Goto, Finish
  <2>2. StepsLeft(p)' < StepsLeft(p) /\ StepsLeft(p)' <= StepsLeft(p)
    <3>1. StepsLeft(p) = 15
      BY <2>1 DEF StepsLeft
    <3>2. ASSUME pc'[p] = "exit" PROVE StepsLeft(p)' = 0
      BY <2>1, <3>2 DEF StepsLeft
    <3>3. ASSUME pc'[p] = "done" PROVE StepsLeft(p)' = 1
      BY <2>1, <3>3 DEF StepsLeft
    <3>4. ASSUME pc'[p] = "load" PROVE StepsLeft(p)' = (IF cur[p] = "mtd3" THEN 14 ELSE 9)
      BY <2>1, <3>4 DEF StepsLeft
    <3> QED BY <2>1, <3>1, <3>2, <3>3, <3>4
  <2> QED BY <2>1, <2>2 DEF Ahead, InOrder
<1>3. CASE Load(p)
  BY <1>0, <1>3 DEF TypeOK, Load, TxnFailed, TxnPassed, Goto, Finish, NextCopy, Ahead, InOrder, StepsLeft, Copy
<1>4. CASE Erase(p)
  BY <1>0, <1>4 DEF TypeOK, Erase, TxnFailed, Goto, Finish, Ahead, InOrder, StepsLeft, Copy
<1>5. CASE Head(p)
  BY <1>0, <1>5 DEF TypeOK, Head, TxnFailed, Goto, Finish, Ahead, InOrder, StepsLeft, Copy
<1>6. CASE Tail(p)
  BY <1>0, <1>6 DEF TypeOK, Tail, TxnFailed, Goto, Finish, Ahead, InOrder, StepsLeft, Copy
<1>7. CASE Readback(p)
  BY <1>0, <1>7 DEF TypeOK, Readback, Mismatch, TxnFailed, TxnPassed, Goto, Finish, NextCopy,
     Ahead, InOrder, StepsLeft, Copy
<1>8. CASE Post(p)
  BY <1>0, <1>8 DEF TypeOK, Post, ReadStruct, ReadStructRefuses, ReadStructFails, Goto, Finish, NextCopy,
     Ahead, InOrder, StepsLeft, Copy
<1>9. CASE Confirm(p)
  <2>1. /\ pc[p] = "confirm" /\ pc'[p] \in {"exit", "done"} /\ cur' = cur /\ wrote' = wrote
        /\ \A q \in Proc \ {p} : pc'[q] = pc[q]
    BY <1>9 DEF TypeOK, Confirm, Goto, Finish
  <2>2. StepsLeft(p)' < StepsLeft(p) /\ StepsLeft(p)' <= StepsLeft(p)
    <3>1. StepsLeft(p) = 2
      BY <2>1 DEF StepsLeft
    <3>2. ASSUME pc'[p] = "exit" PROVE StepsLeft(p)' = 0
      BY <2>1, <3>2 DEF StepsLeft
    <3>3. ASSUME pc'[p] = "done" PROVE StepsLeft(p)' = 1
      BY <2>1, <3>3 DEF StepsLeft
    <3> QED BY <2>1, <3>1, <3>2, <3>3
  <2> QED BY <2>1, <2>2 DEF Ahead, InOrder
<1>10. CASE Done(p)
  <2>1. /\ pc[p] = "done" /\ pc'[p] \in {"exit"} /\ cur' = cur /\ wrote' = wrote
        /\ \A q \in Proc \ {p} : pc'[q] = pc[q]
    BY <1>10 DEF TypeOK, Done, Goto, Finish
  <2>2. StepsLeft(p)' < StepsLeft(p) /\ StepsLeft(p)' <= StepsLeft(p)
    <3>1. StepsLeft(p) = 1
      BY <2>1 DEF StepsLeft
    <3>2. ASSUME pc'[p] = "exit" PROVE StepsLeft(p)' = 0
      BY <2>1, <3>2 DEF StepsLeft
    <3> QED BY <2>1, <3>1, <3>2
  <2> QED BY <2>1, <2>2 DEF Ahead, InOrder
<1> QED
  BY <1>1, <1>2, <1>3, <1>4, <1>5, <1>6, <1>7, <1>8, <1>9, <1>10 DEF Step

Ordered == TypeOK /\ \A p \in Proc : InOrder(p)

LEMMA OrderedStep ==
    ASSUME Ordered, [Next]_vars
    PROVE  Ordered'
<1>1. TypeOK'
  BY TypeStep DEF Ordered
<1>2. ASSUME Restart PROVE \A q \in Proc : InOrder(q)'
  BY <1>2 DEF Restart, InOrder
<1>3. ASSUME NEW p \in Proc, Step(p), ~Restart PROVE \A q \in Proc : InOrder(q)'
  BY <1>3, StepAhead, OthersInOrder DEF Ordered, Ahead
<1>4. ASSUME NEW p \in Proc, NEW o \in Op, Start(p, o) PROVE \A q \in Proc : InOrder(q)'
  BY <1>4, OthersInOrder DEF Ordered, TypeOK, Start, Goto, Finish, InOrder
<1>5. ASSUME NEW p \in Proc, Reap(p) PROVE \A q \in Proc : InOrder(q)'
  BY <1>5, OthersInOrder DEF Ordered, TypeOK, Reap, Goto, InOrder
<1>6. CASE UNCHANGED vars
  BY <1>1, <1>6 DEF vars, Ordered, InOrder
<1> QED
  BY <1>1, <1>2, <1>3, <1>4, <1>5, <1>6 DEF Ordered, Next, PowerCut

LEMMA InitOrdered == Init => Ordered
<1>1. Init => TypeOK
  BY InitKnown DEF Known
<1> QED
  BY <1>1 DEF Init, Ordered, InOrder

LEMMA Nearer ==
    ASSUME Ordered, [Next]_vars, NEW p \in Proc
    PROVE  /\ Step(p) => StepsLeft(p)' < StepsLeft(p)
           /\ pc[p] # "idle" => StepsLeft(p)' <= StepsLeft(p)
           /\ Erase(p) => cur[p] \notin wrote[p]
<1>0. StepsLeft(p) \in 0..17 /\ (pc[p] # "idle" /\ pc[p] # "exit" => StepsLeft(p) > 0)
  BY StepsTyped DEF Ordered
<1>1. Step(p) => pc[p] # "idle" /\ pc[p] # "exit"
  BY DEF Step, Pre, Decide, Load, Erase, Head, Tail, Readback, Post, Confirm, Done
<1>2. Erase(p) => cur[p] \notin wrote[p]
  BY DEF Ordered, InOrder, Erase
<1>3. CASE Restart
  <2>1. StepsLeft(p)' = 0
    BY <1>3 DEF Restart, StepsLeft
  <2> QED BY <1>0, <1>1, <1>2, <2>1
<1>4. CASE ~Restart /\ Step(p)
  <2>1. StepsLeft(p)' < StepsLeft(p) /\ StepsLeft(p)' <= StepsLeft(p)
    BY <1>4, StepAhead DEF Ordered, Ahead
  <2> QED BY <1>2, <2>1
<1>5. CASE ~Restart /\ ~Step(p)
  <2>1. CASE pc'[p] = pc[p] /\ cur'[p] = cur[p]
    <3>1. StepsLeft(p)' = StepsLeft(p)
      BY <2>1 DEF StepsLeft
    <3> QED BY <1>0, <1>2, <1>5, <3>1
  <2>2. CASE pc[p] = "idle"
    BY <1>1, <1>2, <1>5, <2>2
  <2>3. CASE pc[p] = "exit" /\ pc'[p] = "idle"
    BY <1>0, <1>2, <1>5, <2>3 DEF StepsLeft
  <2>4. ASSUME NEW q \in Proc \ {p}, Step(q) PROVE pc'[p] = pc[p] /\ cur'[p] = cur[p]
    BY <1>5, <2>4, StepAhead DEF Ordered, Ahead
  <2>5. ASSUME NEW q \in Proc \ {p}, Reap(q) \/ \E o \in Op : Start(q, o)
        PROVE  pc'[p] = pc[p] /\ cur'[p] = cur[p]
    BY <2>5 DEF Ordered, TypeOK, Reap, Start, Goto, Finish
  <2>6. ASSUME Reap(p) \/ \E o \in Op : Start(p, o)
        PROVE  pc[p] = "idle" \/ (pc[p] = "exit" /\ pc'[p] = "idle")
    BY <2>6 DEF Ordered, TypeOK, Reap, Start, Goto
  <2> QED
    BY <1>5, <2>1, <2>2, <2>3, <2>4, <2>5, <2>6 DEF Next, PowerCut, vars
<1> QED
  BY <1>3, <1>4, <1>5

(* rt3bcwrite ends after 17 steps at most, whatever fails: transaction() is *)
(* run once for each copy, and neither a mismatch nor an error leads back. *)
THEOREM NeverRepeats == Spec => OnlyForward
<1>1. Init => Ordered
  BY InitOrdered
<1>2. Ordered /\ [Next]_vars => Ordered'
  BY OrderedStep
<1>3. Ordered /\ [Next]_vars =>
        [\A p \in Proc :
          /\ Step(p) => StepsLeft(p)' < StepsLeft(p)
          /\ pc[p] # "idle" => StepsLeft(p)' <= StepsLeft(p)
          /\ Erase(p) => cur[p] \notin wrote[p]]_vars
  BY Nearer
<1>4. Spec => [](\A p \in Proc : StepsLeft(p) \in 0..17)
  <2>1. TypeOK => \A p \in Proc : StepsLeft(p) \in 0..17
    BY StepsTyped
  <2> QED
    BY <2>1, TypeCorrect, PTL
<1> QED
  BY <1>1, <1>2, <1>3, <1>4, PTL DEF Spec, OnlyForward

(* A step that does not restart the board leaves the other invocations     *)
(* where they are.                                                         *)
LEMMA LeavesOthers ==
    ASSUME Ordered, NEW p \in Proc, Step(p), ~op[p].reboot
    PROVE  /\ StepsLeft(p)' < StepsLeft(p)
           /\ \A q \in Proc \ {p} : pc'[q] = pc[q] /\ cur'[q] = cur[q]
<1>1. pc'[p] # "idle"
  BY Persists DEF Ordered
<1>2. ~Restart
  BY <1>1 DEF Restart
<1> QED
  BY <1>2, StepAhead DEF Ordered, Ahead

=============================================================================
