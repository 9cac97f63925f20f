------------------------- MODULE WifiDefaultsProofs -------------------------
(* What a script holding the lock knows of the section it is changing, and *)
(* the properties of WifiDefaults that follow from it.                     *)
EXTENDS WifiDefaults, TLAPS

Complete(s) == \A r \in Radio :
    s[r] # None => (s[r].policy = "default" => s[r].net \in {"default", "own"})

Changing == {"enable", "secure", "mark", "preserve"}

(* The section under change has no marker; unless the operator interferes  *)
(* it keeps the stock network until Secure and stays off until Enable, and *)
(* it is neither stock nor half made at Mark.                              *)
Holds(p) ==
    pc[p] \in Changing =>
        /\ live[cur[p]] # None
        /\ live[cur[p]].policy = "none"
        /\ pc[p] \in {"enable", "secure"} /\ ~Concurrent => live[cur[p]].net = "stock"
        /\ pc[p] = "enable" /\ ~Concurrent => live[cur[p]].off
        /\ pc[p] = "mark" => live[cur[p]].net \in {"default", "own"}

(* While detection makes a section, nobody takes it for the template: a    *)
(* script that looks at it marks it as the operator's.                     *)
Grows(r) ==
    pc[r] \in Making =>
        /\ live[r] # None
        /\ live[r].policy # "default"
        /\ live[r].net \in {"part", "own"}
        /\ ~Concurrent => live[r].net = "part"
        /\ \A p \in Proc : pc[p] \in {"enable", "secure", "mark"} => cur[p] # r

Growing == \A r \in Radio : Grows(r)

IInv == TypeOK /\ Complete(live) /\ Complete(flash) /\ (\A p \in Proc : Holds(p)) /\ Growing

LEMMA InitIInv == Init => IInv
  BY NoneAssumption DEF Init, IInv, TypeOK, Complete, Holds, Sections, Stage, Working, Making, Proc,
     Radio, Defaults, Changing, Growing, Grows

----------------------------------------------------------------------------
(* Types *)

(* A script that stays out of the locked part keeps who has the lock.      *)
LEMMA TypeOutside ==
    ASSUME TypeOK, NEW p \in Proc,
           \/ p \in Radio /\ (Add(p) \/ Detect(p) \/ Publish(p))
           \/ p = Defaults /\ (Boot \/ BootCommit)
           \/ Lock(p)
    PROVE  TypeOK'
<1> USE NoneAssumption DEF TypeOK, Goto, Sections, Stage, Working, Making
<1>1. CASE p \in Radio /\ Add(p)
  BY <1>1 DEF Add, Proc
<1>2. CASE p \in Radio /\ Detect(p)
  <2>1. Bare \in Section BY DEF Bare, Section
  <2> QED BY <1>2, <2>1 DEF Detect, Proc
<1>3. CASE p \in Radio /\ Publish(p)
  BY <1>3 DEF Publish, Proc
<1>4. CASE p = Defaults /\ Boot
  BY <1>4 DEF Boot, Proc
<1>5. CASE p = Defaults /\ BootCommit
  BY <1>5 DEF BootCommit, Proc
<1>6. CASE Lock(p)
  BY <1>6 DEF Lock
<1> QED BY <1>1, <1>2, <1>3, <1>4, <1>5, <1>6

LEMMA TypeMaking ==
    ASSUME TypeOK, Growing, NEW r \in Radio, Interface(r) \/ Template(r)
    PROVE  TypeOK'
<1>1. pc[r] \in Making /\ live[r] \in Section
  BY DEF Interface, Template, Growing, Grows, Making, TypeOK, Sections
<1>2. [live[r] EXCEPT !.ap = TRUE] \in Section /\ [live[r] EXCEPT !.net = "stock"] \in Section
  BY <1>1 DEF Section
<1>3. r \in Proc
  BY DEF Proc
<1>4. live' \in Sections
  BY <1>1, <1>2 DEF Interface, Template, TypeOK, Sections
<1>5. pc' \in [Proc -> Stage]
  BY DEF Interface, Template, TypeOK, Goto, Stage, Making
<1>6. \A p \in Proc : pc'[p] \in Working <=> pc[p] \in Working
  BY <1>1, <1>3 DEF Interface, Template, TypeOK, Goto, Working, Making
<1>7. UNCHANGED <<phy, flash, lock, cur, firstboot, waived>>
  BY DEF Interface, Template
<1> QED BY <1>4, <1>5, <1>6, <1>7 DEF TypeOK

(* Where a script goes after a radio.                                      *)
LEMMA AfterType ==
    ASSUME TypeOK, NEW p \in Proc, After(p), pc[p] \in Working
    PROVE  /\ pc' \in [Proc -> Stage]
           /\ cur' \in [Proc -> Radio]
           /\ \A q \in Proc : pc'[q] \in Working <=> pc[q] \in Working
           /\ pc'[p] \in {"radio", "commit"}
           /\ \A q \in Proc \ {p} : pc'[q] = pc[q] /\ cur'[q] = cur[q]
  BY DEF TypeOK, After, Goto, Stage, Working, Radio

LEMMA TypeInside ==
    ASSUME TypeOK, NEW p \in Proc, live[cur[p]] # None \/ pc[p] \notin Changing,
           \/ Look(p) \/ Enable(p) \/ Secure(p) \/ Mark(p) \/ Preserve(p)
           \/ Commit(p) \/ Exit(p) \/ Abort(p)
    PROVE  TypeOK'
<1> USE NoneAssumption DEF TypeOK, Goto, Sections, Stage, Working
<1>1. CASE Look(p)
  <2>0. waived' \subseteq Radio
    BY <1>1 DEF Look
  <2>1. CASE After(p)
    BY <1>1, <2>0, <2>1, AfterType DEF Look
  <2>2. CASE Goto(p, IF Untouched(live[cur[p]]) THEN "enable" ELSE "preserve") /\ UNCHANGED cur
    BY <1>1, <2>0, <2>2 DEF Look
  <2> QED BY <1>1, <2>1, <2>2 DEF Look
<1>2. CASE Enable(p)
  <2>1. [live[cur[p]] EXCEPT !.off = FALSE] \in Section
    BY <1>2 DEF Section, Enable, Changing
  <2> QED BY <1>2, <2>1 DEF Enable
<1>3. CASE Secure(p)
  <2>1. [live[cur[p]] EXCEPT !.ap = TRUE, !.net = "default"] \in Section
    BY <1>3 DEF Section, Secure, Changing
  <2> QED BY <1>3, <2>1 DEF Secure
<1>4. CASE Mark(p)
  <2>1. [live[cur[p]] EXCEPT !.policy = "default"] \in Section
    BY <1>4 DEF Section, Mark, Changing
  <2> QED BY <1>4, <2>1, AfterType DEF Mark
<1>5. CASE Preserve(p)
  <2>1. [live[cur[p]] EXCEPT !.policy = "preserve"] \in Section
    BY <1>5 DEF Section, Preserve, Changing
  <2> QED BY <1>5, <2>1, AfterType DEF Preserve
<1>6. CASE Commit(p)
  BY <1>6 DEF Commit
<1>7. CASE Exit(p)
  <2>1. Ended(p) \in Stage \ Working BY DEF Ended
  <2>2. firstboot' \in BOOLEAN BY <1>7 DEF Exit
  <2>3. "2g" \in Radio BY DEF Radio
  <2> QED BY <1>7, <2>1, <2>2, <2>3 DEF Exit
<1>8. CASE Abort(p)
  BY <1>8 DEF Abort
<1> QED BY <1>1, <1>2, <1>3, <1>4, <1>5, <1>6, <1>7, <1>8

LEMMA OperatorSection ==
    ASSUME TypeOK, NEW w \in Wishes, Operator(w)
    PROVE  /\ w.radio \in Radio
           /\ live[w.radio] \in Section /\ live[w.radio] # None
           /\ live'[w.radio] \in Section /\ live'[w.radio] # None
           /\ live' \in Sections
           /\ flash' = live'
           /\ live'[w.radio].policy = live[w.radio].policy \/ live'[w.radio].policy = "none"
           /\ live'[w.radio].policy = live[w.radio].policy \/ w.radio \in waived'
           /\ live'[w.radio].net = live[w.radio].net \/ live'[w.radio].net = "own"
           /\ \A q \in Radio \ {w.radio} : live'[q] = live[q]
<1>1. w \in Wish
  BY WishesAssumption
<1>2. w.radio \in Radio /\ w.off \in BOOLEAN /\ w.ap \in BOOLEAN
  BY <1>1 DEF Wish
<1>3. live[w.radio] \in Section /\ live[w.radio] # None
  BY <1>2 DEF Operator, TypeOK, Sections
<1>4. Saved(live[w.radio], w) \in Section
  BY <1>2, <1>3 DEF Saved, Section
<1>5. live' = [live EXCEPT ![w.radio] = Saved(live[w.radio], w)] /\ flash' = live'
  BY DEF Operator
<1>6. live'[w.radio] = Saved(live[w.radio], w)
  BY <1>2, <1>5 DEF TypeOK, Sections
<1>7. w.kept \/ w.radio \in waived'
  BY DEF Operator
<1>8. /\ live'[w.radio].net = (IF w.own THEN "own" ELSE live[w.radio].net)
      /\ live'[w.radio].policy = (IF w.kept THEN live[w.radio].policy ELSE "none")
  BY <1>6 DEF Saved
<1>9. live' \in Sections /\ \A q \in Radio \ {w.radio} : live'[q] = live[q]
  BY <1>2, <1>4, <1>5 DEF TypeOK, Sections
<1> QED BY <1>2, <1>3, <1>4, <1>5, <1>6, <1>7, <1>8, <1>9, NoneAssumption

LEMMA TypeStep == ASSUME IInv, [Next]_vars PROVE TypeOK'
<1> USE DEF IInv
<1>1. ASSUME NEW p \in Proc, Step(p) \/ Abort(p) PROVE TypeOK'
  <2>1. live[cur[p]] # None \/ pc[p] \notin Changing BY DEF Holds
  <2> QED BY <1>1, <2>1, TypeInside, TypeOutside, TypeMaking DEF Step
<1>2. ASSUME NEW r \in Radio, Add(r) PROVE TypeOK'
  BY <1>2, TypeOutside DEF Proc
<1>3. ASSUME NEW w \in Wishes, Operator(w) PROVE TypeOK'
  <2>1. UNCHANGED <<phy, lock, pc, cur, firstboot>> BY <1>3 DEF Operator
  <2>2. waived' \subseteq Radio BY <1>3, OperatorSection DEF Operator, TypeOK
  <2> QED BY <1>3, <2>1, <2>2, OperatorSection DEF TypeOK
<1>4. CASE PowerCut
  BY <1>4, NoneAssumption DEF PowerCut, TypeOK, Stage, Working, Radio
<1>5. CASE UNCHANGED vars
  BY <1>5 DEF vars, TypeOK
<1> QED BY <1>1, <1>2, <1>3, <1>4, <1>5 DEF Next

----------------------------------------------------------------------------
(* What each step does to a section                                        *)

(* Only the holder of the lock is changing a section.                      *)
LEMMA Alone ==
    ASSUME TypeOK, NEW p \in Proc, NEW q \in Proc, pc[p] \in Working, q # p
    PROVE  pc[q] \notin Changing
  BY NoneAssumption DEF TypeOK, Working, Changing

(* A script's step leaves a section, begins it or adds to it in the making,*)
(* or changes the one it holds in the fields of that step.                 *)
LEMMA ScriptEffect ==
    ASSUME IInv, NEW p \in Proc, Step(p) \/ Abort(p), NEW r \in Radio
    PROVE  \/ live'[r] = live[r]
           \/ live[r] = None /\ live'[r] = Bare
           \/ r = p /\ pc[r] = "interface" /\ live'[r] = [live[r] EXCEPT !.ap = TRUE]
           \/ r = p /\ pc[r] = "template" /\ live'[r] = [live[r] EXCEPT !.net = "stock"]
           \/ /\ r = cur[p] /\ pc[p] \in Changing
              /\ \/ pc[p] = "enable" /\ live'[r] = [live[r] EXCEPT !.off = FALSE]
                 \/ pc[p] = "secure" /\ live'[r] = [live[r] EXCEPT !.ap = TRUE, !.net = "default"]
                 \/ pc[p] = "mark" /\ live'[r] = [live[r] EXCEPT !.policy = "default"]
                 \/ pc[p] = "preserve" /\ live'[r] = [live[r] EXCEPT !.policy = "preserve"]
<1> USE DEF IInv, TypeOK, Sections, Changing
<1>1. CASE Lock(p) \/ Look(p) \/ Commit(p) \/ Exit(p) \/ Abort(p)
  BY <1>1 DEF Lock, Look, Commit, Exit, Abort
<1>2. CASE Enable(p)
  BY <1>2 DEF Enable
<1>3. CASE Secure(p)
  BY <1>3 DEF Secure
<1>4. CASE Mark(p)
  BY <1>4 DEF Mark
<1>5. CASE Preserve(p)
  BY <1>5 DEF Preserve
<1>6. CASE p = Defaults /\ (Boot \/ BootCommit)
  BY <1>6 DEF Boot, BootCommit
<1>7. CASE p \in Radio /\ (Detect(p) \/ Publish(p))
  BY <1>7 DEF Detect, Publish
<1>8. CASE p \in Radio /\ Interface(p)
  BY <1>8 DEF Interface
<1>9. CASE p \in Radio /\ Template(p)
  BY <1>9 DEF Template
<1> QED BY <1>1, <1>2, <1>3, <1>4, <1>5, <1>6, <1>7, <1>8, <1>9 DEF Step

LEMMA ScriptComplete ==
    ASSUME IInv, NEW p \in Proc, Step(p) \/ Abort(p)
    PROVE  Complete(live')
<1> SUFFICES ASSUME NEW r \in Radio, live'[r] # None, live'[r].policy = "default"
             PROVE  live'[r].net \in {"default", "own"}
  BY DEF Complete
<1>1. CASE live'[r] = live[r]
  BY <1>1 DEF IInv, Complete
<1>2. CASE live[r] = None /\ live'[r] = Bare
  BY <1>2 DEF Bare
<1>4. CASE \/ pc[r] = "interface" /\ live'[r] = [live[r] EXCEPT !.ap = TRUE]
           \/ pc[r] = "template" /\ live'[r] = [live[r] EXCEPT !.net = "stock"]
  <2>1. live[r] \in Section /\ live[r].policy # "default"
    BY <1>4 DEF IInv, TypeOK, Sections, Growing, Grows, Making
  <2>2. live'[r].policy = live[r].policy
    BY <1>4, <2>1 DEF Section
  <2> QED BY <2>1, <2>2
<1>3. CASE r = cur[p] /\ pc[p] \in Changing
  <2>1. /\ live[r] \in Section /\ live[r].policy = "none"
        /\ pc[p] = "mark" => live[r].net \in {"default", "own"}
    BY <1>3 DEF IInv, TypeOK, Sections, Holds, Changing
  <2>2. CASE \/ live'[r] = [live[r] EXCEPT !.off = FALSE]
             \/ live'[r] = [live[r] EXCEPT !.ap = TRUE, !.net = "default"]
    BY <2>1, <2>2 DEF Section
  <2>3. CASE live'[r] = [live[r] EXCEPT !.policy = "preserve"]
    BY <2>1, <2>3 DEF Section
  <2>4. CASE pc[p] = "mark" /\ live'[r] = [live[r] EXCEPT !.policy = "default"]
    BY <2>1, <2>4 DEF Section
  <2> QED BY <1>1, <1>2, <1>4, <2>2, <2>3, <2>4, ScriptEffect
<1> QED BY <1>1, <1>2, <1>3, <1>4, ScriptEffect

LEMMA CompleteStep == ASSUME IInv, [Next]_vars PROVE Complete(live') /\ Complete(flash')
<1> USE DEF IInv
<1>1. ASSUME NEW p \in Proc, Step(p) \/ Abort(p) PROVE Complete(live') /\ Complete(flash')
  <2>1. flash' = live \/ flash' = flash
    BY <1>1 DEF Step, Lock, Look, Enable, Secure, Mark, Preserve, Commit, Exit, Abort,
                Boot, BootCommit, Detect, Interface, Template, Publish
  <2> QED BY <1>1, <2>1, ScriptComplete
<1>2. ASSUME NEW r \in Radio, Add(r) PROVE Complete(live') /\ Complete(flash')
  BY <1>2 DEF Add
<1>3. ASSUME NEW w \in Wishes, Operator(w) PROVE Complete(live') /\ Complete(flash')
  <2>1. flash' = live' BY <1>3 DEF Operator
  <2>2. Complete(live') BY <1>3, <2>1, OperatorSection DEF Complete
  <2> QED BY <2>1, <2>2
<1>4. CASE PowerCut
  BY <1>4 DEF PowerCut
<1>5. CASE UNCHANGED vars
  BY <1>5 DEF vars
<1> QED BY <1>1, <1>2, <1>3, <1>4, <1>5 DEF Next

LEMMA HoldsStep ==
    ASSUME IInv, NEW p \in Proc, Step(p) \/ Abort(p), NEW q \in Proc
    PROVE  Holds(q)'
<1> USE DEF IInv, TypeOK, Goto
<1>1. CASE q # p
  <2>1. pc'[q] = pc[q]
    BY <1>1 DEF Step, Lock, Look, Enable, Secure, Mark, Preserve, Commit, Exit, Abort,
                Boot, BootCommit, Detect, Interface, Template, Publish, After
  <2>2. CASE pc[p] \in Working
    BY <1>1, <2>1, <2>2, Alone DEF Holds
  <2>3. CASE pc[p] \notin Working
    <3>1. cur' = cur
      BY <2>3 DEF Step, Lock, Look, Enable, Secure, Mark, Preserve, Commit, Exit, Abort,
                  Boot, BootCommit, Detect, Interface, Template, Publish, Working
    <3> DEFINE s == live[cur[q]]
    <3>2. SUFFICES ASSUME pc[q] \in Changing PROVE Holds(q)'
      BY <2>1 DEF Holds
    <3>3. s \in Section /\ s # None /\ cur[q] \in Radio
      BY <3>2 DEF Holds, Sections
    <3>4. \/ live'[cur[q]] = s
          \/ live'[cur[q]] = [s EXCEPT !.ap = TRUE]
          \/ cur[q] = p /\ pc[p] \in Making /\ live'[cur[q]] = [s EXCEPT !.net = "stock"]
      <4>1. pc[p] \notin Changing BY <2>3 DEF Working, Changing
      <4> QED BY <3>3, <4>1, ScriptEffect DEF Making
    <3>5. CASE live'[cur[q]] = s
      BY <2>1, <3>1, <3>5 DEF Holds
    <3>6. CASE live'[cur[q]] = [s EXCEPT !.ap = TRUE]
      <4>1. live'[cur[q]] \in Section
        BY <3>3, <3>6 DEF Section
      <4>2. /\ live'[cur[q]].policy = s.policy /\ live'[cur[q]].net = s.net
            /\ live'[cur[q]].off = s.off
        BY <3>3, <3>6 DEF Section
      <4> QED BY <2>1, <3>1, <4>1, <4>2, NoneAssumption DEF Holds
    <3>7. CASE cur[q] = p /\ pc[p] \in Making /\ live'[cur[q]] = [s EXCEPT !.net = "stock"]
      <4>1. live'[cur[q]] \in Section
        BY <3>3, <3>7 DEF Section
      <4>2. live'[cur[q]].policy = s.policy
        BY <3>3, <3>7 DEF Section
      <4>3. pc[q] = "preserve"
        BY <3>2, <3>3, <3>7 DEF Growing, Grows, Changing
      <4> QED BY <2>1, <3>1, <4>1, <4>2, <4>3, NoneAssumption DEF Holds
    <3> QED BY <3>4, <3>5, <3>6, <3>7
  <2> QED BY <2>2, <2>3
<1>2. CASE q = p
  <2>1. CASE pc'[p] \notin Changing
    BY <1>2, <2>1 DEF Holds
  <2>2. CASE pc'[p] \in Changing
    <3>1. CASE Look(p)
      <4>1. ~After(p)
        BY <2>2 DEF After, Changing
      <4>2. /\ live[cur[p]] # None /\ live[cur[p]].policy = "none"
            /\ pc'[p] = IF Untouched(live[cur[p]]) THEN "enable" ELSE "preserve"
            /\ UNCHANGED <<cur, live>>
        BY <2>2, <3>1, <4>1 DEF Look
      <4> QED BY <1>2, <4>2 DEF Holds, Untouched
    <3>2. CASE Enable(p)
      <4>1. live[cur[p]] \in Section /\ cur[p] \in Radio
        BY <3>2 DEF Holds, Enable, Sections, Changing
      <4>2. live'[cur[p]] = [live[cur[p]] EXCEPT !.off = FALSE] /\ cur' = cur /\ pc'[p] = "secure"
        BY <3>2, <4>1 DEF Enable, Sections
      <4>3. live'[cur[p]] \in Section BY <4>1, <4>2 DEF Section
      <4>4. live'[cur[p]].policy = live[cur[p]].policy /\ live'[cur[p]].net = live[cur[p]].net
        BY <4>1, <4>2 DEF Section
      <4> QED BY <1>2, <3>2, <4>2, <4>3, <4>4, NoneAssumption DEF Holds, Enable, Changing
    <3>3. CASE Secure(p)
      <4>1. live[cur[p]] \in Section /\ cur[p] \in Radio
        BY <3>3 DEF Holds, Secure, Sections, Changing
      <4>2. /\ live'[cur[p]] = [live[cur[p]] EXCEPT !.ap = TRUE, !.net = "default"]
            /\ cur' = cur /\ pc'[p] = "mark"
        BY <3>3, <4>1 DEF Secure, Sections
      <4>3. live'[cur[p]] \in Section BY <4>1, <4>2 DEF Section
      <4>4. live'[cur[p]].policy = live[cur[p]].policy /\ live'[cur[p]].net = "default"
        BY <4>1, <4>2 DEF Section
      <4> QED BY <1>2, <3>3, <4>2, <4>3, <4>4, NoneAssumption DEF Holds, Secure, Changing
    <3>4. ~(\/ Lock(p) \/ Mark(p) \/ Preserve(p) \/ Commit(p) \/ Exit(p) \/ Abort(p)
            \/ p = Defaults /\ (Boot \/ BootCommit)
            \/ p \in Radio /\ (Detect(p) \/ Interface(p) \/ Template(p) \/ Publish(p)))
      BY <2>2 DEF Lock, Mark, Preserve, Commit, Exit, Abort, Boot, BootCommit, Detect, Interface, Template, Publish,
                  After, Ended, Changing
    <3> QED BY <3>1, <3>2, <3>3, <3>4 DEF Step
  <2> QED BY <2>1, <2>2
<1> QED BY <1>1, <1>2

LEMMA HoldsNext == ASSUME IInv, [Next]_vars, NEW q \in Proc PROVE Holds(q)'
<1> USE DEF IInv
<1>1. ASSUME NEW p \in Proc, Step(p) \/ Abort(p) PROVE Holds(q)'
  BY <1>1, HoldsStep
<1>2. ASSUME NEW r \in Radio, Add(r) PROVE Holds(q)'
  <2>1. pc[r] \notin Changing /\ pc'[r] \notin Changing
    BY <1>2 DEF Add, Goto, Changing, TypeOK, Proc
  <2>2. q # r => pc'[q] = pc[q]
    BY <1>2 DEF Add, Goto, TypeOK, Proc
  <2> QED BY <1>2, <2>1, <2>2 DEF Add, Holds
<1>3. ASSUME NEW w \in Wishes, Operator(w) PROVE Holds(q)'
  <2>1. UNCHANGED <<pc, cur, lock>> BY <1>3 DEF Operator
  <2>2. CASE pc[q] \notin Changing
    BY <2>1, <2>2 DEF Holds
  <2>3. CASE pc[q] \in Changing
    <3>1. Concurrent
      BY <1>3, <2>3, NoneAssumption DEF Operator, Quiet, TypeOK, Changing, Working
    <3>2. cur[q] \in Radio BY DEF TypeOK
    <3>3. CASE cur[q] = w.radio
      BY <1>3, <2>1, <2>3, <3>1, <3>3, OperatorSection DEF Holds
    <3>4. CASE cur[q] # w.radio
      <4>1. live'[cur[q]] = live[cur[q]] BY <1>3, <3>2, <3>4, OperatorSection
      <4> QED BY <2>1, <4>1 DEF Holds
    <3> QED BY <3>3, <3>4
  <2> QED BY <2>2, <2>3
<1>4. CASE PowerCut
  BY <1>4 DEF PowerCut, Holds, Changing
<1>5. CASE UNCHANGED vars
  BY <1>5 DEF vars, Holds
<1> QED BY <1>1, <1>2, <1>3, <1>4, <1>5 DEF Next

LEMMA GrowsOwn ==
    ASSUME IInv, NEW r \in Radio, Step(r) \/ Abort(r)
    PROVE  Grows(r)'
<1> USE DEF IInv, TypeOK, Goto
<1>0. r \in Proc
  BY DEF Proc
<1>1. SUFFICES ASSUME pc'[r] \in Making PROVE Grows(r)'
  BY DEF Grows
<1>2. \/ Detect(r) /\ live[r] = None /\ live' = [live EXCEPT ![r] = Bare] /\ pc'[r] = "interface"
      \/ Interface(r)
  BY <1>0, <1>1 DEF Step, Lock, Look, Enable, Secure, Mark, Preserve, Commit, Exit, Abort,
              Boot, BootCommit, Detect, Interface, Template, Publish, After, Ended, Making, Radio, Defaults
<1>3. CASE Detect(r) /\ live[r] = None /\ live' = [live EXCEPT ![r] = Bare] /\ pc'[r] = "interface"
  <2>1. live'[r] = Bare /\ Bare \in Section
    BY <1>3 DEF Sections, Bare, Section
  <2>2. \A p \in Proc : pc[p] \in Changing => cur[p] # r
    BY <1>3 DEF Holds
  <2>3. cur' = cur /\ \A p \in Proc : p # r => pc'[p] = pc[p]
    BY <1>3 DEF Detect
  <2>4. \A p \in Proc : pc'[p] \in {"enable", "secure", "mark"} => cur'[p] # r
    BY <1>3, <2>2, <2>3 DEF Changing
  <2>5. Bare # None /\ Bare.policy = "none" /\ Bare.net = "part"
    BY <2>1, NoneAssumption DEF Bare
  <2> QED BY <2>1, <2>4, <2>5 DEF Grows
<1>4. CASE Interface(r)
  <2>1. /\ live[r] \in Section /\ live[r].policy # "default" /\ live[r].net \in {"part", "own"}
        /\ ~Concurrent => live[r].net = "part"
        /\ \A p \in Proc : pc[p] \in {"enable", "secure", "mark"} => cur[p] # r
    BY <1>4 DEF Interface, Growing, Grows, Making, Sections
  <2>2. live'[r] = [live[r] EXCEPT !.ap = TRUE] /\ pc'[r] = "template" /\ cur' = cur
    BY <1>0, <1>4 DEF Interface, Sections
  <2>3. live'[r] \in Section /\ live'[r].policy = live[r].policy /\ live'[r].net = live[r].net
    BY <2>1, <2>2 DEF Section
  <2>4. \A p \in Proc : p # r => pc'[p] = pc[p]
    BY <1>4 DEF Interface
  <2> QED BY <2>1, <2>2, <2>3, <2>4, NoneAssumption DEF Grows
<1> QED BY <1>2, <1>3, <1>4

(* The other scripts leave alone what is being made, or keep it as it is.  *)
LEMMA GrowsOther ==
    ASSUME IInv, NEW r \in Radio, NEW p \in Proc, p # r, Step(p) \/ Abort(p)
    PROVE  Grows(r)'
<1> USE DEF IInv, TypeOK, Goto
<1>1. pc'[r] = pc[r] /\ r \in Proc
  BY DEF Step, Lock, Look, Enable, Secure, Mark, Preserve, Commit, Exit, Abort,
         Boot, BootCommit, Detect, Interface, Template, Publish, After, Proc
<1>2. SUFFICES ASSUME pc[r] \in Making PROVE Grows(r)'
  BY <1>1 DEF Grows
<1>3. /\ live[r] \in Section /\ live[r] # None
      /\ live[r].policy # "default" /\ live[r].net \in {"part", "own"}
      /\ ~Concurrent => live[r].net = "part"
      /\ \A q \in Proc : pc[q] \in {"enable", "secure", "mark"} => cur[q] # r
  BY <1>2 DEF Growing, Grows, Sections
<1>4. live'[r] = live[r] \/ live'[r] = [live[r] EXCEPT !.policy = "preserve"]
  BY <1>3, ScriptEffect DEF Changing
<1>5. /\ live'[r] \in Section /\ live'[r].net = live[r].net
      /\ live'[r].policy # "default"
  BY <1>3, <1>4 DEF Section
<1>6. \A q \in Proc : q # p => pc'[q] = pc[q] /\ cur'[q] = cur[q]
  BY DEF Step, Lock, Look, Enable, Secure, Mark, Preserve, Commit, Exit, Abort,
         Boot, BootCommit, Detect, Interface, Template, Publish, After
<1>7. pc'[p] \in {"enable", "secure", "mark"} => cur'[p] # r
  <2>1. CASE Look(p)
    BY <1>3, <2>1 DEF Look, After, Untouched
  <2>2. CASE Enable(p) \/ Secure(p)
    BY <1>3, <2>2 DEF Enable, Secure
  <2>3. CASE ~(Look(p) \/ Enable(p) \/ Secure(p))
    BY <1>3, <2>3 DEF Step, Lock, Mark, Preserve, Commit, Exit, Abort,
           Boot, BootCommit, Detect, Interface, Template, Publish, After, Ended
  <2> QED BY <2>1, <2>2, <2>3
<1> QED BY <1>1, <1>3, <1>5, <1>6, <1>7, NoneAssumption DEF Grows

LEMMA GrowsNext == ASSUME IInv, [Next]_vars, NEW r \in Radio PROVE Grows(r)'
<1> USE DEF IInv, TypeOK, Goto
<1>1. ASSUME NEW p \in Proc, Step(p) \/ Abort(p) PROVE Grows(r)'
  BY <1>1, GrowsOwn, GrowsOther
<1>2. ASSUME NEW q \in Radio, Add(q) PROVE Grows(r)'
  <2>1. pc'[q] = "detect" /\ cur' = cur /\ live' = live
    BY <1>2 DEF Add, Proc
  <2>2. \A p \in Proc : p # q => pc'[p] = pc[p]
    BY <1>2 DEF Add, Proc
  <2> QED BY <2>1, <2>2 DEF Growing, Grows, Making, Proc
<1>3. ASSUME NEW w \in Wishes, Operator(w) PROVE Grows(r)'
  <2>1. UNCHANGED <<pc, cur, lock>> BY <1>3 DEF Operator
  <2>2. CASE w.radio # r
    <3>1. live'[r] = live[r]
      BY <1>3, <2>2, OperatorSection
    <3> QED BY <2>1, <3>1 DEF Growing, Grows
  <2>3. CASE w.radio = r /\ pc[r] \in Making
    <3>1. Concurrent
      BY <1>3, <2>3 DEF Operator, Quiet
    <3> QED BY <1>3, <2>1, <2>3, <3>1, OperatorSection DEF Growing, Grows
  <2>4. CASE pc[r] \notin Making
    BY <2>1, <2>4 DEF Grows
  <2> QED BY <2>2, <2>3, <2>4
<1>4. CASE PowerCut
  BY <1>4 DEF PowerCut, Grows, Making, Proc
<1>5. CASE UNCHANGED vars
  BY <1>5 DEF vars, Growing, Grows
<1> QED BY <1>1, <1>2, <1>3, <1>4, <1>5 DEF Next

LEMMA Inductive == Spec => []IInv
<1>1. IInv /\ [Next]_vars => IInv'
  <2> SUFFICES ASSUME IInv, [Next]_vars PROVE IInv' OBVIOUS
  <2>1. TypeOK' BY TypeStep
  <2>2. Complete(live)' /\ Complete(flash)' BY CompleteStep
  <2>3. (\A p \in Proc : Holds(p))' BY HoldsNext
  <2>4. Growing' BY GrowsNext DEF Growing
  <2> QED BY <2>1, <2>2, <2>3, <2>4 DEF IInv
<1> QED BY InitIInv, <1>1, PTL DEF Spec

----------------------------------------------------------------------------
(* Theorems *)

(* The scripts keep every variable in its set and the lock with whoever is *)
(* changing settings, with or without an operator who ignores the lock.    *)
THEOREM TypeCorrect == Spec => []TypeOK
<1>1. IInv => TypeOK BY DEF IInv
<1> QED BY Inductive, <1>1, PTL

(* Whoever commits, and whenever, a stored marker has its settings.        *)
THEOREM MarkerComplete == Spec => []MarkerMeansComplete
<1>1. IInv => MarkerMeansComplete BY DEF IInv, Complete, MarkerMeansComplete
<1> QED BY Inductive, <1>1, PTL

(* A script leaves a section with its marker alone, even one marked while  *)
(* it was waiting.                                                         *)
THEOREM MarkerFinal == Spec => MarkedIsFinal
<1>1. IInv /\ [Next]_vars =>
        [\A r \in Radio :
            Scripts /\ pc[r] \notin Making /\ live[r] # None /\ live[r].policy # "none" =>
                live'[r] = live[r]]_vars
  <2> SUFFICES ASSUME IInv, NEW p \in Proc, Step(p) \/ Abort(p), NEW r \in Radio,
                      pc[r] \notin Making, live[r] # None, live[r].policy # "none"
               PROVE  live'[r] = live[r]
    BY DEF Scripts
  <2>1. r = cur[p] => pc[p] \notin Changing BY DEF IInv, Holds
  <2> QED BY <2>1, ScriptEffect DEF Making
<1> QED BY Inductive, <1>1, PTL DEF Spec, MarkedIsFinal

(* As long as the operator does not change settings while a script does,   *)
(* no script touches the network, the mode or the switch of a radio that   *)
(* the operator has configured, or switched on as it was.                  *)
THEOREM OperatorRespected == ~Concurrent => (Spec => OperatorKept)
<1> SUFFICES ASSUME ~Concurrent PROVE Spec => OperatorKept
  OBVIOUS
<1>1. IInv /\ [Next]_vars =>
        [\A r \in Radio : Scripts /\ Chosen(r) =>
            live'[r].net = live[r].net /\ live'[r].off = live[r].off /\ live'[r].ap = live[r].ap]_vars
  <2> SUFFICES ASSUME IInv, NEW p \in Proc, Step(p) \/ Abort(p), NEW r \in Radio, Chosen(r)
               PROVE  /\ live'[r].net = live[r].net /\ live'[r].off = live[r].off
                      /\ live'[r].ap = live[r].ap
    BY DEF Scripts
  <2>0. live[r] \in Section /\ live[r] # None BY DEF IInv, TypeOK, Sections, Chosen
  <2>1. r = cur[p] => pc[p] \notin {"enable", "secure"}
    BY DEF IInv, Holds, Changing, Chosen
  <2>2. pc[r] \notin Making
    BY DEF IInv, Growing, Grows, Chosen
  <2>3. \/ live'[r] = live[r]
        \/ live'[r] = [live[r] EXCEPT !.policy = "default"]
        \/ live'[r] = [live[r] EXCEPT !.policy = "preserve"]
    BY <2>0, <2>1, <2>2, ScriptEffect DEF Making
  <2> QED BY <2>0, <2>3 DEF Section
<1> QED BY Inductive, <1>1, PTL DEF Spec, OperatorKept

----------------------------------------------------------------------------
(* What an add event has achieved when its script ends *)

Stored(s, r) == s[r] # None /\ s[r].policy # "none"

(* Or owed none: no AP was found, or the operator has replaced the marked. *)
Settled(s, r) == Stored(s, r) \/ r \in waived

(* How far the event of radio r has got with r itself.  Once stored, a     *)
(* marker is in the running settings too, so no later commit drops it.     *)
Follows(r) ==
    /\ Stored(flash, r) => Stored(live, r)
    /\ pc[r] # "idle" => r \in phy
    /\ pc[r] \notin {"idle", "detect"} => live[r] # None
    /\ pc[r] \notin Working => cur[r] = "2g"
    /\ pc[r] \in Working /\ r = "2g" /\ cur[r] = "5g" => Settled(live, r)
    /\ pc[r] = "commit" => Settled(live, r)
    /\ pc[r] \in {"exit", "done"} => Settled(flash, r)

Followed == \A r \in Radio : Follows(r)

(* An add event whose script succeeds leaves a marker for its radio in     *)
(* flash, whichever script put it there and whoever else commits: a radio  *)
(* that comes after the first boot is not forgotten.  It owes none to a    *)
(* radio without an AP, nor after the operator has replaced the section.   *)
DoneMeansPolicy == \A r \in Radio : pc[r] = "done" => Policy(r) \/ r \in waived

(* Nothing but a power cut or a new event of the radio takes away what it  *)
(* has reached.                                                            *)
LEMMA Kept ==
    ASSUME IInv, Followed, [Next]_vars, ~PowerCut, NEW r \in Radio
    PROVE  /\ live[r] # None => live'[r] # None
           /\ ~Add(r) /\ Settled(live, r) => Stored(live', r) \/ r \in waived'
           /\ ~Add(r) /\ Settled(flash, r) => Stored(flash', r) \/ r \in waived'
           /\ Stored(flash', r) => Stored(live', r)
           /\ r \in phy => r \in phy'
<1> DEFINE Kept1 == /\ live[r] # None => live'[r] # None
                    /\ Stored(live, r) => Stored(live', r) \/ (r \in waived' /\ flash' = live')
                    /\ r \in waived /\ ~Add(r) => r \in waived'
<1>1. ASSUME NEW p \in Proc, Step(p) \/ Abort(p) PROVE Kept1
  <2>0. r \in waived => r \in waived'
    BY <1>1 DEF Step, Lock, Look, Enable, Secure, Mark, Preserve, Commit, Exit, Abort,
         Boot, BootCommit, Detect, Interface, Template, Publish
  <2>1. CASE live'[r] = live[r]
    BY <2>0, <2>1 DEF Stored
  <2>2. CASE live[r] = None /\ live'[r] = Bare
    BY <2>0, <2>2 DEF Stored
  <2>3. CASE live[r] # None /\ live'[r] # live[r]
    <3>1. live[r] \in Section
      BY <2>3 DEF IInv, TypeOK, Sections
    <3>2. \/ live'[r] = [live[r] EXCEPT !.ap = TRUE]
          \/ live'[r] = [live[r] EXCEPT !.net = "stock"]
          \/ live'[r] = [live[r] EXCEPT !.off = FALSE]
          \/ live'[r] = [live[r] EXCEPT !.ap = TRUE, !.net = "default"]
          \/ live'[r] = [live[r] EXCEPT !.policy = "default"]
          \/ live'[r] = [live[r] EXCEPT !.policy = "preserve"]
      BY <1>1, <2>3, ScriptEffect
    <3>3. live'[r] \in Section /\ (live[r].policy # "none" => live'[r].policy # "none")
      BY <3>1, <3>2 DEF Section
    <3>4. live'[r] # None
      BY <3>3, NoneAssumption
    <3> QED BY <2>0, <3>3, <3>4 DEF Stored
  <2>4. live[r] = None => live'[r] = live[r] \/ live'[r] = Bare
    <3>1. live[r] = None => (r = cur[p] => pc[p] \notin Changing)
      BY DEF IInv, Holds
    <3>2. live[r] = None => pc[r] \notin Making
      BY DEF IInv, Growing, Grows
    <3> QED BY <1>1, <3>1, <3>2, ScriptEffect DEF Making
  <2> QED BY <2>1, <2>2, <2>3, <2>4
<1>2. ASSUME NEW w \in Wishes, Operator(w) PROVE Kept1
  <2>1. r \in waived => r \in waived'
    BY <1>2 DEF Operator
  <2>2. CASE w.radio = r
    BY <1>2, <2>1, <2>2, OperatorSection DEF Stored, IInv
  <2>3. CASE w.radio # r
    <3>1. live'[r] = live[r]
      BY <1>2, <2>3, OperatorSection DEF IInv
    <3> QED BY <2>1, <3>1 DEF Stored
  <2> QED BY <2>2, <2>3
<1>3. Kept1
  <2>1. ASSUME NEW q \in Radio, Add(q) PROVE Kept1
    BY <2>1 DEF Add, Stored
  <2>2. CASE UNCHANGED vars
    BY <2>2 DEF vars, Stored
  <2> QED BY <1>1, <1>2, <2>1, <2>2 DEF Next
<1>4. flash' \in {flash, live, live'}
  BY DEF Next, Step, Lock, Look, Enable, Secure, Mark, Preserve, Commit, Exit, Abort,
         Boot, BootCommit, Detect, Interface, Template, Publish, Add, Operator, vars
<1>5. r \in phy => r \in phy'
  BY DEF Next, Step, Lock, Look, Enable, Secure, Mark, Preserve, Commit, Exit, Abort,
         Boot, BootCommit, Detect, Interface, Template, Publish, Add, Operator, vars
<1>6. Stored(flash, r) => Stored(live, r)
  BY DEF Followed, Follows
<1>7. /\ Stored(flash', r) => Stored(live', r)
      /\ ~Add(r) /\ Settled(flash, r) => Stored(flash', r) \/ r \in waived'
  <2>1. CASE flash' = live'
    BY <1>3, <1>6, <2>1 DEF Stored, Settled
  <2>2. CASE flash' = flash /\ flash' # live'
    BY <1>3, <1>6, <2>2 DEF Stored, Settled
  <2>3. CASE flash' = live /\ flash' # live'
    BY <1>3, <1>6, <2>3 DEF Stored, Settled
  <2> QED BY <1>4, <2>1, <2>2, <2>3
<1>8. ~Add(r) /\ Settled(live, r) => Stored(live', r) \/ r \in waived'
  BY <1>3 DEF Settled
<1> QED BY <1>3, <1>5, <1>7, <1>8

(* The script's loop goes on with the other radio, or to the commit.       *)
LEMMA AfterFollows ==
    ASSUME IInv, Followed, [Next]_vars, ~PowerCut, NEW r \in Radio, ~Add(r),
           pc[r] \in Working, After(r), cur[r] = r => Settled(live, r)'
    PROVE  Follows(r)'
<1>1. /\ cur[r] = "2g" => pc'[r] = "radio" /\ cur'[r] = "5g"
      /\ cur[r] # "2g" => pc'[r] = "commit" /\ cur'[r] = cur[r]
  BY DEF After, Goto, IInv, TypeOK, Proc
<1>2. cur[r] = "5g" /\ r = "2g" => Settled(live, r)'
  BY Kept DEF Followed, Follows, Settled
<1>3. cur[r] \in {"2g", "5g"} /\ r \in {"2g", "5g"}
  BY DEF IInv, TypeOK, Proc, Radio
<1>4. /\ Stored(flash', r) => Stored(live', r)
      /\ r \in phy' /\ live'[r] # None
  BY Kept DEF Followed, Follows, Working
<1> QED BY <1>1, <1>2, <1>3, <1>4 DEF Follows, Working

LEMMA FollowsOwn ==
    ASSUME IInv, Followed, [Next]_vars, ~PowerCut, NEW r \in Radio, Step(r) \/ Abort(r)
    PROVE  Follows(r)'
<1> USE DEF IInv, TypeOK, Proc, Goto
<1>0. ~Add(r)
  BY DEF Add, Step, Lock, Look, Enable, Secure, Mark, Preserve, Commit, Exit, Abort,
         Boot, BootCommit, Detect, Interface, Template, Publish, Working, Radio, Defaults
<1>1. /\ Stored(flash', r) => Stored(live', r)
      /\ r \in phy => r \in phy'
      /\ live[r] # None => live'[r] # None
      /\ Settled(live, r) => Settled(live, r)'
      /\ Settled(flash, r) => Settled(flash, r)'
  BY <1>0, Kept DEF Settled
<1>2. /\ pc[r] # "idle" => r \in phy
      /\ pc[r] \notin {"idle", "detect"} => live[r] # None
      /\ pc[r] \notin Working => cur[r] = "2g"
      /\ pc[r] \in Working /\ r = "2g" /\ cur[r] = "5g" => Settled(live, r)
      /\ pc[r] = "commit" => Settled(live, r)
      /\ pc[r] \in {"exit", "done"} => Settled(flash, r)
  BY DEF Followed, Follows
<1>3. r # Defaults
  BY DEF Radio, Defaults
<1>4. CASE Detect(r)
  <2>1. live'[r] # None /\ pc'[r] \in {"interface", "lock"} /\ cur' = cur
    <3>1. Bare \in Section
      BY DEF Bare, Section
    <3>2. Bare # None
      BY <3>1, NoneAssumption
    <3> QED BY <1>4, <3>2 DEF Detect, Sections
  <2> QED BY <1>1, <1>2, <1>4, <2>1 DEF Detect, Follows, Working
<1>13. CASE Interface(r) \/ Template(r)
  <2>1. pc[r] \in Making /\ pc'[r] \in {"template", "publish"} /\ cur' = cur
    BY <1>13 DEF Interface, Template, Making
  <2> QED BY <1>1, <1>2, <1>13, <2>1 DEF Interface, Template, Follows, Working, Making
<1>5. CASE Publish(r)
  BY <1>1, <1>2, <1>5 DEF Publish, Follows, Working
<1>6. CASE Lock(r)
  BY <1>1, <1>2, <1>6 DEF Lock, Follows, Working
<1>7. CASE Look(r)
  <2>1. CASE After(r)
    <3>1. cur[r] = r => Settled(live, r)'
      <4>1. r \in phy /\ live[r] # None
        BY <1>2, <1>7 DEF Look
      <4>2. cur[r] = r => live[r].policy # "none" \/ r \in waived'
        BY <1>7, <2>1, <4>1 DEF Look, After
      <4> QED BY <1>1, <4>1, <4>2 DEF Stored, Settled
    <3> QED BY <1>0, <1>7, <2>1, <3>1, AfterFollows DEF Look, Working
  <2>2. CASE pc'[r] \in {"enable", "preserve"} /\ cur' = cur
    BY <1>1, <1>2, <1>7, <2>2 DEF Look, Follows, Working
  <2> QED BY <1>7, <2>1, <2>2 DEF Look
<1>8. CASE Enable(r) \/ Secure(r)
  <2>1. pc'[r] \in {"secure", "mark"} /\ cur' = cur
    BY <1>8 DEF Enable, Secure
  <2> QED BY <1>1, <1>2, <1>8, <2>1 DEF Enable, Secure, Follows, Working
<1>9. CASE Mark(r) \/ Preserve(r)
  <2>1. cur[r] = r => Settled(live, r)'
    <3>1. pc[r] \in Changing
      BY <1>9 DEF Mark, Preserve, Changing
    <3>2. cur[r] = r => live[r] # None /\ live[r] \in Section
      BY <3>1 DEF Holds, Sections
    <3>3. cur[r] = r => live'[r].policy \in {"default", "preserve"}
      BY <1>9, <3>2 DEF Mark, Preserve, Section, Sections
    <3> QED BY <1>1, <3>2, <3>3 DEF Stored, Settled
  <2> QED BY <1>0, <1>9, <2>1, AfterFollows DEF Mark, Preserve, Working
<1>10. CASE Commit(r)
  <2>1. Settled(flash, r)' /\ pc'[r] = "exit" /\ cur' = cur
    BY <1>2, <1>10 DEF Commit, Stored, Settled
  <2> QED BY <1>1, <1>2, <1>10, <2>1 DEF Commit, Follows, Working
<1>11. CASE Exit(r)
  <2>1. cur'[r] = "2g" /\ flash' = flash /\ pc'[r] = Ended(r)
    BY <1>11 DEF Exit
  <2>2. Ended(r) = (IF pc[r] = "trap" THEN "failed" ELSE "done")
    BY <1>3 DEF Ended
  <2> QED BY <1>1, <1>2, <1>11, <2>1, <2>2 DEF Exit, Follows, Working
<1>12. CASE Abort(r)
  BY <1>1, <1>2, <1>12 DEF Abort, Follows, Working
<1> QED
  BY <1>3, <1>4, <1>5, <1>6, <1>7, <1>8, <1>9, <1>10, <1>11, <1>12, <1>13 DEF Step

LEMMA FollowsNext == ASSUME IInv, Followed, [Next]_vars PROVE Followed'
<1> SUFFICES ASSUME NEW r \in Radio PROVE Follows(r)'
  BY DEF Followed
<1>1. CASE PowerCut
  BY <1>1 DEF PowerCut, Follows, Stored, Settled, Working, Proc
<1>2. CASE ~PowerCut /\ (Step(r) \/ Abort(r))
  BY <1>2, FollowsOwn
<1>3. CASE ~PowerCut /\ Add(r)
  <2>1. pc'[r] = "detect" /\ cur'[r] = cur[r] /\ r \in phy' /\ live' = live /\ flash' = flash
    BY <1>3 DEF Add, Goto, IInv, TypeOK, Proc
  <2>2. pc[r] \notin Working
    BY <1>3 DEF Add, Working
  <2> QED BY <2>1, <2>2 DEF Followed, Follows, Stored, Working
<1>4. CASE ~PowerCut /\ ~(Step(r) \/ Abort(r)) /\ ~Add(r)
  <2>1. pc'[r] = pc[r] /\ cur'[r] = cur[r]
    <3>1. ASSUME NEW p \in Proc, Step(p) \/ Abort(p), p # r
          PROVE  pc'[r] = pc[r] /\ cur'[r] = cur[r]
      BY <3>1 DEF Step, Lock, Look, Enable, Secure, Mark, Preserve, Commit, Exit, Abort,
                  Boot, BootCommit, Detect, Interface, Template, Publish, After, Goto, IInv, TypeOK, Proc
    <3>2. ASSUME NEW q \in Radio, Add(q), q # r
          PROVE  pc'[r] = pc[r] /\ cur'[r] = cur[r]
      BY <3>2 DEF Add, Goto, IInv, TypeOK, Proc
    <3>3. ASSUME NEW w \in Wishes, Operator(w)
          PROVE  pc'[r] = pc[r] /\ cur'[r] = cur[r]
      BY <3>3 DEF Operator
    <3> QED BY <1>4, <3>1, <3>2, <3>3 DEF Next, vars
  <2> QED BY <1>4, <2>1, Kept DEF Followed, Follows, Settled
<1> QED BY <1>1, <1>2, <1>3, <1>4

LEMMA InitFollowed == Init => Followed
  BY DEF Init, Followed, Follows, Stored, Working, Proc

(* The safety half of "a persistent ieee80211 hotplug hook applies the     *)
(* same policy if a PHY appears after this one-shot script": whoever saves *)
(* meanwhile, with the lock or without, a success is a stored marker, or a *)
(* radio that is owed none.                                                *)
THEOREM SuccessIsStored == Spec => []DoneMeansPolicy
<1>1. Followed => DoneMeansPolicy
  BY DEF Followed, Follows, Stored, Settled, DoneMeansPolicy, Policy
<1> QED BY <1>1, Inductive, InitFollowed, FollowsNext, PTL DEF Spec

----------------------------------------------------------------------------
(* How long the lock is held *)

Radios(p, first, second) == IF cur[p] = "2g" THEN first ELSE second

(* Steps a script can still take under the lock: four for a section, the   *)
(* look included, and commit and exit.                                     *)
HeldFor(p) ==
    CASE pc[p] = "radio" -> Radios(p, 10, 6)
      [] pc[p] = "enable" -> Radios(p, 9, 5)
      [] pc[p] = "secure" -> Radios(p, 8, 4)
      [] pc[p] \in {"mark", "preserve"} -> Radios(p, 7, 3)
      [] pc[p] = "commit" -> 2
      [] pc[p] \in {"exit", "trap"} -> 1
      [] OTHER -> 0

(* A script that has the lock gives it up after ten steps of its own at    *)
(* most, failed commits and signals included, and nothing the operator,    *)
(* the detection or another event does makes it take longer.               *)
LockPassesOn ==
    /\ [](\A p \in Proc : HeldFor(p) \in 0 .. 10 /\ (lock = p <=> HeldFor(p) > 0))
    /\ [][\A p \in Proc : lock = p =>
             /\ Step(p) \/ Abort(p) => HeldFor(p)' < HeldFor(p)
             /\ HeldFor(p)' <= HeldFor(p)]_vars

Held(p) ==
    /\ pc[p] = "radio" => HeldFor(p) = Radios(p, 10, 6)
    /\ pc[p] = "enable" => HeldFor(p) = Radios(p, 9, 5)
    /\ pc[p] = "secure" => HeldFor(p) = Radios(p, 8, 4)
    /\ pc[p] \in {"mark", "preserve"} => HeldFor(p) = Radios(p, 7, 3)
    /\ pc[p] = "commit" => HeldFor(p) = 2
    /\ pc[p] \in {"exit", "trap"} => HeldFor(p) = 1
    /\ pc[p] \notin Working => HeldFor(p) = 0

AllHeld == \A p \in Proc : Held(p)

LEMMA HeldAt == AllHeld
<1> SUFFICES ASSUME NEW p \in Proc PROVE Held(p)
  BY DEF AllHeld
<1>1. ASSUME pc[p] = "radio" PROVE HeldFor(p) = Radios(p, 10, 6)
  BY <1>1 DEF HeldFor
<1>2. ASSUME pc[p] = "enable" PROVE HeldFor(p) = Radios(p, 9, 5)
  BY <1>2 DEF HeldFor
<1>3. ASSUME pc[p] = "secure" PROVE HeldFor(p) = Radios(p, 8, 4)
  BY <1>3 DEF HeldFor
<1>4. ASSUME pc[p] \in {"mark", "preserve"} PROVE HeldFor(p) = Radios(p, 7, 3)
  BY <1>4 DEF HeldFor
<1>5. ASSUME pc[p] = "commit" PROVE HeldFor(p) = 2
  BY <1>5 DEF HeldFor
<1>6. ASSUME pc[p] \in {"exit", "trap"} PROVE HeldFor(p) = 1
  BY <1>6 DEF HeldFor
<1>7. ASSUME pc[p] \notin Working PROVE HeldFor(p) = 0
  BY <1>7 DEF HeldFor, Working
<1> QED BY <1>1, <1>2, <1>3, <1>4, <1>5, <1>6, <1>7 DEF Held

LEMMA HeldAtNext == AllHeld'
  BY HeldAt, PTL

LEMMA HeldBounded ==
    ASSUME TypeOK, NEW p \in Proc
    PROVE  HeldFor(p) \in 0 .. 10 /\ (lock = p <=> HeldFor(p) > 0)
<1>1. lock = p <=> pc[p] \in Working
  BY DEF TypeOK
<1> QED BY <1>1, HeldAt DEF AllHeld, Held, Radios, Working

(* Under the lock a step goes forward in the script. *)
LEMMA Forward ==
    ASSUME TypeOK, NEW p \in Proc, pc[p] \in Working, Step(p) \/ Abort(p)
    PROVE  HeldFor(p)' < HeldFor(p)
<1> USE HeldAt, HeldAtNext DEF AllHeld, Held, Radios, Working, TypeOK, Goto
<1>0. /\ pc[p] \in Working /\ cur[p] \in {"2g", "5g"}
      /\ After(p) => \/ pc'[p] = "radio" /\ cur[p] = "2g" /\ cur'[p] = "5g"
                     \/ pc'[p] = "commit" /\ cur[p] = "5g"
  BY DEF After, Radio
<1>1. CASE Look(p)
  <2>1. After(p) \/ (pc'[p] \in {"enable", "preserve"} /\ cur' = cur)
    BY <1>1 DEF Look
  <2>2. pc[p] = "radio"
    BY <1>1 DEF Look
  <2> QED BY <1>0, <2>1, <2>2
<1>2. CASE Enable(p) \/ Secure(p)
  <2>1. /\ cur' = cur
        /\ (pc[p] = "enable" /\ pc'[p] = "secure") \/ (pc[p] = "secure" /\ pc'[p] = "mark")
    BY <1>2 DEF Enable, Secure
  <2> QED BY <1>0, <2>1
<1>3. CASE Mark(p) \/ Preserve(p)
  <2>1. After(p) /\ pc[p] \in {"mark", "preserve"}
    BY <1>3 DEF Mark, Preserve
  <2> QED BY <1>0, <2>1
<1>4. CASE Commit(p)
  <2>1. pc[p] = "commit" /\ pc'[p] = "exit"
    BY <1>4 DEF Commit
  <2> QED BY <2>1
<1>5. CASE Exit(p)
  <2>1. pc[p] \in {"exit", "trap"} /\ pc'[p] \notin Working
    BY <1>5 DEF Exit, Ended
  <2> QED BY <2>1
<1>6. CASE Abort(p)
  <2>1. pc[p] \in Working \ {"exit", "trap"} /\ pc'[p] = "trap"
    BY <1>6 DEF Abort
  <2> QED BY <1>0, <2>1
<1>7. CASE Lock(p) \/ (p = Defaults /\ (Boot \/ BootCommit)) \/ (p \in Radio /\ (Detect(p) \/ Interface(p) \/ Template(p) \/ Publish(p)))
  BY <1>7 DEF Lock, Boot, BootCommit, Detect, Interface, Template, Publish
<1> QED BY <1>1, <1>2, <1>3, <1>4, <1>5, <1>6, <1>7 DEF Step

(* Nobody but the power moves it, and that takes the lock away. *)
LEMMA Unmoved ==
    ASSUME TypeOK, [Next]_vars, NEW p \in Proc, pc[p] \in Working, ~(Step(p) \/ Abort(p))
    PROVE  HeldFor(p)' = HeldFor(p) \/ HeldFor(p)' = 0
<1>1. CASE PowerCut
  <2>1. pc'[p] \notin Working
    BY <1>1 DEF PowerCut, Working
  <2> QED BY <2>1, HeldAtNext DEF AllHeld, Held
<1>2. CASE ~PowerCut
  <2>1. pc'[p] = pc[p] /\ cur'[p] = cur[p]
    <3>1. ASSUME NEW q \in Proc, Step(q) \/ Abort(q), q # p
          PROVE  pc'[p] = pc[p] /\ cur'[p] = cur[p]
      BY <3>1 DEF Step, Lock, Look, Enable, Secure, Mark, Preserve, Commit, Exit, Abort,
                  Boot, BootCommit, Detect, Interface, Template, Publish, After, Goto, TypeOK, Proc
    <3>2. ASSUME NEW q \in Radio, Add(q)
          PROVE  pc'[p] = pc[p] /\ cur'[p] = cur[p]
      BY <3>2 DEF Add, Goto, TypeOK, Proc, Working
    <3>3. ASSUME NEW w \in Wishes, Operator(w)
          PROVE  pc'[p] = pc[p] /\ cur'[p] = cur[p]
      BY <3>3 DEF Operator
    <3> QED BY <1>2, <3>1, <3>2, <3>3 DEF Next, vars
  <2> QED BY <2>1 DEF HeldFor, Radios
<1> QED BY <1>1, <1>2

(* Every script that waits for the lock waits for one that ends.           *)
THEOREM LockIsBrief == Spec => LockPassesOn
<1>1. IInv => \A p \in Proc : HeldFor(p) \in 0 .. 10 /\ (lock = p <=> HeldFor(p) > 0)
  BY HeldBounded DEF IInv
<1>2. IInv /\ [Next]_vars =>
        [\A p \in Proc : lock = p =>
            /\ Step(p) \/ Abort(p) => HeldFor(p)' < HeldFor(p)
            /\ HeldFor(p)' <= HeldFor(p)]_vars
  <2> SUFFICES ASSUME IInv, [Next]_vars, NEW p \in Proc, lock = p
               PROVE  /\ Step(p) \/ Abort(p) => HeldFor(p)' < HeldFor(p)
                      /\ HeldFor(p)' <= HeldFor(p)
    OBVIOUS
  <2>1. pc[p] \in Working /\ HeldFor(p) \in 1 .. 10
    BY <1>1 DEF IInv, TypeOK
  <2>2. CASE Step(p) \/ Abort(p)
    <3>1. HeldFor(p)' \in Int
      <4>1. pc'[p] \in Stage
        BY TypeStep DEF TypeOK
      <4> QED BY <4>1, HeldAtNext DEF AllHeld, Held, Radios, Working
    <3>2. HeldFor(p)' < HeldFor(p)
      BY <2>1, <2>2, Forward DEF IInv
    <3> QED BY <2>1, <3>1, <3>2
  <2>3. CASE ~(Step(p) \/ Abort(p))
    BY <2>1, <2>3, Unmoved DEF IInv
  <2> QED BY <2>2, <2>3
<1> QED BY <1>1, <1>2, Inductive, PTL DEF Spec, LockPassesOn

=============================================================================
