---------------------------- MODULE WifiDefaults ----------------------------
(***************************************************************************)
(* Wi-Fi defaults of the C board.  A radio that appears is given a stock   *)
(* section by 10-wifi-detect, and then the product's defaults by whichever *)
(* comes first of the uci-defaults script and the hotplug script, under a  *)
(* lock that neither the detection, nor the boot script, nor the operator  *)
(* takes.  uci set stages a change that every process sees and any commit  *)
(* publishes; a power cut loses what is staged.  This is the persistent    *)
(* profile, which stops earlier when it has no factory addresses.          *)
(***************************************************************************)
EXTENDS Integers

CONSTANTS
    None,         \* a section that does not exist, an unknown process
    Wishes,       \* what the operator may save (see Wish)
    Concurrent    \* the operator also changes settings while a script does

ASSUME ConcurrentAssumption == Concurrent \in BOOLEAN

VARIABLES
    phy,        \* the radios the kernel has registered
    live,       \* wireless sections, committed and staged changes together
    flash,      \* /etc/config/wireless
    lock,       \* holder of /var/lock/rt3000-c-wifi
    pc,         \* next step of the boot script and of each radio's add event
    cur,        \* the radio each of them is working on
    firstboot,  \* the uci-defaults script is still there
    waived      \* history: radios whose last event owes no marker, having found
                \* no AP, or whose operator has taken the marker away since

vars == <<phy, live, flash, lock, pc, cur, firstboot, waived>>

----------------------------------------------------------------------------
(* Data *)

Radio == {"2g", "5g"}
Defaults == "defaults"
Proc == Radio \cup {Defaults}

(* The wifi-device with the path of a radio, and its wifi-iface: off is    *)
(* disabled=1, ap says that there is an interface of mode ap, net is the   *)
(* kind of its network settings ("part" while detection has not yet given  *)
(* them all), policy the marker rt3000_c_policy.  Addresses are left out:  *)
(* every writer gives a radio the same one.                                *)
Section == [off : BOOLEAN, ap : BOOLEAN, net : {"part", "stock", "default", "own"},
            policy : {"none", "default", "preserve"}]
Bare == [off |-> TRUE, ap |-> FALSE, net |-> "part", policy |-> "none"]
Sections == [Radio -> Section \cup {None}]

ASSUME NoneAssumption == None \notin Section /\ None \notin Proc

(* The operator switches a radio off or on, makes it an AP or not, sets a  *)
(* network of one's own or leaves the one it has, and keeps the interface  *)
(* with its marker or puts another in its place.                           *)
Wish == [radio : Radio, off : BOOLEAN, ap : BOOLEAN, own : BOOLEAN, kept : BOOLEAN]

ASSUME WishesAssumption == Wishes \subseteq Wish

Working == {"radio", "enable", "secure", "mark", "preserve", "commit", "exit", "trap"}
Making == {"interface", "template"}
Stage == {"idle", "detect", "publish", "lock", "apply", "done", "failed"} \cup Making \cup Working

Goto(p, s) == pc' = [pc EXCEPT ![p] = s]

(* rt3000_c_wifi_apply: 2.4 GHz, then 5 GHz, then the commit.              *)
After(p) ==
    IF cur[p] = "2g" THEN Goto(p, "radio") /\ cur' = [cur EXCEPT ![p] = "5g"]
                     ELSE Goto(p, "commit") /\ UNCHANGED cur

----------------------------------------------------------------------------
(* Detection and boot *)

(* The kernel registers a radio, once more after a driver reload.          *)
Add(r) ==
    /\ pc[r] \in {"idle", "done", "failed"}
    /\ pc[Defaults] # "idle"
    /\ phy' = phy \cup {r}
    /\ Goto(r, "detect")
    /\ waived' = waived \ {r}
    /\ UNCHANGED <<live, flash, lock, cur, firstboot>>

(* wifi config: a radio without a section is given one, set by set, and    *)
(* everybody sees it grow: the radio, by its path, disabled ...            *)
Detect(r) ==
    /\ pc[r] = "detect"
    /\ IF live[r] = None THEN live' = [live EXCEPT ![r] = Bare] /\ Goto(r, "interface")
                         ELSE UNCHANGED live /\ Goto(r, "lock")
    /\ UNCHANGED <<phy, flash, lock, cur, firstboot, waived>>

(* ... the interface up to its mode ...                                    *)
Interface(r) ==
    /\ pc[r] = "interface"
    /\ live' = [live EXCEPT ![r].ap = TRUE]
    /\ Goto(r, "template")
    /\ UNCHANGED <<phy, flash, lock, cur, firstboot, waived>>

(* ... and the open network of the template ...                            *)
Template(r) ==
    /\ pc[r] = "template"
    /\ live' = [live EXCEPT ![r].net = "stock"]
    /\ Goto(r, "publish")
    /\ UNCHANGED <<phy, flash, lock, cur, firstboot, waived>>

(* ... and its commit, without the lock.                                   *)
Publish(r) ==
    /\ pc[r] = "publish"
    /\ flash' = live
    /\ Goto(r, "lock")
    /\ UNCHANGED <<phy, live, lock, cur, firstboot, waived>>

(* uci_apply_defaults: the script runs while it is there.                  *)
Boot ==
    /\ pc[Defaults] = "idle"
    /\ Goto(Defaults, IF firstboot THEN "lock" ELSE "done")
    /\ UNCHANGED <<phy, live, flash, lock, cur, firstboot, waived>>

(* uci commit at the end of uci_apply_defaults, whatever the script did.   *)
BootCommit ==
    /\ pc[Defaults] = "apply"
    /\ flash' = live
    /\ Goto(Defaults, "done")
    /\ UNCHANGED <<phy, live, lock, cur, firstboot, waived>>

----------------------------------------------------------------------------
(* The policy *)

Lock(p) ==
    /\ pc[p] = "lock"
    /\ lock = None
    /\ lock' = p
    /\ Goto(p, "radio")
    /\ UNCHANGED <<phy, live, flash, cur, firstboot, waived>>

(* Only the untouched, disabled template is transformed.                   *)
UntouchedOff(s) == s.off                                        \* mutated form
Untouched(s) == s.off /\ s.net = "stock"

(* rt3000_c_wifi_apply_radio up to its decision: a radio that is not there *)
(* or has no AP is passed over, and a section with a marker keeps its      *)
(* settings.                                                               *)
Look(p) ==
    LET r == cur[p] IN
    /\ pc[p] = "radio"
    /\ \/ (r \notin phy \/ live[r] = None) /\ After(p) /\ UNCHANGED waived
       \/ /\ r \in phy /\ live[r] # None
          /\ \/ /\ ~live[r].ap /\ After(p)
                /\ waived' = IF r = p THEN waived \cup {r} ELSE waived
             \/ /\ live[r].ap /\ live[r].policy # "none" /\ After(p)
                /\ UNCHANGED waived
             \/ /\ live[r].ap /\ live[r].policy = "none"
                /\ Goto(p, IF Untouched(live[r]) THEN "enable" ELSE "preserve")
                /\ UNCHANGED <<cur, waived>>
    /\ UNCHANGED <<phy, live, flash, lock, firstboot>>

EnableMarked(p) ==                                              \* mutated form
    /\ pc[p] = "enable"
    /\ live' = [live EXCEPT ![cur[p]].off = FALSE, ![cur[p]].policy = "default"]
    /\ Goto(p, "secure")
    /\ UNCHANGED <<phy, flash, lock, cur, firstboot, waived>>

(* The first uci sets: band, disabled=0, width, country and address of the *)
(* radio ...                                                               *)
Enable(p) ==
    /\ pc[p] = "enable"
    /\ live' = [live EXCEPT ![cur[p]].off = FALSE]
    /\ Goto(p, "secure")
    /\ UNCHANGED <<phy, flash, lock, cur, firstboot, waived>>

(* ... then network, encryption, key and address of the interface ...      *)
Secure(p) ==
    /\ pc[p] = "secure"
    /\ live' = [live EXCEPT ![cur[p]].ap = TRUE, ![cur[p]].net = "default"]
    /\ Goto(p, "mark")
    /\ UNCHANGED <<phy, flash, lock, cur, firstboot, waived>>

(* ... and the marker last.                                                *)
Mark(p) ==
    /\ pc[p] = "mark"
    /\ live' = [live EXCEPT ![cur[p]].policy = "default"]
    /\ After(p)
    /\ UNCHANGED <<phy, flash, lock, firstboot, waived>>

Preserve(p) ==
    /\ pc[p] = "preserve"
    /\ live' = [live EXCEPT ![cur[p]].policy = "preserve"]
    /\ After(p)
    /\ UNCHANGED <<phy, flash, lock, firstboot, waived>>

(* uci commit wireless.                                                    *)
Commit(p) ==
    /\ pc[p] = "commit"
    /\ flash' = live
    /\ Goto(p, "exit")
    /\ UNCHANGED <<phy, live, lock, cur, firstboot, waived>>

(* A failed commit, or a signal: the EXIT trap unlocks all the same.       *)
Abort(p) ==
    /\ pc[p] \in Working \ {"exit", "trap"}
    /\ Goto(p, "trap")
    /\ UNCHANGED <<phy, live, flash, lock, cur, firstboot, waived>>

Ended(p) == IF p = Defaults THEN "apply" ELSE IF pc[p] = "trap" THEN "failed" ELSE "done"

(* Boot removes the uci-defaults script once it has succeeded.             *)
Removed(p) == p = Defaults /\ pc[p] = "exit"

ExitHolding(p) ==                                               \* mutated form
    /\ pc[p] \in {"exit", "trap"}
    /\ lock' = IF pc[p] = "trap" THEN lock ELSE None
    /\ Goto(p, Ended(p))
    /\ cur' = [cur EXCEPT ![p] = "2g"]
    /\ firstboot' = (firstboot /\ ~Removed(p))
    /\ UNCHANGED <<phy, live, flash, waived>>

Exit(p) ==
    /\ pc[p] \in {"exit", "trap"}
    /\ lock' = None
    /\ Goto(p, Ended(p))
    /\ cur' = [cur EXCEPT ![p] = "2g"]
    /\ firstboot' = (firstboot /\ ~Removed(p))
    /\ UNCHANGED <<phy, live, flash, waived>>

----------------------------------------------------------------------------
(* The operator and the power *)

(* No script is about to write to the section of r.                        *)
Quiet(r) == lock = None /\ pc[r] \notin Making

(* Set and committed.                                                      *)
Saved(s, w) ==
    [off |-> w.off, ap |-> w.ap, net |-> IF w.own THEN "own" ELSE s.net,
     policy |-> IF w.kept THEN s.policy ELSE "none"]

Operator(w) ==
    LET r == w.radio IN
    /\ Quiet(r) \/ Concurrent
    /\ live[r] # None
    /\ live' = [live EXCEPT ![r] = Saved(live[r], w)]
    /\ flash' = live'
    /\ waived' = IF w.kept THEN waived ELSE waived \cup {r}
    /\ UNCHANGED <<phy, lock, pc, cur, firstboot>>

PowerCut ==
    /\ phy' = {}
    /\ live' = flash
    /\ lock' = None
    /\ pc' = [p \in Proc |-> "idle"]
    /\ cur' = [p \in Proc |-> "2g"]
    /\ waived' = {}
    /\ UNCHANGED <<flash, firstboot>>

Init ==
    /\ phy = {}
    /\ live = [r \in Radio |-> None] /\ flash = live
    /\ lock = None
    /\ pc = [p \in Proc |-> "idle"]
    /\ cur = [p \in Proc |-> "2g"]
    /\ firstboot = TRUE
    /\ waived = {}

Step(p) ==
    \/ Lock(p) \/ Look(p) \/ Enable(p) \/ Secure(p) \/ Mark(p) \/ Preserve(p)
    \/ Commit(p) \/ Exit(p)
    \/ p = Defaults /\ (Boot \/ BootCommit)
    \/ p \in Radio /\ (Detect(p) \/ Interface(p) \/ Template(p) \/ Publish(p))

Next ==
    \/ \E p \in Proc : Step(p) \/ Abort(p)
    \/ \E r \in Radio : Add(r)
    \/ \E w \in Wishes : Operator(w)
    \/ PowerCut

Spec == Init /\ [][Next]_vars

(* Started scripts keep executing, and the lock reaches each who waits.    *)
FairSpec ==
    Spec /\ \A p \in Proc : WF_vars(Step(p)) /\ SF_vars(Lock(p))

----------------------------------------------------------------------------
(* Properties *)

(* Every variable stays in the set of values the scripts can give it; the  *)
(* lock belongs to the script that is changing settings.                   *)
TypeOK ==
    /\ phy \subseteq Radio
    /\ live \in Sections /\ flash \in Sections
    /\ lock \in Proc \cup {None}
    /\ pc \in [Proc -> Stage]
    /\ cur \in [Proc -> Radio]
    /\ firstboot \in BOOLEAN
    /\ waived \subseteq Radio
    /\ \A p \in Proc : pc[p] \in Working <=> lock = p

(* "The custom marker is stored in the same commit as the default security *)
(* settings" in the direction that holds: whoever commits, and whenever,   *)
(* a stored marker stands beside complete settings.                        *)
MarkerMeansComplete ==
    \A r \in Radio :
        flash[r] # None => (flash[r].policy = "default" =>
            flash[r].net \in {"default", "own"})

Scripts == \E p \in Proc : Step(p) \/ Abort(p)

(* The operator's choice: a network of one's own, or the stock one with    *)
(* the radio switched on, unless that is a script half way through.        *)
Chosen(r) ==
    /\ live[r] # None
    /\ \/ live[r].net = "own"
       \/ live[r].net = "stock" /\ ~live[r].off /\ \A p \in Proc : pc[p] = "secure" => cur[p] # r

(* "Preserving any operator-owned configuration", and "existing custom or  *)
(* open-AP choices are preserved": no script changes the network, the mode *)
(* or the switch of a radio the operator has configured.                   *)
OperatorKept ==
    [][\A r \in Radio :
          Scripts /\ Chosen(r) =>
              live'[r].net = live[r].net /\ live'[r].off = live[r].off /\ live'[r].ap = live[r].ap]_vars

(* "Later PHY add events refresh only the addresses": on a section that    *)
(* has its marker, scripts leave everything else alone, once detection has *)
(* finished it.                                                            *)
MarkedIsFinal ==
    [][\A r \in Radio :
          Scripts /\ pc[r] \notin Making /\ live[r] # None /\ live[r].policy # "none" =>
              live'[r] = live[r]]_vars

Down == \A p \in Proc : pc[p] = "idle"
Policy(r) == flash[r] # None /\ flash[r].policy # "none"

(* "A persistent ieee80211 hotplug hook applies the same policy if a PHY   *)
(* appears after this one-shot uci-defaults script" (99-rt3000-wifi): each *)
(* add event ends with a stored marker, with none because the radio has no *)
(* AP or the operator has removed it, failed, or cut off.                  *)
LateRadioIsConfigured ==
    \A r \in Radio :
        (pc[r] = "lock") ~> (Policy(r) \/ r \in waived \/ pc[r] = "failed" \/ Down)

=============================================================================
