----------------------------- MODULE MasterBind -----------------------------
(***************************************************************************)
(* rt3000-c-dsa-master-bind: the hotplug event of eth1 and the init script *)
(* S19 both run it to bind the RTL8367S, whose probe needs the dp2 master, *)
(* to its driver.  Invocations poll sysfs, contend for a lock directory,   *)
(* look again and write the bind file at most once; devices come and go,   *)
(* the kernel may bind by itself, and any invocation may be signalled.     *)
(***************************************************************************)
EXTENDS Integers

CONSTANTS
    Proc,         \* invocations of the script
    Limit,        \* Limit[p]: its wait argument, in seconds
    NoProc        \* the lock directory does not exist

ASSUME ProcAssumption == NoProc \notin Proc
ASSUME LimitAssumption == Limit \in [Proc -> 0..10]

VARIABLES
    native,     \* the device tree and the board name are those of the C board
    master,     \* eth1: "absent", "dp2" or "other"
    mdio,       \* device 90000.mdio:1d: "absent", "switch" or "unusable"
    driver,     \* its driver link: "none", "realtek" or "other"
    varlock,    \* /var/lock exists: boot makes it, hotplug may come earlier
    lock,       \* the invocation whose mkdir made the lock directory
    pc,         \* next step of each invocation
    seen,       \* master_ready of each invocation
    elapsed,    \* seconds each invocation has waited
    code        \* how each invocation is about to exit

vars == <<native, master, mdio, driver, varlock, lock, pc, seen, elapsed, code>>

----------------------------------------------------------------------------
(* Data *)

Master == {"absent", "dp2", "other"}
Mdio == {"absent", "switch", "unusable"}
Driver == {"none", "realtek", "other"}

(* Steps taken while the lock directory is this invocation's.              *)
Trapped == {"again", "againMdio", "look", "write", "verify", "leave"}
Holding == Trapped \cup {"trap"}
Outcome == {"ok", "stopped", "refused", "signalled"}
Finished == Outcome \cup {"killed"}
Stage == {"idle", "master", "mdio", "dir", "lock"} \cup Holding \cup Finished

Goto(p, s) == pc' = [pc EXCEPT ![p] = s]

(* exit or stop once the EXIT trap is set: rmdir comes first.              *)
Exit(p, c) == Goto(p, "leave") /\ code' = [code EXCEPT ![p] = c]

Devices == <<native, master, mdio, driver, varlock>>

----------------------------------------------------------------------------
(* The script *)

(* Argument, model, board name and device tree are compared once.          *)
Start(p) ==
    /\ pc[p] = "idle"
    /\ Goto(p, IF native THEN "master" ELSE "stopped")
    /\ UNCHANGED <<Devices, lock, seen, elapsed, code>>

(* check_master in the wait loop.                                          *)
PollMaster(p) ==
    /\ pc[p] = "master"
    /\ Goto(p, IF master = "other" THEN "stopped" ELSE "mdio")
    /\ seen' = [seen EXCEPT ![p] = master = "dp2"]
    /\ UNCHANGED <<Devices, lock, elapsed, code>>

(* One second of the wait budget, or the end of it.                        *)
Budget(p, again) ==
    IF elapsed[p] < Limit[p]
    THEN Goto(p, again) /\ elapsed' = [elapsed EXCEPT ![p] = @ + 1]
    ELSE Goto(p, "stopped") /\ UNCHANGED elapsed

(* check_mdio in the wait loop; a device without the bind file stops it.   *)
PollMdio(p) ==
    /\ pc[p] = "mdio"
    /\ \/ mdio = "unusable" /\ Goto(p, "stopped") /\ UNCHANGED elapsed
       \/ mdio = "switch" /\ seen[p] /\ Goto(p, "dir") /\ UNCHANGED elapsed
       \/ mdio # "unusable" /\ ~(mdio = "switch" /\ seen[p]) /\ Budget(p, "master")
    /\ UNCHANGED <<Devices, lock, seen, code>>

(* [ -d /var/lock ], once.                                                 *)
LockDir(p) ==
    /\ pc[p] = "dir"
    /\ Goto(p, IF varlock THEN "lock" ELSE "stopped")
    /\ UNCHANGED <<Devices, lock, seen, elapsed, code>>

(* mkdir; a loser keeps what is left of its budget.                        *)
ContendTrapped(p) ==                                            \* mutated form
    /\ pc[p] = "lock"
    /\ IF lock = NoProc
       THEN lock' = p /\ Goto(p, "trap") /\ UNCHANGED <<elapsed, code>>
       ELSE /\ IF elapsed[p] < Limit[p]
               THEN /\ elapsed' = [elapsed EXCEPT ![p] = @ + 1]
                    /\ UNCHANGED <<pc, code>>
               ELSE Exit(p, "stopped") /\ UNCHANGED elapsed
            /\ UNCHANGED lock
    /\ UNCHANGED <<Devices, seen>>

Contend(p) ==
    /\ pc[p] = "lock"
    /\ IF lock = NoProc
       THEN lock' = p /\ Goto(p, "trap") /\ UNCHANGED elapsed
       ELSE Budget(p, "lock") /\ UNCHANGED lock
    /\ UNCHANGED <<Devices, seen, code>>

(* trap cleanup_lock EXIT; trap 'exit 1' HUP INT TERM.                     *)
Trap(p) ==
    /\ pc[p] = "trap"
    /\ Goto(p, "again")
    /\ UNCHANGED <<Devices, lock, seen, elapsed, code>>

(* check_master and check_mdio under the lock.                             *)
AgainMaster(p) ==
    /\ pc[p] = "again"
    /\ IF master = "dp2" THEN Goto(p, "againMdio") /\ UNCHANGED code
                         ELSE Exit(p, "stopped")
    /\ UNCHANGED <<Devices, lock, seen, elapsed>>

AgainMdio(p) ==
    /\ pc[p] = "againMdio"
    /\ IF mdio = "switch" THEN Goto(p, "look") /\ UNCHANGED code
                          ELSE Exit(p, "stopped")
    /\ UNCHANGED <<Devices, lock, seen, elapsed>>

(* The driver link: absent, the expected driver, or another one.           *)
LookAny(p) ==                                                   \* mutated form
    /\ pc[p] = "look"
    /\ IF driver = "none" THEN Goto(p, "write") /\ UNCHANGED code ELSE Exit(p, "ok")
    /\ UNCHANGED <<Devices, lock, seen, elapsed>>

Look(p) ==
    /\ pc[p] = "look"
    /\ \/ driver = "none" /\ Goto(p, "write") /\ UNCHANGED code
       \/ driver = "realtek" /\ Exit(p, "ok")
       \/ driver = "other" /\ Exit(p, "stopped")
    /\ UNCHANGED <<Devices, lock, seen, elapsed>>

(* The bind write: the kernel refuses a bound or absent device, and the    *)
(* probe may fail; it needs the master.                                    *)
WriteDropped(p) ==                                              \* mutated form
    /\ pc[p] = "write"
    /\ \/ Goto(p, "verify") /\ UNCHANGED code
       \/ Exit(p, "refused")
    /\ UNCHANGED <<Devices, lock, seen, elapsed>>

Write(p) ==
    /\ pc[p] = "write"
    /\ \/ /\ driver = "none" /\ mdio = "switch" /\ master = "dp2"
          /\ driver' = "realtek"
          /\ Goto(p, "verify")
          /\ UNCHANGED code
       \/ Exit(p, "refused") /\ UNCHANGED driver
    /\ UNCHANGED <<native, master, mdio, varlock, lock, seen, elapsed>>

Verify(p) ==
    /\ pc[p] = "verify"
    /\ Exit(p, IF driver = "realtek" THEN "ok" ELSE "stopped")
    /\ UNCHANGED <<Devices, lock, seen, elapsed>>

(* The EXIT trap: rmdir of the lock, whoever made it.                      *)
Leave(p) ==
    /\ pc[p] = "leave"
    /\ lock' = NoProc
    /\ Goto(p, code[p])
    /\ UNCHANGED <<Devices, seen, elapsed, code>>

----------------------------------------------------------------------------
(* Signals, devices and the kernel *)

(* HUP, INT or TERM: the traps turn it into an exit, once they are set.    *)
SignalUntrapped(p) ==                                           \* mutated form
    /\ pc[p] \notin Finished \cup {"idle", "leave"}
    /\ Goto(p, "stopped")
    /\ UNCHANGED <<Devices, lock, seen, elapsed, code>>

Signal(p) ==
    /\ \/ pc[p] \in Trapped \ {"leave"} /\ Exit(p, "signalled")
       \/ pc[p] \in {"master", "mdio", "dir", "lock", "trap"} /\ Goto(p, "killed") /\ UNCHANGED code
    /\ UNCHANGED <<Devices, lock, seen, elapsed>>

(* SIGKILL: no trap runs.                                                  *)
Kill(p) ==
    /\ pc[p] \notin Finished \cup {"idle"}
    /\ Goto(p, "killed")
    /\ UNCHANGED <<Devices, lock, seen, elapsed, code>>

(* Devices come, go and turn out to be others, until the switch is bound.  *)
Change ==
    /\ driver = "none"
    /\ \/ master' \in Master \ {master} /\ UNCHANGED mdio
       \/ mdio' \in Mdio \ {mdio} /\ UNCHANGED master
    /\ UNCHANGED <<native, driver, varlock, lock, pc, seen, elapsed, code>>

(* Deferred probing, or another driver that claims the address.            *)
KernelBinds ==
    /\ driver = "none" /\ mdio = "switch"
    /\ \/ native /\ master = "dp2" /\ driver' = "realtek"
       \/ driver' = "other"
    /\ UNCHANGED <<native, master, mdio, varlock, lock, pc, seen, elapsed, code>>

(* The boot script makes /var/lock.                                        *)
BootMakes ==
    /\ ~varlock
    /\ varlock' = TRUE
    /\ UNCHANGED <<native, master, mdio, driver, lock, pc, seen, elapsed, code>>

Init ==
    /\ native \in BOOLEAN /\ varlock \in BOOLEAN
    /\ master = "absent" /\ mdio = "absent" /\ driver = "none"
    /\ lock = NoProc
    /\ pc = [p \in Proc |-> "idle"]
    /\ seen = [p \in Proc |-> FALSE]
    /\ elapsed = [p \in Proc |-> 0]
    /\ code = [p \in Proc |-> "stopped"]

Step(p) ==
    \/ PollMaster(p) \/ PollMdio(p) \/ LockDir(p) \/ Contend(p) \/ Trap(p) \/ AgainMaster(p)
    \/ AgainMdio(p) \/ Look(p) \/ Write(p) \/ Verify(p) \/ Leave(p)

Next ==
    \/ \E p \in Proc : Start(p) \/ Step(p) \/ Signal(p) \/ Kill(p)
    \/ Change \/ KernelBinds \/ BootMakes

Spec == Init /\ [][Next]_vars

(* A started invocation keeps executing.                                   *)
FairSpec == Spec /\ \A p \in Proc : WF_vars(Step(p))

----------------------------------------------------------------------------
(* Properties *)

(* Every variable stays in the set of values the script can give it; the   *)
(* wait for devices and lock together stays within the argument.           *)
TypeOK ==
    /\ native \in BOOLEAN /\ varlock \in BOOLEAN
    /\ master \in Master /\ mdio \in Mdio /\ driver \in Driver
    /\ lock \in Proc \cup {NoProc}
    /\ pc \in [Proc -> Stage]
    /\ seen \in [Proc -> BOOLEAN]
    /\ elapsed \in [Proc -> Nat] /\ \A p \in Proc : elapsed[p] <= Limit[p]
    /\ code \in [Proc -> Outcome]

(* An invocation past mkdir owns the lock: a loser that gives up does not  *)
(* take the winner's lock away.                                            *)
HolderOwnsLock == \A p \in Proc : pc[p] \in Holding => lock = p

(* "serialize the final bound check and the single bind write": two        *)
(* invocations are never between the check and the end of the write.       *)
OneWriter == \A p, q \in Proc : pc[p] \in Holding /\ pc[q] \in Holding => p = q

(* The lock directory outlives its invocation only when that was killed    *)
(* before or without its traps.                                            *)
StaleOnlyAfterKill == \A p \in Proc : lock = p => pc[p] \in Holding \cup {"killed"}

(* Exit 0 means the switch is bound to realtek-mdio, on the C board.       *)
OkMeansBound == \A p \in Proc : pc[p] = "ok" => driver = "realtek" /\ native

Ready == native /\ master = "dp2" /\ mdio = "switch"
Disturbed ==
    \E p \in Proc : pc[p] = "killed" \/ code[p] \in {"refused", "signalled"}

(* S19 and hotplug together: when an invocation that found both devices    *)
(* contends for the lock while the holder, if any, is still at work, the   *)
(* switch gets bound, whoever wins, unless a device goes away, the probe   *)
(* fails or an invocation is signalled.                                    *)
ReadyGetsBound ==
    \A p \in Proc :
        pc[p] = "lock" /\ (\A q \in Proc : pc[q] # "leave")
            ~> driver # "none" \/ ~Ready \/ Disturbed

=============================================================================
