-------------------------------- MODULE Service --------------------------------
(* The node as a service on Windows (service/windows.rs, windows_quit.rs): a   *)
(* supervisor that holds a lock file starts the node again when it fails, and  *)
(* as a fresh supervisor after an update; `capture-room service install`,      *)
(* `uninstall`, a restart and a start from the desktop stop and start it while *)
(* it does. Its logon task starts it with the user's session.                  *)
EXTENDS Integers, FiniteSets

CONSTANTS
    Requests,        \* commands at a time
    MaxSupervisors, MaxNodes, MaxActs, MaxFaults
                     \* bounds: processes; commands; crashes, kills, and nodes that take too long to quit

VARIABLES
    config,          \* service.json: 0 for none, and another number each time it is written
    login,           \* the logon task
    lock, pid_path, node_pid_path, \* the supervisor that holds the lock file; the pids in the files: 0 for none
    sups,            \* supervisors: [pc, node]
    nodes,           \* nodes: [state, codes, config]; codes are the exit codes its quits have
    port,            \* the node that serves, or 0
    reqs,            \* commands: [cmd, step, pid, config]
    wanted,          \* history: the service has been started, and not been stopped since
    collided, crossed, orphans, \* a supervisor was turned away by a command that looked; commands, updates or sign-ins overlapped;
                     \* a supervisor was killed alone
    lost,            \* a node was killed while it served, without having been waited for
    acts, faults

vars == <<config, login, lock, pid_path, node_pid_path, sups, nodes, port, reqs, wanted, collided, crossed,
          orphans, lost, acts, faults>>

Supervisors == 1..MaxSupervisors
Nodes == 1..MaxNodes
NoReq == [cmd |-> "none", step |-> "none", pid |-> 0, config |-> 0]
NoNode == [state |-> "none", codes |-> {}, config |-> 0]
Live(n) == nodes[n].state \in {"starting", "listening", "serving", "quitting"}
Alive(s) == sups[s].pc \in {"spawned", "locked", "loop", "started", "waiting", "handover"}
\* Each supervisor waits for a node that serves.
Settled == \A s \in Supervisors : Alive(s) => sups[s].pc = "waiting" /\ nodes[sups[s].node].state = "serving"
\* Commands that open the lock file, to see whether anyone has it open.
Looks(r) == reqs[r].step \in {"stop", "await", "kill", "gone", "start", "starting", "port"}
Busy == {r \in Requests : reqs[r] # NoReq}
Ended == [pc |-> "ended", node |-> 0]

\* Not installed, or as it runs.
Init ==
    /\ \E runs \in BOOLEAN : LET one == IF runs THEN 1 ELSE 0 IN
        /\ config = one /\ login = runs
        /\ lock = one /\ pid_path = one /\ node_pid_path = one /\ port = one
        /\ sups = [s \in Supervisors |-> IF s = one THEN [pc |-> "waiting", node |-> 1] ELSE [pc |-> "none", node |-> 0]]
        /\ nodes = [n \in Nodes |-> IF n = one THEN [state |-> "serving", codes |-> {}, config |-> 1] ELSE NoNode]
        /\ wanted = runs
    /\ reqs = [r \in Requests |-> NoReq]
    /\ collided = FALSE /\ crossed = FALSE /\ orphans = FALSE /\ lost = FALSE
    /\ acts = 0 /\ faults = 0

\* A command overlaps another or meets a fault, not both.
Fault == Cardinality(Busy) <= 1 /\ faults < MaxFaults /\ faults' = faults + 1

----------------------------------------------------------------------------
(* The supervisor                                                             *)

\* A process of its own: what starts it doesn't wait for it.
spawn_supervisor(s) ==
    /\ sups[s].pc = "none" /\ \A earlier \in 1..(s - 1) : sups[earlier].pc # "none"
    /\ sups' = [sups EXCEPT ![s].pc = "spawned"]
\* Who can't open the lock file takes it that another supervisor has it open:
\* so does who tries as a command looks whether one does.
Locks(s) ==
    /\ sups[s].pc = "spawned"
    /\ \/ lock = 0 /\ lock' = s /\ sups' = [sups EXCEPT ![s].pc = "locked"] /\ UNCHANGED collided
       \/ /\ lock # 0 \/ \E r \in Requests : Looks(r)
          /\ sups' = [sups EXCEPT ![s] = Ended] /\ UNCHANGED lock
          /\ collided' = (collided \/ lock = 0)
    /\ UNCHANGED <<config, login, pid_path, node_pid_path, nodes, port, reqs, wanted, crossed, orphans, lost, acts, faults>>
WritesPid(s) ==
    /\ sups[s].pc = "locked"
    /\ pid_path' = s
    /\ sups' = [sups EXCEPT ![s].pc = "loop"]
    /\ UNCHANGED <<config, login, lock, node_pid_path, nodes, port, reqs, wanted, collided, crossed, orphans, lost, acts, faults>>
\* The node is started with the arguments there are; with none, the supervisor fails.
Starts(s, n) ==
    /\ sups[s].pc = "loop"
    /\ nodes[n] = NoNode /\ \A earlier \in 1..(n - 1) : nodes[earlier] # NoNode
    /\ IF config = 0
       THEN sups' = [sups EXCEPT ![s] = Ended] /\ lock' = 0 /\ wanted' = FALSE /\ UNCHANGED nodes
       ELSE /\ sups' = [sups EXCEPT ![s] = [pc |-> "started", node |-> n]]
            /\ nodes' = [nodes EXCEPT ![n] = [state |-> "starting", codes |-> {}, config |-> config]]
            /\ UNCHANGED <<lock, wanted>>
    /\ UNCHANGED <<config, login, pid_path, node_pid_path, port, reqs, collided, crossed, orphans, lost, acts, faults>>
WritesNodePid(s) ==
    /\ sups[s].pc = "started"
    /\ node_pid_path' = sups[s].node
    /\ sups' = [sups EXCEPT ![s].pc = "waiting"]
    /\ UNCHANGED <<config, login, lock, pid_path, nodes, port, reqs, wanted, collided, crossed, orphans, lost, acts, faults>>
\* A clean quit ends the supervisor; a restart hands over to another; after
\* anything else the node starts again.
run_supervisor(s) ==
    /\ sups[s].pc = "waiting" /\ ~Live(sups[s].node)
    /\ node_pid_path' = 0
    /\ LET code == nodes[sups[s].node].state IN
       CASE code = "quit" -> sups' = [sups EXCEPT ![s] = Ended] /\ lock' = 0 /\ wanted' = FALSE
         [] code = "restart" -> sups' = [sups EXCEPT ![s].pc = "handover"] /\ lock' = 0 /\ UNCHANGED wanted
         [] OTHER -> sups' = [sups EXCEPT ![s].pc = "loop"] /\ UNCHANGED <<lock, wanted>>
    /\ crossed' = (crossed \/ (nodes[sups[s].node].state = "restart" /\ Busy # {}))
    /\ UNCHANGED <<config, login, pid_path, nodes, port, reqs, collided, orphans, lost, acts, faults>>
HandsOver(s, fresh) ==
    /\ sups[s].pc = "handover"
    /\ sups[fresh].pc = "none" /\ \A earlier \in 1..(fresh - 1) : sups[earlier].pc # "none"
    /\ sups' = [sups EXCEPT ![s] = Ended, ![fresh].pc = "spawned"]
    /\ UNCHANGED <<config, login, lock, pid_path, node_pid_path, nodes, port, reqs, wanted, collided, crossed, orphans, lost, acts, faults>>

----------------------------------------------------------------------------
(* The node                                                                   *)

Becomes(n, state) ==
    /\ nodes' = [nodes EXCEPT ![n].state = state]
    /\ port' = IF port = n /\ state \notin {"serving", "quitting"} THEN 0 ELSE port
    /\ UNCHANGED <<config, login, lock, pid_path, node_pid_path, sups, reqs, wanted, collided, orphans, lost>>
watch(n) == nodes[n].state = "starting" /\ Becomes(n, "listening") /\ UNCHANGED <<crossed, acts, faults>>
\* It can't serve where another node does.
Binds(n) ==
    /\ nodes[n].state = "listening"
    /\ nodes' = [nodes EXCEPT ![n].state = IF port = 0 THEN "serving" ELSE "failed"]
    /\ port' = IF port = 0 THEN n ELSE port
    /\ UNCHANGED <<config, login, lock, pid_path, node_pid_path, sups, reqs, wanted, collided, crossed, orphans, lost, acts, faults>>
quitting(n, code) == [nodes EXCEPT ![n].state = "quitting", ![n].codes = @ \cup {code}]
\* From the menu bar, or a sign-out that another program then stops.
UserQuits(n) ==
    /\ nodes[n].state = "serving" /\ acts < MaxActs /\ acts' = acts + 1
    /\ nodes' = quitting(n, "quit")
    /\ crossed' = (crossed \/ Busy # {})
    /\ UNCHANGED <<config, login, lock, pid_path, node_pid_path, sups, port, reqs, wanted, collided, orphans, lost, faults>>
Updates(n) ==
    /\ nodes[n].state = "serving" /\ acts < MaxActs /\ acts' = acts + 1
    /\ nodes' = quitting(n, "restart")
    /\ crossed' = (crossed \/ Busy # {})
    /\ UNCHANGED <<config, login, lock, pid_path, node_pid_path, sups, port, reqs, wanted, collided, orphans, lost, faults>>
\* With its recordings finished; of two quits either may be the first to exit.
Exits(n) ==
    /\ nodes[n].state = "quitting"
    /\ \E code \in nodes[n].codes : Becomes(n, code)
    /\ UNCHANGED <<crossed, acts, faults>>
Crashes(n) == Live(n) /\ Fault /\ Becomes(n, "failed") /\ crossed' = (crossed \/ Busy # {}) /\ UNCHANGED acts

----------------------------------------------------------------------------
(* Commands                                                                   *)

To(r, step) == reqs' = [reqs EXCEPT ![r].step = step]
Ends(r) == reqs' = [reqs EXCEPT ![r] = NoReq]
Step(r, step) == reqs[r].step = step

\* Someone else has the lock file open: a supervisor, or a command that looks too.
is_running(r, running) ==
    IF running THEN lock # 0 \/ \E other \in Requests \ {r} : Looks(other) ELSE lock = 0

\* A start from the desktop installs the service if it isn't.
Begins(r, asked) == LET cmd == IF asked = "start" /\ config = 0 THEN "install" ELSE asked IN
    /\ reqs[r] = NoReq /\ (Busy = {} \/ faults = 0)
    /\ acts < MaxActs /\ acts' = acts + 1
    /\ cmd = "restart" => lock # 0
    /\ cmd = "uninstall" => config # 0
    /\ reqs' = [reqs EXCEPT ![r] = [NoReq EXCEPT !.cmd = cmd,
                                                !.step = IF cmd = "start" THEN "start" ELSE "stop"]]
    /\ crossed' = (crossed \/ Busy # {} \/ ~Settled)
    /\ UNCHANGED <<config, login, lock, pid_path, node_pid_path, sups, nodes, port, wanted, collided, orphans, lost, faults>>

\* Nothing runs; or the node is asked to quit, if there is one and it listens.
stop(r) ==
    /\ Step(r, "stop")
    /\ \/ is_running(r, FALSE) /\ To(r, "stopped") /\ UNCHANGED nodes
       \/ /\ is_running(r, TRUE) /\ lock # 0 /\ pid_path # 0
          /\ LET n == node_pid_path
                 asked == n # 0 /\ nodes[n].state \in {"listening", "serving", "quitting"}
             IN  /\ nodes' = IF asked THEN quitting(n, "quit") ELSE nodes
                 /\ reqs' = [reqs EXCEPT ![r].pid = pid_path, ![r].step = IF asked THEN "await" ELSE "kill"]
       \/ is_running(r, TRUE) /\ pid_path = 0 /\ Ends(r) /\ UNCHANGED nodes
       \/ is_running(r, TRUE) /\ lock = 0 /\ pid_path # 0 /\ UNCHANGED nodes
          /\ reqs' = [reqs EXCEPT ![r].pid = pid_path, ![r].step = "kill"]
    /\ UNCHANGED <<config, login, lock, pid_path, node_pid_path, sups, port, wanted, collided, crossed, orphans, lost, acts, faults>>
Gone(r) ==
    /\ (Step(r, "await") \/ Step(r, "gone"))
    /\ is_running(r, FALSE) /\ To(r, "stopped")
    /\ UNCHANGED <<config, login, lock, pid_path, node_pid_path, sups, nodes, port, wanted, collided, crossed, orphans, lost, acts, faults>>
\* STOP_TIMEOUT has passed.
TimesOut(r) ==
    /\ Step(r, "await") /\ lock # 0 /\ Fault /\ To(r, "kill")
    /\ UNCHANGED <<config, login, lock, pid_path, node_pid_path, sups, nodes, port, wanted, collided, crossed, orphans, lost, acts>>
\* The supervisor of that pid and its node, wherever they are; it fails if
\* another has the lock by then.
taskkill(r) ==
    /\ Step(r, "kill")
    /\ LET s == reqs[r].pid IN
       IF Alive(s)
       THEN LET n == sups[s].node
                hit == n # 0 /\ Live(n) IN
            /\ sups' = [sups EXCEPT ![s] = Ended]
            /\ lock' = IF lock = s THEN 0 ELSE lock
            /\ nodes' = IF hit THEN [nodes EXCEPT ![n].state = "killed"] ELSE nodes
            /\ port' = IF hit /\ port = n THEN 0 ELSE port
            /\ lost' = (lost \/ (hit /\ nodes[n].state = "serving"))
            /\ wanted' = FALSE
            /\ To(r, "gone")
       ELSE /\ \/ is_running(r, TRUE) /\ Ends(r)
               \/ is_running(r, FALSE) /\ To(r, "gone")
            /\ UNCHANGED <<sups, lock, nodes, port, lost, wanted>>
    /\ UNCHANGED <<config, login, pid_path, node_pid_path, collided, crossed, orphans, acts, faults>>
\* Another supervisor has started meanwhile, and stays.
DidntStop(r) ==
    /\ Step(r, "gone") /\ lock # 0 /\ Ends(r)
    /\ UNCHANGED <<config, login, lock, pid_path, node_pid_path, sups, nodes, port, wanted, collided, crossed, orphans, lost, acts, faults>>

\* A fresh install starts at login; a reinstall keeps the choice.
install(r) ==
    /\ Step(r, "stopped") /\ reqs[r].cmd = "install"
    /\ config' = acts + faults + 2
    /\ login' = (config = 0 \/ login)
    /\ reqs' = [reqs EXCEPT ![r].step = "start", ![r].config = config']
    /\ UNCHANGED <<lock, pid_path, node_pid_path, sups, nodes, port, wanted, collided, crossed, orphans, lost, acts, faults>>
restart(r) ==
    /\ Step(r, "stopped") /\ reqs[r].cmd = "restart" /\ To(r, "start")
    /\ UNCHANGED <<config, login, lock, pid_path, node_pid_path, sups, nodes, port, wanted, collided, crossed, orphans, lost, acts, faults>>
\* The lock file can't be removed while it is open, so the rest isn't then.
uninstall(r) ==
    /\ Step(r, "stopped") /\ reqs[r].cmd = "uninstall"
    /\ login' = FALSE /\ config' = 0
    /\ IF lock # 0 THEN UNCHANGED <<pid_path, node_pid_path>> /\ Ends(r)
       ELSE pid_path' = 0 /\ node_pid_path' = 0 /\ To(r, "uninstalled")
    /\ UNCHANGED <<lock, sups, nodes, port, wanted, collided, crossed, orphans, lost, acts, faults>>

Runs(r) == IF reqs[r].cmd = "start" THEN Ends(r) ELSE To(r, "port")
start(r, s) ==
    /\ Step(r, "start")
    /\ \/ is_running(r, TRUE) /\ Runs(r) /\ UNCHANGED <<sups, wanted>>
       \/ is_running(r, FALSE) /\ config = 0 /\ Ends(r) /\ UNCHANGED <<sups, wanted>>
       \/ is_running(r, FALSE) /\ config # 0 /\ spawn_supervisor(s) /\ wanted' = TRUE /\ To(r, "starting")
    /\ UNCHANGED <<config, login, lock, pid_path, node_pid_path, nodes, port, collided, crossed, orphans, lost, acts, faults>>
\* Every 100 ms, for ten seconds.
Started(r) ==
    /\ Step(r, "starting") /\ is_running(r, TRUE) /\ Runs(r)
    /\ UNCHANGED <<config, login, lock, pid_path, node_pid_path, sups, nodes, port, wanted, collided, crossed, orphans, lost, acts, faults>>
DidntStart(r) ==
    /\ Step(r, "starting") /\ lock = 0 /\ (\A s \in Supervisors : sups[s].pc \in {"none", "ended"}) /\ Ends(r)
    /\ wanted' = FALSE
    /\ UNCHANGED <<config, login, lock, pid_path, node_pid_path, sups, nodes, port, collided, crossed, orphans, lost, acts, faults>>
wait_for_port(r) ==
    /\ Step(r, "port")
    /\ \/ port # 0 /\ To(r, "installed")
       \/ port = 0 /\ is_running(r, FALSE) /\ Ends(r)
    /\ UNCHANGED <<config, login, lock, pid_path, node_pid_path, sups, nodes, port, wanted, collided, crossed, orphans, lost, acts, faults>>
Returns(r) ==
    /\ (Step(r, "installed") \/ Step(r, "uninstalled"))
    /\ Ends(r)
    /\ UNCHANGED <<config, login, lock, pid_path, node_pid_path, sups, nodes, port, wanted, collided, crossed, orphans, lost, acts, faults>>

----------------------------------------------------------------------------
(* The session                                                                *)

set_start_at_login(on) ==
    /\ config # 0 /\ login # on /\ acts < MaxActs /\ acts' = acts + 1
    /\ login' = on
    /\ crossed' = (crossed \/ Busy # {})
    /\ UNCHANGED <<config, lock, pid_path, node_pid_path, sups, nodes, port, reqs, wanted, collided, orphans, lost, faults>>
\* Each process ends, the node with its recordings finished, and the task
\* starts a supervisor when the user is back.
SignsIn(s) ==
    /\ Fault
    /\ LET over == [t \in Supervisors |-> IF sups[t].pc = "none" THEN sups[t] ELSE Ended]
       IN  IF login /\ config # 0
           THEN /\ over[s].pc = "none" /\ \A earlier \in 1..(s - 1) : over[earlier].pc # "none"
                /\ sups' = [over EXCEPT ![s].pc = "spawned"] /\ wanted' = TRUE
           ELSE s = 1 /\ sups' = over /\ wanted' = FALSE
    /\ lock' = 0 /\ port' = 0
    /\ nodes' = [n \in Nodes |-> IF Live(n) THEN [nodes[n] EXCEPT !.state = "quit"] ELSE nodes[n]]
    /\ reqs' = [r \in Requests |-> NoReq]
    /\ orphans' = FALSE
    /\ UNCHANGED <<config, login, pid_path, node_pid_path, collided, crossed, lost, acts>>
\* From the task manager, say: its node carries on.
SupervisorKilled(s) ==
    /\ Alive(s) /\ lock = s /\ Fault
    /\ sups' = [sups EXCEPT ![s] = Ended] /\ lock' = 0
    /\ orphans' = TRUE /\ wanted' = FALSE
    /\ UNCHANGED <<config, login, pid_path, node_pid_path, nodes, port, reqs, collided, crossed, lost, acts>>

Next ==
    \/ \E s \in Supervisors :
        \/ Locks(s) \/ WritesPid(s) \/ WritesNodePid(s) \/ run_supervisor(s) \/ SignsIn(s) \/ SupervisorKilled(s)
        \/ \E n \in Nodes : Starts(s, n)
        \/ \E fresh \in Supervisors : HandsOver(s, fresh)
        \/ \E r \in Requests : start(r, s)
    \/ \E n \in Nodes : watch(n) \/ Binds(n) \/ UserQuits(n) \/ Updates(n) \/ Exits(n) \/ Crashes(n)
    \/ \E r \in Requests :
        \/ \E cmd \in {"install", "uninstall", "restart", "start"} : Begins(r, cmd)
        \/ stop(r) \/ Gone(r) \/ TimesOut(r) \/ taskkill(r) \/ DidntStop(r) \/ install(r) \/ restart(r)
        \/ uninstall(r) \/ Started(r) \/ DidntStart(r) \/ wait_for_port(r) \/ Returns(r)
    \/ \E on \in BOOLEAN : set_start_at_login(on)
Spec == Init /\ [][Next]_vars

----------------------------------------------------------------------------
(* What must hold                                                             *)

\* One node runs at a time, whatever is stopped, started, updated or fails,
\* unless a supervisor was killed without its node.
OneNodeAtATime == ~orphans => Cardinality({n \in Nodes : Live(n)}) <= 1
\* Once a command has answered that the service runs, the node that serves was
\* started with the arguments of the last install; and once it has been
\* uninstalled nothing runs. Unless commands, updates or quits overlapped.
AnswersAreTrue ==
    \A r \in Requests : ~crossed /\ ~orphans =>
        /\ reqs[r].step = "installed" /\ port # 0 => nodes[port].config >= reqs[r].config
        /\ reqs[r].step = "uninstalled" => ~\E s \in Supervisors : Alive(s)
\* The service that was started, and not stopped or quit since, has a
\* supervisor, through failures and updates of its node (windows.rs:12-15),
\* unless one was turned away by someone who looked whether it runs.
KeepsRunning == wanted /\ ~collided => \E s \in Supervisors : Alive(s)
\* A node that serves is asked to quit, and waited for, before it is killed
\* (windows.rs:22-25), unless it was starting as its service was being stopped.
FinishesFirst == lost => crossed
=============================================================================
