---------------------------- MODULE ServerControl ----------------------------
(***************************************************************************)
(* The command line: `blend' starts a server in a process of its own, the  *)
(* daemon worker, and `blend stop' ends the one that the pid file names.   *)
(* Nothing locks the pid file, servers crash and leave it behind, and the  *)
(* system gives their pids and their ports to other programs.              *)
(***************************************************************************)
EXTENDS Integers

CONSTANTS
    Commands,   \* shells that run `blend' and `blend stop'
    Pids,       \* pids that workers and other programs get
    MaxPort,    \* bound: the ports are 0 .. MaxPort
    NoPid

ASSUME PidsAssumption == NoPid \notin Pids
ASSUME PortsAssumption == MaxPort \in Nat

VARIABLES
    pidFile,    \* what blend.pid holds
    process,    \* what the process with a pid is
    portOf,     \* the port of a worker
    occupied,   \* the ports other programs listen on
    shell,      \* where a command is
    wanted,     \* the port it has chosen
    read,       \* the pid that `stop' has read
    overlapped  \* a command was given before the last one had come to its end

controlVars == <<pidFile, process, portOf, occupied, shell, wanted, read, overlapped>>

Ports == 0 .. MaxPort
Starting == {"look", "write", "bind"}
Serving == {"up", "dying"}

ControlTypeOK ==
    /\ pidFile \in Pids \cup {NoPid}
    /\ process \in [Pids -> Starting \cup Serving \cup {"none", "other"}]
    /\ portOf \in [Pids -> Ports]
    /\ occupied \subseteq Ports
    /\ shell \in [Commands -> {"idle", "look", "test", "clear", "spawn",
                               "read", "kill", "remove"}]
    /\ wanted \in [Commands -> Ports]
    /\ read \in [Commands -> Pids \cup {NoPid}]
    /\ overlapped \in BOOLEAN

ControlInit ==
    /\ pidFile = NoPid
    /\ process = [p \in Pids |-> "none"]
    /\ portOf = [p \in Pids |-> 0]
    /\ occupied = {}
    /\ shell = [c \in Commands |-> "idle"]
    /\ wanted = [c \in Commands |-> 0]
    /\ read = [c \in Commands |-> NoPid]
    /\ overlapped = FALSE

-----------------------------------------------------------------------------
(* is_port_in_use, and the port that find_available_port returns.          *)
InUse(port) ==
    port \in occupied \/ \E p \in Pids : process[p] \in Serving /\ portOf[p] = port

Available(port) ==
    {q \in Ports : q > port /\ ~InUse(q) /\ \A r \in port + 1 .. q - 1 : InUse(r)}

(* What check_if_running may find: a ping is answered, also by a foreign   *)
(* program, or not in time, and a signal 0 to the pid of the file fails    *)
(* without such a process and, for one of another user, also with it.      *)
(* MUTANT: the pid file is not looked at.                                  *)
RunningByPing(port) == {found \in BOOLEAN : found => InUse(port)}
Running(port) ==
    LET alive == pidFile # NoPid /\ process[pidFile] # "none"
        ours == alive /\ process[pidFile] # "other"
    IN  {found \in BOOLEAN : (found => alive \/ InUse(port)) /\ (~found => ~ours)}

(* A command and its worker begin with the same look at their port, and    *)
(* take another one if a foreign program has it.                           *)
Looked(port) ==
    IF InUse(port) /\ FALSE \in Running(port)
    THEN Available(port) \cup (IF TRUE \in Running(port) THEN {port} ELSE {})
    ELSE {port}

Enters(c, place) == shell' = [shell EXCEPT ![c] = place]

Busy == (\E d \in Commands : shell[d] # "idle")
            \/ \E p \in Pids : process[p] \in Starting

-----------------------------------------------------------------------------
(* `blend'.                                                                *)

Start(c, port) ==
    /\ shell[c] = "idle"
    /\ Enters(c, "look")
    /\ wanted' = [wanted EXCEPT ![c] = port]
    /\ overlapped' = (overlapped \/ Busy)
    /\ UNCHANGED <<pidFile, process, portOf, occupied, read>>

(* Without a free port, find_available_port raises.                        *)
Look(c) ==
    /\ shell[c] = "look"
    /\ \/ /\ \E port \in Looked(wanted[c]) : wanted' = [wanted EXCEPT ![c] = port]
          /\ Enters(c, "test")
       \/ /\ InUse(wanted[c]) /\ FALSE \in Running(wanted[c])
          /\ Available(wanted[c]) = {}
          /\ Enters(c, "idle") /\ UNCHANGED wanted
    /\ UNCHANGED <<pidFile, process, portOf, occupied, read, overlapped>>

Test(c) ==
    /\ shell[c] = "test"
    /\ \E running \in Running(wanted[c]) : Enters(c, IF running THEN "idle" ELSE "clear")
    /\ UNCHANGED <<pidFile, process, portOf, occupied, wanted, read, overlapped>>

Clear(c) ==
    /\ shell[c] = "clear"
    /\ pidFile' = NoPid
    /\ Enters(c, "spawn")
    /\ UNCHANGED <<process, portOf, occupied, wanted, read, overlapped>>

Spawn(c) ==
    /\ shell[c] = "spawn"
    /\ \E p \in Pids :
         /\ process[p] = "none"
         /\ process' = [process EXCEPT ![p] = "look"]
         /\ portOf' = [portOf EXCEPT ![p] = wanted[c]]
    /\ Enters(c, "idle")
    /\ UNCHANGED <<pidFile, occupied, wanted, read, overlapped>>

(* The daemon worker looks at its port, writes its pid, and listens.       *)

LookAgain(p) ==
    /\ process[p] = "look"
    /\ \/ /\ \E port \in Looked(portOf[p]) : portOf' = [portOf EXCEPT ![p] = port]
          /\ process' = [process EXCEPT ![p] = "write"]
       \/ /\ InUse(portOf[p]) /\ FALSE \in Running(portOf[p])
          /\ Available(portOf[p]) = {}
          /\ process' = [process EXCEPT ![p] = "none"] /\ UNCHANGED portOf
    /\ UNCHANGED <<pidFile, occupied, shell, wanted, read, overlapped>>

WritePid(p) ==
    /\ process[p] = "write"
    /\ pidFile' = p
    /\ process' = [process EXCEPT ![p] = "bind"]
    /\ UNCHANGED <<portOf, occupied, shell, wanted, read, overlapped>>

(* app.run ends the worker if the port is in use.                          *)
Bind(p) ==
    /\ process[p] = "bind"
    /\ process' = [process EXCEPT ![p] = IF InUse(portOf[p]) THEN "none" ELSE "up"]
    /\ UNCHANGED <<pidFile, portOf, occupied, shell, wanted, read, overlapped>>

-----------------------------------------------------------------------------
(* `blend stop', kill_running.                                             *)

Stop(c) ==
    /\ shell[c] = "idle"
    /\ Enters(c, "read")
    /\ overlapped' = (overlapped \/ Busy)
    /\ UNCHANGED <<pidFile, process, portOf, occupied, wanted, read>>

ReadPid(c) ==
    /\ shell[c] = "read"
    /\ read' = [read EXCEPT ![c] = pidFile]
    /\ Enters(c, IF pidFile = NoPid THEN "idle" ELSE "kill")
    /\ UNCHANGED <<pidFile, process, portOf, occupied, wanted, overlapped>>

(* A server holds its port until the signal has ended it.  The process     *)
(* that has the pid by now may be of another user.                         *)
Kill(c) ==
    /\ shell[c] = "kill"
    /\ \/ process' = [process EXCEPT ![read[c]] =
                        IF @ \in Serving THEN "dying" ELSE "none"]
       \/ process[read[c]] = "other" /\ UNCHANGED process
    /\ Enters(c, "remove")
    /\ UNCHANGED <<pidFile, portOf, occupied, wanted, read, overlapped>>

RemoveFile(c) ==
    /\ shell[c] = "remove"
    /\ pidFile' = NoPid
    /\ read' = [read EXCEPT ![c] = NoPid]
    /\ Enters(c, "idle")
    /\ UNCHANGED <<process, portOf, occupied, wanted, overlapped>>

-----------------------------------------------------------------------------
(* A worker ends, by a signal or a crash, or another program does.         *)
End(p) ==
    /\ process[p] # "none"
    /\ process' = [process EXCEPT ![p] = "none"]
    /\ UNCHANGED <<pidFile, portOf, occupied, shell, wanted, read, overlapped>>

(* The system gives the pid to another program, and a port.                *)
Reuse(p) ==
    /\ process[p] = "none"
    /\ process' = [process EXCEPT ![p] = "other"]
    /\ UNCHANGED <<pidFile, portOf, occupied, shell, wanted, read, overlapped>>

Occupy(port) ==
    /\ \/ ~InUse(port) /\ occupied' = occupied \cup {port}
       \/ port \in occupied /\ occupied' = occupied \ {port}
    /\ UNCHANGED <<pidFile, process, portOf, shell, wanted, read, overlapped>>

Command(c) ==
    \/ \E port \in Ports : Start(c, port)
    \/ Look(c) \/ Test(c) \/ Clear(c) \/ Spawn(c)
    \/ Stop(c) \/ ReadPid(c) \/ Kill(c) \/ RemoveFile(c)

Worker(p) == LookAgain(p) \/ WritePid(p) \/ Bind(p)

ControlNext ==
    \/ \E c \in Commands : Command(c)
    \/ \E p \in Pids : Worker(p) \/ End(p) \/ Reuse(p)
    \/ \E port \in Ports : Occupy(port)

ControlSpec == ControlInit /\ [][ControlNext]_controlVars

-----------------------------------------------------------------------------
(* As long as commands are given one after the other, each when the worker *)
(* of the last one listens or has ended, the pid file names every server   *)
(* that was not stopped: `blend stop' reaches it, and there is only one,   *)
(* whatever crashed and whoever got its pid or its port (cli.py, main and  *)
(* kill_running).                                                          *)
ServersNamed ==
    \A p \in Pids : process[p] = "up" /\ ~overlapped => pidFile = p
=============================================================================
