---------------------------- MODULE DesktopShell ----------------------------
(***************************************************************************)
(* The desktop shell (src-tauri/src/main.rs): it starts the backend, which *)
(* takes seconds to listen on its port, restarts it, and kills what it     *)
(* started when its window closes.  A start runs in the setup or, for      *)
(* restart_backend, in a thread of its own; the window lets the user ask   *)
(* for one restart at a time (App.vue, handleRestartBackend).              *)
(***************************************************************************)
EXTENDS Naturals

CONSTANTS OnWindows,    \* the owner of the port can be asked for and killed
          MaxBackends,  \* bound on the backend processes
          MaxLaunches   \* bound on the launches of the application

ASSUME ShellAssumption ==
    OnWindows \in BOOLEAN /\ MaxBackends \in Nat /\ MaxLaunches \in Nat

VARIABLES backend,   \* the backend processes, numbered as they are started
          python,    \* ManagedProcesses.python: the child, or 0
          start,     \* where the start under way stands, and its child
          window,    \* the main window, and how often there was one
          ollama,    \* ManagedProcesses.ollama, and who serves its port
          shellLog   \* what was told and done, for the properties

shellVars == <<backend, python, start, window, ollama, shellLog>>

Backends == 1..MaxBackends
NoStart == [at |-> "none", child |-> 0]

ShellTypeOK ==
    /\ backend \in [Backends -> {"unborn", "loading", "listening", "gone"}]
    /\ python \in 0..MaxBackends
    /\ start \in [at : {"none", "release", "check", "spawn", "wait"}, child : 0..MaxBackends]
    /\ window \in [open : BOOLEAN, launches : 0..MaxLaunches]
    /\ ollama \in [kept : BOOLEAN, own : BOOLEAN, foreign : BOOLEAN]
    /\ shellLog.ready \in 0..MaxBackends /\ shellLog.stray \in SUBSET Backends

ShellInit ==
    /\ backend = [p \in Backends |-> "unborn"]
    /\ python = 0 /\ start = NoStart
    /\ window = [open |-> FALSE, launches |-> 0]
    /\ ollama = [kept |-> FALSE, own |-> FALSE, foreign |-> FALSE]
    /\ shellLog = [ready |-> 0, stray |-> {}, answer |-> "none"]

Alive(p) == backend[p] \in {"loading", "listening"}
Listeners == {p \in Backends : backend[p] = "listening"}
Kill(victims) == backend' = [p \in Backends |-> IF p \in victims THEN "gone" ELSE backend[p]]

----------------------------------------------------------------------------
(* Starting a backend.                                                     *)

\* A start that comes to nothing; an error goes to who asked for it.
Quit == start' = NoStart /\ UNCHANGED <<backend, python, window, ollama, shellLog>>

\* The setup of a launch.
Launch ==
    /\ ~window.open /\ window.launches < MaxLaunches
    /\ window' = [open |-> TRUE, launches |-> window.launches + 1]
    /\ start' = [at |-> "check", child |-> 0]
    /\ UNCHANGED <<backend, python, ollama, shellLog>>

\* restart_backend_blocking: the child that is kept is killed.
RestartBackend ==
    /\ window.open /\ start.at = "none"
    /\ Kill({python}) /\ python' = 0
    /\ start' = [at |-> "release", child |-> 0]
    /\ shellLog' = [shellLog EXCEPT !.ready = 0]
    /\ UNCHANGED <<window, ollama>>

\* A listener on the port is killed, if the system can tell who it is.
FreePort(next) ==
    /\ start' = [start EXCEPT !.at = next]
    /\ Listeners # {} => OnWindows
    /\ Kill(Listeners)
    /\ UNCHANGED <<python, window, ollama, shellLog>>

\* wait_for_port_release, and what holds the port after five seconds.
PortReleased == start.at = "release" /\ FreePort("check")

\* spawn_python_inner: a stale process may hold the port.
PortChecked == start.at = "check" /\ FreePort("spawn")

\* It cannot be found or killed, or no backend can be started.
BackendStartFails == start.at \in {"release", "check", "spawn"} /\ Quit

Spawn(p) ==
    /\ start.at = "spawn"
    /\ backend[p] = "unborn" /\ \A q \in Backends : q < p => backend[q] # "unborn"
    /\ backend' = [backend EXCEPT ![p] = "loading"]
    /\ start' = [at |-> "wait", child |-> p]
    /\ UNCHANGED <<python, window, ollama, shellLog>>

ChildExited == start.at = "wait" /\ backend[start.child] = "gone" /\ Quit

\* Mutant: whoever listens, the child is taken for ready.
AnyListener == TRUE

OwnListener == OnWindows => start.child \in Listeners

Ready ==
    /\ start.at = "wait" /\ Listeners # {} /\ Alive(start.child) /\ OwnListener
    /\ python' = start.child
    /\ shellLog' = [shellLog EXCEPT !.ready = start.child]
    /\ start' = NoStart
    /\ UNCHANGED <<backend, window, ollama>>

\* Mutant: the child that did not get ready is left to itself.
Abandon(spawned) == UNCHANGED backend

GiveUpOn(spawned) == Kill({spawned})

\* Somebody else listens on the port, or a minute is over.
NotReady ==
    /\ start.at = "wait"
    /\ GiveUpOn(start.child)
    /\ start' = NoStart
    /\ UNCHANGED <<python, window, ollama, shellLog>>

\* A backend binds the port, or ends when another has it.
Bind(p) ==
    /\ backend[p] = "loading"
    /\ backend' = [backend EXCEPT ![p] = IF Listeners = {} THEN "listening" ELSE "gone"]
    /\ UNCHANGED <<python, start, window, ollama, shellLog>>

Crash(p) ==
    /\ Alive(p) /\ Kill({p})
    /\ UNCHANGED <<python, start, window, ollama, shellLog>>

----------------------------------------------------------------------------
(* Ollama.                                                                 *)

OllamaServes == ollama.own \/ ollama.foreign

\* start_ollama, and spawn_ollama in the setup: not while a child is kept or
\* somebody serves the port.
StartOllama ==
    /\ window.open
    /\ IF ollama.kept \/ OllamaServes
       THEN shellLog' = [shellLog EXCEPT !.answer = "running"] /\ UNCHANGED ollama
       ELSE /\ ollama' = [ollama EXCEPT !.kept = TRUE, !.own = TRUE]
            /\ shellLog' = [shellLog EXCEPT !.answer = "started"]
    /\ UNCHANGED <<backend, python, start, window>>

StopOllama ==
    /\ window.open
    /\ ollama' = [ollama EXCEPT !.kept = FALSE, !.own = @ /\ ~ollama.kept]
    /\ shellLog' = [shellLog EXCEPT !.answer = IF ollama.kept THEN "stopped" ELSE "none"]
    /\ UNCHANGED <<backend, python, start, window>>

\* It ends by itself, or the user runs one of his own.
OllamaChanges ==
    /\ \/ ollama.own /\ ollama' = [ollama EXCEPT !.own = FALSE]
       \/ ~ollama.own /\ ollama' = [ollama EXCEPT !.foreign = ~@]
    /\ shellLog' = [shellLog EXCEPT !.answer = "none"]
    /\ UNCHANGED <<backend, python, start, window>>

----------------------------------------------------------------------------

\* The main window closes: the children that are kept are killed; the child
\* of a start under way is not kept yet, and its thread ends with the shell.
CloseWindow ==
    /\ window.open
    /\ window' = [window EXCEPT !.open = FALSE]
    /\ Kill({python}) /\ python' = 0
    /\ ollama' = [ollama EXCEPT !.kept = FALSE, !.own = @ /\ ~ollama.kept]
    /\ shellLog' = [ready |-> 0, answer |-> "none",
                    stray |-> shellLog.stray \cup {p \in {start.child} \ {0} : Alive(p)}]
    /\ start' = NoStart

ShellNext ==
    \/ Launch \/ RestartBackend \/ PortReleased \/ PortChecked \/ BackendStartFails
    \/ ChildExited \/ Ready \/ NotReady
    \/ \E p \in Backends : Spawn(p) \/ Bind(p) \/ Crash(p)
    \/ StartOllama \/ StopOllama \/ OllamaChanges \/ CloseWindow

ShellSpec == ShellInit /\ [][ShellNext]_shellVars

----------------------------------------------------------------------------
(* A stale backend does not "masquerade as the newly spawned backend"      *)
(* (main.rs:252): what was reported ready is the child that is kept, and   *)
(* while that lives it is the one that listens.  (Not so elsewhere than on *)
(* Windows, where the port's owner is not asked for.)                      *)
ReadyIsOwn ==
    shellLog.ready # 0 =>
       /\ python = shellLog.ready
       /\ Alive(python) => backend[python] = "listening"

(* What the shell started ends with it, but for a backend that was being   *)
(* started when the window closed, ...                                     *)
NothingLeftBehind ==
    ~window.open => ~ollama.own /\ \A p \in Backends : Alive(p) => p \in shellLog.stray

(* ... and as long as the shell runs it loses none of its children.        *)
NoneIsLost ==
    \A p \in Backends : Alive(p) => p \in {python, start.child} \cup shellLog.stray

ShellIsTidy == ReadyIsOwn /\ NothingLeftBehind /\ NoneIsLost

(* "already running" is true: what the code does not keep, for it does not *)
(* look whether the child it keeps has ended.                              *)
RunningIsTrue == shellLog.answer = "running" => OllamaServes
=============================================================================
