------------------------------ MODULE AgentLife ------------------------------
(***************************************************************************)
(* The life of the agent process as its client sees it                     *)
(* (pkg/platform/http/agent.go): AgentClient.Setup picks the ports, starts *)
(* the agent (a native process, a native process behind a pseudo terminal  *)
(* or a docker client, the last with or without one), waits until it is    *)
(* healthy and prepares the application.  The goroutines it leaves on the  *)
(* error group wait for the process, ask it to stop when the context ends  *)
(* and watch both contexts; stopAgent, called by a failed Setup or by the  *)
(* monitor, holds the client's mutex while it closes the terminal.         *)
(***************************************************************************)
EXTENDS Naturals

CONSTANT Scenes  \* command kind, terminal, and which steps and calls fail

VARIABLES
    scene,
    ctx,       \* the client's context: "live" or "done"
    agentCtx,  \* the context startAgent derives, "none" before it
    setup,     \* where Setup is, or how it returned
    proc,      \* the agent: "none", "boot", "ready", "asked" (to stop), "gone"
    mu,        \* who holds AgentClient.mu
    pty,       \* the terminal: "none", "open", "closed"
    cmdRef,    \* whether agentCmd/agentPTY refer to the process
    waiter,    \* the goroutine waiting for the process
    stopper,   \* the goroutine that asks a native agent to stop
    monitor,   \* monitorAgent
    grpErr     \* the error group's first error

vars == <<scene, ctx, agentCtx, setup, proc, mu, pty, cmdRef, waiter, stopper, monitor, grpErr>>

Members == {"none", "run", "post", "signal", "drain", "done"}

TypeOK ==
    /\ ctx \in {"live", "done"} /\ agentCtx \in {"none", "live", "done"}
    /\ setup \in {"ports", "start", "ready", "app", "undo", "undrain", "ok", "err"}
    /\ proc \in {"none", "boot", "ready", "asked", "gone"}
    /\ mu \in {"free", "setup", "monitor"}
    /\ pty \in {"none", "open", "closed"}
    /\ cmdRef \in BOOLEAN /\ grpErr \in BOOLEAN
    /\ waiter \in Members /\ stopper \in Members /\ monitor \in Members

Init ==
    /\ scene \in Scenes
    /\ ctx = "live" /\ agentCtx = "none" /\ setup = "ports"
    /\ proc = "none" /\ mu = "free" /\ pty = "none" /\ cmdRef = FALSE
    /\ waiter = "none" /\ stopper = "none" /\ monitor = "none" /\ grpErr = FALSE

Docker == scene.kind = "docker"
Fails(step) == step \in scene.fails
Done(c) == ctx = "done" \/ c = "done"

(***************************************************************************)
(* Setup.                                                                  *)
(***************************************************************************)

\* The agent, proxy and DNS ports; the sysctl of a docker command.
Ports ==
    /\ setup = "ports"
    /\ setup' = IF Fails("ports") THEN "err" ELSE IF scene.kind = "compose" THEN "app" ELSE "start"
    /\ UNCHANGED <<scene, ctx, agentCtx, proc, mu, pty, cmdRef, waiter, stopper, monitor, grpErr>>

\* StartCommandWithPTY: the terminal with its copying goroutines.
StartWithPTY == pty' = IF scene.pty THEN "open" ELSE "none"

\* startInDocker runs the client on the error group; without a terminal it is
\* not remembered in agentCmd.
startInDocker ==
    /\ proc' = "boot" /\ waiter' = "run" /\ stopper' = stopper
    /\ StartWithPTY
    /\ cmdRef' = scene.pty

\* startNativeAgent remembers the command and adds the waiter and the stopper.
startNativeAgent ==
    /\ proc' = "boot" /\ waiter' = "run" /\ stopper' = "run"
    /\ StartWithPTY
    /\ cmdRef' = TRUE

\* A refused docker agent leaves its context, a refused native one cancels it.
startAgent ==
    /\ setup = "start"
    /\ IF Fails("start")
       THEN /\ setup' = "err"
            /\ agentCtx' = IF Docker THEN "live" ELSE "done"
            /\ UNCHANGED <<proc, pty, cmdRef, waiter, stopper, monitor>>
       ELSE /\ setup' = "ready" /\ agentCtx' = "live" /\ monitor' = "run"
            /\ IF Docker THEN startInDocker ELSE startNativeAgent
    /\ UNCHANGED <<scene, ctx, mu, grpErr>>

\* AgentHealthTicker saw the health route answer.
AgentReady ==
    /\ setup = "ready" /\ proc = "ready"
    /\ setup' = "app"
    /\ UNCHANGED <<scene, ctx, agentCtx, proc, mu, pty, cmdRef, waiter, stopper, monitor, grpErr>>

\* The readiness timeout or the end of the client's context: Setup returns,
\* its cleanup is not registered yet.
NotReady ==
    /\ setup = "ready"
    /\ ctx = "done" \/ proc \in {"boot", "gone", "asked"}
    /\ setup' = "err"
    /\ UNCHANGED <<scene, ctx, agentCtx, proc, mu, pty, cmdRef, waiter, stopper, monitor, grpErr>>

\* SetupCaCertEnv and App.Setup; a failure runs the deferred stopAgent.
SetupApp ==
    /\ setup = "app"
    /\ setup' = IF Fails("app") THEN "undo" ELSE "ok"
    /\ UNCHANGED <<scene, ctx, agentCtx, proc, mu, pty, cmdRef, waiter, stopper, monitor, grpErr>>

(***************************************************************************)
(* Stopping.                                                               *)
(***************************************************************************)

\* PTYHandle.Wait closes the terminal once the process has exited, if nobody
\* else has.
CloseTerminal == pty' = IF pty = "open" THEN "closed" ELSE pty

\* StopPTYCommand: close the terminal, SIGTERM.
StopPTYCommand ==
    /\ CloseTerminal
    /\ proc' = IF proc \in {"boot", "ready"} /\ ~scene.stubborn THEN "asked" ELSE proc

\* No command to signal.
StopNothing == UNCHANGED <<proc, pty>>

\* StopCommand: SIGTERM to the process group; nothing follows when the group
\* is known.
StopCommand ==
    /\ proc' = IF proc \in {"boot", "ready"} /\ ~scene.stubborn THEN "asked" ELSE proc
    /\ UNCHANGED pty

\* stopAgent takes the mutex, cancels the agent's context and, with a
\* terminal, stops the command and waits for the copying goroutines.
stopAgent(who) ==
    /\ mu = "free"
    /\ agentCtx' = IF agentCtx = "none" THEN "none" ELSE "done"
    /\ IF cmdRef /\ pty # "none"
       THEN StopPTYCommand /\ mu' = who
       ELSE UNCHANGED <<proc, pty, mu>>

UndoSetup ==
    /\ setup = "undo"
    /\ stopAgent("setup")
    /\ setup' = IF mu' = "setup" THEN "undrain" ELSE "err"
    /\ UNCHANGED <<scene, ctx, cmdRef, waiter, stopper, monitor, grpErr>>

\* The resize and copy goroutines end once the terminal is closed.
UndoDrained ==
    /\ setup = "undrain" /\ pty = "closed"
    /\ mu' = "free" /\ setup' = "err"
    /\ UNCHANGED <<scene, ctx, agentCtx, proc, pty, cmdRef, waiter, stopper, monitor, grpErr>>

\* monitorAgent: the client's end stops the agent, the agent's end is logged.
MonitorClient ==
    /\ monitor = "run" /\ ctx = "done"
    /\ stopAgent("monitor")
    /\ monitor' = IF mu' = "monitor" THEN "drain" ELSE "done"
    /\ UNCHANGED <<scene, ctx, setup, cmdRef, waiter, stopper, grpErr>>

MonitorDrained ==
    /\ monitor = "drain" /\ pty = "closed"
    /\ mu' = "free" /\ monitor' = "done"
    /\ UNCHANGED <<scene, ctx, agentCtx, setup, proc, pty, cmdRef, waiter, stopper, grpErr>>

MonitorAgent ==
    /\ monitor = "run" /\ Done(agentCtx)
    /\ monitor' = "done"
    /\ UNCHANGED <<scene, ctx, agentCtx, setup, proc, mu, pty, cmdRef, waiter, stopper, grpErr>>

\* The native stopper: POST /stop once the context ends.
StopperWakes ==
    /\ stopper = "run" /\ Done(agentCtx)
    /\ stopper' = "post"
    /\ UNCHANGED <<scene, ctx, agentCtx, setup, proc, mu, pty, cmdRef, waiter, monitor, grpErr>>

\* requestAgentStop succeeds when the agent serves and obeys its stop route.
requestAgentStop ==
    /\ stopper = "post"
    /\ \/ /\ proc \in {"ready", "asked"} /\ ~scene.stubborn
          /\ proc' = "asked" /\ stopper' = "done"
       \/ /\ proc # "ready" \/ scene.stubborn \/ Fails("stop")
          /\ stopper' = "signal" /\ proc' = proc
    /\ UNCHANGED <<scene, ctx, agentCtx, setup, mu, pty, cmdRef, waiter, monitor, grpErr>>

\* Otherwise the command is signalled; the mutex is held only to read it.
StopperSignals ==
    /\ stopper = "signal" /\ mu = "free"
    /\ IF ~cmdRef THEN StopNothing
       ELSE IF scene.pty THEN StopPTYCommand ELSE StopCommand
    /\ stopper' = "done"
    /\ UNCHANGED <<scene, ctx, agentCtx, setup, mu, cmdRef, waiter, monitor, grpErr>>

\* The docker client's cmd.Cancel: docker stop, with sudo if that fails, and
\* SIGKILL to the client.
DockerCancel ==
    /\ Docker /\ waiter = "run" /\ Done(agentCtx) /\ proc \in {"boot", "ready", "asked"}
    /\ proc' = "gone"
    /\ UNCHANGED <<scene, ctx, agentCtx, setup, mu, pty, cmdRef, waiter, stopper, monitor, grpErr>>

\* The native process has exited.  An exit nobody asked for is the group's
\* error and leaves agentCmd; otherwise it is cleared under the mutex.
WaiterReturns ==
    /\ ~Docker /\ waiter = "run" /\ proc = "gone"
    /\ CloseTerminal
    /\ IF Done(agentCtx)
       THEN mu = "free" /\ cmdRef' = FALSE /\ grpErr' = grpErr
       ELSE cmdRef' = cmdRef /\ grpErr' = TRUE
    /\ waiter' = "done"
    /\ UNCHANGED <<scene, ctx, agentCtx, setup, proc, mu, stopper, monitor>>

\* The docker client has exited: its references are cleared in any case, and
\* the agent's context ends with it.
DockerReturns ==
    /\ Docker /\ waiter = "run" /\ proc = "gone"
    /\ scene.pty => mu = "free"
    /\ CloseTerminal
    /\ cmdRef' = FALSE
    /\ grpErr' = (grpErr \/ ~Done(agentCtx))
    /\ agentCtx' = "done" /\ waiter' = "done"
    /\ UNCHANGED <<scene, ctx, setup, proc, mu, stopper, monitor>>

(***************************************************************************)
(* The agent process (external) and the client's caller.                   *)
(***************************************************************************)
Boots ==
    /\ proc = "boot" /\ ~Fails("boot")
    /\ proc' = "ready"
    /\ UNCHANGED <<scene, ctx, agentCtx, setup, mu, pty, cmdRef, waiter, stopper, monitor, grpErr>>

Exits ==
    /\ proc = "asked" \/ (proc = "ready" /\ Fails("crash"))
    /\ proc' = "gone"
    /\ UNCHANGED <<scene, ctx, agentCtx, setup, mu, pty, cmdRef, waiter, stopper, monitor, grpErr>>

\* The caller's context ends: the user, a failed Setup, the group's error.
Cancel ==
    /\ ctx = "live"
    /\ ctx' = "done"
    /\ UNCHANGED <<scene, agentCtx, setup, proc, mu, pty, cmdRef, waiter, stopper, monitor, grpErr>>

InSetup == Ports \/ startAgent \/ AgentReady \/ NotReady \/ SetupApp \/ UndoSetup \/ UndoDrained

Group == \/ MonitorClient \/ MonitorDrained \/ MonitorAgent
         \/ WaiterReturns \/ DockerReturns \/ DockerCancel

Stopper == StopperWakes \/ requestAgentStop \/ StopperSignals

Next == InSetup \/ Group \/ Stopper \/ Boots \/ Exits \/ Cancel

Spec == Init /\ [][Next]_vars

Ended(m) == m \in {"none", "done"}

\* Setup and the goroutines it left have ended and the agent is gone.
AllEnded ==
    /\ setup \in {"ok", "err"}
    /\ Ended(waiter) /\ Ended(stopper) /\ Ended(monitor)
    /\ proc \in {"none", "gone"}

=============================================================================
