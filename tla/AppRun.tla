------------------------------- MODULE AppRun -------------------------------
(***************************************************************************)
(* The application runner of pkg/client/app: App.run brings the user's     *)
(* application up (a native command, docker run, docker start or docker    *)
(* compose), frees the container names a previous run may still hold,      *)
(* retries the two failures it takes for transient, and tears everything   *)
(* down when the session is cancelled.  Three parties interleave: the      *)
(* runner goroutine, the goroutine os/exec starts to run cmd.Cancel when   *)
(* the context ends, and the docker client process with the daemon behind  *)
(* it.  AgentClient.ComposeDownOnSetupFailure may tear the stack down from *)
(* outside while the runner waits.                                         *)
(*                                                                         *)
(* A container is known by its role: "app", "dep" (a service the app       *)
(* depends on), "agent" (the injected agent, this run's name) and "old"    *)
(* (an agent of an earlier phase, another name under the same service).    *)
(***************************************************************************)
EXTENDS Naturals, FiniteSets

CONSTANTS
    Scenes,          \* the commands and the state of the daemon before a run
    ConflictRetries, \* dockerRunNameConflictRetries
    DepRetries       \* composeDepFailureRetries

VARIABLES
    scene,   \* the chosen member of Scenes; its faults are spent as they happen
    ctx,     \* "live" or "done": the context run was given
    box,     \* the containers of the project, by role
    cmd,     \* the client process: "idle", "up", or how it exited
    watch,   \* the goroutine that runs cmd.Cancel
    run,     \* the runner: where it is, its attempt counter, its command error
    downOnce,\* whether the run-local sync.Once has fired
    result,  \* what run returned
    hist     \* failed: with which error an application that ran last exited;
             \* again: the failure after which it was started again

vars == <<scene, ctx, box, cmd, watch, run, downOnce, result, hist>>

Roles == {"app", "dep", "agent", "old"}
Status == {"none", "created", "running", "exited", "crashed"} \* crashed: exit code not 0
Exits == {"ok", "err", "e125", "killed"}

IsCompose == scene.kind = "compose"
IsDockerCmd == scene.kind \in {"run", "start", "compose"}

TypeOK ==
    /\ ctx \in {"live", "done"}
    /\ box \in [Roles -> Status]
    /\ cmd \in {"idle", "up"} \cup Exits
    /\ watch \in {"idle", "grace", "down", "kill", "done"}
    /\ run.pc \in {"setup", "start", "stale", "free", "exec", "wait", "after",
                   "backoff", "logs", "deferred", "done"}
    /\ run.attempt \in 1..(ConflictRetries + DepRetries + 1)
    /\ downOnce \in BOOLEAN
    /\ result \in {"none", "ErrSetup", "ErrCommandError", "ErrCtxCanceled", "ErrUnExpected",
                   "ErrAppStopped", "ErrTestBinStopped"}

(***************************************************************************)
(* The docker calls.  Each is bounded by its own budget, so a saturated    *)
(* daemon makes it give up: that costs one of the scene's faults.          *)
(***************************************************************************)
Spent == scene' = [scene EXCEPT !.faults = @ - 1]

\* A call on the daemon either does what it should or gives up at its deadline.
Call(done, given) ==
    \/ scene' = scene /\ done
    \/ scene.faults > 0 /\ Spent /\ given

Gone(rs) == [r \in Roles |-> IF r \in rs THEN "none" ELSE box[r]]

\* ensureContainerNameFreeWithin: rm -f until docker ps shows the name free.
ensureContainerNameFree(r) == Call(box' = Gone({r}), box' = box)

\* removeStaleComposeAgentWithin: the containers of the keploy-agent service.
removeStaleComposeAgent == Call(box' = Gone({"agent", "old"}), box' = box)

\* ComposeDown: docker compose down, then rm -f of the agent and the app, then
\* a bounded wait for both to disappear.  Every container the three calls
\* failed to reach stays.
ComposeDown(left) ==
    LET missed == IF left = {} THEN 0 ELSE 1 + Cardinality(left \cap {"agent", "app"})
    IN  /\ left \subseteq {r \in Roles : box[r] # "none"}
        /\ missed <= scene.faults
        /\ scene' = [scene EXCEPT !.faults = @ - missed]
        /\ box' = Gone(Roles \ left)

(***************************************************************************)
(* Which failures are retried.                                             *)
(***************************************************************************)
Runtime(e) == e \in {"err", "e125", "killed"}

isExit125(e) == e = "e125"

isDockerRunNameConflict(e, occupied) == isExit125(e) /\ occupied

\* The app was created and never started; some other service crashed.
isTransientComposeDependencyFailure(e) ==
    /\ Runtime(e)
    /\ box["app"] = "created"
    /\ box["dep"] = "crashed"

shouldRetryComposeUp(attempt, e) ==
    /\ IsCompose
    /\ attempt <= DepRetries
    /\ ctx = "live"
    /\ isTransientComposeDependencyFailure(e)

(***************************************************************************)
(* Setup refuses detached commands, a docker start of a running container  *)
(* and a compose project without the app's container.                      *)
(***************************************************************************)
Init ==
    /\ scene \in Scenes
    /\ ctx = "live"
    /\ box = scene.box
    /\ cmd = "idle"
    /\ watch = "idle"
    /\ run = [pc |-> "setup", attempt |-> 1, err |-> "ok"]
    /\ downOnce = FALSE
    /\ result = "none"
    /\ hist = [failed |-> "none", again |-> "none"]

Goto(pc) == run' = [run EXCEPT !.pc = pc]

SetupRefuses ==
    \/ IsDockerCmd /\ scene.detached
    \/ scene.kind = "start" /\ box["app"] = "running"
    \/ IsCompose /\ ~scene.found

Setup ==
    /\ run.pc = "setup"
    /\ IF SetupRefuses
       THEN Goto("done") /\ result' = "ErrSetup"
       ELSE Goto("start") /\ result' = result
    /\ UNCHANGED <<scene, ctx, box, cmd, watch, downOnce, hist>>

\* What run does before the command: nothing, free the name, or remove the
\* agent of an earlier phase.
Start ==
    /\ run.pc = "start"
    /\ Goto(CASE scene.kind = "run" -> "free" [] IsCompose -> "stale" [] OTHER -> "exec")
    /\ UNCHANGED <<scene, ctx, box, cmd, watch, downOnce, result, hist>>

RemoveStale ==
    /\ run.pc = "stale"
    /\ removeStaleComposeAgent
    /\ Goto(IF run.attempt > 1 /\ ctx = "done" THEN "deferred" ELSE "free")
    /\ result' = IF run'.pc = "deferred" THEN "ErrCtxCanceled" ELSE result
    /\ UNCHANGED <<ctx, cmd, watch, downOnce, hist>>

FreeName ==
    /\ run.pc = "free"
    /\ ensureContainerNameFree(IF IsCompose THEN "agent" ELSE "app")
    /\ Goto("exec")
    /\ UNCHANGED <<ctx, cmd, watch, downOnce, result, hist>>

\* ExecuteCommand: os/exec does not start a command whose context has ended.
ExecuteCommand ==
    /\ run.pc = "exec"
    /\ IF ctx = "done"
       THEN /\ run' = [run EXCEPT !.pc = "after", !.err = "init"]
            /\ UNCHANGED <<cmd, hist>>
       ELSE /\ Goto("wait")
            /\ cmd' = "up"
            /\ hist' = [hist EXCEPT !.again = IF hist.failed = "none" THEN @ ELSE hist.failed]
    /\ watch' = "idle"
    /\ UNCHANGED <<scene, ctx, box, downOnce, result>>

\* cmd.Wait returns once the process has exited and, if cmd.Cancel was
\* started, once that has returned.
WaitReturns ==
    /\ run.pc = "wait"
    /\ cmd \in Exits
    /\ watch \in {"idle", "done"}
    /\ run' = [run EXCEPT !.pc = "after", !.err = cmd]
    /\ UNCHANGED <<scene, ctx, box, cmd, watch, downOnce, result, hist>>

\* docker run failed with 125 and its name is held: remove it and try again.
\* A daemon that cannot be asked counts as a held name.
RetryConflict ==
    /\ run.pc = "after"
    /\ scene.kind = "run"
    /\ run.attempt <= ConflictRetries
    /\ ctx = "live"
    /\ \/ isDockerRunNameConflict(run.err, box["app"] # "none") /\ scene' = scene
       \/ isExit125(run.err) /\ scene.faults > 0 /\ Spent
    /\ run' = [run EXCEPT !.pc = "free", !.attempt = @ + 1]
    /\ UNCHANGED <<ctx, box, cmd, watch, downOnce, result, hist>>

\* The same teardown through the run-local Once.
RetryDownOnce(left) ==
    /\ IF downOnce THEN left = {} /\ UNCHANGED <<box, scene>> ELSE ComposeDown(left)
    /\ downOnce' = TRUE

\* The teardown before a retry is not guarded by the Once.
RetryDown(left) == ComposeDown(left) /\ UNCHANGED downOnce

\* The compose project failed on a dependency: down, back off, try again.
RetryCompose ==
    /\ run.pc = "after"
    /\ shouldRetryComposeUp(run.attempt, run.err)
    /\ \E left \in SUBSET Roles : RetryDown(left)
    /\ run' = [run EXCEPT !.pc = "backoff", !.attempt = @ + 1]
    /\ UNCHANGED <<ctx, cmd, watch, result, hist>>

Backoff ==
    /\ run.pc = "backoff"
    /\ IF ctx = "done"
       THEN Goto("deferred") /\ result' = "ErrCtxCanceled"
       ELSE Goto("stale") /\ result' = result
    /\ UNCHANGED <<scene, ctx, box, cmd, watch, downOnce, hist>>

\* No retry applies.  The state query of the compose gate may fail, and then
\* the failure counts as final.
Final ==
    \/ scene' = scene
       /\ ~shouldRetryComposeUp(run.attempt, run.err)
       /\ ~ /\ scene.kind = "run" /\ run.attempt <= ConflictRetries /\ ctx = "live"
            /\ isDockerRunNameConflict(run.err, box["app"] # "none")
    \/ scene.faults > 0 /\ Spent /\ shouldRetryComposeUp(run.attempt, run.err)

Outcome(err) ==
    CASE ctx = "done" -> "ErrCtxCanceled"
      [] ctx = "live" /\ scene.testBin -> "ErrTestBinStopped"
      [] ctx = "live" /\ ~scene.testBin /\ Runtime(err) -> "ErrUnExpected"
      [] OTHER -> "ErrAppStopped"

\* A command that never started; otherwise wait for the container to stop.
Finish ==
    /\ run.pc = "after"
    /\ Final
    /\ IF run.err = "init"
       THEN Goto("deferred") /\ result' = "ErrCommandError"
       ELSE Goto("logs") /\ result' = result
    /\ UNCHANGED <<ctx, box, cmd, watch, downOnce, hist>>

\* The context is looked at after waitTillExit, then the error is returned.
Logs ==
    /\ run.pc = "logs"
    /\ Goto("deferred")
    /\ result' = Outcome(run.err)
    /\ UNCHANGED <<scene, ctx, box, cmd, watch, downOnce, hist>>

\* The deferred composeDown, guarded by the run-local Once.
OnceDown(left) ==
    IF downOnce THEN UNCHANGED <<box, scene>> /\ left = {} ELSE ComposeDown(left)

Deferred ==
    /\ run.pc = "deferred"
    /\ IF IsCompose
       THEN (\E left \in SUBSET Roles : OnceDown(left)) /\ downOnce' = TRUE
       ELSE UNCHANGED <<box, scene, downOnce>>
    /\ Goto("done")
    /\ UNCHANGED <<ctx, cmd, watch, result, hist>>

(***************************************************************************)
(* cmd.Cancel, run by os/exec when the context ends while the process is   *)
(* up: interrupt, grace for the coverage flush, teardown, kill.            *)
(***************************************************************************)
CancelStarts ==
    /\ ctx = "done" /\ run.pc = "wait" /\ cmd = "up" /\ watch = "idle"
    /\ watch' = "grace"
    /\ UNCHANGED <<scene, ctx, box, cmd, run, downOnce, result, hist>>

Stopped == cmd \in Exits \/ box["app"] \in {"exited", "none"}

\* The grace ends when the process or the app is gone, or at its deadline.
\* docker run and docker start return early; the native path interrupts the
\* process tree and returns; all of them are killed by WaitDelay otherwise.
GraceEnds ==
    /\ watch = "grace"
    /\ watch' = CASE IsCompose -> "down"
                  [] ~IsCompose /\ (Stopped \/ scene.kind = "native") -> "done"
                  [] OTHER -> "kill"
    /\ UNCHANGED <<scene, ctx, box, cmd, run, downOnce, result, hist>>

CancelDown ==
    /\ watch = "down"
    /\ \E left \in SUBSET Roles : OnceDown(left)
    /\ downOnce' = TRUE
    /\ watch' = "kill"
    /\ UNCHANGED <<ctx, cmd, run, result, hist>>

\* SIGKILL to the client (docker run and start kill the container first).
CancelKill ==
    /\ watch = "kill"
    /\ IF scene.kind \in {"run", "start"} /\ box["app"] = "running"
       THEN Call(box' = [box EXCEPT !["app"] = "exited"], box' = box)
       ELSE UNCHANGED <<box, scene>>
    /\ cmd' = IF cmd = "up" THEN "killed" ELSE cmd
    /\ watch' = "done"
    /\ UNCHANGED <<ctx, run, downOnce, result, hist>>

\* WaitDelay: a process that outlived cmd.Cancel is killed.
WaitDelay ==
    /\ watch = "done" /\ cmd = "up"
    /\ cmd' = "killed"
    /\ UNCHANGED <<scene, ctx, box, watch, run, downOnce, result, hist>>

(***************************************************************************)
(* The docker client and the daemon (external), and the user.              *)
(***************************************************************************)
Cancel ==
    /\ ctx = "live" /\ result = "none"
    /\ ctx' = "done"
    /\ UNCHANGED <<scene, box, cmd, watch, run, downOnce, result, hist>>

Up == cmd = "up" /\ run.pc = "wait"

\* The command brings the application up, or is refused.
AppStarts ==
    /\ Up /\ watch = "idle"
    /\ box["app"] # "running"
    /\ \/ /\ scene.kind \in {"native", "start"} \/ (scene.kind = "run" /\ box["app"] = "none")
          /\ box' = [box EXCEPT !["app"] = "running"] /\ cmd' = cmd /\ scene' = scene
       \/ scene.kind = "run" /\ (box["app"] # "none" \/ scene.badImage)
          /\ cmd' = "e125" /\ UNCHANGED <<box, scene>>
       \/ IsCompose /\ (box["agent"] # "none" \/ box["old"] # "none")
          /\ cmd' = "err" /\ UNCHANGED <<box, scene>>
       \/ IsCompose /\ box["agent"] = "none" /\ box["old"] = "none"
          /\ box' = [box EXCEPT !["app"] = "running", !["dep"] = "running", !["agent"] = "running"]
          /\ cmd' = cmd /\ scene' = scene
       \/ IsCompose /\ box["agent"] = "none" /\ box["old"] = "none" /\ scene.crashes > 0
          /\ \E d \in {"exited", "crashed"} :
               box' = [box EXCEPT !["app"] = "created", !["dep"] = d, !["agent"] = "running"]
          /\ cmd' \in {"err", "ok"}
          /\ scene' = [scene EXCEPT !.crashes = @ - 1]
    /\ UNCHANGED <<ctx, watch, run, downOnce, result, hist>>

\* The application exits by itself or on the interrupt; compose stops the rest.
AppExits ==
    /\ box["app"] = "running" /\ Up
    /\ \E code \in {"ok", "err"} \cup scene.codes :
         /\ cmd' = code
         /\ hist' = [hist EXCEPT !.failed = IF Runtime(code) /\ watch = "idle" THEN code ELSE @]
    /\ box' = [r \in Roles |-> IF box[r] = "none" \/ scene.kind = "native" THEN "none" ELSE "exited"]
    /\ UNCHANGED <<scene, ctx, watch, run, downOnce, result>>

\* The daemon's reaper removes the container of a docker run --rm, and with it
\* the name, at some time after the exit.
Reap ==
    /\ scene.kind = "run" /\ scene.rm /\ box["app"] = "exited"
    /\ box' = Gone({"app"})
    /\ UNCHANGED <<scene, ctx, cmd, watch, run, downOnce, result, hist>>

\* ComposeDownOnSetupFailure: the replay loop gives up on the agent.
ExternalDown ==
    /\ scene.external /\ IsCompose /\ Up
    /\ \E left \in SUBSET Roles :
         /\ ComposeDown(left)
         /\ cmd' = IF box["app"] # "none" /\ "app" \notin left THEN "err" ELSE cmd
    /\ UNCHANGED <<ctx, watch, run, downOnce, result, hist>>

Runner ==
    \/ Setup \/ Start \/ RemoveStale \/ FreeName \/ ExecuteCommand \/ WaitReturns
    \/ RetryConflict \/ RetryCompose \/ Backoff \/ Finish \/ Logs \/ Deferred

Canceller == CancelStarts \/ GraceEnds \/ CancelDown \/ CancelKill \/ WaitDelay

Next == Runner \/ Canceller \/ Cancel \/ AppStarts \/ AppExits \/ Reap \/ ExternalDown

Spec == Init /\ [][Next]_vars

(***************************************************************************)
(* Properties.                                                             *)
(***************************************************************************)

\* An application that ran and failed by itself is not started again by one of
\* run's two retry loops, and run does not report such a failure as a clean
\* stop.  One application escapes both: under docker run, one whose own exit
\* code is 125, which the conflict loop takes for docker's refusal while the
\* name is held (no --rm, or a reaper that is late) or cannot be asked for.
\* And when a compose run has returned and no docker call gave up at its
\* deadline, no container of the project is left, whatever mix of retries,
\* cancellation and outside teardown came before (the run-local Once of the
\* teardown must not have been used up by a retry).
RunAccounts ==
    /\ hist.again # "none" => scene.kind = "run" /\ hist.again = "e125"
    /\ (result = "ErrAppStopped" /\ hist.again = "none") => hist.failed = "none"
    /\ (run.pc = "done" /\ IsCompose /\ result # "ErrSetup" /\ scene.faults = scene.budget)
         => \A r \in Roles : box[r] = "none"

=============================================================================
