------------------------------ MODULE MemGuard ------------------------------
(***************************************************************************)
(* The memory guard of the agent, pkg/agent/memoryguard: it finds the file *)
(* in which the kernel counts the memory of its own container, reads it    *)
(* twice a second, and pauses and resumes the recording.                   *)
(*                                                                         *)
(* A box is what the agent sees of the machine: the cgroup mounts, each    *)
(* [version, root, dirs, procs, own], where dirs are the directories with  *)
(* a usage file, own the one of the agent's container (a path below the    *)
(* mount point) and procs whether cgroup.procs can be read; the paths that *)
(* /proc/self/cgroup shows, self[1] for v1's memory controller and self[2] *)
(* for v2; whether NSpid is known; and the identifiers the agent finds.  A *)
(* path is the sequence of its components.                                 *)
(***************************************************************************)
EXTENDS Integers, Sequences, FiniteSets, SequencesExt

CONSTANTS Boxes,     \* what the agent may find
          Limits,    \* memory limits, in bytes
          Hooks,     \* pressure hooks a composer may register
          MaxFails,  \* read failures that disable the guard, 20 in the code
          Readings   \* number of ticks looked at

VARIABLES box,     \* the machine
          limit,   \* the configured limit
          guard,   \* [on, under, fails, dir, mine]: the guard goroutine
          paused,  \* recordingPaused
          sinks,   \* sink -> the pressure it was last told: "mgr" and the hooks
          hooks,   \* the registered hooks
          apply,   \* applyPausedState: [value, pc, to, heard]
          last,    \* the last memory usage that was read
          ticks    \* ticks left

vars == <<box, limit, guard, paused, sinks, hooks, apply, last, ticks>>

Nowhere == <<"nowhere">>

Init ==
    /\ box \in Boxes
    /\ limit \in Limits
    /\ guard = [on |-> FALSE, under |-> FALSE, fails |-> 0, dir |-> Nowhere, mine |-> <<>>]
    /\ paused = FALSE
    /\ sinks = [s \in {"mgr"} \cup Hooks |-> FALSE]
    /\ hooks = {}
    /\ apply = [value |-> FALSE, pc |-> "done", to |-> {}, heard |-> {}]
    /\ last = 0
    /\ ticks = Readings

TypeOK ==
    /\ guard.on \in BOOLEAN /\ guard.under \in BOOLEAN
    /\ paused \in BOOLEAN
    /\ sinks \in [{"mgr"} \cup Hooks -> BOOLEAN]
    /\ hooks \subseteq Hooks
    /\ apply.pc \in {"manager", "snapshot", "hooks", "done"}
    /\ apply.to \subseteq apply.heard /\ apply.heard \subseteq Hooks
    /\ ticks \in 0 .. Readings

(***************************************************************************)
(* Which file counts the agent's memory.                                   *)
(***************************************************************************)

\* The layouts, cgroup v1 before v2.
detectCgroupLayouts == SortSeq(box.mounts, LAMBDA m, n : m.version < n.version)

Missing == <<"missing">>
Unmapped == <<"unmapped">>

\* The path in the line of /proc/self/cgroup for the layout's version.
readSelfCgroupPath(m) == box.self[m.version]

\* The path of /proc/self/cgroup below the mount point: the mount's root is a
\* prefix of it, or it cannot be mapped.
buildMountedCgroupPath(root, path) ==
    IF IsPrefix(root, path) THEN SubSeq(path, Len(root) + 1, Len(path)) ELSE Unmapped

\* The directory's cgroup.procs lists the agent, or cannot be consulted.
cgroupOwnsSelf(m, dir) == (m.procs /\ box.pidKnown) => dir = m.own

\* A root path has to prove that it is the agent's own.
resolveFromSelfCgroup(m) ==
    LET self == readSelfCgroupPath(m)
        dir == buildMountedCgroupPath(m.root, self)
    IN IF self # Missing /\ dir # Unmapped /\ dir \in m.dirs /\ (self = <<>> => cgroupOwnsSelf(m, dir))
       THEN dir ELSE Nowhere

\* The directory below the mount point whose cgroup.procs has the agent's pid.
findCgroupByOwnPID(m) == IF box.pidKnown /\ m.procs /\ m.own \in m.dirs THEN m.own ELSE Nowhere

\* A directory with an identifier in its path: the longest identifier (the
\* first of box.ids), then the deepest directory.
findMemoryUsagePathByIdentifier(m) ==
    LET hits(k) == {d \in m.dirs \ {<<>>} : box.ids[k] \in ToSet(d)}
        ks == {k \in DOMAIN box.ids : hits(k) # {}}
    IN IF ks = {} THEN Nowhere
       ELSE LET k == CHOOSE k \in ks : \A j \in ks : k <= j
            IN CHOOSE d \in hits(k) : \A e \in hits(k) : Len(e) <= Len(d)

\* The first layout that a way of looking resolves.
FirstResolved(Way(_)) ==
    LET layouts == detectCgroupLayouts
        ks == {k \in DOMAIN layouts : Way(layouts[k]) # Nowhere}
    IN IF ks = {} THEN [dir |-> Nowhere, own |-> <<>>]
       ELSE LET k == CHOOSE k \in ks : \A j \in ks : k <= j
            IN [dir |-> Way(layouts[k]), own |-> layouts[k].own]

\* The three ways, each over all layouts before the next is tried.
resolveMemoryUsagePath ==
    LET primary == FirstResolved(resolveFromSelfCgroup)
        secondary == FirstResolved(findCgroupByOwnPID)
    IN IF primary.dir # Nowhere THEN primary
       ELSE IF secondary.dir # Nowhere THEN secondary
       ELSE FirstResolved(findMemoryUsagePathByIdentifier)

(***************************************************************************)
(* The guard.                                                              *)
(***************************************************************************)

\* thresholdBytes: a share, in tenths, of the limit; the limit itself when
\* rounding leaves nothing.
thresholdBytes(tenths) ==
    LET t == (limit * tenths) \div 10 IN IF t = 0 THEN limit ELSE t

pauseThreshold == thresholdBytes(8)

resumeThreshold == thresholdBytes(7)

\* readWorkingSetBytes: usage less the inactive file cache, never negative.
readWorkingSetBytes(current, inactive) == IF current < inactive THEN 0 ELSE current - inactive

\* applyPausedState begins: recordingPaused is stored; the manager is told
\* next (TellManager), then the hooks registered by then (SnapshotHooks,
\* TellHook).  heard is the latest snapshot.
applyPausedState(value) ==
    /\ paused' = value
    /\ apply' = [apply EXCEPT !.value = value, !.pc = "manager"]

\* Start: nothing is guarded without a limit or when the file is not found.
Start ==
    /\ ~guard.on /\ guard.dir = Nowhere
    /\ limit > 0
    /\ LET r == resolveMemoryUsagePath
       IN /\ r.dir # Nowhere
          /\ guard' = [guard EXCEPT !.on = TRUE, !.dir = r.dir, !.mine = r.own]
    /\ applyPausedState(FALSE)
    /\ UNCHANGED <<box, limit, sinks, hooks, last, ticks>>

Resting == apply.pc = "done"

\* A tick that reads the usage: pressure is applied at every tick above the
\* pause threshold, and lifted at or below the resume threshold.
Tick(current, inactive) ==
    /\ guard.on /\ Resting /\ ticks > 0
    /\ ticks' = ticks - 1
    /\ LET used == readWorkingSetBytes(current, inactive)
       IN /\ last' = used
          /\ \/ /\ used >= pauseThreshold
                /\ guard' = [guard EXCEPT !.under = TRUE, !.fails = 0]
                /\ applyPausedState(TRUE)
             \/ /\ used < pauseThreshold
                /\ guard.under /\ used <= resumeThreshold
                /\ guard' = [guard EXCEPT !.under = FALSE, !.fails = 0]
                /\ applyPausedState(FALSE)
             \/ /\ used < pauseThreshold
                /\ ~(guard.under /\ used <= resumeThreshold)
                /\ guard' = [guard EXCEPT !.fails = 0]
                /\ UNCHANGED <<paused, apply>>
    /\ UNCHANGED <<box, limit, sinks, hooks>>

\* resetPressure of a guard that ends.
Resets(g) ==
    /\ guard' = [g EXCEPT !.on = FALSE, !.under = FALSE]
    /\ applyPausedState(FALSE)

GivesUpPaused(g) == guard' = [g EXCEPT !.on = FALSE] /\ UNCHANGED <<paused, apply>>

\* A guard that cannot read any more ends.
GivesUp(g) == Resets(g)

\* A tick that cannot read: after MaxFails in a row the guard disables itself.
TickFails ==
    /\ guard.on /\ Resting /\ ticks > 0
    /\ ticks' = ticks - 1
    /\ IF guard.fails + 1 >= MaxFails
       THEN GivesUp([guard EXCEPT !.fails = @ + 1])
       ELSE /\ guard' = [guard EXCEPT !.fails = @ + 1]
            /\ UNCHANGED <<paused, apply>>
    /\ UNCHANGED <<box, limit, sinks, hooks, last>>

\* The context ends: the deferred resetPressure.
ContextDone ==
    /\ guard.on /\ Resting
    /\ Resets(guard)
    /\ UNCHANGED <<box, limit, sinks, hooks, last, ticks>>

TellManager ==
    /\ apply.pc = "manager"
    /\ sinks' = [sinks EXCEPT !["mgr"] = apply.value]
    /\ apply' = [apply EXCEPT !.pc = "snapshot"]
    /\ UNCHANGED <<box, limit, guard, paused, hooks, last, ticks>>

\* A snapshot taken before the manager is told would miss the hooks that are
\* registered while SetMemoryPressure waits for the manager's lock.
SnapshotHooks ==
    /\ apply.pc = "snapshot"
    /\ apply' = [apply EXCEPT !.pc = IF hooks = {} THEN "done" ELSE "hooks", !.to = hooks, !.heard = hooks]
    /\ UNCHANGED <<box, limit, guard, paused, sinks, hooks, last, ticks>>

\* The hooks of the snapshot are called in any order, outside the lock: one
\* that was unregistered meanwhile is still called.
TellHook(x) ==
    /\ apply.pc = "hooks" /\ x \in apply.to
    /\ sinks' = [sinks EXCEPT ![x] = apply.value]
    /\ apply' = [apply EXCEPT !.to = @ \ {x}, !.pc = IF apply.to = {x} THEN "done" ELSE @]
    /\ UNCHANGED <<box, limit, guard, paused, hooks, last, ticks>>

RegisterPressureHook(x) ==
    /\ x \notin hooks
    /\ hooks' = hooks \cup {x}
    /\ UNCHANGED <<box, limit, guard, paused, sinks, apply, last, ticks>>

Unregister(x) ==
    /\ x \in hooks
    /\ hooks' = hooks \ {x}
    /\ UNCHANGED <<box, limit, guard, paused, sinks, apply, last, ticks>>

Next ==
    \/ Start \/ TickFails \/ ContextDone
    \/ \E current, inactive \in 0 .. limit + 1 : Tick(current, inactive)
    \/ TellManager \/ SnapshotHooks
    \/ \E x \in Hooks : TellHook(x) \/ RegisterPressureHook(x) \/ Unregister(x)

Spec == Init /\ [][Next]_vars

-----------------------------------------------------------------------------
\* What the recording relies on: the guard reads the usage file of the agent's
\* own container whenever the kernel lets it tell which one that is, not that
\* of an ancestor or of a neighbour (resolveMemoryUsagePath); between two ticks
\* the flag, the guard, the mock manager and every hook of the latest snapshot
\* agree, recording is paused only above the resume threshold and runs only
\* below the pause threshold; and a guard that has ended, by its context or
\* because it could not read, never leaves the recording paused (run,
\* enterPressure, resetPressure, applyPausedState).  A hook registered since
\* the latest snapshot is told nothing until the state is applied again, which
\* between the two thresholds may be never; one unregistered before it keeps
\* what it heard last.
GuardSound ==
    /\ (guard.dir # Nowhere /\ box.pidKnown /\ \A k \in DOMAIN box.mounts : box.mounts[k].procs)
          => guard.dir = guard.mine
    /\ Resting => /\ \A s \in {"mgr"} \cup apply.heard : sinks[s] = paused
                  /\ paused = guard.under
                  /\ guard.on => IF paused THEN last > resumeThreshold \/ last >= pauseThreshold
                                 ELSE last < pauseThreshold
    /\ ~guard.on => ~paused

=============================================================================
