---------------------------- MODULE MCComponents ----------------------------
(***************************************************************************)
(* The components that share no state with one another, checked in one     *)
(* run: a behaviour is one of one of them, chosen at the beginning, while  *)
(* the variables of the others stay as they are.                           *)
(***************************************************************************)
EXTENDS ControlQueue, Restore, WorkspaceRecovery, RuntimeConfig, ModelSlot, ModelLifecycle, Calibration,
        Terminal, TaskRuns, ContextWindow,
        CoreService, McpClient, TLC

CONSTANTS o1, o2, p1, p2, s1, s2, s3, l1, l2, y1

VARIABLE part   \* the component this behaviour is of

MCProcessOf == (o1 :> p1) @@ (o2 :> p2)
MCScopeProcess == (s1 :> p1) @@ (s2 :> p1) @@ (s3 :> p2)
MCDepths == <<"min", "max">>
MCStagesOf == [min |-> <<"idle">>, max |-> <<"fit", "idle">>]
MCClientAt == (y1 :> l1)

Init ==
    /\ part \in {"queue", "restore", "recovery", "config", "slot", "lifecycle", "calibration", "terminal", "runs", "context", "core", "mcp"}
    /\ QueueInit
    /\ RestoreInit
    /\ RecoveryInit
    /\ ConfigInit
    /\ SlotInit
    /\ LifecycleInit
    /\ CalibrationInit
    /\ TerminalInit
    /\ RunsInit
    /\ ContextInit
    /\ CoreInit
    /\ McpInit

Next ==
    \/ /\ part = "queue" /\ QueueNext
       /\ UNCHANGED <<part, restoreVars, recoveryVars, configVars, slotVars, lifecycleVars,
                     calibrationVars, terminalVars, runVars, contextVars,
                     coreVars, mcpVars>>
    \/ /\ part = "restore" /\ RestoreNext
       /\ UNCHANGED <<part, queueVars, recoveryVars, configVars, slotVars, lifecycleVars,
                     calibrationVars, terminalVars, runVars, contextVars,
                     coreVars, mcpVars>>
    \/ /\ part = "recovery" /\ RecoveryNext
       /\ UNCHANGED <<part, queueVars, restoreVars, configVars, slotVars, lifecycleVars,
                     calibrationVars, terminalVars, runVars, contextVars,
                     coreVars, mcpVars>>
    \/ /\ part = "config" /\ ConfigNext
       /\ UNCHANGED <<part, queueVars, restoreVars, recoveryVars, slotVars, lifecycleVars,
                     calibrationVars, terminalVars, runVars, contextVars,
                     coreVars, mcpVars>>
    \/ /\ part = "slot" /\ SlotNext
       /\ UNCHANGED <<part, queueVars, restoreVars, recoveryVars, configVars, lifecycleVars,
                     calibrationVars, terminalVars, runVars, contextVars,
                     coreVars, mcpVars>>
    \/ /\ part = "lifecycle" /\ LifecycleNext
       /\ UNCHANGED <<part, queueVars, restoreVars, recoveryVars, configVars, slotVars,
                     calibrationVars, terminalVars, runVars, contextVars,
                     coreVars, mcpVars>>
    \/ /\ part = "calibration" /\ CalibrationNext
       /\ UNCHANGED <<part, queueVars, restoreVars, recoveryVars, configVars, slotVars,
                     lifecycleVars, terminalVars, runVars, contextVars,
                     coreVars, mcpVars>>
    \/ /\ part = "terminal" /\ TerminalNext
       /\ UNCHANGED <<part, queueVars, restoreVars, recoveryVars, configVars, slotVars,
                     lifecycleVars, calibrationVars, runVars, contextVars,
                     coreVars, mcpVars>>
    \/ /\ part = "runs" /\ RunsNext
       /\ UNCHANGED <<part, queueVars, restoreVars, recoveryVars, configVars, slotVars,
                     lifecycleVars, calibrationVars, terminalVars, contextVars,
                     coreVars, mcpVars>>
    \/ /\ part = "context" /\ ContextNext
       /\ UNCHANGED <<part, queueVars, restoreVars, recoveryVars, configVars, slotVars,
                     lifecycleVars, calibrationVars, terminalVars, runVars, 
                     coreVars, mcpVars>>
    \/ /\ part = "core" /\ CoreNext
       /\ UNCHANGED <<part, queueVars, restoreVars, recoveryVars, configVars, slotVars, lifecycleVars,
                     calibrationVars, terminalVars, runVars, 
                     contextVars, mcpVars>>
    \/ /\ part = "mcp" /\ McpNext
       /\ UNCHANGED <<part, queueVars, restoreVars, recoveryVars, configVars, slotVars, lifecycleVars,
                     calibrationVars, terminalVars, runVars, 
                     contextVars, coreVars>>

Spec == Init /\ [][Next]_<<part, queueVars, restoreVars, recoveryVars, configVars, slotVars, lifecycleVars, calibrationVars, terminalVars, runVars, contextVars,
                          coreVars, mcpVars>>

\* What tells states apart: the other components are as they were in Init.
PartView ==
    CASE part = "queue" -> <<part, queueVars>>
      [] part = "restore" -> <<part, restoreVars>>
      [] part = "recovery" -> <<part, recoveryVars>>
      [] part = "config" -> <<part, configVars>>
      [] part = "slot" -> <<part, slotVars>>
      [] part = "lifecycle" -> <<part, lifecycleVars>>
      [] part = "calibration" -> <<part, calibrationVars>>
      [] part = "terminal" -> <<part, terminalVars>>
      [] part = "runs" -> <<part, runVars>>
      [] part = "context" -> <<part, contextVars>>
      [] part = "core" -> <<part, coreVars>>
      [] part = "mcp" -> <<part, mcpVars>>
=============================================================================
