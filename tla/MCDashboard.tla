----------------------------- MODULE MCDashboard -----------------------------
\* The view under which TLC tells the states of PhoneDashboard apart; states
\* with the same view have the same future.  Of syncState, actions and
\* properties ask only whether it is Receiving; what is staged is used only
\* while it is received, ready or being copied (a Begin clears it); and the
\* histories only serve properties that end with the second fault.
EXTENDS PhoneDashboard

Receiving == syncState = "Receiving"

StagingInUse == IF Receiving \/ snapshotReady \/ step = "copy" THEN staging ELSE Cleared

Histories == IF faults <= 1 THEN <<acked, acknowledged, dropped>> ELSE <<>>

MCView == <<files, ram, phase, incoming, faults, Receiving, active, linked, snapshotReady,
            StagingInUse, appVars, mode, sleepScreen, panel, Histories>>
=============================================================================
