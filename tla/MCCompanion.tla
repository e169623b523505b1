----------------------------- MODULE MCCompanion -----------------------------
\* Values of Companion's constants for TLC: a batch of two calls, a transaction
\* to be relayed and a message, and one transfer of the user's own.
EXTENDS Companion

CONSTANTS calls, relay, message, transfer

MCBatch   == {calls}
MCRelayed == {relay}
MCMessage == {message}
==============================================================================
