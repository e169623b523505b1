------------------------------ MODULE MCWallet ------------------------------
\* Values of WalletActivity's constants for TLC: tx is a one-page transaction
\* whose payload fits the first chunk, note a two-page plain message whose
\* payload spans every chunk.
EXTENDS WalletActivity

CONSTANTS tx, note

MCPageCount  == [r \in Request |-> IF r = note THEN 2 ELSE 1]
MCBodyChunks == [r \in Request |-> IF r = note THEN Chunks ELSE 1]
MCFreeForm   == Request \cap {note}

\* All variables but `shown', a history no guard and no other variable reads:
\* runs whose properties do not mention it need not tell its values apart.
MCView == <<radioVars, screen, step, request, reviewPage, visited, vaultVars,
            restart, pinVars>>
=============================================================================
