------------------------------ MODULE MCRadio ------------------------------
\* Values of WalletRadio's constants for TLC: sound passes validateRequest,
\* torn carries a wrong checksum.
EXTENDS WalletRadio

CONSTANTS sound, torn

MCDamaged == {torn}
=============================================================================
