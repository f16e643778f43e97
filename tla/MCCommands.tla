----------------------------- MODULE MCCommands -----------------------------
EXTENDS Commands
=============================================================================
