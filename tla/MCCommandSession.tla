-------------------------- MODULE MCCommandSession --------------------------
EXTENDS CommandSession

NoScripts == {<< >>}
=============================================================================
