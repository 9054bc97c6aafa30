------------------------- MODULE MCTerminalSession -------------------------
EXTENDS TerminalSession
=============================================================================
