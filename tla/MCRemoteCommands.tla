-------------------------- MODULE MCRemoteCommands --------------------------
(* RemoteCommands for TLC.                                                 *)
EXTENDS RemoteCommands

CONSTANTS p1, p2, t1, h1, h2

MCPlain    == {p1, p2}
MCTerminal == {t1}
MCHandlers == {h1, h2}

=============================================================================
