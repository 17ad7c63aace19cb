----------------------------- MODULE MCIRCClient -----------------------------
(***************************************************************************)
(* Instance: one configured channel, room for one more; the server also    *)
(* has a busy channel, a quiet one and an empty one.                       *)
(***************************************************************************)
EXTENDS IRCClient

CONSTANTS home, busy, quiet, empty

ConfiguredDef == <<home>>
DirectoryDef  == <<home, quiet, busy, empty>>
UsersDef      == (home :> 1) @@ (quiet :> 1) @@ (busy :> 2) @@ (empty :> 0)
=============================================================================
