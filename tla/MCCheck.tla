-------------------------------- MODULE MCCheck --------------------------------
(* Calls of cml-check with up to three files.                              *)
EXTENDS CmlCheck, TLC

MCPaths == {"i386/config.in", "rules.cml", "notes"}

MCSuffixOf == "i386/config.in" :> "/config.in" @@ "rules.cml" :> ".cml" @@ "notes" :> "other"
=============================================================================
