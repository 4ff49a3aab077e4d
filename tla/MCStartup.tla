----------------------------- MODULE MCStartup -----------------------------
(***************************************************************************)
(* Startup for TLC: label maps that add a label or give another role, a    *)
(* script with all that SaveConfig looks for, and a command line for every *)
(* way through main.                                                       *)
(***************************************************************************)
EXTENDS Startup

TeamOrRole == {[team |-> "infra"], [role |-> "control-plane"], [role |-> "master", team |-> "infra"]}

ModestOrTelling == {{"modprobe"}, {"modprobe", "sshPublicKey", "token-1"}}

Typed(level, path, action, command) ==
    [logLevel |-> level, saveConfigPath |-> path, action |-> action, adhocCommand |-> command]

Typical ==
    {Typed("INFO", "", "create", ""),
     Typed("LOUD", "", "create", ""),
     Typed("INFO", "", "adhoc", ""),
     Typed("INFO", "", "adhoc", "uptime"),
     Typed("INFO", "", "save-full-config", ""),
     Typed("INFO", "config.yaml", "save-full-config", ""),
     Typed("INFO", "full.yaml", "save-full-config", ""),
     Typed("INFO", "", "misspelt", "")}
=============================================================================
