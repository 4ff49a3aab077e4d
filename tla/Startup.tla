------------------------------ MODULE Startup ------------------------------
(***************************************************************************)
(* From the command line to the command: main (cmd/main.go), Load, Check   *)
(* and SaveConfig (pkg/config/config.go), CheckLatest (pkg/version) and    *)
(* validateConfig (pkg/api/api.go), run after run over a configuration     *)
(* file that the operator edits and save-full-config may write.            *)
(*                                                                         *)
(* Load puts the file over the defaults: a scalar replaces the default, a  *)
(* map is merged into it, null empties it.  The flags of the command line  *)
(* are among the defaults, as pointers, and the file's cliArgs are written *)
(* through them.  Of the configuration the model keeps what several parts  *)
(* of the program must agree on, and one field of each kind that SaveConfig*)
(* treats in a way of its own: the token, a path of the operator's, and    *)
(* preStartScript, the text an operator writes freely, as its lines.       *)
(***************************************************************************)
EXTENDS Naturals

CONSTANTS
    Cidr,         \* texts that parse as an address range
    DefaultRange, \* "10.0.0.0/16"
    Invalid,      \* a text that is not an address range
    LabelMap,     \* label maps an operator writes
    Null,         \* labels that are null
    Token,        \* of Hetzner
    NoToken,      \* the empty text
    Key,          \* paths of ssh keys
    DefaultKey,   \* "~/.ssh/id_rsa"
    Script,       \* scripts an operator writes
    Action,       \* what operators write after -action
    CommandLine,  \* the command lines they type
    Absent,       \* a field the file does not have
    MaxEdits      \* bound: edits of the file in a behaviour

VARIABLES
    pc,       \* where main is; how it ended
    file,     \* the configuration file
    flags,    \* the command line
    token,    \* HCLOUD_TOKEN, or else .hcloudauth
    config,   \* the global configuration, once it is loaded
    saved,    \* history: the configuration of which the file is the copy
    edits     \* bound: edits so far

vars == <<pc, file, flags, token, config, saved, edits>>

Known == {"create", "delete", "list-configurations", "patch-cluster", "adhoc",
          "upgrade-controlplane", "create-firewall", "save-full-config"}
Ended == {"done", "fatal"}

\* A level that parses or not; nowhere, over the configuration file, elsewhere.
LogLevel == {"INFO", "LOUD"}
SavePath == {"", "config.yaml", "full.yaml"}
AdhocCommand == {"", "uptime"}

Flags == [logLevel : LogLevel, saveConfigPath : SavePath, action : Action,
          adhocCommand : AdhocCommand]

\* A line of a script: one with a token, one with a word that SaveConfig looks
\* for, one that was masked, another one.
Line == Token \cup {"sshPublicKey", "<secret>", "modprobe"}

ASSUME RangeAssumption == DefaultRange \in Cidr /\ Invalid \notin Cidr
ASSUME TokenAssumption ==
    /\ NoToken \notin Token
    /\ {"sshPublicKey", "<secret>", "modprobe"} \cap Token = {}
ASSUME KeyAssumption == DefaultKey \in Key
ASSUME ScriptAssumption == Script \subseteq SUBSET Line
ASSUME CommandAssumption == CommandLine \subseteq Flags
ASSUME EditsAssumption == MaxEdits \in Nat
ASSUME AbsentAssumption ==
    /\ Absent \notin Cidr \cup {Invalid} \cup Token \cup Key
    /\ Absent \notin LogLevel \cup SavePath \cup Action \cup AdhocCommand
    /\ \A s \in SUBSET Line : s # Absent

-----------------------------------------------------------------------------
(* pkg/config: Load *)

\* A nil map.
NoLabels == [key \in {} |-> "master"]

DefaultLabels == [key \in {"role"} |-> "master"]

Over(value, default) == IF value = Absent THEN default ELSE value

\* A map that is merged into the default one.
With(labels) ==
    [key \in DOMAIN labels \cup {"role"} |->
        IF key \in DOMAIN labels THEN labels[key] ELSE DefaultLabels[key]]

\* Labels of a configuration: the role can be overwritten, but not lost.
Labels == {NoLabels, DefaultLabels} \cup {With(l) : l \in LabelMap}

ASSUME LabelAssumption == {Absent, Null} \cap (LabelMap \cup Labels) = {} /\ Null # Absent

\* Mutant: the file's map replaces the default one.
MergeReplaced(labels) ==
    CASE labels = Absent -> DefaultLabels
      [] labels = Null -> NoLabels
      [] OTHER -> labels

Merge(labels) ==
    CASE labels = Absent -> DefaultLabels
      [] labels = Null -> NoLabels
      [] OTHER -> With(labels)

\* defaultConfig and Unmarshal.  The default of the subnet is taken from the
\* default of the range, before the file is read.
Loaded(f, c, t) ==
    [hetznerToken |-> Over(f.hetznerToken, t),
     ipRange |-> Over(f.ipRange, DefaultRange),
     ipRangeSubnet |-> Over(f.ipRangeSubnet, DefaultRange),
     sshPrivateKey |-> Over(f.sshPrivateKey, DefaultKey),
     labels |-> Merge(f.labels),
     logLevel |-> Over(f.logLevel, c.logLevel),
     saveConfigPath |-> Over(f.saveConfigPath, c.saveConfigPath),
     action |-> Over(f.action, c.action),
     adhocCommand |-> Over(f.adhocCommand, c.adhocCommand),
     script |-> Over(f.script, {})]

Parses(conf) == conf.ipRange \in Cidr /\ conf.ipRangeSubnet \in Cidr

-----------------------------------------------------------------------------
(* pkg/config: SaveConfig *)

\* hideSensitiveData, wherever the token is in the text.
Masked(script, t) == {IF line = t THEN "<secret>" ELSE line : line \in script}

\* The expression of SaveConfig takes out every line with one of its words.
WithoutNamed(script) == script \ {"sshPublicKey"}

\* Mutant: the token is masked only in its own field.
SavedUnmasked(conf) ==
    [conf EXCEPT !.hetznerToken = Absent, !.sshPrivateKey = Absent,
                 !.script = WithoutNamed(conf.script)]

\* Mutant: cliArgs are not written.
SavedWithoutArgs(conf) ==
    [conf EXCEPT !.hetznerToken = Absent, !.sshPrivateKey = Absent,
                 !.script = WithoutNamed(Masked(conf.script, conf.hetznerToken)),
                 !.logLevel = Absent, !.saveConfigPath = Absent, !.action = Absent,
                 !.adhocCommand = Absent]

\* Every other field is written, cliArgs included, a nil map as {}.
Saved(conf) ==
    [conf EXCEPT !.hetznerToken = Absent, !.sshPrivateKey = Absent,
                 !.script = WithoutNamed(Masked(conf.script, conf.hetznerToken))]

\* The fields in the order in which they are written.
Place == [hetznerToken |-> 0, ipRange |-> 1, ipRangeSubnet |-> 2, sshPrivateKey |-> 2,
          labels |-> 3, logLevel |-> 4, saveConfigPath |-> 5, action |-> 6,
          adhocCommand |-> 7, script |-> 8]

\* What a write that fails leaves behind: some lines, perhaps none.
Cut(f, n) == [field \in DOMAIN f |-> IF Place[field] <= n THEN f[field] ELSE Absent]

-----------------------------------------------------------------------------
(* Label selectors *)

Matches(selector, labels) ==
    \A key \in DOMAIN selector : key \in DOMAIN labels /\ labels[key] = selector[key]

\* CreateFirewall.
FirewallSelector == [key \in {"role"} |-> "master"]

\* getMasterLabels; without labels it is an empty text, which selects every
\* server.
MasterSelector(conf) == conf.labels

\* Servers of the autoscaler.
WorkerLabels == [key \in {"hcloud/node-group"} |-> "workers"]

-----------------------------------------------------------------------------
(* main *)

GoTo(place) ==
    /\ pc' = place
    /\ UNCHANGED <<file, flags, token, config, saved, edits>>

\* Mutant: the ranges are not parsed.
LoadUnparsed ==
    /\ pc = "load"
    /\ config' = Loaded(file, flags, token)
    /\ pc' = "check"
    /\ UNCHANGED <<file, flags, token, saved, edits>>

Load ==
    /\ pc = "load"
    /\ Parses(Loaded(file, flags, token))
    /\ config' = Loaded(file, flags, token)
    /\ pc' = "check"
    /\ UNCHANGED <<file, flags, token, saved, edits>>

\* The file is not there or is not YAML, or a range does not parse.
LoadFails == pc = "load" /\ GoTo("fatal")

\* internal.Init; main checks once more, later, to no effect.
Check ==
    /\ pc = "check"
    /\ GoTo(IF config.hetznerToken = NoToken THEN "fatal" ELSE "level")

ParseLevel ==
    /\ pc = "level"
    /\ GoTo(IF config.logLevel = "LOUD" THEN "fatal" ELSE "version")

\* Only the text tells the newer release, which ends the process, from the
\* failures of the check, after which main goes on with a warning.
CheckLatest ==
    /\ pc = "version"
    /\ \E err \in {"none", "error parse version", "error do request", "new version available"} :
          GoTo(IF err = "new version available" THEN "fatal" ELSE "connect")

\* NewApplicationAPI looks up the location and the datacenter.
Connect ==
    /\ pc = "connect"
    /\ \E found \in BOOLEAN : GoTo(IF found THEN "act" ELSE "fatal")

\* The switch of main.  What a command does is the matter of other modules;
\* all but delete have errors that end the process.
Act ==
    /\ pc = "act"
    /\ config.action \in Known \ {"save-full-config"}
    /\ config.action = "adhoc" => config.adhocCommand # ""
    /\ GoTo("done") \/ (config.action # "delete" /\ GoTo("fatal"))

\* An action that is none, or adhoc without a command.
ActRefused ==
    /\ pc = "act"
    /\ \/ config.action \notin Known
       \/ config.action = "adhoc" /\ config.adhocCommand = ""
    /\ GoTo("fatal")

\* save-full-config, over the file the next run will load.
SaveHere ==
    /\ pc = "act"
    /\ config.action = "save-full-config"
    /\ config.saveConfigPath = "config.yaml"
    /\ pc' = "done"
    /\ file' = Saved(config)
    /\ saved' = config
    /\ UNCHANGED <<flags, token, config, edits>>

SaveElsewhere ==
    /\ pc = "act"
    /\ config.action = "save-full-config"
    /\ config.saveConfigPath = "full.yaml"
    /\ GoTo("done")

\* There is no path, or it cannot be opened.
SaveFails ==
    /\ pc = "act"
    /\ config.action = "save-full-config"
    /\ GoTo("fatal")

\* os.WriteFile has emptied the file before it writes.
SaveCut ==
    /\ pc = "act"
    /\ config.action = "save-full-config"
    /\ config.saveConfigPath = "config.yaml"
    /\ pc' = "fatal"
    /\ \E n \in 0..7 : file' = Cut(Saved(config), n)
    /\ saved' = Absent
    /\ UNCHANGED <<flags, token, config, edits>>

\* A signal, five seconds later.
Exit == pc \notin Ended /\ GoTo("fatal")

-----------------------------------------------------------------------------
(* The operator *)

Start ==
    /\ pc \in Ended
    /\ pc' = "load"
    /\ flags' \in CommandLine
    /\ token' \in Token \cup {NoToken}
    /\ config' = Absent
    /\ UNCHANGED <<file, saved, edits>>

\* What an operator writes into a field.
Writes ==
    [hetznerToken   |-> Token \cup {Absent},
     ipRange        |-> Cidr \cup {Invalid, Absent},
     ipRangeSubnet  |-> Cidr \cup {Invalid, Absent},
     sshPrivateKey  |-> Key \cup {Absent},
     labels         |-> LabelMap \cup {Null, Absent},
     logLevel       |-> LogLevel \cup {Absent},
     saveConfigPath |-> SavePath \cup {Absent},
     action         |-> Action \cup {Absent},
     adhocCommand   |-> AdhocCommand \cup {Absent},
     script         |-> {Absent} \cup Script]

\* One field of the file is changed before the command is started.
Edit ==
    /\ pc = "load"
    /\ edits < MaxEdits
    /\ edits' = edits + 1
    /\ \E field \in DOMAIN Writes : \E value \in Writes[field] :
          file' = [file EXCEPT ![field] = value]
    /\ saved' = Absent
    /\ UNCHANGED <<pc, flags, token, config>>

-----------------------------------------------------------------------------
EmptyFile == [field \in DOMAIN Writes |-> Absent]

Init ==
    /\ pc = "load"
    /\ file = EmptyFile
    /\ flags \in CommandLine
    /\ token \in Token \cup {NoToken}
    /\ config = Absent
    /\ saved = Absent
    /\ edits = 0

Main ==
    \/ Load
    \/ LoadFails
    \/ Check
    \/ ParseLevel
    \/ CheckLatest
    \/ Connect
    \/ Act
    \/ ActRefused
    \/ SaveHere
    \/ SaveElsewhere
    \/ SaveFails
    \/ SaveCut

Next == Main \/ Exit \/ Start \/ Edit

Spec == Init /\ [][Next]_vars

-----------------------------------------------------------------------------
(* Correctness *)

File == [hetznerToken : Token \cup {Absent},
         ipRange : Cidr \cup {Invalid, Absent}, ipRangeSubnet : Cidr \cup {Invalid, Absent},
         sshPrivateKey : Key \cup {Absent},
         labels : LabelMap \cup Labels \cup {Absent, Null},
         logLevel : LogLevel \cup {Absent}, saveConfigPath : SavePath \cup {Absent},
         action : Action \cup {Absent}, adhocCommand : AdhocCommand \cup {Absent},
         script : {Absent} \cup SUBSET Line]

Config == [hetznerToken : Token \cup {NoToken}, ipRange : Cidr, ipRangeSubnet : Cidr,
           sshPrivateKey : Key, labels : Labels, logLevel : LogLevel,
           saveConfigPath : SavePath, action : Action, adhocCommand : AdhocCommand,
           script : SUBSET Line]

TypeOK ==
    /\ pc \in {"load", "check", "level", "version", "connect", "act"} \cup Ended
    /\ file \in File
    /\ flags \in CommandLine
    /\ token \in Token \cup {NoToken}
    /\ config \in {Absent} \cup Config
    /\ saved \in {Absent} \cup Config
    /\ edits \in 0..MaxEdits

\* A later run over a file that save-full-config has written works with the
\* configuration of the run that wrote it, whatever its own command line and
\* environment: ranges, labels and cliArgs are the same (but for labels that
\* were null); the paths are the default ones again; and the script is the
\* same if it has neither the token nor one of the words that SaveConfig looks
\* for, and else shorter or masked, and always without the token.
RoundTrip ==
    (pc = "act" /\ saved # Absent) =>
        /\ \A field \in {"ipRange", "ipRangeSubnet"} \cup DOMAIN flags :
              config[field] = saved[field]
        /\ config.labels = IF saved.labels = NoLabels THEN DefaultLabels ELSE saved.labels
        /\ config.sshPrivateKey = DefaultKey
        /\ config.script \subseteq saved.script \cup {"<secret>"}
        /\ saved.hetznerToken \notin config.script
        /\ {saved.hetznerToken, "sshPublicKey"} \cap saved.script = {} =>
              config.script = saved.script

\* Once save-full-config has written the file it is started with, no other
\* command is carried out any more, whatever the command lines ask for, until
\* the operator edits the file or a save fails.
ArgsStick ==
    [][(saved # Absent /\ pc = "act" /\ pc' = "done") =>
          config.action = "save-full-config" /\ file' = Saved(config)]_vars

RoleKept(labels) == "role" \in DOMAIN labels => labels["role"] = "master"

\* The firewall covers the masters, with every map of labels in the file that
\* gives no other role; and an adhoc command for the masters goes to no
\* worker, with every map that is not null.
MastersSelected ==
    pc = "act" =>
        /\ (file.labels = Absent \/ (file.labels # Null /\ RoleKept(file.labels))) =>
              Matches(FirewallSelector, config.labels)
        /\ Matches(MasterSelector(config), WorkerLabels) => file.labels = Null
=============================================================================
