--------------------------- MODULE StartupProofs ---------------------------
(***************************************************************************)
(* Proofs about Startup, for every set of ranges, tokens, paths, scripts,  *)
(* label maps and command lines.                                           *)
(***************************************************************************)
EXTENDS Startup, TLAPS

\* From Load to the end of main the file and the configuration agree, and
\* behind Check there is a token.
ConfigIsLoaded ==
    /\ pc \in {"check", "level", "version", "connect", "act"} =>
          config = Loaded(file, flags, token) /\ config \in Config
    /\ pc \in {"level", "version", "connect", "act"} => config.hetznerToken \in Token

\* The file is the copy that save-full-config has made.
FileIsSaved ==
    saved # Absent =>
        /\ file = Saved(saved)
        /\ saved.action = "save-full-config"
        /\ saved.saveConfigPath = "config.yaml"
        /\ saved.hetznerToken \in Token

IInv ==
    /\ TypeOK
    /\ ConfigIsLoaded
    /\ FileIsSaved

-----------------------------------------------------------------------------
(* Labels *)

\* A map that is merged a second time does not change.
LEMMA MergeAgain == ASSUME NEW l \in LabelMap PROVE With(With(l)) = With(l)
BY DEF With

\* Labels that are not nil are loaded as they were saved.
LEMMA MergeSaved == ASSUME NEW l \in Labels, l # NoLabels PROVE Merge(l) = l
<1>1. l \notin {Absent, Null}
  BY LabelAssumption
<1>2. Merge(l) = With(l)
  BY <1>1 DEF Merge
<1>3. With(DefaultLabels) = DefaultLabels
  BY DEF With, DefaultLabels
<1> QED
  BY <1>2, <1>3, MergeAgain DEF Labels

\* A nil map that is saved, and merged into the default one.
LEMMA WithNil == With(NoLabels) = DefaultLabels
BY DEF With, NoLabels, DefaultLabels

\* So labels that were null come back as the default ones.
LEMMA MergeNil == Merge(NoLabels) = DefaultLabels
<1>1. NoLabels \notin {Absent, Null}
  BY LabelAssumption DEF Labels
<1> QED
  BY <1>1, WithNil DEF Merge

\* Whatever is in the file, Load makes labels of it.
LEMMA MergeType ==
  ASSUME NEW l \in LabelMap \cup Labels \cup {Absent, Null} PROVE Merge(l) \in Labels
<1>1. CASE l = Absent \/ l = Null
  BY <1>1, LabelAssumption DEF Merge, Labels
<1>2. CASE l \in LabelMap
  BY <1>2, LabelAssumption DEF Merge, Labels
<1>3. CASE l = NoLabels
  BY <1>3, MergeNil DEF Labels
<1>4. CASE l \in Labels /\ l # NoLabels
  BY <1>4, MergeSaved
<1> QED
  BY <1>1, <1>2, <1>3, <1>4

-----------------------------------------------------------------------------
(* Saving *)

\* The script that is written: no token and no line that names a key in it.
LEMMA ScriptSaved ==
  ASSUME NEW s \in SUBSET Line, NEW t \in Token
  PROVE  LET kept == WithoutNamed(Masked(s, t)) IN
         /\ kept \subseteq s \cup {"<secret>"}
         /\ kept \subseteq Line
         /\ t \notin kept
         /\ {t, "sshPublicKey"} \cap s = {} => kept = s
<1>1. t # "<secret>"
  BY TokenAssumption
<1>2. WithoutNamed(Masked(s, t)) \subseteq s \cup {"<secret>"}
  BY DEF WithoutNamed, Masked
<1>3. t \notin WithoutNamed(Masked(s, t))
  BY <1>1 DEF WithoutNamed, Masked
<1>4. {t, "sshPublicKey"} \cap s = {} => WithoutNamed(Masked(s, t)) = s
  BY DEF WithoutNamed, Masked
<1> QED
  BY <1>2, <1>3, <1>4 DEF Line

\* What is written, field by field.
LEMMA SavedFields ==
  ASSUME NEW conf \in Config
  PROVE  /\ Saved(conf).hetznerToken = Absent
         /\ Saved(conf).ipRange = conf.ipRange
         /\ Saved(conf).ipRangeSubnet = conf.ipRangeSubnet
         /\ Saved(conf).sshPrivateKey = Absent
         /\ Saved(conf).labels = conf.labels
         /\ Saved(conf).logLevel = conf.logLevel
         /\ Saved(conf).saveConfigPath = conf.saveConfigPath
         /\ Saved(conf).action = conf.action
         /\ Saved(conf).adhocCommand = conf.adhocCommand
         /\ Saved(conf).script = WithoutNamed(Masked(conf.script, conf.hetznerToken))
BY DEF Saved, Config

\* It can be loaded.
LEMMA SavedType ==
  ASSUME NEW conf \in Config, conf.hetznerToken \in Token PROVE Saved(conf) \in File
<1>1. WithoutNamed(Masked(conf.script, conf.hetznerToken)) \in SUBSET Line
  BY ScriptSaved DEF Config
<1> QED
  BY <1>1 DEF Saved, Config, File

\* So can what a failed write leaves of it.
LEMMA CutType == ASSUME NEW f \in File, NEW n PROVE Cut(f, n) \in File
BY DEF Cut, File

-----------------------------------------------------------------------------
(* The invariant *)

\* An empty file.
LEMMA InvInit == Init => IInv
<1> SUFFICES ASSUME Init PROVE IInv
  OBVIOUS
<1>1. file \in File
  BY DEF Init, EmptyFile, Writes, File
<1>2. TypeOK
  BY <1>1, EditsAssumption DEF Init, TypeOK
<1> QED
  BY <1>2 DEF Init, IInv, ConfigIsLoaded, FileIsSaved

\* A configuration that parses has its type.
LEMMA LoadStep == IInv /\ Load => IInv'
<1> SUFFICES ASSUME IInv, Load PROVE IInv'
  OBVIOUS
<1>1. /\ pc' = "check" /\ config' = Loaded(file, flags, token)
      /\ Parses(Loaded(file, flags, token))
      /\ UNCHANGED <<file, flags, token, saved, edits>>
  BY DEF Load
<1>2. Loaded(file, flags, token) \in Config
  <2>1. file \in File /\ flags \in Flags /\ token \in Token \cup {NoToken}
    BY CommandAssumption DEF IInv, TypeOK
  <2>2. Merge(file.labels) \in Labels
    BY <2>1, MergeType DEF File
  <2>3. Over(file.ipRange, DefaultRange) \in Cidr /\ Over(file.ipRangeSubnet, DefaultRange) \in Cidr
    BY <1>1 DEF Parses, Loaded
  <2>4. Over(file.hetznerToken, token) \in Token \cup {NoToken}
    BY <2>1 DEF Over, File
  <2>5. Over(file.sshPrivateKey, DefaultKey) \in Key
    BY <2>1, KeyAssumption DEF Over, File
  <2>6. /\ Over(file.logLevel, flags.logLevel) \in LogLevel
        /\ Over(file.saveConfigPath, flags.saveConfigPath) \in SavePath
        /\ Over(file.action, flags.action) \in Action
        /\ Over(file.adhocCommand, flags.adhocCommand) \in AdhocCommand
    BY <2>1 DEF Over, File, Flags
  <2>7. Over(file.script, {}) \in SUBSET Line
    BY <2>1 DEF Over, File
  <2> QED
    BY <2>2, <2>3, <2>4, <2>5, <2>6, <2>7 DEF Loaded, Config
<1>3. TypeOK'
  BY <1>1, <1>2 DEF IInv, TypeOK
<1>4. ConfigIsLoaded'
  BY <1>1, <1>2 DEF ConfigIsLoaded
<1>5. FileIsSaved'
  BY <1>1 DEF IInv, FileIsSaved
<1> QED
  BY <1>3, <1>4, <1>5 DEF IInv

\* main goes on, or ends, and the file stays.
LEMMA MainStep ==
  IInv /\ (LoadFails \/ Check \/ ParseLevel \/ CheckLatest \/ Connect \/ Act \/ ActRefused
           \/ SaveElsewhere \/ SaveFails \/ Exit) => IInv'
<1> SUFFICES ASSUME IInv, LoadFails \/ Check \/ ParseLevel \/ CheckLatest \/ Connect \/ Act
                          \/ ActRefused \/ SaveElsewhere \/ SaveFails \/ Exit
             PROVE  IInv'
  OBVIOUS
<1>1. /\ UNCHANGED <<file, flags, token, config, saved, edits>>
      /\ \/ pc = "check" /\ pc' = "level" /\ config.hetznerToken # NoToken
         \/ pc = "level" /\ pc' = "version"
         \/ pc = "version" /\ pc' = "connect"
         \/ pc = "connect" /\ pc' = "act"
         \/ pc' \in Ended
  BY DEF LoadFails, Check, ParseLevel, CheckLatest, Connect, Act, ActRefused, SaveElsewhere,
         SaveFails, Exit, GoTo, Ended
<1>2. TypeOK'
  BY <1>1 DEF IInv, TypeOK, Ended
<1>3. ConfigIsLoaded'
  <2>1. pc = "check" => config.hetznerToken \in Token \cup {NoToken}
    BY DEF IInv, ConfigIsLoaded, Config
  <2> QED
    BY <1>1, <2>1 DEF IInv, ConfigIsLoaded, Ended
<1>4. FileIsSaved'
  BY <1>1 DEF IInv, FileIsSaved
<1> QED
  BY <1>2, <1>3, <1>4 DEF IInv

\* save-full-config writes the file, or begins to.
LEMMA SaveStep == IInv /\ (SaveHere \/ SaveCut) => IInv'
<1> SUFFICES ASSUME IInv, SaveHere \/ SaveCut PROVE IInv'
  OBVIOUS
<1>1. /\ pc = "act" /\ pc' \in Ended /\ UNCHANGED <<flags, token, config, edits>>
      /\ config \in Config /\ config.hetznerToken \in Token
      /\ config.action = "save-full-config" /\ config.saveConfigPath = "config.yaml"
  BY DEF SaveHere, SaveCut, IInv, ConfigIsLoaded, Ended
<1>2. Saved(config) \in File
  BY <1>1, SavedType
<1>3. \/ file' = Saved(config) /\ saved' = config
      \/ file' \in File /\ saved' = Absent
  BY <1>2, CutType DEF SaveHere, SaveCut
<1>4. TypeOK'
  BY <1>1, <1>2, <1>3 DEF IInv, TypeOK
<1>5. ConfigIsLoaded'
  BY <1>1 DEF ConfigIsLoaded, Ended
<1>6. FileIsSaved'
  BY <1>1, <1>3 DEF FileIsSaved
<1> QED
  BY <1>4, <1>5, <1>6 DEF IInv

\* The operator changes one field.
LEMMA EditType == IInv /\ Edit => file' \in File
<1> SUFFICES ASSUME IInv, Edit PROVE file' \in File
  OBVIOUS
<1>1. PICK field \in DOMAIN Writes : \E value \in Writes[field] :
        file' = [file EXCEPT ![field] = value]
  BY DEF Edit
<1>2. PICK value \in Writes[field] : file' = [file EXCEPT ![field] = value]
  BY <1>1
<1>3. file \in File
  BY DEF IInv, TypeOK
<1>4. field \in {"hetznerToken", "ipRange", "ipRangeSubnet", "sshPrivateKey", "labels",
                 "logLevel", "saveConfigPath", "action", "adhocCommand", "script"}
  BY <1>1 DEF Writes
<1>5. Script \subseteq SUBSET Line
  BY ScriptAssumption
<1> QED
  BY <1>2, <1>3, <1>4, <1>5 DEF Writes, File

\* The operator.
LEMMA OperatorStep == IInv /\ (Start \/ Edit) => IInv'
<1> SUFFICES ASSUME IInv, Start \/ Edit PROVE IInv'
  OBVIOUS
<1>1. pc' = "load"
  BY DEF Start, Edit
<1>2. ASSUME Start PROVE TypeOK' /\ FileIsSaved'
  BY <1>2 DEF Start, IInv, TypeOK, FileIsSaved
<1>3. ASSUME Edit PROVE TypeOK' /\ FileIsSaved'
  <2>1. UNCHANGED <<pc, flags, token, config>> /\ saved' = Absent /\ edits' \in 0..MaxEdits
    BY <1>3, EditsAssumption DEF Edit, IInv, TypeOK
  <2> QED
    BY <1>3, <2>1, EditType DEF IInv, TypeOK, FileIsSaved
<1>4. ConfigIsLoaded'
  BY <1>1 DEF ConfigIsLoaded
<1> QED
  BY <1>2, <1>3, <1>4 DEF IInv

\* Every step keeps the invariant.
LEMMA InvNext == IInv /\ [Next]_vars => IInv'
<1> SUFFICES ASSUME IInv, [Next]_vars PROVE IInv'
  OBVIOUS
<1>1. CASE UNCHANGED vars
  BY <1>1 DEF vars, IInv, TypeOK, ConfigIsLoaded, FileIsSaved
<1>2. CASE Next
  BY <1>2, LoadStep, MainStep, SaveStep, OperatorStep DEF Next, Main
<1> QED
  BY <1>1, <1>2

-----------------------------------------------------------------------------
(* Theorems *)

\* main and the file are at every step as their places say.
THEOREM Invariant == Spec => []IInv
BY InvInit, InvNext, PTL DEF Spec

\* The variables of main and the file keep their types; what is loaded has
\* ranges that parse.
THEOREM TypeCorrect == Spec => []TypeOK
<1>1. IInv => TypeOK
  BY DEF IInv
<1> QED
  BY <1>1, Invariant, PTL

\* What save-full-config has written is, for a later run with any command line
\* and any token, the same configuration but for what it takes out.
THEOREM RoundTripTheorem == Spec => []RoundTrip
<1>1. IInv => RoundTrip
  <2> SUFFICES ASSUME IInv, pc = "act", saved # Absent
               PROVE  /\ \A field \in {"ipRange", "ipRangeSubnet"} \cup DOMAIN flags :
                            config[field] = saved[field]
                      /\ config.labels = IF saved.labels = NoLabels THEN DefaultLabels
                                         ELSE saved.labels
                      /\ config.sshPrivateKey = DefaultKey
                      /\ config.script \subseteq saved.script \cup {"<secret>"}
                      /\ saved.hetznerToken \notin config.script
                      /\ {saved.hetznerToken, "sshPublicKey"} \cap saved.script = {} =>
                            config.script = saved.script
    BY DEF RoundTrip
  <2>1. /\ saved \in Config /\ saved.hetznerToken \in Token /\ flags \in Flags
        /\ config = Loaded(Saved(saved), flags, token)
    BY CommandAssumption DEF IInv, TypeOK, ConfigIsLoaded, FileIsSaved
  <2>2. DOMAIN flags = {"logLevel", "saveConfigPath", "action", "adhocCommand"}
    BY <2>1 DEF Flags
  <2>3. /\ saved.ipRange # Absent /\ saved.ipRangeSubnet # Absent /\ saved.logLevel # Absent
        /\ saved.saveConfigPath # Absent /\ saved.action # Absent
        /\ saved.adhocCommand # Absent
    BY <2>1, AbsentAssumption DEF Config
  <2>4. /\ config.ipRange = saved.ipRange /\ config.ipRangeSubnet = saved.ipRangeSubnet
        /\ config.logLevel = saved.logLevel /\ config.saveConfigPath = saved.saveConfigPath
        /\ config.action = saved.action /\ config.adhocCommand = saved.adhocCommand
        /\ config.sshPrivateKey = DefaultKey
    BY <2>1, <2>3, SavedFields DEF Loaded, Over
  <2>5. config.labels = Merge(saved.labels) /\ saved.labels \in Labels
    BY <2>1, SavedFields DEF Loaded, Config
  <2>6. config.labels = IF saved.labels = NoLabels THEN DefaultLabels ELSE saved.labels
    BY <2>5, MergeSaved, MergeNil
  <2>7. saved.script \in SUBSET Line
    BY <2>1 DEF Config
  <2>8. config.script = WithoutNamed(Masked(saved.script, saved.hetznerToken))
    <3>1. WithoutNamed(Masked(saved.script, saved.hetznerToken)) \in SUBSET Line
      BY <2>1, <2>7, ScriptSaved
    <3>2. WithoutNamed(Masked(saved.script, saved.hetznerToken)) # Absent
      BY <3>1, AbsentAssumption
    <3> QED
      BY <2>1, <3>2, SavedFields DEF Loaded, Over
  <2> QED
    BY <2>1, <2>2, <2>4, <2>6, <2>7, <2>8, ScriptSaved
<1> QED
  BY <1>1, Invariant, PTL

\* The firewall and an adhoc command select the servers they are meant for.
THEOREM SelectorTheorem == Spec => []MastersSelected
<1>1. IInv => MastersSelected
  <2> SUFFICES ASSUME IInv, pc = "act", file.labels # Null
               PROVE  /\ (file.labels = Absent \/ RoleKept(file.labels)) =>
                            Matches(FirewallSelector, config.labels)
                      /\ ~Matches(MasterSelector(config), WorkerLabels)
    BY LabelAssumption DEF MastersSelected, IInv, ConfigIsLoaded, Loaded, Merge, With,
       DefaultLabels, Matches, FirewallSelector
  <2>1. config.labels = Merge(file.labels)
    BY DEF IInv, ConfigIsLoaded, Loaded
  <2>2. config.labels = IF file.labels = Absent THEN DefaultLabels ELSE With(file.labels)
    BY <2>1 DEF Merge
  <2>3. "role" \in DOMAIN config.labels
    BY <2>2 DEF With, DefaultLabels
  <2>4. (file.labels = Absent \/ RoleKept(file.labels)) => config.labels["role"] = "master"
    BY <2>2 DEF With, DefaultLabels, RoleKept
  <2> QED
    BY <2>3, <2>4 DEF Matches, FirewallSelector, MasterSelector, WorkerLabels
<1> QED
  BY <1>1, Invariant, PTL

\* Over a file that save-full-config has written, every command line leads to
\* save-full-config once more.
LEMMA StickStep ==
  IInv /\ [Next]_vars =>
    ((saved # Absent /\ pc = "act" /\ pc' = "done") =>
        config.action = "save-full-config" /\ file' = Saved(config))
<1> SUFFICES ASSUME IInv, [Next]_vars, saved # Absent, pc = "act", pc' = "done"
             PROVE  config.action = "save-full-config" /\ file' = Saved(config)
  OBVIOUS
<1>1. /\ config = Loaded(Saved(saved), flags, token) /\ saved \in Config
      /\ saved.action = "save-full-config" /\ saved.saveConfigPath = "config.yaml"
  BY DEF IInv, TypeOK, ConfigIsLoaded, FileIsSaved
<1>2. saved.action # Absent /\ saved.saveConfigPath # Absent
  BY <1>1, AbsentAssumption DEF Config
<1>3. config.action = "save-full-config" /\ config.saveConfigPath = "config.yaml"
  BY <1>1, <1>2, SavedFields DEF Loaded, Over
<1>4. SaveHere
  BY <1>3
  DEF Next, Main, Load, LoadFails, Check, ParseLevel, CheckLatest, Connect, Act, ActRefused,
      SaveElsewhere, SaveFails, SaveCut, Exit, Start, Edit, GoTo, Ended, vars
<1> QED
  BY <1>3, <1>4 DEF SaveHere

\* The file's cliArgs stick: once saved over itself, the file makes every
\* command save-full-config.
THEOREM ArgsStickTheorem == Spec => ArgsStick
<1>1. IInv /\ [Next]_vars =>
        [(saved # Absent /\ pc = "act" /\ pc' = "done") =>
            config.action = "save-full-config" /\ file' = Saved(config)]_vars
  BY StickStep
<1> QED
  BY <1>1, Invariant, PTL DEF Spec, ArgsStick
=============================================================================
