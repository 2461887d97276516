------------------------- MODULE DataDirectoryProofs -------------------------
(***************************************************************************)
(* Proofs about DataDirectory, for any settings, any number of overlapping *)
(* saves and any number of crashes and failed writes.  Two inductive       *)
(* invariants, one for each half of the state: who may still write to      *)
(* settings.json, and which pair the two files of the identity are of at   *)
(* each stage of a start.                                                  *)
(***************************************************************************)
EXTENDS DataDirectory, FiniteSetTheorems, TLAPS

\* A call on its way.
Calls == [at : {"open", "write", "set"}, value : Settings, alone : BOOLEAN]

\* The one call of Next that changes nothing but the settings' side.
Saving == \E t \in Savers : save_settings(t)

\* The steps of a start and of a stop, which leave the settings' side alone.
Identity == Starting \/ WriteFails \/ StartFails \/ stop_engine

-----------------------------------------------------------------------------
(* What the assumption says, part by part. *)

LEMMA SettingsFacts == Valid \subseteq Settings /\ Default \in Valid /\ Default \in Settings
  BY DataAssumption

LEMMA BoundsFacts == MaxKeys \in Nat /\ MaxFaults \in Nat
  BY DataAssumption

LEMMA LengthIsNat == ASSUME NEW v \in Settings PROVE Length[v] \in Nat
  BY DataAssumption

LEMMA NotSettings == None \notin Settings /\ Torn \notin Settings /\ Torn # None
  BY DataAssumption

LEMMA NotPairs == None \notin Pairs /\ Torn \notin Pairs /\ Torn # None
  BY DataAssumption DEF Pairs

LEMMA IdleAt == Idle.at = "idle"
  BY DEF Idle

\* A call that is somewhere is a record of its own.
LEMMA OnItsWay == ASSUME TypeOK, NEW t \in Savers, saving[t] # Idle PROVE saving[t] \in Calls
  BY DEF TypeOK, Calls

LEMMA SomeStage == ASSUME TypeOK, start # Idle PROVE start \in [at : Stages, pair : Pairs, settings : Settings]
  BY DEF TypeOK

LEMMA FaultBounded == ASSUME faults \in 0 .. MaxFaults, Fault PROVE faults' \in 0 .. MaxFaults
  BY BoundsFacts DEF Fault

LEMMA PairsGrow ==
  ASSUME pairs \in 0 .. MaxKeys, pairs < MaxKeys
  PROVE  pairs + 1 \in 0 .. MaxKeys /\ pairs + 1 \in Pairs
  BY BoundsFacts DEF Pairs

-----------------------------------------------------------------------------
(* Types. *)

LEMMA InitTypes == Init => TypeOK
<1> SUFFICES ASSUME Init PROVE TypeOK
  OBVIOUS
<1>1. pairs \in 0 .. MaxKeys /\ faults \in 0 .. MaxFaults
  BY BoundsFacts DEF Init
<1> QED
  BY SettingsFacts, <1>1 DEF Init, TypeOK, NoFile

\* A step of save_settings touches the settings' side only.
LEMMA SavingTypes ==
  ASSUME TypeOK, NEW t \in Savers, save_settings(t)
  PROVE  TypeOK'
<1>1. CASE BeginSave(t)
  <2>1. PICK v \in Valid, alone \in BOOLEAN : saving' = [u \in Savers |->
               IF u = t THEN [at |-> "open", value |-> v, alone |-> alone]
               ELSE IF saving[u] = Idle THEN Idle ELSE [saving[u] EXCEPT !.alone = FALSE]]
    BY <1>1, Zenon DEF BeginSave, Accepted
  <2>2. ASSUME NEW u \in Savers PROVE saving'[u] \in Calls \cup {Idle}
    BY <2>1, SettingsFacts, OnItsWay DEF Calls
  <2> QED
    BY <1>1, <2>1, <2>2 DEF BeginSave, TypeOK, identityVars, Calls
<1>2. CASE Open(t)
  <2>1. saving[t] \in Calls
    BY <1>2, OnItsWay, IdleAt DEF Open
  <2>2. [saving[t] EXCEPT !.at = "write"] \in Calls
    BY <2>1 DEF Calls
  <2> QED
    BY <1>2, <2>2 DEF Open, TypeOK, identityVars, Calls
<1>3. CASE Write(t)
  <2>1. saving[t] \in Calls
    BY <1>3, OnItsWay, IdleAt DEF Write
  <2>2. [saving[t] EXCEPT !.at = "set"] \in Calls /\ Length[saving[t].value] \in Nat
    BY <2>1, LengthIsNat DEF Calls
  <2>3. file' \in [text : Settings \cup {Torn, None}, size : Nat]
    BY <1>3, <2>1, <2>2 DEF Write, TypeOK, Calls
  <2> QED
    BY <1>3, <2>2, <2>3 DEF Write, TypeOK, identityVars, Calls
<1>4. CASE SaveFails(t)
  <2>1. faults' \in 0 .. MaxFaults
    BY <1>4, FaultBounded DEF SaveFails, TypeOK
  <2> QED
    BY <1>4, <2>1 DEF SaveFails, TypeOK, identityVars
<1>5. CASE Set(t)
  <2>1. saving[t] \in Calls
    BY <1>5, OnItsWay, IdleAt DEF Set
  <2> QED
    BY <1>5, <2>1 DEF Set, TypeOK, identityVars, Calls
<1> QED
  BY <1>1, <1>2, <1>3, <1>4, <1>5 DEF save_settings

LEMMA IdentityTypes ==
  ASSUME TypeOK, Identity
  PROVE  TypeOK'
<1>1. CASE LoadPair
  BY <1>1 DEF LoadPair, Usable, TypeOK, settingsVars, Stages
<1>2. CASE Generate
  <2>1. pairs' \in 0 .. MaxKeys /\ pairs + 1 \in Pairs
    BY <1>2, PairsGrow DEF Generate, TypeOK
  <2> QED
    BY <1>2, <2>1 DEF Generate, TypeOK, settingsVars, Stages
<1>3. CASE persist
  <2>1. start \in [at : Stages, pair : Pairs, settings : Settings]
    BY <1>3, SomeStage, IdleAt DEF persist, OpenCert, WriteCert, OpenKey, WriteKey
  <2>2. start' \in [at : Stages, pair : Pairs, settings : Settings]
    BY <1>3, <2>1 DEF persist, OpenCert, WriteCert, OpenKey, WriteKey, GoTo, Stages
  <2> QED
    BY <1>3, <2>1, <2>2
       DEF persist, OpenCert, WriteCert, OpenKey, WriteKey, TypeOK, settingsVars
<1>4. CASE Publish
  <2>1. start \in [at : Stages, pair : Pairs, settings : Settings]
    BY <1>4, SomeStage, IdleAt DEF Publish
  <2> QED
    BY <1>4, <2>1 DEF Publish, TypeOK, settingsVars
<1>5. CASE WriteFails \/ StartFails
  <2>1. faults' \in 0 .. MaxFaults
    BY <1>5, FaultBounded DEF WriteFails, StartFails, TypeOK
  <2> QED
    BY <1>5, <2>1 DEF WriteFails, StartFails, TypeOK, settingsVars
<1>6. CASE stop_engine
  BY <1>6 DEF stop_engine, TypeOK, settingsVars
<1> QED
  BY <1>1, <1>2, <1>3, <1>4, <1>5, <1>6 DEF Identity, Starting, load_or_generate

\* Every step of the system is of one of these kinds.
LEMMA StepKinds == [Next]_vars => Launch \/ Crash \/ Saving \/ Identity \/ UNCHANGED vars
  BY DEF Next, Saving, Identity

LEMMA StepTypes == TypeOK /\ [Next]_vars => TypeOK'
<1> SUFFICES ASSUME TypeOK, [Next]_vars PROVE TypeOK'
  OBVIOUS
<1>1. CASE Launch
  BY <1>1, SettingsFacts DEF Launch, Loaded, TypeOK, identityVars
<1>2. CASE Crash
  <2>1. faults' \in 0 .. MaxFaults
    BY <1>2, FaultBounded DEF Crash, TypeOK
  <2> QED
    BY <1>2, <2>1 DEF Crash, TypeOK
<1>3. CASE Saving
  BY <1>3, SavingTypes DEF Saving
<1>4. CASE Identity
  BY <1>4, IdentityTypes
<1>5. CASE UNCHANGED vars
  BY <1>5 DEF vars, settingsVars, identityVars, TypeOK
<1> QED
  BY <1>1, <1>2, <1>3, <1>4, <1>5, StepKinds

\* Every variable keeps its type.
THEOREM TypeCorrect == Spec => []TypeOK
  BY InitTypes, StepTypes, PTL DEF Spec

-----------------------------------------------------------------------------
(* The settings: on disk, in memory, on their way, in the engine. *)

\* Nothing that is not valid is anywhere an engine could come to read it.
OnlyValid ==
    /\ memory \in Valid
    /\ file.text \in Valid \cup {Torn, None}
    /\ \A t \in Savers : saving[t] # Idle => saving[t].value \in Valid
    /\ start # Idle => start.settings \in Valid
    /\ config \in Valid \cup {None}

\* While a call is alone no other can write between its truncation of the file
\* and the settings in memory.
AloneWrites ==
    \A t \in Savers : saving[t] # Idle /\ saving[t].alone =>
        /\ \A u \in Savers \ {t} : saving[u] = Idle
        /\ saving[t].at = "write" => file.size = 0
        /\ saving[t].at = "set" => file.text = saving[t].value

\* What was kept stays, for no call is on its way.
KeptIsQuiet ==
    kept # None =>
        /\ \A t \in Savers : saving[t] = Idle
        /\ file.text = kept
        /\ running => memory = kept

SettingsInv == OnlyValid /\ AloneWrites /\ KeptIsQuiet

LEMMA InitSettings == Init => SettingsInv
  BY SettingsFacts DEF Init, NoFile, SettingsInv, OnlyValid, AloneWrites, KeptIsQuiet

\* save_settings validates before it does anything else.
LEMMA BeginSaveSettings ==
  ASSUME TypeOK, SettingsInv, NEW t \in Savers, BeginSave(t)
  PROVE  SettingsInv'
<1> DEFINE quiet == \A u \in Savers : saving[u] = Idle
<1>1. PICK v \in Valid : saving' = [u \in Savers |->
               IF u = t THEN [at |-> "open", value |-> v, alone |-> quiet]
               ELSE IF saving[u] = Idle THEN Idle ELSE [saving[u] EXCEPT !.alone = FALSE]]
  BY Zenon DEF BeginSave, Accepted
<1>2. UNCHANGED <<file, memory, start, config>> /\ kept' = None
  BY DEF BeginSave, identityVars
<1>3. ASSUME NEW u \in Savers, u # t, saving'[u] # Idle
      PROVE  saving'[u].value \in Valid /\ ~saving'[u].alone
  <2>1. saving[u] # Idle /\ saving'[u] = [saving[u] EXCEPT !.alone = FALSE]
    BY <1>1, <1>3
  <2>2. saving[u] \in Calls
    BY <2>1, OnItsWay
  <2> QED
    BY <2>1, <2>2 DEF SettingsInv, OnlyValid, Calls
<1>4. saving'[t] = [at |-> "open", value |-> v, alone |-> quiet]
  BY <1>1
<1>5. OnlyValid'
  BY <1>2, <1>3, <1>4 DEF SettingsInv, OnlyValid
<1>6. AloneWrites'
  <2> SUFFICES ASSUME NEW u \in Savers, saving'[u] # Idle, saving'[u].alone
               PROVE  /\ \A w \in Savers \ {u} : saving'[w] = Idle
                      /\ saving'[u].at = "open"
    BY DEF AloneWrites
  <2>1. u = t /\ saving'[u].at = "open" /\ quiet
    BY <1>3, <1>4
  <2> QED
    BY <1>1, <2>1
<1> QED
  BY <1>2, <1>5, <1>6 DEF SettingsInv, KeptIsQuiet

\* A call that goes on: what it writes is alone in the file if it was alone.
LEMMA SavingSettings ==
  ASSUME TypeOK, SettingsInv, NEW t \in Savers, save_settings(t)
  PROVE  SettingsInv'
<1>1. CASE BeginSave(t)
  BY <1>1, BeginSaveSettings
<1>2. CASE Open(t) \/ Write(t) \/ SaveFails(t) \/ Set(t)
  <2>1. saving[t] # Idle /\ saving[t] \in Calls
    BY <1>2, OnItsWay, IdleAt DEF Open, Write, SaveFails, Set
  <2>2. saving[t].value \in Valid /\ saving[t].value \in Settings
    BY <2>1, SettingsFacts DEF SettingsInv, OnlyValid
  <2>3. kept = None
    BY <2>1 DEF SettingsInv, KeptIsQuiet
  <2>4. ASSUME NEW u \in Savers \ {t}, saving[u] # Idle PROVE ~saving[u].alone
    BY <2>1, <2>4 DEF SettingsInv, AloneWrites
  <2>5. UNCHANGED <<start, config>>
    BY <1>2 DEF Open, Write, SaveFails, Set, identityVars
  <2>6. CASE Open(t)
    <3>1. [saving[t] EXCEPT !.at = "write"] \in Calls
      BY <2>1 DEF Calls
    <3>2. /\ saving' = [saving EXCEPT ![t] = [saving[t] EXCEPT !.at = "write"]]
          /\ file'.text = Torn /\ file'.size = 0
          /\ UNCHANGED <<memory, kept>>
      BY <2>6 DEF Open
    <3>3. /\ \A u \in Savers \ {t} : saving'[u] = saving[u]
          /\ saving'[t].at = "write"
          /\ saving'[t].value = saving[t].value /\ saving'[t].alone = saving[t].alone
      BY <2>1, <3>1, <3>2 DEF TypeOK, Calls
    <3>4. OnlyValid'
      BY <2>2, <2>5, <3>2, <3>3 DEF SettingsInv, OnlyValid
    <3>5. AloneWrites'
      BY <2>1, <2>4, <3>2, <3>3 DEF SettingsInv, AloneWrites
    <3> QED
      BY <2>3, <3>2, <3>4, <3>5 DEF SettingsInv, KeptIsQuiet
  <2>7. CASE Write(t)
    <3>1. [saving[t] EXCEPT !.at = "set"] \in Calls /\ Length[saving[t].value] \in Nat
      BY <2>1, <2>2, LengthIsNat DEF Calls
    <3>2. /\ saving' = [saving EXCEPT ![t] = [saving[t] EXCEPT !.at = "set"]]
          /\ UNCHANGED <<memory, kept>>
      BY <2>7 DEF Write
    <3>3. /\ \A u \in Savers \ {t} : saving'[u] = saving[u]
          /\ saving'[t].at = "set"
          /\ saving'[t].value = saving[t].value /\ saving'[t].alone = saving[t].alone
      BY <2>1, <3>1, <3>2 DEF TypeOK, Calls
    <3>4. file'.text \in {saving[t].value, Torn}
      BY <2>7 DEF Write, TypeOK
    <3>5. saving[t].alone => file'.text = saving[t].value
      <4>1. saving[t].alone => file.size = 0
        BY <2>1, <2>7 DEF Write, SettingsInv, AloneWrites
      <4>2. file.size = 0 => file.size <= Length[saving[t].value]
        BY <3>1
      <4> QED
        BY <2>7, <4>1, <4>2 DEF Write
    <3>6. OnlyValid'
      BY <2>2, <2>5, <3>2, <3>3, <3>4 DEF SettingsInv, OnlyValid
    <3>7. AloneWrites'
      BY <2>1, <2>4, <3>3, <3>5 DEF SettingsInv, AloneWrites
    <3> QED
      BY <2>3, <3>2, <3>6, <3>7 DEF SettingsInv, KeptIsQuiet
  <2>8. CASE SaveFails(t) \/ Set(t)
    <3>1. saving' = [saving EXCEPT ![t] = Idle] /\ UNCHANGED file
      BY <2>8 DEF SaveFails, Set
    <3>2. (\A u \in Savers \ {t} : saving'[u] = saving[u]) /\ saving'[t] = Idle
      BY <3>1 DEF TypeOK
    <3>3. memory' \in {memory, saving[t].value}
      BY <2>8 DEF SaveFails, Set
    <3>4. OnlyValid'
      BY <2>2, <2>5, <3>1, <3>2, <3>3 DEF SettingsInv, OnlyValid
    <3>5. AloneWrites'
      BY <2>4, <3>2 DEF SettingsInv, AloneWrites
    <3>6. KeptIsQuiet'
      <4>1. CASE SaveFails(t)
        BY <2>3, <4>1 DEF SaveFails, KeptIsQuiet
      <4>2. CASE Set(t) /\ ~saving[t].alone
        BY <4>2 DEF Set, KeptIsQuiet
      <4>3. CASE Set(t) /\ saving[t].alone
        <5>1. file.text = saving[t].value /\ \A u \in Savers \ {t} : saving[u] = Idle
          BY <2>1, <4>3 DEF Set, SettingsInv, AloneWrites
        <5> QED
          BY <3>1, <3>2, <4>3, <5>1 DEF Set, KeptIsQuiet
      <4> QED
        BY <2>8, <4>1, <4>2, <4>3
    <3> QED
      BY <3>4, <3>5, <3>6 DEF SettingsInv
  <2> QED
    BY <1>2, <2>6, <2>7, <2>8
<1> QED
  BY <1>1, <1>2 DEF save_settings

LEMMA StepSettings == TypeOK /\ SettingsInv /\ [Next]_vars => SettingsInv'
<1> SUFFICES ASSUME TypeOK, SettingsInv, [Next]_vars PROVE SettingsInv'
  OBVIOUS
<1>1. CASE Launch
  <2>1. memory' \in Valid /\ UNCHANGED <<file, saving, kept, start, config>>
    BY <1>1, SettingsFacts, NotSettings
       DEF Launch, Loaded, identityVars, SettingsInv, OnlyValid
  <2>2. kept # None => memory' = kept
    BY <1>1 DEF Launch, Loaded, SettingsInv, KeptIsQuiet, TypeOK
  <2> QED
    BY <2>1, <2>2 DEF SettingsInv, OnlyValid, AloneWrites, KeptIsQuiet
<1>2. CASE Crash
  <2>1. UNCHANGED <<memory, file, kept>> /\ ~running' /\ config' = None /\ start' = Idle
        /\ \A t \in Savers : saving'[t] = Idle
    BY <1>2 DEF Crash
  <2> QED
    BY <2>1 DEF SettingsInv, OnlyValid, AloneWrites, KeptIsQuiet
<1>3. CASE Saving
  BY <1>3, SavingSettings DEF Saving
<1>4. CASE Identity
  <2>1. UNCHANGED <<running, settingsVars>>
    BY <1>4 DEF Identity, Starting, load_or_generate, persist, LoadPair, Generate, OpenCert,
           WriteCert, OpenKey, WriteKey, Publish, WriteFails, StartFails, stop_engine
  <2>2. start # Idle => start \in [at : Stages, pair : Pairs, settings : Settings]
    BY SomeStage
  <2>3. /\ start' # Idle => start'.settings \in Valid
        /\ config' \in Valid \cup {None}
    <3>1. CASE load_or_generate
      BY <3>1 DEF load_or_generate, LoadPair, Generate, SettingsInv, OnlyValid
    <3>2. CASE persist
      BY <2>2, <3>2, IdleAt
      DEF persist, OpenCert, WriteCert, OpenKey, WriteKey, GoTo, SettingsInv, OnlyValid
    <3>3. CASE Publish
      BY <3>3, IdleAt DEF Publish, SettingsInv, OnlyValid
    <3>4. CASE WriteFails \/ StartFails \/ stop_engine
      BY <3>4 DEF WriteFails, StartFails, stop_engine, SettingsInv, OnlyValid
    <3> QED
      BY <1>4, <3>1, <3>2, <3>3, <3>4 DEF Identity, Starting
  <2> QED
    BY <2>1, <2>3 DEF settingsVars, SettingsInv, OnlyValid, AloneWrites, KeptIsQuiet
<1>5. CASE UNCHANGED vars
  BY <1>5 DEF vars, settingsVars, identityVars, SettingsInv, OnlyValid, AloneWrites, KeptIsQuiet
<1> QED
  BY <1>1, <1>2, <1>3, <1>4, <1>5, StepKinds

\* The engine never runs with settings that are not valid.
THEOREM ConfigValid == Spec => []EngineSettingsAreValid
<1>1. SettingsInv => EngineSettingsAreValid
  BY DEF SettingsInv, OnlyValid, EngineSettingsAreValid
<1> QED
  BY InitTypes, StepTypes, InitSettings, StepSettings, <1>1, PTL DEF Spec

\* A save that ran alone and succeeded outlives every crash.
THEOREM SaveKept == Spec => []SavedIsKept
<1>1. SettingsInv => SavedIsKept
  BY DEF SettingsInv, KeptIsQuiet, SavedIsKept
<1> QED
  BY InitTypes, StepTypes, InitSettings, StepSettings, <1>1, PTL DEF Spec

-----------------------------------------------------------------------------
(* The identity: what each stage of a start has left in the two files. *)

\* The pairs that an engine ran with are none, or the one on disk.
OnDisk == published = {} \/ (published = {cert} /\ Usable)

StageInv ==
    /\ start.at \in {"cert", "cert open"} => key = None
    /\ start.at = "key" => key = None /\ cert = start.pair
    /\ start.at = "key open" => key = Torn /\ cert = start.pair
    /\ start.at = "ready" => key = start.pair /\ cert = start.pair

IdentityInv == KeyFollowsCert /\ StageInv /\ OnDisk

LEMMA InitIdentity == Init => IdentityInv
  BY IdleAt DEF Init, IdentityInv, KeyFollowsCert, StageInv, OnDisk

\* No start writes while the files can be used.
LEMMA FilesWritten ==
  ASSUME TypeOK, IdentityInv, persist
  PROVE  IdentityInv'
<1>1. start \in [at : Stages, pair : Pairs, settings : Settings]
  BY SomeStage, IdleAt DEF persist, OpenCert, WriteCert, OpenKey, WriteKey
<1>2. key \in {None, Torn} /\ key' \in {None, Torn, start.pair}
  BY DEF persist, OpenCert, WriteCert, OpenKey, WriteKey, IdentityInv, StageInv
<1>3. published = {} /\ published' = {}
  BY <1>2, NotPairs
     DEF IdentityInv, OnDisk, Usable, persist, OpenCert, WriteCert, OpenKey, WriteKey
<1>4. start'.pair = start.pair
  BY <1>1 DEF persist, OpenCert, WriteCert, OpenKey, WriteKey, GoTo
<1>5. CASE OpenCert
  <2>1. start'.at = "cert open" /\ key' = None
    BY <1>1, <1>5 DEF OpenCert, GoTo, IdentityInv, StageInv
  <2> QED
    BY <1>3, <2>1 DEF IdentityInv, StageInv, KeyFollowsCert, OnDisk
<1>6. CASE WriteCert
  <2>1. start'.at = "key" /\ key' = None /\ cert' = start.pair
    BY <1>1, <1>6 DEF WriteCert, GoTo, IdentityInv, StageInv
  <2> QED
    BY <1>3, <1>4, <2>1 DEF IdentityInv, StageInv, KeyFollowsCert, OnDisk
<1>7. CASE OpenKey
  <2>1. start'.at = "key open" /\ key' = Torn /\ cert' = start.pair
    BY <1>1, <1>7 DEF OpenKey, GoTo, IdentityInv, StageInv
  <2> QED
    BY <1>1, <1>3, <1>4, <2>1 DEF IdentityInv, StageInv, KeyFollowsCert, OnDisk
<1>8. CASE WriteKey
  <2>1. start'.at = "ready" /\ key' = start.pair /\ cert' = start.pair
    BY <1>1, <1>8 DEF WriteKey, GoTo, IdentityInv, StageInv
  <2> QED
    BY <1>1, <1>3, <1>4, <2>1 DEF IdentityInv, StageInv, KeyFollowsCert, OnDisk
<1> QED
  BY <1>5, <1>6, <1>7, <1>8 DEF persist

LEMMA IdentityStep ==
  ASSUME TypeOK, IdentityInv, Identity
  PROVE  IdentityInv'
<1>1. CASE LoadPair
  <2>1. start'.at = "ready" /\ start'.pair = cert /\ key = cert
        /\ UNCHANGED <<cert, key, published>>
    BY <1>1 DEF LoadPair, Usable
  <2> QED
    BY <2>1 DEF IdentityInv, KeyFollowsCert, StageInv, OnDisk, Usable
<1>2. CASE Generate
  <2>1. start'.at = "cert" /\ UNCHANGED <<cert, key, published>>
    BY <1>2 DEF Generate
  <2>2. key = None
    BY <1>2, NotPairs DEF Generate, BothExist, IdentityInv, KeyFollowsCert
  <2> QED
    BY <2>1, <2>2 DEF IdentityInv, KeyFollowsCert, StageInv, OnDisk, Usable
<1>3. CASE persist
  BY <1>3, FilesWritten
<1>4. CASE Publish
  <2>1. start \in [at : Stages, pair : Pairs, settings : Settings]
    BY <1>4, SomeStage, IdleAt DEF Publish
  <2>2. cert = start.pair /\ key = start.pair /\ UNCHANGED <<cert, key>>
        /\ published' = published \cup {start.pair} /\ start'.at = "idle"
    BY <1>4, IdleAt DEF Publish, IdentityInv, StageInv
  <2> QED
    BY <2>1, <2>2 DEF IdentityInv, KeyFollowsCert, StageInv, OnDisk, Usable
<1>5. CASE WriteFails \/ StartFails
  <2>1. start'.at = "idle" /\ UNCHANGED <<cert, key, published>>
    BY <1>5, IdleAt DEF WriteFails, StartFails
  <2> QED
    BY <2>1 DEF IdentityInv, KeyFollowsCert, StageInv, OnDisk, Usable
<1>6. CASE stop_engine
  BY <1>6 DEF stop_engine, IdentityInv, KeyFollowsCert, StageInv, OnDisk, Usable
<1> QED
  BY <1>1, <1>2, <1>3, <1>4, <1>5, <1>6 DEF Identity, Starting, load_or_generate

LEMMA StepIdentity == TypeOK /\ IdentityInv /\ [Next]_vars => IdentityInv'
<1> SUFFICES ASSUME TypeOK, IdentityInv, [Next]_vars PROVE IdentityInv'
  OBVIOUS
<1>1. CASE Launch \/ Saving \/ UNCHANGED vars
  <2>1. UNCHANGED identityVars
    BY <1>1 DEF Launch, Saving, save_settings, BeginSave, Open, Write, SaveFails, Set, vars
  <2> QED
    BY <2>1 DEF identityVars, IdentityInv, KeyFollowsCert, StageInv, OnDisk, Usable
<1>2. CASE Crash
  <2>1. start'.at = "idle" /\ UNCHANGED <<cert, key, published>>
    BY <1>2, IdleAt DEF Crash
  <2> QED
    BY <2>1 DEF IdentityInv, KeyFollowsCert, StageInv, OnDisk, Usable
<1>3. CASE Identity
  BY <1>3, IdentityStep
<1> QED
  BY <1>1, <1>2, <1>3, StepKinds

\* A key never stands beside the certificate of another pair, or beside none.
THEOREM KeyFollows == Spec => []KeyFollowsCert
<1>1. IdentityInv => KeyFollowsCert
  BY DEF IdentityInv
<1> QED
  BY InitTypes, StepTypes, InitIdentity, StepIdentity, <1>1, PTL DEF Spec

\* No instance ever runs with a second identity.
THEOREM IdentityStable == Spec => []IdentityIsStable
<1>1. OnDisk => IdentityIsStable
  <2>1. Cardinality({}) = 0 /\ Cardinality({cert}) = 1
    BY FS_EmptySet, FS_Singleton
  <2> QED
    BY <2>1 DEF OnDisk, IdentityIsStable
<1>2. IdentityInv => IdentityIsStable
  BY <1>1 DEF IdentityInv
<1> QED
  BY InitTypes, StepTypes, InitIdentity, StepIdentity, <1>2, PTL DEF Spec
=============================================================================
