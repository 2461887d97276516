---------------------------- MODULE DataDirectory ----------------------------
(***************************************************************************)
(* What one instance keeps in its data directory: the user's settings      *)
(* (frontend/src-tauri/src/settings.rs, with the commands that save them   *)
(* and the set-up of lib.rs that loads them) and the certificate and key   *)
(* of its identity (cert_manager.rs), over crashes and restarts of the     *)
(* process and failing writes.                                             *)
(*                                                                         *)
(* std::fs::write truncates the file, then writes it: between the two, and *)
(* after a write that failed, the file is there and cannot be used.  Only  *)
(* the process is lost in a crash, not what it had written.                *)
(***************************************************************************)
EXTENDS Naturals, FiniteSets

CONSTANTS
    Settings,  \* what a user may ask for
    Valid,     \* the settings in which validate_p2p_settings finds no error
    Default,   \* P2PSettings::default()
    Length,    \* Length[v]: bytes of v as JSON
    Torn,      \* contents of a file that cannot be used
    None,      \* no file, no identity, no save
    Savers,    \* calls of save_settings that may run at the same time
    MaxKeys,   \* bound: key pairs generated
    MaxFaults  \* bound: crashes and failed writes

ASSUME DataAssumption ==
    /\ Valid \subseteq Settings
    /\ Default \in Valid
    /\ Length \in [Settings -> Nat]
    /\ Torn \notin Settings \cup Nat /\ None \notin Settings \cup Nat /\ Torn # None
    /\ MaxKeys \in Nat /\ MaxFaults \in Nat

VARIABLES
    running,   \* the process runs
    file,      \* settings.json: what it parses to, and its size
    memory,    \* AppState.settings
    saving,    \* saving[t]: what the call t saves, and how far it is
    kept,      \* what the last save wrote, when it ran alone and succeeded
    cert, key, \* cert.der and key.der: the key pair that each is of
    start,     \* where P2PEngine::start stands, its pair and the settings it was given
    identity,  \* the pair of the engine that runs
    config,    \* the settings of the engine that runs
    published, \* pairs that an engine has run with
    pairs,     \* key pairs generated so far
    faults     \* crashes and failed writes so far

settingsVars == <<file, memory, saving, kept>>
identityVars == <<cert, key, start, identity, config, published, pairs>>
vars == <<running, settingsVars, identityVars, faults>>

Pairs   == 1 .. MaxKeys
Idle    == [at |-> "idle"]
NoFile  == [text |-> None, size |-> 0]
Stages  == {"cert", "cert open", "key", "key open", "ready"}

TypeOK ==
    /\ running \in BOOLEAN
    /\ file \in [text : Settings \cup {Torn, None}, size : Nat]
    /\ memory \in Settings
    /\ saving \in [Savers -> [at : {"open", "write", "set"}, value : Settings, alone : BOOLEAN]
                               \cup {Idle}]
    /\ kept \in Settings \cup {None}
    /\ cert \in Pairs \cup {Torn, None}
    /\ key \in Pairs \cup {Torn, None}
    /\ start \in [at : Stages, pair : Pairs, settings : Settings] \cup {Idle}
    /\ identity \in Pairs \cup {None}
    /\ config \in Settings \cup {None}
    /\ published \subseteq Pairs
    /\ pairs \in 0 .. MaxKeys
    /\ faults \in 0 .. MaxFaults

Init ==
    /\ running = FALSE
    /\ file = NoFile
    /\ memory = Default
    /\ saving = [t \in Savers |-> Idle]
    /\ kept = None
    /\ cert = None /\ key = None
    /\ start = Idle
    /\ identity = None /\ config = None
    /\ published = {}
    /\ pairs = 0
    /\ faults = 0

Fault == faults < MaxFaults /\ faults' = faults + 1

-----------------------------------------------------------------------------
(* The process. *)

\* load_settings: a file that is absent or cannot be parsed gives the default.
Loaded == IF file.text \in Settings THEN file.text ELSE Default

Launch ==
    /\ ~running
    /\ running' = TRUE
    /\ memory' = Loaded
    /\ UNCHANGED <<file, saving, kept, identityVars, faults>>

Crash ==
    /\ running
    /\ Fault
    /\ running' = FALSE
    /\ saving' = [t \in Savers |-> Idle]
    /\ start' = Idle
    /\ identity' = None /\ config' = None
    /\ UNCHANGED <<file, memory, kept, cert, key, published, pairs>>

-----------------------------------------------------------------------------
(* save_settings. *)

\* Mutant: the settings are not looked at.
Unchecked == Settings
Accepted  == Valid

\* A save that begins while others are on their way is not alone, nor are they.
BeginSave(t) ==
    /\ running
    /\ saving[t] = Idle
    /\ \E v \in Accepted :
         LET alone == \A u \in Savers : saving[u] = Idle
         IN  saving' = [u \in Savers |->
               IF u = t THEN [at |-> "open", value |-> v, alone |-> alone]
               ELSE IF saving[u] = Idle THEN Idle ELSE [saving[u] EXCEPT !.alone = FALSE]]
    /\ kept' = None
    /\ UNCHANGED <<running, file, memory, identityVars, faults>>

\* Mutant: the file is not truncated.
OpenUntruncated(t) ==
    /\ saving[t].at = "open"
    /\ saving' = [saving EXCEPT ![t].at = "write"]
    /\ UNCHANGED <<running, file, memory, kept, identityVars, faults>>

Open(t) ==
    /\ saving[t].at = "open"
    /\ file' = [text |-> Torn, size |-> 0]
    /\ saving' = [saving EXCEPT ![t].at = "write"]
    /\ UNCHANGED <<running, memory, kept, identityVars, faults>>

\* From the start of the file, whatever another call wrote since it was
\* truncated; what was longer sticks out.
Write(t) ==
    LET v == saving[t].value
    IN  /\ saving[t].at = "write"
        /\ file' = IF file.size <= Length[v] THEN [text |-> v, size |-> Length[v]]
                   ELSE [file EXCEPT !.text = Torn]
        /\ saving' = [saving EXCEPT ![t].at = "set"]
        /\ UNCHANGED <<running, memory, kept, identityVars, faults>>

\* The file cannot be opened, or its bytes not be written; the call returns
\* an error.
SaveFails(t) ==
    /\ saving[t].at \in {"open", "write"}
    /\ Fault
    /\ saving' = [saving EXCEPT ![t] = Idle]
    /\ UNCHANGED <<running, file, memory, kept, identityVars>>

\* The settings in memory follow, under their lock.
Set(t) ==
    /\ saving[t].at = "set"
    /\ memory' = saving[t].value
    /\ kept' = IF saving[t].alone THEN saving[t].value ELSE None
    /\ saving' = [saving EXCEPT ![t] = Idle]
    /\ UNCHANGED <<running, file, identityVars, faults>>

-----------------------------------------------------------------------------
(* P2PEngine::start, under the lock of the engine: the certificate.  The command *)
(* gives it a copy of the settings in memory; they may be saved again meanwhile. *)

\* server_tls_config refuses a pair that cannot be parsed or does not match.
Usable == cert \in Pairs /\ key = cert

\* Mutant: either file will do.
EitherExists == cert # None \/ key # None
BothExist    == cert # None /\ key # None

LoadPair ==
    /\ running /\ identity = None /\ start = Idle
    /\ BothExist
    /\ Usable
    /\ start' = [at |-> "ready", pair |-> cert, settings |-> memory]
    /\ UNCHANGED <<running, settingsVars, cert, key, identity, config, published, pairs, faults>>

Generate ==
    /\ running /\ identity = None /\ start = Idle
    /\ ~BothExist
    /\ pairs < MaxKeys
    /\ pairs' = pairs + 1
    /\ start' = [at |-> "cert", pair |-> pairs + 1, settings |-> memory]
    /\ UNCHANGED <<running, settingsVars, cert, key, identity, config, published, faults>>

GoTo(stage) == start' = [start EXCEPT !.at = stage]

\* Mutant: an error of the write is overlooked.
CutUnseen ==
    /\ \/ start.at \in {"cert", "cert open"} /\ GoTo("key")
       \/ start.at \in {"key", "key open"} /\ GoTo("ready")
    /\ Fault
    /\ UNCHANGED <<running, settingsVars, cert, key, identity, config, published, pairs>>

\* persist: the certificate before the key; an error ends the start.
WriteFails ==
    /\ start.at \in {"cert", "cert open", "key", "key open"}
    /\ Fault
    /\ start' = Idle
    /\ UNCHANGED <<running, settingsVars, cert, key, identity, config, published, pairs>>

OpenCert ==
    /\ start.at = "cert"
    /\ cert' = Torn
    /\ GoTo("cert open")
    /\ UNCHANGED <<running, settingsVars, key, identity, config, published, pairs, faults>>

WriteCert ==
    /\ start.at = "cert open"
    /\ cert' = start.pair
    /\ GoTo("key")
    /\ UNCHANGED <<running, settingsVars, key, identity, config, published, pairs, faults>>

OpenKey ==
    /\ start.at = "key"
    /\ key' = Torn
    /\ GoTo("key open")
    /\ UNCHANGED <<running, settingsVars, cert, identity, config, published, pairs, faults>>

WriteKey ==
    /\ start.at = "key open"
    /\ key' = start.pair
    /\ GoTo("ready")
    /\ UNCHANGED <<running, settingsVars, cert, identity, config, published, pairs, faults>>

\* The engine listens with the pair that is in memory, and with the settings
\* that the command read before the start.
Publish ==
    /\ start.at = "ready"
    /\ identity' = start.pair
    /\ published' = published \cup {start.pair}
    /\ config' = start.settings
    /\ start' = Idle
    /\ UNCHANGED <<running, settingsVars, cert, key, pairs, faults>>

\* The port cannot be bound, or discovery not be started.
StartFails ==
    /\ start.at = "ready"
    /\ Fault
    /\ start' = Idle
    /\ UNCHANGED <<running, settingsVars, cert, key, identity, config, published, pairs>>

stop_engine ==
    /\ identity # None
    /\ identity' = None /\ config' = None
    /\ UNCHANGED <<running, settingsVars, cert, key, start, published, pairs, faults>>

-----------------------------------------------------------------------------
save_settings(t) == BeginSave(t) \/ Open(t) \/ Write(t) \/ SaveFails(t) \/ Set(t)
load_or_generate == LoadPair \/ Generate
persist          == OpenCert \/ WriteCert \/ OpenKey \/ WriteKey
Starting         == load_or_generate \/ persist \/ Publish

Next ==
    \/ Launch \/ Crash
    \/ \E t \in Savers : save_settings(t)
    \/ Starting \/ WriteFails \/ StartFails
    \/ stop_engine

Spec == Init /\ [][Next]_vars

\* The user launches the program and the interface starts the engine.
FairSpec == Spec /\ WF_vars(Launch) /\ WF_vars(Starting)

-----------------------------------------------------------------------------
(* Properties. *)

\* The engine never runs with settings that are not valid, wherever they come
\* from: a torn file, a save that overlapped, the memory of the process.  It
\* divides by the chunk size and takes its permits from the number of streams.
EngineSettingsAreValid == config # None => config \in Valid

\* A save that ran alone and succeeded is in the file and in memory, over
\* crashes and restarts, until the next one begins.
SavedIsKept ==
    kept # None => file.text = kept /\ (running => memory = kept)

\* The fingerprint that others know the instance by never changes: no start
\* runs with another pair than the first that ran, whatever was cut off.
IdentityIsStable == Cardinality(published) <= 1

\* A key never stands beside the certificate of another pair, or beside none:
\* only a key that was cut off makes a start fail on what it loads.
KeyFollowsCert == key # None => cert \in Pairs /\ key \in {cert, Torn}

\* The engine is started again and again, unless the key is torn for good.
StartsUnlessTorn == <>[](key = Torn) \/ []<>(identity # None)
=============================================================================
