----------------------------- MODULE ConfigLib -----------------------------
(***************************************************************************)
(* The configuration of an application: the section of the application,    *)
(* the one of its group and the system's are merged, and a detached thread *)
(* watches the directory and loads the file again when it was saved        *)
(* (src/ConfigLib/ConfigLib.cpp).                                          *)
(*                                                                         *)
(* The file and its writer are outside src/.  A save is in place, and the  *)
(* file is torn until it is closed; or a new file or link takes the name;  *)
(* or it goes to the target of the link that deploy/BinanceMD/entrypoint.sh*)
(* makes of config.json, and the event bears the target's name.            *)
(*                                                                         *)
(* A document is what validate() and flatten() tell apart: what validate() *)
(* makes of it (it "fits", is "refused" because a part is missing, or      *)
(* "throws" because a part is of the wrong type), and the three sections   *)
(* as functions from tags to values.                                       *)
(***************************************************************************)
EXTENDS Integers, FiniteSetsExt

CONSTANTS
    Documents,  \* what the file may be saved as
    Mandatory,  \* tags that must have a value
    AppId,      \* the application's id
    NotStrings, \* values that are not strings
    Vetoed,     \* configurations the application's validator refuses
    Torn,       \* the file while it is written in place: no JSON
    None,       \* no section, no configuration
    MaxSaves    \* bound: saves

ASSUME SavesAssumption == MaxSaves \in Nat
ASSUME TornAssumption  == Torn \notin Documents /\ Documents # {}
ASSUME NoneAssumption  == None \notin Documents \cup {Torn}
ASSUME LevelAssumption == "logLevel" \in Mandatory

VARIABLES
    file,     \* what the file holds
    saves,
    phase,    \* the process and its watching thread
    events,   \* inotify events of the file's name, not read
    loaded,   \* what the listener has read and not yet passed on
    config,   \* what the application was given last
    stopFlag,
    unseen    \* history: the last save raised no event

vars == <<file, saves, phase, events, loaded, config, stopFlag, unseen>>

-----------------------------------------------------------------------------
(* Loading.                                                                *)

(* Faulty variant for mutation testing: the later section wins.            *)
Override(res, section) ==
    [tag \in DOMAIN res \cup DOMAIN section |->
        IF tag \in DOMAIN section THEN section[tag] ELSE res[tag]]

(* A section fills in what is still missing.                               *)
FillIn(res, section) ==
    [tag \in DOMAIN res \cup DOMAIN section |->
        IF tag \in DOMAIN res THEN res[tag] ELSE section[tag]]

Merge(app, group, system) == FillIn(FillIn(app, group), system)

(* validate() throws when a part is of the wrong type.  It does not ask    *)
(* for the system's section, and flatten() throws without it.              *)
Throws(doc) ==
    doc # Torn /\ (doc.validate = "throws" \/ (doc.validate = "fits" /\ doc.system = None))

Accepted(doc) ==
    /\ doc # Torn /\ doc.validate = "fits" /\ doc.system # None
    /\ Mandatory \subseteq DOMAIN Merge(doc.app, doc.group, doc.system)

(* createConfig of a file that does not throw.  The application's id goes  *)
(* over one the file may have.                                             *)
CreateConfig(doc) ==
    IF Accepted(doc)
    THEN FillIn([appId |-> AppId], Merge(doc.app, doc.group, doc.system))
    ELSE None

Applicable(doc) == Accepted(doc) /\ CreateConfig(doc) \notin Vetoed

(* Loaded again, a document also throws if its log level is not a string:  *)
(* updateLogLevel comes before the listener.                               *)
UpdateThrows(doc) ==
    Throws(doc) \/ (Applicable(doc) /\ CreateConfig(doc)["logLevel"] \in NotStrings)

-----------------------------------------------------------------------------
(* The process.                                                            *)

(* init: without a configuration an empty optional is read, which ends the *)
(* process or passes as a configuration without tags, and init gives up.   *)
Start ==
    /\ phase = "Start"
    /\ config' = IF Throws(file) THEN None ELSE CreateConfig(file)
    /\ phase' \in IF config' # None THEN {"Starting"}
                   ELSE {"Crashed"} \cup (IF Throws(file) THEN {} ELSE {"Refused"})
    /\ UNCHANGED <<file, saves, events, loaded, stopFlag, unseen>>

(* watch_file: events are raised from here on, if inotify has a watch and  *)
(* nobody has called stop().                                               *)
AddWatch ==
    /\ phase = "Starting"
    /\ phase' \in {"Unwatched"} \cup (IF stopFlag THEN {} ELSE {"Watching"})
    /\ UNCHANGED <<file, saves, events, loaded, config, stopFlag, unseen>>

(* The thread reads an event and its listener the file ...                 *)
OnEvent ==
    /\ phase = "Watching"
    /\ loaded = None
    /\ events > 0
    /\ events' = events - 1
    /\ loaded' = file
    /\ UNCHANGED <<file, saves, phase, config, stopFlag, unseen>>

(* ... and gives what it made of it to the application: a file that cannot *)
(* be loaded leaves things as they are, and what is thrown goes through    *)
(* the thread and ends the process.  The flag is looked at between two     *)
(* reads; one read may return several events.                              *)
OnConfigUpdate ==
    /\ loaded # None
    /\ loaded' = None
    /\ IF UpdateThrows(loaded)
       THEN phase' = "Crashed" /\ UNCHANGED config
       ELSE /\ config' = IF Applicable(loaded) THEN CreateConfig(loaded) ELSE config
            /\ phase' \in (IF stopFlag THEN {"Unwatched"} ELSE {}) \cup
                          (IF stopFlag /\ events = 0 THEN {} ELSE {phase})
    /\ UNCHANGED <<file, saves, events, stopFlag, unseen>>

(* stop(): it does not wake the thread that reads.                         *)
Stop ==
    /\ phase \in {"Starting", "Watching", "Unwatched"}
    /\ ~stopFlag
    /\ stopFlag' = TRUE
    /\ UNCHANGED <<file, saves, phase, events, loaded, config, unseen>>

-----------------------------------------------------------------------------
(* The writer.                                                             *)

(* Faulty variant for mutation testing: an event is lost while another is  *)
(* handled.                                                                *)
RaiseWhenIdle == /\ events' = IF phase = "Watching" /\ loaded = None THEN events + 1 ELSE events
                 /\ unseen' = (phase \in {"Starting", "Unwatched"})

Raise == /\ events' = IF phase = "Watching" THEN events + 1 ELSE events
         /\ unseen' = (phase \in {"Starting", "Unwatched"})

BeginSave ==
    /\ saves < MaxSaves
    /\ file' = Torn
    /\ UNCHANGED <<saves, phase, events, loaded, config, stopFlag, unseen>>

(* The file is closed, or another takes its name.                          *)
Save(doc) ==
    /\ saves < MaxSaves
    /\ saves' = saves + 1
    /\ file' = doc
    /\ Raise
    /\ UNCHANGED <<phase, loaded, config, stopFlag>>

SaveTarget(doc) ==
    /\ saves < MaxSaves
    /\ saves' = saves + 1
    /\ file' = doc
    /\ unseen' = TRUE
    /\ UNCHANGED <<phase, events, loaded, config, stopFlag>>

Init ==
    /\ file \in Documents \cup {Torn}
    /\ saves = 0
    /\ phase = "Start"
    /\ events = 0
    /\ loaded = None
    /\ config = None
    /\ stopFlag = FALSE
    /\ unseen = FALSE

Next ==
    \/ Start
    \/ AddWatch
    \/ OnEvent
    \/ OnConfigUpdate
    \/ Stop
    \/ BeginSave
    \/ \E doc \in Documents : Save(doc) \/ SaveTarget(doc)

Spec == Init /\ [][Next]_vars

(* The process starts and its thread runs; nobody has to save or stop.     *)
FairSpec == Spec /\ WF_vars(Start) /\ WF_vars(AddWatch) /\ WF_vars(OnEvent \/ OnConfigUpdate)

-----------------------------------------------------------------------------
(* The application's configuration is one that was complete when loaded:   *)
(* every mandatory tag is there, and every tag has the value of the most   *)
(* specific section that names it, of one document; but for the id, which  *)
(* is the application's own.                                               *)
Specific(doc, tag) ==
    LET sections == <<doc.app, doc.group, doc.system>>
    IN  sections[Min({i \in 1..3 : tag \in DOMAIN sections[i]})][tag]

MostSpecific ==
    config # None =>
        /\ Mandatory \subseteq DOMAIN config
        /\ \E doc \in Documents :
              /\ doc.validate = "fits" /\ doc.system # None
              /\ DOMAIN config = UNION {DOMAIN doc.app, DOMAIN doc.group, DOMAIN doc.system,
                                        {"appId"}}
              /\ config["appId"] = AppId
              /\ \A tag \in DOMAIN config \ {"appId"} : config[tag] = Specific(doc, tag)

(* What was saved last comes to be the configuration, though the file may  *)
(* be torn or saved again while an event is handled: unless the save fell  *)
(* between the first load and the watch, or went past the name, or the     *)
(* application's validator refuses it.                                     *)
LastSaveApplied ==
    \A doc \in Documents : Applicable(doc) =>
        ([](phase # "Crashed") /\ <>[](phase = "Watching" /\ file = doc /\ ~unseen)
            => <>[](config = CreateConfig(doc)))
=============================================================================
