-------------------------- MODULE ConfigLibProofs --------------------------
(* Theorems about ConfigLib, for any documents, any mandatory tags and any *)
(* number of saves.                                                        *)
(*                                                                         *)
(* The first says what an application is given, the second when: it is the *)
(* safety half of LastSaveApplied.  The file is read some time after it    *)
(* was saved, and may be another by then; what makes that harmless is that *)
(* whatever became of it meanwhile has raised an event of its own.         *)
EXTENDS ConfigLib, TLAPS

(* The listener holds what the file was, and only the watching thread has  *)
(* a listener.                                                             *)
Types ==
    /\ file \in Documents \cup {Torn}
    /\ loaded \in Documents \cup {Torn, None}
    /\ events \in Nat
    /\ loaded # None => phase = "Watching"

(* A file that is not the one the listener holds has raised an event.      *)
Overtaken ==
    phase = "Watching" /\ ~unseen /\ file # Torn /\ loaded \notin {None, file} => events > 0

(* The last save is applied, or it is with the listener, or announced.     *)
OnItsWay ==
    phase \in {"Starting", "Watching"} /\ ~unseen /\ Applicable(file) =>
        config = CreateConfig(file) \/ loaded = file \/ events > 0

IInv ==
    /\ Types
    /\ MostSpecific
    /\ Overtaken
    /\ OnItsWay

-----------------------------------------------------------------------------
(* Merging.                                                                *)

(* A merged tag has the value of the first section that names it.          *)
LEMMA MergeTags ==
    ASSUME NEW doc
    PROVE  LET made == Merge(doc.app, doc.group, doc.system)
           IN  /\ DOMAIN made = DOMAIN doc.app \cup DOMAIN doc.group \cup DOMAIN doc.system
               /\ \A tag \in DOMAIN made :
                     made[tag] = IF tag \in DOMAIN doc.app THEN doc.app[tag]
                                 ELSE IF tag \in DOMAIN doc.group THEN doc.group[tag]
                                 ELSE doc.system[tag]
<1> DEFINE both == FillIn(doc.app, doc.group)
           made == FillIn(both, doc.system)
<1>1. DOMAIN both = DOMAIN doc.app \cup DOMAIN doc.group
  BY DEF FillIn
<1>2. \A tag \in DOMAIN both :
          both[tag] = IF tag \in DOMAIN doc.app THEN doc.app[tag] ELSE doc.group[tag]
  BY DEF FillIn
<1>3. DOMAIN made = DOMAIN both \cup DOMAIN doc.system
  BY DEF FillIn
<1>4. \A tag \in DOMAIN made :
          made[tag] = IF tag \in DOMAIN both THEN both[tag] ELSE doc.system[tag]
  BY DEF FillIn
<1>5. Merge(doc.app, doc.group, doc.system) = made
  BY DEF Merge
<1> HIDE DEF both, made
<1> QED
  BY <1>1, <1>2, <1>3, <1>4, <1>5

(* The first of the three places that is in a set.                         *)
LEMMA FirstOfThree ==
    ASSUME NEW S \in SUBSET (1..3), S # {}
    PROVE  Min(S) = IF 1 \in S THEN 1 ELSE IF 2 \in S THEN 2 ELSE 3
<1> DEFINE least == IF 1 \in S THEN 1 ELSE IF 2 \in S THEN 2 ELSE 3
<1>1. least \in S /\ \A y \in S : least =< y
  <2>1. CASE 1 \in S
    BY <2>1
  <2>2. CASE 1 \notin S /\ 2 \in S
    BY <2>2
  <2>3. CASE 1 \notin S /\ 2 \notin S
    <3>1. \A y \in S : y = 3
      BY <2>3
    <3>2. 3 \in S
      BY <3>1
    <3> QED
      BY <2>3, <3>1, <3>2
  <2> QED
    BY <2>1, <2>2, <2>3
<1>2. \A x \in S : (\A y \in S : x =< y) => x = least
  BY <1>1
<1> HIDE DEF least
<1>3. Min(S) \in S /\ \A y \in S : Min(S) =< y
  BY <1>1 DEF Min
<1> QED
  BY <1>2, <1>3 DEF least

(* So merging and the specification's Specific agree.                      *)
LEMMA MergeIsSpecific ==
    ASSUME NEW doc, NEW tag \in DOMAIN doc.app \cup DOMAIN doc.group \cup DOMAIN doc.system
    PROVE  Specific(doc, tag) =
               IF tag \in DOMAIN doc.app THEN doc.app[tag]
               ELSE IF tag \in DOMAIN doc.group THEN doc.group[tag] ELSE doc.system[tag]
<1> DEFINE sections == <<doc.app, doc.group, doc.system>>
           S == {i \in 1..3 : tag \in DOMAIN sections[i]}
<1>1. sections[1] = doc.app /\ sections[2] = doc.group /\ sections[3] = doc.system
  OBVIOUS
<1>2. Specific(doc, tag) = sections[Min(S)][tag]
  BY DEF Specific
<1>3. /\ 1 \in S <=> tag \in DOMAIN doc.app
      /\ 2 \in S <=> tag \in DOMAIN doc.group
      /\ 3 \in S <=> tag \in DOMAIN doc.system
      /\ S \in SUBSET (1..3)
  BY <1>1
<1> HIDE DEF S
<1>4. S # {}
  BY <1>3
<1>5. Min(S) = IF 1 \in S THEN 1 ELSE IF 2 \in S THEN 2 ELSE 3
  BY <1>3, <1>4, FirstOfThree
<1> HIDE DEF sections
<1> QED
  BY <1>1, <1>2, <1>3, <1>5

(* What createConfig makes of an accepted document is as it should be.     *)
LEMMA AcceptedIsComplete ==
    ASSUME NEW doc \in Documents, Accepted(doc)
    PROVE  LET made == CreateConfig(doc)
           IN  /\ Mandatory \subseteq DOMAIN made
               /\ doc.validate = "fits" /\ doc.system # None
               /\ DOMAIN made = UNION {DOMAIN doc.app, DOMAIN doc.group, DOMAIN doc.system,
                                       {"appId"}}
               /\ made["appId"] = AppId
               /\ \A tag \in DOMAIN made \ {"appId"} : made[tag] = Specific(doc, tag)
<1> DEFINE made == Merge(doc.app, doc.group, doc.system)
           given == FillIn([appId |-> AppId], made)
<1>1. CreateConfig(doc) = given
  BY DEF CreateConfig
<1>2. Mandatory \subseteq DOMAIN made /\ doc.validate = "fits" /\ doc.system # None
  BY DEF Accepted
<1>3. DOMAIN made = DOMAIN doc.app \cup DOMAIN doc.group \cup DOMAIN doc.system
  BY MergeTags
<1>4. \A tag \in DOMAIN made :
          made[tag] = IF tag \in DOMAIN doc.app THEN doc.app[tag]
                      ELSE IF tag \in DOMAIN doc.group THEN doc.group[tag] ELSE doc.system[tag]
  BY MergeTags
<1> HIDE DEF made
<1>5. \A tag \in DOMAIN made : made[tag] = Specific(doc, tag)
  BY <1>3, <1>4, MergeIsSpecific
<1>6. /\ DOMAIN given = DOMAIN made \cup {"appId"}
      /\ given["appId"] = AppId
      /\ \A tag \in DOMAIN made \ {"appId"} : given[tag] = made[tag]
  BY DEF FillIn
<1> HIDE DEF given
<1>7. DOMAIN given = UNION {DOMAIN doc.app, DOMAIN doc.group, DOMAIN doc.system, {"appId"}}
  BY <1>3, <1>6
<1> QED
  BY <1>1, <1>2, <1>5, <1>6, <1>7

-----------------------------------------------------------------------------
LEMMA InitEstablishes == Init => IInv
BY NoneAssumption DEF Init, IInv, Types, MostSpecific, Overtaken, OnItsWay

LEMMA TypesStep == Types /\ [Next]_vars => Types'
<1> SUFFICES ASSUME Types, [Next]_vars PROVE Types'
  OBVIOUS
<1>1. CASE Start
  BY <1>1 DEF Start, Types
<1>2. CASE AddWatch
  BY <1>2 DEF AddWatch, Types
<1>3. CASE OnEvent
  BY <1>3 DEF OnEvent, Types
<1>4. CASE OnConfigUpdate
  BY <1>4 DEF OnConfigUpdate, Types
<1>5. CASE Stop
  BY <1>5 DEF Stop, Types
<1>6. CASE BeginSave
  BY <1>6 DEF BeginSave, Types
<1>7. CASE \E doc \in Documents : Save(doc) \/ SaveTarget(doc)
  BY <1>7 DEF Save, Raise, SaveTarget, Types
<1>8. CASE UNCHANGED vars
  BY <1>8 DEF vars, Types
<1> QED
  BY <1>1, <1>2, <1>3, <1>4, <1>5, <1>6, <1>7, <1>8 DEF Next

(* A configuration comes from a document that was accepted: the file's at  *)
(* the start, the listener's afterwards.                                   *)
LEMMA ConfigComes ==
    ASSUME Types, [Next]_vars, config' # None
    PROVE  config' = config \/ \E doc \in Documents : Accepted(doc) /\ config' = CreateConfig(doc)
<1>1. CASE Start
  BY <1>1, NoneAssumption DEF Start, Types, CreateConfig, Accepted
<1>2. CASE OnConfigUpdate
  BY <1>2 DEF OnConfigUpdate, Types, Accepted, Applicable
<1>3. config' = config \/ Start \/ OnConfigUpdate
  BY DEF Next, vars, AddWatch, OnEvent, Stop, BeginSave, Save, SaveTarget
<1> QED
  BY <1>1, <1>2, <1>3

LEMMA SpecificStep == Types /\ MostSpecific /\ [Next]_vars => MostSpecific'
<1> SUFFICES ASSUME Types, MostSpecific, [Next]_vars, config' # None
             PROVE  MostSpecific'
  BY DEF MostSpecific
<1>1. CASE config' = config
  BY <1>1 DEF MostSpecific
<1>2. CASE \E doc \in Documents : Accepted(doc) /\ config' = CreateConfig(doc)
  BY <1>2, AcceptedIsComplete DEF MostSpecific
<1> QED
  BY <1>1, <1>2, ConfigComes

(* What is read later than it was saved is what the last save left, or     *)
(* that save has raised an event.                                          *)
LEMMA OvertakenStep == Types /\ Overtaken /\ [Next]_vars => Overtaken'
<1> SUFFICES ASSUME Types, Overtaken, [Next]_vars PROVE Overtaken'
  OBVIOUS
<1>1. CASE Start
  BY <1>1 DEF Start, Types, Overtaken
<1>2. CASE AddWatch
  BY <1>2 DEF AddWatch, Types, Overtaken
<1>3. CASE OnEvent
  BY <1>3 DEF OnEvent, Overtaken
<1>4. CASE OnConfigUpdate
  BY <1>4 DEF OnConfigUpdate, Overtaken
<1>5. CASE Stop
  BY <1>5 DEF Stop, Overtaken
<1>6. CASE BeginSave
  BY <1>6 DEF BeginSave, Overtaken
<1>7. CASE \E doc \in Documents : Save(doc) \/ SaveTarget(doc)
  BY <1>7 DEF Save, Raise, SaveTarget, Types, Overtaken
<1>8. CASE UNCHANGED vars
  BY <1>8 DEF vars, Overtaken
<1> QED
  BY <1>1, <1>2, <1>3, <1>4, <1>5, <1>6, <1>7, <1>8 DEF Next

LEMMA OnItsWayStep == Types /\ Overtaken /\ OnItsWay /\ [Next]_vars => OnItsWay'
<1> SUFFICES ASSUME Types, Overtaken, OnItsWay, [Next]_vars,
                    phase' \in {"Starting", "Watching"}, ~unseen', Applicable(file)'
             PROVE  config' = CreateConfig(file') \/ loaded' = file' \/ events' > 0
  BY DEF OnItsWay
<1>0. file' # Torn
  BY DEF Applicable, Accepted
<1>1. CASE Start
  <2>1. config' # None /\ file' = file
    BY <1>1 DEF Start
  <2>2. config' = CreateConfig(file)
    BY <1>1, <2>1 DEF Start
  <2> QED
    BY <2>1, <2>2
<1>2. CASE AddWatch \/ Stop
  <2>1. UNCHANGED <<file, loaded, config, events, unseen>> /\ phase \in {"Starting", "Watching"}
    BY <1>2 DEF AddWatch, Stop
  <2>2. Applicable(file)
    BY <2>1 DEF Applicable, Accepted, CreateConfig
  <2> QED
    BY <2>1, <2>2 DEF OnItsWay
<1>3. CASE OnEvent
  BY <1>3 DEF OnEvent
<1>4. CASE OnConfigUpdate
  <2>1. UNCHANGED <<file, events, unseen>> /\ loaded # None /\ phase = "Watching"
    BY <1>4 DEF OnConfigUpdate, Types
  <2>2. Applicable(file)
    BY <2>1 DEF Applicable, Accepted, CreateConfig
  <2>3. CASE loaded = file
    <3>1. ~UpdateThrows(file)
      BY <1>4, <2>1, <2>3 DEF OnConfigUpdate
    <3> QED
      BY <1>4, <2>1, <2>2, <2>3, <3>1 DEF OnConfigUpdate
  <2>4. CASE loaded # file
    BY <1>0, <2>1, <2>4 DEF Overtaken
  <2> QED
    BY <2>3, <2>4
<1>5. CASE BeginSave
  BY <1>0, <1>5 DEF BeginSave
<1>6. CASE \E doc \in Documents : Save(doc) \/ SaveTarget(doc)
  <2>1. Raise /\ phase' = phase
    BY <1>6 DEF Save, SaveTarget
  <2>2. phase = "Watching"
    BY <2>1 DEF Raise
  <2> QED
    BY <2>1, <2>2 DEF Raise, Types
<1>7. CASE UNCHANGED vars
  <2>1. Applicable(file)
    BY <1>7 DEF vars, Applicable, Accepted, CreateConfig
  <2> QED
    BY <1>7, <2>1 DEF vars, OnItsWay
<1> QED
  BY <1>1, <1>2, <1>3, <1>4, <1>5, <1>6, <1>7 DEF Next

LEMMA StepPreserves == IInv /\ [Next]_vars => IInv'
BY TypesStep, SpecificStep, OvertakenStep, OnItsWayStep DEF IInv

-----------------------------------------------------------------------------
(* The inductive invariant holds in every reachable state.                 *)
THEOREM Invariant == Spec => []IInv
<1> QED BY InitEstablishes, StepPreserves, PTL DEF Spec

(* No application is given a configuration that lacks a mandatory tag or   *)
(* has a tag from a section that a more specific one overrides, nor one    *)
(* put together from two files.                                            *)
THEOREM GivenTheMostSpecific == Spec => []MostSpecific
<1>1. IInv => MostSpecific
  BY DEF IInv
<1> QED BY <1>1, Invariant, PTL

(* A watching thread with nothing to do has applied the last save, however *)
(* many fell while it was reading and whatever it read meanwhile: unless   *)
(* that save fell between the first load and the watch or went past the    *)
(* name, or the application's validator refuses it.                        *)
CurrentWhenIdle ==
    /\ phase \in {"Starting", "Watching"}
    /\ events = 0 /\ loaded = None
    /\ ~unseen /\ Applicable(file)
    => config = CreateConfig(file)

THEOREM IdleIsCurrent == Spec => []CurrentWhenIdle
<1>1. IInv => CurrentWhenIdle
  BY NoneAssumption DEF IInv, Types, OnItsWay, CurrentWhenIdle
<1> QED BY <1>1, Invariant, PTL
=============================================================================
