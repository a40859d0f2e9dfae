--------------------------- MODULE SettingsProofs ---------------------------
(***************************************************************************)
(* The parameters over any number of starts, kills and edits, for any set  *)
(* of parameters, values and workers.                                      *)
(***************************************************************************)
EXTENDS Settings, TLAPS

-----------------------------------------------------------------------------
(* set_value and the JSON object that main saves.                           *)

\* set_value hands back values of the parameters' types, whatever it is given.
LEMMA SetValueType ==
    ASSUME NEW p \in [Registered -> Values], NEW k \in Registered, NEW v
    PROVE  SetValue(p, k, v) \in [Registered -> Values]
  BY RegisteredAssumption DEF SetValue, Accepts

\* It changes the one parameter, and only to a value that it admits.
LEMMA SetValueEffect ==
    ASSUME NEW p \in [Registered -> Values], NEW k \in Registered, NEW v
    PROVE  /\ \A i \in Registered \ {k} : SetValue(p, k, v)[i] = p[i]
           /\ SetValue(p, k, v)[k] = IF Accepts(k, v) THEN v ELSE p[k]
  BY DEF SetValue

LEMMA DefaultsType ==
    ASSUME NEW c \in [Configured -> Values]
    PROVE  Defaults(c) \in [Registered -> Values]
  BY KeysAssumption, RegisteredAssumption DEF Defaults

\* A file that main has written loads without an exception.
LEMMA SavedLoads ==
    ASSUME NEW p, NEW k \in Registered
    PROVE  /\ DOMAIN ToJson(p) = Registered
           /\ ToJson(p)[k].val = p[k]
           /\ ~Throws(k, ToJson(p)[k])
  BY DEF ToJson, Throws

-----------------------------------------------------------------------------
(* The inductive invariant.                                                 *)

Jobs == [pc : {"idle", "set"}, key : Keys \cup {0}, val : Values \cup {0}]

SettingsType ==
    /\ main \in MainStates
    /\ config \in [Configured -> Values]
    /\ params \in [Registered -> Values]
    /\ worker \in [Workers -> Jobs]
    /\ \A w \in Workers : worker[w].pc = "set" => worker[w].key \in Registered

\* The workers have been joined before main saves, and there are none before
\* it serves.
Joined == main.pc # "serve" => Quiescent

\* What is about to be written is what is in force.
ImageTaken == main.pc \in {"open", "write"} => image = ToJson(params)

\* The file holds the settings of the last clean stop.
FileKept ==
    saved # NothingSaved /\ ~excused /\ main.pc # "write" =>
        file = Complete(ToJson(saved))

\* What load_camera_setting makes of a parameter in the end.
Target(k) ==
    IF /\ k \in DOMAIN file.members /\ Reached(k) /\ Accepts(k, file.members[k].val)
    THEN file.members[k].val
    ELSE Defaults(config)[k]

\* The load is right about the members it has visited, and has met no fault
\* while there are members left.
LoadRight ==
    main.pc \in {"load", "serve"} =>
        /\ pending \subseteq DOMAIN file.members
        /\ main.pc = "serve" => pending = {}
        /\ pending # {} => \A i \in (DOMAIN file.members \cap Registered) \ pending :
                               ~Throws(i, file.members[i])
        /\ \A k \in Registered \ changed :
              params[k] = IF k \in pending THEN Defaults(config)[k] ELSE Target(k)

SettingsIInv ==
    SettingsType /\ ValuesLegal /\ Joined /\ ImageTaken /\ FileKept
        /\ AnsweredIsSaved /\ LoadRight

LEMMA SettingsInitIInv ==
    ASSUME SettingsInit
    PROVE  SettingsIInv
<1>1. SettingsType
  BY DefaultsType DEF SettingsInit, SettingsType, MainStates, Jobs, Idle
<1>2. ValuesLegal
  BY DefaultsType DEF SettingsInit, ValuesLegal
<1>3. Joined /\ ImageTaken /\ FileKept /\ AnsweredIsSaved /\ LoadRight
  BY DEF SettingsInit, Joined, Quiescent, Idle, ImageTaken, FileKept,
         AnsweredIsSaved, LoadRight
<1> QED
  BY <1>1, <1>2, <1>3 DEF SettingsIInv

-----------------------------------------------------------------------------
(* Types and values.                                                        *)

\* Where main may go.
LEMMA MainMoves ==
    ASSUME main \in MainStates
    PROVE  \A pc \in {"down", "load", "serve", "save", "open", "write"} :
              At(pc) \in MainStates /\ At(pc).pc = pc /\ At(pc).ended = main.ended
  BY DEF MainStates, At

\* The end of the process leaves idle workers and nothing of its memory.
LEMMA EndsType ==
    ASSUME NEW how \in {"failed", "exception", "clean", "killed"}, Ends(how)
    PROVE  /\ main' \in MainStates /\ main'.pc = "down" /\ main'.ended = how
           /\ worker' \in [Workers -> Jobs]
           /\ \A w \in Workers : worker'[w].pc = "idle"
  BY DEF Ends, MainStates, Jobs, Idle

LEMMA SettingsTypeStep ==
    ASSUME SettingsIInv, SettingsNext
    PROVE  SettingsType' /\ ValuesLegal'
<1>1. /\ main \in MainStates /\ config \in [Configured -> Values]
      /\ params \in [Registered -> Values] /\ worker \in [Workers -> Jobs]
      /\ \A w \in Workers : worker[w].pc = "set" => worker[w].key \in Registered
      /\ \A k \in Registered : params[k] \in Legal[k] \/ params[k] = Defaults(config)[k]
  BY DEF SettingsIInv, SettingsType, ValuesLegal
<1>2. ASSUME UNCHANGED <<config, params>>,
             main' \in MainStates, worker' \in [Workers -> Jobs],
             \A w \in Workers : worker'[w].pc = "set" => worker'[w].key \in Registered
      PROVE  SettingsType' /\ ValuesLegal'
  BY <1>1, <1>2 DEF SettingsType, ValuesLegal, Defaults
<1>3. ASSUME NEW k \in Registered, NEW v, params' = SetValue(params, k, v),
             UNCHANGED <<main, config>>, worker' \in [Workers -> Jobs],
             \A w \in Workers : worker'[w].pc = "set" => worker'[w].key \in Registered
      PROVE  SettingsType' /\ ValuesLegal'
  <2>1. params' \in [Registered -> Values]
    BY <1>1, <1>3, SetValueType
  <2>2. \A i \in Registered : params'[i] \in Legal[i] \/ params'[i] = Defaults(config)[i]
    <3>1. SUFFICES ASSUME NEW i \in Registered
                   PROVE  params'[i] \in Legal[i] \/ params'[i] = Defaults(config)[i]
      OBVIOUS
    <3>2. CASE i = k
      <4>1. params'[k] = IF Accepts(k, v) THEN v ELSE params[k]
        BY <1>1, <1>3, SetValueEffect
      <4> QED
        BY <1>1, <3>2, <4>1 DEF Accepts
    <3>3. CASE i # k
      <4>1. params'[i] = params[i]
        BY <1>1, <1>3, <3>3, SetValueEffect
      <4> QED
        BY <1>1, <4>1
    <3> QED
      BY <3>2, <3>3
  <2> QED
    BY <1>1, <1>3, <2>1, <2>2 DEF SettingsType, ValuesLegal, Defaults
<1>4. CASE EditFile
  BY <1>1, <1>2, <1>4 DEF EditFile
<1>5. CASE Start
  <2>1. main' \in MainStates /\ config' \in [Configured -> Values]
        /\ params' = Defaults(config') /\ UNCHANGED worker
    BY <1>1, <1>5, MainMoves DEF Start
  <2>2. params' \in [Registered -> Values]
    BY <2>1, DefaultsType
  <2>3. Defaults(config)' = Defaults(config')
    BY DEF Defaults
  <2> QED
    BY <1>1, <2>1, <2>2, <2>3 DEF SettingsType, ValuesLegal
<1>6. ASSUME NEW k \in pending, LoadMember(k) \/ LoadThrows(k)
      PROVE  SettingsType' /\ ValuesLegal'
  <2>1. CASE k \in Registered /\ LoadMember(k)
    BY <1>1, <1>3, <2>1 DEF LoadMember
  <2>2. CASE ~(k \in Registered /\ LoadMember(k))
    <3>1. UNCHANGED <<main, config, params, worker>>
      BY <1>6, <2>2 DEF LoadMember, LoadThrows
    <3> QED
      BY <1>1, <1>2, <3>1
  <2> QED
    BY <2>1, <2>2
<1>7. ASSUME LoadEnds \/ StopServer \/ SaveBuilds \/ SaveOpens
      PROVE  SettingsType' /\ ValuesLegal'
  <2>1. main' \in MainStates
    BY <1>1, <1>7, MainMoves DEF LoadEnds, StopServer, SaveBuilds, SaveOpens
  <2>2. UNCHANGED <<config, params, worker>>
    BY <1>7 DEF LoadEnds, StopServer, SaveBuilds, SaveOpens
  <2> QED
    BY <1>1, <1>2, <2>1, <2>2
<1>8. ASSUME NEW w \in Workers, NEW k \in Keys, NEW j \in Json, SetBegins(w, k, j)
      PROVE  SettingsType' /\ ValuesLegal'
  <2> DEFINE job == [pc |-> "set", key |-> k, val |-> j.val]
  <2>1. job \in Jobs /\ job.key \in Registered
    BY <1>8 DEF Jobs, Json, SetBegins
  <2>2. worker' = [worker EXCEPT ![w] = job] /\ UNCHANGED <<main, config, params>>
    BY <1>8 DEF SetBegins
  <2> HIDE DEF job
  <2>3. /\ worker' \in [Workers -> Jobs]
        /\ \A x \in Workers : worker'[x] = IF x = w THEN job ELSE worker[x]
    BY <1>1, <2>1, <2>2
  <2> QED
    BY <1>1, <1>2, <2>1, <2>2, <2>3
<1>9. ASSUME NEW w \in Workers, SetApplies(w)
      PROVE  SettingsType' /\ ValuesLegal'
  <2>1. /\ worker' = [worker EXCEPT ![w] = Idle] /\ Idle \in Jobs /\ Idle.pc = "idle"
        /\ params' = SetValue(params, worker[w].key, worker[w].val)
        /\ worker[w].key \in Registered
        /\ UNCHANGED <<main, config>>
    BY <1>1, <1>9 DEF SetApplies, Idle, Jobs
  <2>2. /\ worker' \in [Workers -> Jobs]
        /\ \A x \in Workers : worker'[x] = IF x = w THEN Idle ELSE worker[x]
    BY <1>1, <2>1
  <2>3. \A x \in Workers : worker'[x].pc = "set" => worker'[x].key \in Registered
    BY <1>1, <2>1, <2>2
  <2> QED
    BY <1>1, <1>3, <2>1, <2>2, <2>3
<1>10. ASSUME NEW how \in {"failed", "exception", "clean", "killed"}, Ends(how),
              UNCHANGED <<config, params>>
       PROVE  SettingsType' /\ ValuesLegal'
  BY <1>1, <1>2, <1>10, EndsType
<1>11. CASE StartFails \/ SaveWrites \/ SaveFails \/ Killed
  BY <1>10, <1>11 DEF StartFails, SaveWrites, SaveFails, Killed
<1>12. ASSUME NEW w \in Workers, NEW k \in Keys, NEW j \in Json, SetThrows(w, k, j)
       PROVE  SettingsType' /\ ValuesLegal'
  BY <1>10, <1>12 DEF SetThrows
<1>13. ASSUME NEW w \in Workers, FieldThrows(w)
       PROVE  SettingsType' /\ ValuesLegal'
  BY <1>10, <1>13 DEF FieldThrows
<1> QED
  BY <1>4, <1>5, <1>6, <1>7, <1>8, <1>9, <1>11, <1>12, <1>13
     DEF SettingsNext, LoadStep, SetStep, SaveStep

-----------------------------------------------------------------------------
(* The file.                                                                *)

\* Workers run commands while main serves, and only then.
LEMMA JoinedStep ==
    ASSUME SettingsIInv, SettingsNext
    PROVE  Joined' /\ ImageTaken'
<1>1. /\ main \in MainStates /\ worker \in [Workers -> Jobs]
      /\ main.pc # "serve" => \A w \in Workers : worker[w].pc = "idle"
      /\ main.pc \in {"open", "write"} => image = ToJson(params)
  BY DEF SettingsIInv, SettingsType, Joined, Quiescent, ImageTaken
<1>2. CASE EditFile \/ (\E k \in pending : LoadMember(k) \/ LoadThrows(k))
  <2>1. UNCHANGED <<main, worker>> /\ main.pc \in {"down", "load"}
    BY <1>2 DEF EditFile, LoadMember, LoadThrows
  <2> QED
    BY <1>1, <2>1 DEF Joined, Quiescent, ImageTaken
<1>3. CASE Start \/ LoadEnds \/ StopServer
  <2>1. /\ main'.pc \in {"load", "serve", "save"} /\ UNCHANGED worker
        /\ \A w \in Workers : worker[w].pc = "idle"
    BY <1>1, <1>3, MainMoves DEF Start, LoadEnds, StopServer, Quiescent
  <2> QED
    BY <2>1 DEF Joined, Quiescent, ImageTaken
<1>4. CASE SaveBuilds \/ SaveOpens
  <2>1. /\ main'.pc \in {"open", "write"} /\ UNCHANGED <<worker, params>>
        /\ image' = ToJson(params)
        /\ \A w \in Workers : worker[w].pc = "idle"
    BY <1>1, <1>4, MainMoves DEF SaveBuilds, SaveOpens
  <2>2. image' = ToJson(params)'
    BY <2>1 DEF ToJson
  <2> QED
    BY <2>1, <2>2 DEF Joined, Quiescent, ImageTaken
<1>5. ASSUME NEW w \in Workers, NEW k \in Keys, NEW j \in Json,
             SetBegins(w, k, j) \/ SetApplies(w)
      PROVE  Joined' /\ ImageTaken'
  <2>1. UNCHANGED main /\ main.pc = "serve"
    BY <1>1, <1>5 DEF SetBegins, SetApplies
  <2> QED
    BY <2>1 DEF Joined, ImageTaken
<1>6. ASSUME NEW how \in {"failed", "exception", "clean", "killed"}, Ends(how)
      PROVE  Joined' /\ ImageTaken'
  BY <1>6, EndsType DEF Joined, Quiescent, ImageTaken
<1>7. CASE StartFails \/ SaveWrites \/ SaveFails \/ Killed
  BY <1>6, <1>7 DEF StartFails, SaveWrites, SaveFails, Killed
<1>8. ASSUME NEW w \in Workers, NEW k \in Keys, NEW j \in Json, SetThrows(w, k, j)
      PROVE  Joined' /\ ImageTaken'
  BY <1>6, <1>8 DEF SetThrows
<1>9. ASSUME NEW w \in Workers, SetStep(w)
      PROVE  Joined' /\ ImageTaken'
  <2>1. CASE SetApplies(w)
    <3>1. UNCHANGED main /\ main.pc = "serve"
      BY <1>1, <2>1 DEF SetApplies
    <3> QED
      BY <3>1 DEF Joined, ImageTaken
  <2>2. CASE FieldThrows(w)
    BY <1>6, <2>2 DEF FieldThrows
  <2> QED
    BY <1>5, <1>8, <1>9, <2>1, <2>2 DEF SetStep
<1> QED
  BY <1>2, <1>3, <1>4, <1>7, <1>9 DEF SettingsNext, LoadStep, SaveStep

\* The file is written by a clean stop, and with the settings in force.
LEMMA FileStep ==
    ASSUME SettingsIInv, SettingsNext
    PROVE  FileKept' /\ AnsweredIsSaved'
<1>1. /\ main \in MainStates
      /\ main.pc \in {"open", "write"} => image = ToJson(params)
      /\ main.pc # "serve" => \A w \in Workers : worker[w].pc = "idle"
      /\ saved # NothingSaved /\ ~excused /\ main.pc # "write" =>
            file = Complete(ToJson(saved))
  BY DEF SettingsIInv, SettingsType, Joined, Quiescent, ImageTaken, FileKept
<1>2. CASE EditFile \/ SaveFails
  BY <1>2 DEF EditFile, SaveFails, FileKept, AnsweredIsSaved
<1>3. CASE SaveWrites
  <2>1. /\ file' = Complete(ToJson(params)) /\ saved' = params
        /\ UNCHANGED params
    BY <1>1, <1>3 DEF SaveWrites
  <2> QED
    BY <2>1 DEF FileKept, AnsweredIsSaved, Complete, ToJson
<1>4. CASE SaveOpens
  BY <1>1, <1>4, MainMoves DEF SaveOpens, FileKept, AnsweredIsSaved
<1>5. CASE \/ UNCHANGED <<saved, excused, file>> /\ main'.pc # "down"
           \/ UNCHANGED <<saved, file>> /\ main'.pc = "down" /\ main'.ended # "clean"
              /\ (excused' <=> excused \/ main.pc = "write")
  <2> SUFFICES main.pc = "write" => (main'.pc = "write" \/ excused')
    BY <1>1, <1>5 DEF FileKept, AnsweredIsSaved, Complete, ToJson
  <2>1. CASE main.pc = "write"
    <3>1. \A w \in Workers : ~SetStep(w)
      BY <1>1, <2>1 DEF SetStep, SetBegins, SetThrows, FieldThrows, SetApplies
    <3>2. ~(Start \/ EditFile \/ LoadStep \/ StopServer \/ SaveBuilds \/ SaveOpens)
      BY <2>1 DEF Start, EditFile, LoadStep, LoadMember, LoadThrows, LoadEnds,
                  StartFails, StopServer, SaveBuilds, SaveOpens
    <3>3. Killed \/ SaveWrites \/ SaveFails
      BY <3>1, <3>2 DEF SettingsNext, SaveStep
    <3>4. main'.pc = "down"
      BY <3>3, EndsType DEF Killed, SaveWrites, SaveFails
    <3> QED
      BY <1>5, <2>1, <3>4
  <2> QED
    BY <2>1
<1>6. CASE Start \/ LoadEnds \/ StopServer \/ SaveBuilds
  BY <1>1, <1>5, <1>6, MainMoves DEF Start, LoadEnds, StopServer, SaveBuilds
<1>7. CASE \E k \in pending : LoadMember(k) \/ LoadThrows(k)
  BY <1>5, <1>7 DEF LoadMember, LoadThrows
<1>8. ASSUME NEW w \in Workers, SetStep(w)
      PROVE  FileKept' /\ AnsweredIsSaved'
  <2>1. main.pc = "serve"
    BY <1>1, <1>8 DEF SetStep, SetBegins, SetThrows, FieldThrows, SetApplies
  <2>2. ASSUME NEW k \in Keys, NEW j \in Json, SetThrows(w, k, j)
        PROVE  FileKept' /\ AnsweredIsSaved'
    <3>1. Ends("exception") /\ UNCHANGED <<saved, excused, file>>
      BY <2>2 DEF SetThrows
    <3>2. main'.pc = "down" /\ main'.ended = "exception"
      BY <3>1, EndsType
    <3> QED
      BY <1>5, <2>1, <3>1, <3>2
  <2>3. ASSUME NEW k \in Keys, NEW j \in Json, SetBegins(w, k, j)
        PROVE  FileKept' /\ AnsweredIsSaved'
    BY <1>5, <2>1, <2>3 DEF SetBegins
  <2>4. CASE SetApplies(w)
    BY <1>5, <2>1, <2>4 DEF SetApplies
  <2>5. CASE FieldThrows(w)
    <3>1. Ends("exception") /\ UNCHANGED <<saved, excused, file>>
      BY <2>5 DEF FieldThrows
    <3>2. main'.pc = "down" /\ main'.ended = "exception"
      BY <3>1, EndsType
    <3> QED
      BY <1>5, <2>1, <3>1, <3>2
  <2> QED
    BY <1>8, <2>2, <2>3, <2>4, <2>5 DEF SetStep
<1>9. CASE StartFails
  <2>1. Ends("failed") /\ UNCHANGED <<saved, excused, file>> /\ main.pc = "load"
    BY <1>9 DEF StartFails
  <2>2. main'.pc = "down" /\ main'.ended = "failed"
    BY <2>1, EndsType
  <2> QED
    BY <1>5, <2>1, <2>2
<1>10. CASE Killed
  <2>1. Ends("killed") /\ UNCHANGED <<saved, file>>
        /\ excused' = (excused \/ main.pc = "write")
    BY <1>10 DEF Killed
  <2>2. main'.pc = "down" /\ main'.ended = "killed"
    BY <2>1, EndsType
  <2> QED
    BY <1>5, <2>1, <2>2
<1> QED
  BY <1>2, <1>3, <1>4, <1>6, <1>7, <1>8, <1>9, <1>10
     DEF SettingsNext, LoadStep, SaveStep

-----------------------------------------------------------------------------
(* The load.                                                                *)

\* While the file, config.json and the members left to visit stay as they are,
\* so does what a parameter is to become.
LEMMA TargetFixed ==
    ASSUME UNCHANGED <<file, config>>
    PROVE  /\ \A k \in Registered : Target(k)' = Target(k)
           /\ Defaults(config)' = Defaults(config)
  BY DEF Target, Reached, Defaults

\* A member that set_value may be asked for has no fault before it, because
\* members are visited by key: its target is its value.
LEMMA LoadMemberRight ==
    ASSUME SettingsIInv, NEW k \in pending, LoadMember(k)
    PROVE  LoadRight'
<1>1. /\ params \in [Registered -> Values]
      /\ main.pc = "load" /\ UNCHANGED <<main, config, file, changed>>
      /\ pending' = pending \ {k}
      /\ pending \subseteq DOMAIN file.members
      /\ \A i \in pending : k <= i
      /\ \A i \in (DOMAIN file.members \cap Registered) \ pending :
            ~Throws(i, file.members[i])
      /\ k \in Registered => ~Throws(k, file.members[k])
      /\ \A i \in Registered \ changed :
            params[i] = IF i \in pending THEN Defaults(config)[i] ELSE Target(i)
  BY DEF SettingsIInv, SettingsType, LoadRight, LoadMember, Visited
<1>2. /\ \A i \in Registered : Target(i)' = Target(i)
      /\ Defaults(config)' = Defaults(config)
  BY <1>1, TargetFixed
<1>3. \A i \in (DOMAIN file.members \cap Registered) \ pending' :
         ~Throws(i, file.members[i])
  BY <1>1
<1>4. ASSUME NEW i \in Registered \ changed
      PROVE  params'[i] = IF i \in pending' THEN Defaults(config)[i] ELSE Target(i)
  <2>1. CASE i # k
    <3>1. params'[i] = params[i]
      <4>1. CASE k \in Registered
        BY <1>1, <2>1, <4>1, SetValueEffect DEF LoadMember
      <4>2. CASE k \notin Registered
        BY <4>2 DEF LoadMember
      <4> QED
        BY <4>1, <4>2
    <3> QED
      BY <1>1, <1>4, <2>1, <3>1
  <2>2. CASE i = k
    <3>1. Reached(k)
      <4>1. ASSUME NEW j \in DOMAIN file.members, j <= k, j \in Registered
            PROVE  ~Throws(j, file.members[j])
        <5>1. k \in Nat /\ j \in Nat
          BY <1>4, <2>2, <4>1, KeysAssumption
        <5>2. CASE j \in pending
          <6>1. j = k
            BY <1>1, <4>1, <5>1, <5>2
          <6> QED
            BY <1>1, <1>4, <2>2, <6>1
        <5>3. CASE j \notin pending
          BY <1>1, <4>1, <5>3
        <5> QED
          BY <5>2, <5>3
      <4> QED
        BY <4>1 DEF Reached
    <3>2. params'[k] = IF Accepts(k, file.members[k].val) THEN file.members[k].val
                                                         ELSE params[k]
      BY <1>1, <1>4, <2>2, SetValueEffect DEF LoadMember
    <3>3. params[k] = Defaults(config)[k] /\ k \in DOMAIN file.members
      BY <1>1, <1>4, <2>2
    <3> QED
      BY <1>1, <2>2, <3>1, <3>2, <3>3 DEF Target
  <2> QED
    BY <2>1, <2>2
<1> QED
  BY <1>1, <1>2, <1>3, <1>4 DEF LoadRight

\* A member that throws keeps the ones behind it from being reached.
LEMMA LoadThrowsRight ==
    ASSUME SettingsIInv, NEW k \in pending, LoadThrows(k)
    PROVE  LoadRight'
<1>1. /\ main.pc = "load" /\ UNCHANGED <<main, config, params, file, changed>>
      /\ pending' = {} /\ k \in Registered
      /\ k \in DOMAIN file.members /\ Throws(k, file.members[k])
      /\ \A i \in pending : k <= i
      /\ \A i \in Registered \ changed :
            params[i] = IF i \in pending THEN Defaults(config)[i] ELSE Target(i)
  BY DEF SettingsIInv, LoadRight, LoadThrows, Visited
<1>2. /\ \A i \in Registered : Target(i)' = Target(i)
      /\ Defaults(config)' = Defaults(config)
  BY <1>1, TargetFixed
<1>3. \A i \in pending : ~Reached(i)
  BY <1>1 DEF Reached
<1>4. \A i \in Registered \ changed : params'[i] = Target(i)
  BY <1>1, <1>3 DEF Target
<1> QED
  BY <1>1, <1>2, <1>4 DEF LoadRight

LEMMA LoadRightStep ==
    ASSUME SettingsIInv, SettingsNext
    PROVE  LoadRight'
<1>1. /\ main \in MainStates /\ params \in [Registered -> Values]
      /\ \A w \in Workers : worker[w].pc = "set" => worker[w].key \in Registered
      /\ main.pc # "serve" => \A w \in Workers : worker[w].pc = "idle"
      /\ LoadRight
  BY DEF SettingsIInv, SettingsType, Joined, Quiescent
<1>2. CASE main'.pc \notin {"load", "serve"}
  BY <1>2 DEF LoadRight
<1>3. CASE Start
  <2>1. /\ main'.pc = "load" /\ pending' = DOMAIN file'.members
        /\ params' = Defaults(config')
    BY <1>1, <1>3, MainMoves DEF Start
  <2>2. Defaults(config)' = Defaults(config')
    BY DEF Defaults
  <2> QED
    BY <2>1, <2>2 DEF LoadRight, Target
<1>4. CASE LoadEnds
  <2>1. /\ main.pc = "load" /\ main'.pc = "serve" /\ pending = {}
        /\ UNCHANGED <<config, params, pending, file, changed>>
    BY <1>1, <1>4, MainMoves DEF LoadEnds
  <2> QED
    BY <1>1, <2>1, TargetFixed DEF LoadRight
<1>5. ASSUME NEW w \in Workers, NEW k \in Keys, NEW j \in Json, SetBegins(w, k, j)
      PROVE  LoadRight'
  <2>1. UNCHANGED <<main, config, params, pending, file, changed>>
    BY <1>5 DEF SetBegins
  <2> QED
    BY <1>1, <2>1, TargetFixed DEF LoadRight
<1>6. ASSUME NEW w \in Workers, SetApplies(w)
      PROVE  LoadRight'
  <2>1. /\ worker[w].key \in Registered /\ main.pc = "serve"
        /\ UNCHANGED <<main, config, pending, file>>
        /\ changed' = changed \cup {worker[w].key}
    BY <1>1, <1>6 DEF SetApplies
  <2>2. \A k \in Registered \ changed' : params'[k] = params[k]
    BY <1>1, <1>6, <2>1, SetValueEffect DEF SetApplies
  <2> QED
    BY <1>1, <2>1, <2>2, TargetFixed DEF LoadRight
<1>7. ASSUME NEW how \in {"failed", "exception", "clean", "killed"}, Ends(how)
      PROVE  LoadRight'
  BY <1>2, <1>7, EndsType
<1>8. CASE StartFails \/ SaveWrites \/ SaveFails \/ Killed
  BY <1>7, <1>8 DEF StartFails, SaveWrites, SaveFails, Killed
<1>9. ASSUME NEW w \in Workers, SetStep(w)
      PROVE  LoadRight'
  <2>1. ASSUME NEW k \in Keys, NEW j \in Json, SetThrows(w, k, j)
        PROVE  LoadRight'
    BY <1>7, <2>1 DEF SetThrows
  <2>2. CASE FieldThrows(w)
    BY <1>7, <2>2 DEF FieldThrows
  <2> QED
    BY <1>5, <1>6, <1>9, <2>1, <2>2 DEF SetStep
<1>10. CASE EditFile \/ StopServer \/ SaveBuilds \/ SaveOpens
  BY <1>1, <1>2, <1>10, MainMoves DEF EditFile, StopServer, SaveBuilds, SaveOpens
<1> QED
  BY <1>3, <1>4, <1>8, <1>9, <1>10, LoadMemberRight, LoadThrowsRight
     DEF SettingsNext, LoadStep, SaveStep

-----------------------------------------------------------------------------
LEMMA AlwaysSettingsIInv == SettingsSpec => []SettingsIInv
<1>1. SettingsInit => SettingsIInv
  BY SettingsInitIInv
<1>2. ASSUME SettingsIInv, [SettingsNext]_settingsVars
      PROVE  SettingsIInv'
  <2>1. CASE SettingsNext
    BY <1>2, <2>1, SettingsTypeStep, JoinedStep, FileStep, LoadRightStep
       DEF SettingsIInv
  <2>2. CASE UNCHANGED settingsVars
    <3>1. SettingsType' /\ ValuesLegal' /\ Joined' /\ ImageTaken'
      BY <1>2, <2>2 DEF settingsVars, SettingsIInv, SettingsType, ValuesLegal,
                        Joined, Quiescent, ImageTaken, Defaults, ToJson
    <3>2. FileKept' /\ AnsweredIsSaved'
      BY <1>2, <2>2 DEF settingsVars, SettingsIInv, FileKept, AnsweredIsSaved,
                        Complete, ToJson
    <3>3. LoadRight'
      BY <1>2, <2>2, TargetFixed DEF settingsVars, SettingsIInv, LoadRight
    <3> QED
      BY <3>1, <3>2, <3>3 DEF SettingsIInv
  <2> QED
    BY <1>2, <2>1, <2>2
<1> QED
  BY <1>1, <1>2, PTL DEF SettingsSpec

\* set_value guards every way into the parameters: the command, the file, and
\* the defaults they are registered with.
THEOREM ValuesStayLegal == SettingsSpec => []ValuesLegal
<1>1. SettingsIInv => ValuesLegal
  BY DEF SettingsIInv
<1> QED
  BY <1>1, AlwaysSettingsIInv, PTL

\* main saves after it has joined the workers, so no command that was answered
\* is missing from the file of a clean stop.
THEOREM AnswersAreSaved == SettingsSpec => []AnsweredIsSaved
<1>1. SettingsIInv => AnsweredIsSaved
  BY DEF SettingsIInv
<1> QED
  BY <1>1, AlwaysSettingsIInv, PTL

\* load_camera_setting applies what set_value admits, up to the first member
\* that throws.
THEOREM LoadsUpToTheFault == SettingsSpec => []LoadedUpToTheFault
<1>1. SettingsIInv => LoadedUpToTheFault
  BY DEF SettingsIInv, LoadRight, LoadedUpToTheFault, Target
<1> QED
  BY <1>1, AlwaysSettingsIInv, PTL

\* The settings of a clean stop come back at every later start: the file holds
\* them all, none of them throws, and a node that does not stop cleanly leaves
\* the file alone.
THEOREM SettingsAreKept == SettingsSpec => []KeptAcrossRestarts
<1>1. ASSUME SettingsIInv, main.pc = "serve", saved # NothingSaved, ~excused,
             NEW k \in Registered \ changed, Accepts(k, saved[k])
      PROVE  params[k] = saved[k]
  <2>1. file.members = ToJson(saved)
    BY <1>1 DEF SettingsIInv, FileKept, Complete
  <2>2. Reached(k)
    BY <2>1, SavedLoads DEF Reached
  <2>3. Target(k) = saved[k]
    BY <1>1, <2>1, <2>2, SavedLoads DEF Target
  <2>4. pending = {} /\ params[k] = Target(k)
    BY <1>1 DEF SettingsIInv, LoadRight
  <2> QED
    BY <2>3, <2>4
<1>2. SettingsIInv => KeptAcrossRestarts
  BY <1>1 DEF KeptAcrossRestarts
<1> QED
  BY <1>2, AlwaysSettingsIInv, PTL
=============================================================================
