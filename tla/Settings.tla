------------------------------ MODULE Settings ------------------------------
(***************************************************************************)
(* The parameters and where they live: ParameterManager                    *)
(* (src/common/Parameter.cpp), the set_parameter command that workers run  *)
(* (src/api/CommandHandler.cpp), and CameraSetting.json, which main.cpp    *)
(* loads when the node starts and rewrites when it stops.                  *)
(*                                                                         *)
(* Memory ends with the process; the file outlives it.  Main goes through  *)
(*     down -> load -> serve -> save -> open -> write -> down              *)
(* and may be killed anywhere on the way.                                  *)
(*                                                                         *)
(* A key stands for its place in the order in which nlohmann::json visits  *)
(* the members of an object.  A value is a number; the options of an Enum  *)
(* parameter are numbered.                                                 *)
(***************************************************************************)
EXTENDS Naturals

CONSTANTS Keys,         \* the keys a CameraSetting.json or a request may hold
          Registered,   \* the keys register_parameters knows
          Integers,     \* the Integer parameters among them; the rest are Enum
          ReadOnly,     \* is_readonly
          Configured,   \* the parameters whose default is read from config.json
          Values,       \* the values of the model
          Workers,      \* threads of the AdminServer pool
          MaxEdits,     \* bound on the edits of the file by hand
          MaxStarts,    \* bound on the starts of the node
          MaxSets       \* bound on the set_parameter commands

CONSTANTS Legal,        \* min and max, or enum_options, of each parameter
          Default       \* default_value of the parameters not in Configured

ASSUME KeysAssumption ==
    /\ Keys \subseteq Nat
    /\ Integers \subseteq Registered /\ Registered \subseteq Keys
    /\ ReadOnly \subseteq Registered /\ Configured \subseteq Registered

ASSUME RegisteredAssumption ==
    /\ Values \subseteq Nat
    /\ Legal \in [Registered -> SUBSET Values]
    /\ Default \in [Registered -> Values]

VARIABLES main,         \* where main is, and how the last process ended
          config,       \* the values config.json gives to the parameters in Configured
          params,       \* ParameterManager::params_, the value of each
          pending,      \* load: the members not visited yet
          image,        \* save: the json object built from pm.all()
          file,         \* CameraSetting.json
          worker,       \* where each worker is in set_parameter
          edits, starts, sets,
          changed,      \* history: the parameters set since the start
          saved,        \* history: the settings in force when a node last stopped cleanly
          excused       \* history: something since then may have lost them

settingsVars == <<main, config, params, pending, image, file, worker, edits,
                  starts, sets, changed, saved, excused>>

\* A member of a JSON object.  A fraction is a number between val and val + 1.
Json == [kind : {"integer", "fraction", "string"}, val : Values]

Absent == [state |-> "absent", members |-> <<>>]
Torn == [state |-> "torn", members |-> <<>>]
Complete(members) == [state |-> "complete", members |-> members]

NothingSaved == <<>>

-----------------------------------------------------------------------------
(* ParameterManager and the conversions its callers make.                   *)

\* get<int64_t> truncates a fraction; it throws for a string, and
\* get<std::string> throws for a number.
Throws(k, j) == (k \in Integers) # (j.kind \in {"integer", "fraction"})

\* The value the callers hand to set_value has the type of the parameter, so
\* same_type holds there.
Accepts(k, v) == k \notin ReadOnly /\ v \in Legal[k]

\* Faulty variant: the range is not looked at.
SetValue_NoRange(p, k, v) == IF k \notin ReadOnly THEN [p EXCEPT ![k] = v] ELSE p

\* set_value: a refused value leaves the parameter as it is.
SetValue(p, k, v) == IF Accepts(k, v) THEN [p EXCEPT ![k] = v] ELSE p

\* register_parameters.
Defaults(c) == [k \in Registered |-> IF k \in Configured THEN c[k] ELSE Default[k]]

\* param_value_to_json of all().
ToJson(p) == [k \in Registered |->
                [kind |-> IF k \in Integers THEN "integer" ELSE "string", val |-> p[k]]]

-----------------------------------------------------------------------------
At(pc) == [main EXCEPT !.pc = pc]

Idle == [pc |-> "idle", key |-> 0, val |-> 0]

Quiescent == \A w \in Workers : worker[w].pc = "idle"

\* The process is gone, with its memory.
Ends(how) ==
    /\ main' = [pc |-> "down", ended |-> how]
    /\ worker' = [w \in Workers |-> Idle]
    /\ pending' = {}
    /\ image' = NothingSaved

SettingsInit ==
    /\ main = [pc |-> "down", ended |-> "never"]
    /\ config \in [Configured -> Values]
    /\ params = Defaults(config)
    /\ pending = {} /\ image = NothingSaved
    /\ file = Absent
    /\ worker = [w \in Workers |-> Idle]
    /\ edits = 0 /\ starts = 0 /\ sets = 0
    /\ changed = {} /\ saved = NothingSaved /\ excused = FALSE

-----------------------------------------------------------------------------
(* Between two processes: config.json may be edited, and so may the file.   *)

EditFile ==
    /\ main.pc = "down" /\ edits < MaxEdits
    /\ \E k \in Keys, j \in Json :
          LET before == file.members
          IN  file' = Complete([i \in DOMAIN before \cup {k} |->
                                   IF i = k THEN j ELSE before[i]])
    /\ edits' = edits + 1
    /\ excused' = TRUE
    /\ UNCHANGED <<main, config, params, pending, image, worker, starts, sets,
                   changed, saved>>

\* register_parameters, then the open of load_camera_setting; a file that is
\* missing or does not parse leaves the defaults.
Start ==
    /\ main.pc = "down" /\ starts < MaxStarts
    /\ starts' = starts + 1
    /\ config' \in [Configured -> Values]
    /\ params' = Defaults(config')
    /\ pending' = DOMAIN file.members
    /\ main' = At("load")
    /\ changed' = {}
    /\ UNCHANGED <<image, file, worker, edits, sets, saved, excused>>

-----------------------------------------------------------------------------
(* load_camera_setting, one member at a time, in the order of the keys.     *)

Visited(k) == k \in pending /\ \A i \in pending : k <= i

\* Faulty variant: a value set_value refuses ends the load.
LoadMember_StopsAtRefusal(k) ==
    /\ main.pc = "load" /\ Visited(k)
    /\ k \in Registered => ~Throws(k, file.members[k])
    /\ params' = IF k \in Registered THEN SetValue(params, k, file.members[k].val)
                                     ELSE params
    /\ pending' = IF k \in Registered /\ ~Accepts(k, file.members[k].val)
                  THEN {} ELSE pending \ {k}
    /\ UNCHANGED <<main, config, image, file, worker, edits, starts, sets,
                   changed, saved, excused>>

\* An unknown key is passed over, and what set_value refuses is ignored.
LoadMember(k) ==
    /\ main.pc = "load" /\ Visited(k)
    /\ k \in Registered => ~Throws(k, file.members[k])
    /\ params' = IF k \in Registered THEN SetValue(params, k, file.members[k].val)
                                     ELSE params
    /\ pending' = pending \ {k}
    /\ UNCHANGED <<main, config, image, file, worker, edits, starts, sets,
                   changed, saved, excused>>

\* Faulty variant: the handler is inside the loop.
LoadThrows_Continues(k) ==
    /\ main.pc = "load" /\ Visited(k)
    /\ k \in Registered /\ Throws(k, file.members[k])
    /\ pending' = pending \ {k}
    /\ UNCHANGED <<main, config, params, image, file, worker, edits, starts,
                   sets, changed, saved, excused>>

\* A member of another type throws out of the loop; the rest is not loaded.
LoadThrows(k) ==
    /\ main.pc = "load" /\ Visited(k)
    /\ k \in Registered /\ Throws(k, file.members[k])
    /\ pending' = {}
    /\ UNCHANGED <<main, config, params, image, file, worker, edits, starts,
                   sets, changed, saved, excused>>

\* The threads start; when one of them cannot, main returns 1 and saves nothing.
LoadEnds ==
    /\ main.pc = "load" /\ pending = {}
    /\ main' = At("serve")
    /\ UNCHANGED <<config, params, pending, image, file, worker, edits, starts,
                   sets, changed, saved, excused>>

StartFails ==
    /\ main.pc = "load" /\ pending = {}
    /\ Ends("failed")
    /\ UNCHANGED <<config, params, file, edits, starts, sets, changed, saved,
                   excused>>

-----------------------------------------------------------------------------
(* set_parameter by worker w; of the other commands what ends the process.  *)

\* An unknown name is answered with InvalidParam.
SetBegins(w, k, j) ==
    /\ main.pc = "serve" /\ worker[w].pc = "idle" /\ sets < MaxSets
    /\ k \in Registered /\ ~Throws(k, j)
    /\ worker' = [worker EXCEPT ![w] = [pc |-> "set", key |-> k, val |-> j.val]]
    /\ sets' = sets + 1
    /\ UNCHANGED <<main, config, params, pending, image, file, edits, starts,
                   changed, saved, excused>>

\* get<>() throws, nothing catches it in a worker, and std::terminate follows.
SetThrows(w, k, j) ==
    /\ main.pc = "serve" /\ worker[w].pc = "idle" /\ sets < MaxSets
    /\ k \in Registered /\ Throws(k, j)
    /\ sets' = sets + 1
    /\ Ends("exception")
    /\ UNCHANGED <<config, params, file, edits, starts, changed, saved, excused>>

\* So does a name or a data_type that is no string, in any command that reads one.
FieldThrows(w) ==
    /\ main.pc = "serve" /\ worker[w].pc = "idle"
    /\ Ends("exception")
    /\ UNCHANGED <<config, params, file, edits, starts, sets, changed, saved, excused>>

SetApplies(w) ==
    /\ worker[w].pc = "set"
    /\ params' = SetValue(params, worker[w].key, worker[w].val)
    /\ changed' = changed \cup {worker[w].key}
    /\ worker' = [worker EXCEPT ![w] = Idle]
    /\ UNCHANGED <<main, config, pending, image, file, edits, starts, sets,
                   saved, excused>>

-----------------------------------------------------------------------------
(* The end of the process.  server.stop() joins the workers, which finish   *)
(* the commands they have, before save_camera_setting looks at the values.  *)

\* Faulty variant: the workers are not joined.
StopServer_Unjoined ==
    /\ main.pc = "serve"
    /\ main' = At("save")
    /\ UNCHANGED <<config, params, pending, image, file, worker, edits, starts,
                   sets, changed, saved, excused>>

StopServer ==
    /\ main.pc = "serve" /\ Quiescent
    /\ main' = At("save")
    /\ UNCHANGED <<config, params, pending, image, file, worker, edits, starts,
                   sets, changed, saved, excused>>

SaveBuilds ==
    /\ main.pc = "save"
    /\ image' = ToJson(params)
    /\ main' = At("open")
    /\ UNCHANGED <<config, params, pending, file, worker, edits, starts, sets,
                   changed, saved, excused>>

\* ofstream truncates the file it opens.
SaveOpens ==
    /\ main.pc = "open"
    /\ file' = Torn
    /\ main' = At("write")
    /\ UNCHANGED <<config, params, pending, image, worker, edits, starts, sets,
                   changed, saved, excused>>

SaveWrites ==
    /\ main.pc = "write"
    /\ file' = Complete(image)
    /\ saved' = params
    /\ excused' = FALSE
    /\ Ends("clean")
    /\ UNCHANGED <<config, params, edits, starts, sets, changed>>

\* The stream reports nothing when it cannot open or write the file.
SaveFails ==
    /\ main.pc \in {"open", "write"}
    /\ excused' = TRUE
    /\ Ends("clean")
    /\ UNCHANGED <<config, params, file, edits, starts, sets, changed, saved>>

\* run.sh kills what has not stopped after ten seconds; the file stays as it is.
Killed ==
    /\ main.pc # "down"
    /\ excused' = (excused \/ main.pc = "write")
    /\ Ends("killed")
    /\ UNCHANGED <<config, params, file, edits, starts, sets, changed, saved>>

-----------------------------------------------------------------------------
LoadStep == (\E k \in pending : LoadMember(k) \/ LoadThrows(k)) \/ LoadEnds \/ StartFails

SetStep(w) ==
    \/ \E k \in Keys, j \in Json : SetBegins(w, k, j) \/ SetThrows(w, k, j)
    \/ FieldThrows(w) \/ SetApplies(w)

SaveStep == StopServer \/ SaveBuilds \/ SaveOpens \/ SaveWrites \/ SaveFails

SettingsNext ==
    \/ EditFile \/ Start
    \/ LoadStep
    \/ \E w \in Workers : SetStep(w)
    \/ SaveStep
    \/ Killed

SettingsSpec == SettingsInit /\ [][SettingsNext]_settingsVars

-----------------------------------------------------------------------------
(* Properties.                                                              *)

MainStates ==
    [pc : {"down", "load", "serve", "save", "open", "write"},
     ended : {"never", "failed", "exception", "clean", "killed"}]

\* Every value is one that set_value admits or the one the parameter was
\* registered with, whatever the file held, whatever was requested and however
\* often the node was stopped or killed.  (config.json may give fps a value up
\* to 240, where register_parameters admits 120.)
ValuesLegal ==
    /\ params \in [Registered -> Values]
    /\ \A k \in Registered : params[k] \in Legal[k] \/ params[k] = Defaults(config)[k]

\* What a clean stop leaves in the file is what the commands that were answered
\* have set: none of them comes between the copy of the values and the end.
AnsweredIsSaved ==
    main.pc = "down" /\ main.ended = "clean" /\ ~excused =>
        file = Complete(ToJson(params))

\* A start after a clean stop restores its settings, also when a node that was
\* started in between was killed or ended by an exception: they are lost only by
\* a kill within the write, a write that fails, or an edit of the file.
KeptAcrossRestarts ==
    main.pc = "serve" /\ saved # NothingSaved /\ ~excused =>
        \A k \in Registered \ changed : Accepts(k, saved[k]) => params[k] = saved[k]

\* A file edited by hand takes effect up to its first member of a wrong type;
\* the parameters behind it have the values they were registered with.
Reached(k) ==
    \A i \in DOMAIN file.members : i <= k /\ i \in Registered => ~Throws(i, file.members[i])

LoadedUpToTheFault ==
    main.pc = "serve" =>
        \A k \in Registered \ changed :
            params[k] = IF /\ k \in DOMAIN file.members /\ Reached(k)
                           /\ Accepts(k, file.members[k].val)
                        THEN file.members[k].val
                        ELSE Defaults(config)[k]
=============================================================================
