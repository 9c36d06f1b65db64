---------------------------- MODULE ConfigReload ----------------------------
(***************************************************************************)
(* How the API server follows its configuration files: the static          *)
(* resources (config.json) and the access control model and policy.  The   *)
(* start of the API server (cmd/main.go, api.New, RunGRPC) reads each of   *)
(* them and then registers it with the file watcher; the watcher's         *)
(* goroutine takes the events of fsnotify one by one and calls back.       *)
(*                                                                         *)
(* config.json is a plain file, edited in place: for a while its content   *)
(* does not parse.  The model and the policy are two files of one          *)
(* ConfigMap volume, replaced together when the kubelet points the         *)
(* volume's link to a new directory; only the model is registered.         *)
(***************************************************************************)
EXTENDS Naturals, Sequences, FiniteSets

CONSTANTS StaticFiles,  \* contents of config.json that parse: records with
                        \* the fields "nodes" and "groups"
          AccessFiles,  \* contents of the volume: records with the fields
                        \* "model" (it parses) and "policy"
          MaxWrites,    \* bound on changes of the files
          NoModel,      \* the enforcer's model and policy after a failed load
          NoPolicy,     \* the policy of a model just loaded: no rule, no link
          Torn,         \* a file or a policy that does not parse
          Absent        \* a field config.json does not have

VARIABLES file,    \* the content of config.json
          dir,     \* the directory the volume's link points to: its name
                   \* (a number) and its content
          events,  \* the events fsnotify has not delivered yet
          files,   \* the watcher's entries: registered file -> real path
          wpc,     \* what the watcher's goroutine does
          event,   \* the event it handles
          todo,    \* the entries it has still to look at for this event
          data,    \* what the callback has read of config.json
          cfg,     \* cfg.StaticResources
          policy,  \* the policy of the enforcer
          auth,    \* authentication is enabled
          boot,    \* how far the start of the API server has come
          missed,  \* files changed after they were read, before they were watched
          writes   \* changes of the files so far

configVars == <<file, dir, events, files, wpc, event, todo, data, cfg, policy,
                auth, boot, missed, writes>>

Fields == {"nodes", "groups"}

ConfigInit ==
    /\ file \in StaticFiles
    /\ \E c \in AccessFiles : dir = [name |-> 0, of |-> c]
    /\ events = << >> /\ files = << >>
    /\ wpc = "wait" /\ event = "none" /\ todo = {} /\ data = Torn
    /\ cfg = [f \in Fields |-> << >>] /\ policy = NoModel
    /\ auth \in BOOLEAN
    /\ boot = "read" /\ missed = {} /\ writes = 0

(* An event reaches the watcher when the directory of the file is watched,
   that is once the file is registered. *)
Notified(f, e) == IF f \in DOMAIN files THEN Append(events, e) ELSE events

Unwatched(f, read) == IF boot \in read THEN missed \cup {f} ELSE missed

-----------------------------------------------------------------------------
(* The files.                                                              *)

(* Editing config.json in place empties it first and then writes it: two
   events on the file itself. *)
Truncate ==
    /\ writes < MaxWrites /\ file # Torn
    /\ writes' = writes + 1
    /\ file' = Torn
    /\ events' = Notified("config", "config")
    /\ UNCHANGED <<dir, files, wpc, event, todo, data, cfg, policy, auth, boot, missed>>

Write ==
    /\ file = Torn
    /\ file' \in StaticFiles
    /\ events' = Notified("config", "config")
    /\ missed' = Unwatched("config", {"new"})
    /\ UNCHANGED <<dir, files, wpc, event, todo, data, cfg, policy, auth, boot, writes>>

(* The kubelet replaces the volume: the event names the link, not a file. *)
SwapVolume ==
    /\ writes < MaxWrites
    /\ writes' = writes + 1
    /\ \E c \in AccessFiles \ {dir.of} : dir' = [name |-> dir.name + 1, of |-> c]
    /\ events' = Notified("model", "link")
    /\ missed' = Unwatched("model", {"watch"})
    /\ UNCHANGED <<file, files, wpc, event, todo, data, cfg, policy, auth, boot>>

-----------------------------------------------------------------------------
(* Decoding and loading.                                                   *)

(* json.Unmarshal into the resources in memory: a content that does not
   parse changes nothing, an absent field keeps its value. *)
Decoded(old, read, f) ==
    IF read = Torn THEN old[f] ELSE IF read[f] = Absent THEN old[f] ELSE read[f]

(* casbin: a model that loads has no policy yet, one that does not leaves
   none; a policy that does not parse leaves the policy as it is. *)
LoadModel == IF dir.of.model THEN NoPolicy ELSE NoModel

LoadPolicy == IF dir.of.policy = Torn THEN policy ELSE dir.of.policy

EvalSymlinks(f) == IF f = "model" THEN dir.name ELSE 0

-----------------------------------------------------------------------------
(* The start of the API server.                                            *)

(* The lock of the watcher is free while it waits and while a callback
   runs. *)
Unlocked == wpc # "loop"

(* FileWatcher.Add.  An entry added while a callback runs may or may not be
   met by the iteration over the entries that goes on after it. *)
Add(f) ==
    /\ Unlocked
    /\ files' = [g \in DOMAIN files \cup {f} |-> IF g = f THEN EvalSymlinks(f) ELSE files[g]]
    /\ todo' \in IF wpc = "wait" THEN {todo} ELSE {todo, todo \cup {f}}

(* main reads and decodes config.json, and ends when it cannot. *)
ReadConfig ==
    /\ boot = "read"
    /\ cfg' = [f \in Fields |-> Decoded(cfg, file, f)]
    /\ boot' = IF file = Torn THEN "exit" ELSE "new"
    /\ UNCHANGED <<file, dir, events, files, wpc, event, todo, data, policy, auth, missed, writes>>

(* api.New registers it. *)
New ==
    /\ boot = "new"
    /\ Add("config")
    /\ boot' = "grpc"
    /\ UNCHANGED <<file, dir, events, wpc, event, data, cfg, policy, auth, missed, writes>>

(* RunGRPC: the enforcer reads the model and the policy; then the model is
   registered and the server listens. *)
NewEnforcer ==
    /\ boot = "grpc"
    /\ policy' = IF auth /\ dir.of.model THEN LoadPolicy ELSE policy
    /\ boot' = IF ~auth THEN "up"
               ELSE IF dir.of.model /\ dir.of.policy # Torn THEN "watch" ELSE "exit"
    /\ UNCHANGED <<file, dir, events, files, wpc, event, todo, data, cfg, auth, missed, writes>>

RunGRPC ==
    /\ boot = "watch"
    /\ Add("model")
    /\ boot' = "up"
    /\ UNCHANGED <<file, dir, events, wpc, event, data, cfg, policy, auth, missed, writes>>

Boot == ReadConfig \/ New \/ NewEnforcer \/ RunGRPC

-----------------------------------------------------------------------------
(* The watcher's goroutine.                                                *)

TakeEvent ==
    /\ wpc = "wait" /\ events # << >>
    /\ event' = Head(events)
    /\ events' = Tail(events)
    /\ todo' = DOMAIN files
    /\ wpc' = "loop"
    /\ UNCHANGED <<file, dir, files, data, cfg, policy, auth, boot, missed, writes>>

(* Faulty variant: only events on the file itself count. *)
TriggersDirect(f) == event = f

(* An event on the file itself, or a link that leads elsewhere than before. *)
Triggers(f) == event = f \/ EvalSymlinks(f) # files[f]

(* The new target is stored only when it is what triggered the callback. *)
Visit(f) ==
    /\ wpc = "loop" /\ f \in todo
    /\ todo' = todo \ {f}
    /\ IF Triggers(f)
       THEN /\ wpc' = f
            /\ files' = [files EXCEPT ![f] = IF event = f THEN @ ELSE EvalSymlinks(f)]
       ELSE UNCHANGED <<wpc, files>>
    /\ UNCHANGED <<file, dir, events, event, data, cfg, policy, auth, boot, missed, writes>>

EndLoop ==
    /\ wpc = "loop" /\ todo = {}
    /\ wpc' = "wait" /\ event' = "none"
    /\ UNCHANGED <<file, dir, events, files, todo, data, cfg, policy, auth, boot, missed, writes>>

(* The callback of config.json: it reads the file, then decodes it over the
   resources in memory, field after field, without the lock the readers
   take. *)
ReadFile ==
    /\ wpc = "config"
    /\ data' = file
    /\ wpc' = "nodes"
    /\ UNCHANGED <<file, dir, events, files, event, todo, cfg, policy, auth, boot, missed, writes>>

Unmarshal ==
    /\ wpc \in Fields
    /\ cfg' = [cfg EXCEPT ![wpc] = Decoded(cfg, data, wpc)]
    /\ wpc' = IF wpc = "nodes" THEN "groups" ELSE "loop"
    /\ data' = IF wpc = "nodes" THEN data ELSE Torn
    /\ UNCHANGED <<file, dir, events, files, event, todo, policy, auth, boot, missed, writes>>

(* The callback of the model: LoadModel, then LoadPolicy unless it failed. *)
ReloadModel ==
    /\ wpc = "model"
    /\ policy' = LoadModel
    /\ wpc' = IF dir.of.model THEN "policy" ELSE "loop"
    /\ UNCHANGED <<file, dir, events, files, event, todo, data, cfg, auth, boot, missed, writes>>

ReloadPolicy ==
    /\ wpc = "policy"
    /\ policy' = LoadPolicy
    /\ wpc' = "loop"
    /\ UNCHANGED <<file, dir, events, files, event, todo, data, cfg, auth, boot, missed, writes>>

Watch ==
    \/ TakeEvent \/ (\E f \in todo : Visit(f)) \/ EndLoop
    \/ ReadFile \/ Unmarshal \/ ReloadModel \/ ReloadPolicy

ConfigNext == Truncate \/ Write \/ SwapVolume \/ Boot \/ Watch

(* The start runs to its end, the watcher's goroutine is scheduled, and an
   edit that has begun is finished. *)
ConfigFairness ==
    WF_configVars(Boot) /\ WF_configVars(Watch) /\ WF_configVars(Write)

-----------------------------------------------------------------------------

ConfigCurrent ==
    file # Torn => \A f \in Fields : file[f] # Absent => cfg[f] = file[f]

AccessCurrent ==
    dir.of.model /\ dir.of.policy # Torn => policy = dir.of.policy

(* Once the files rest, the API server works with what they hold, however
   many changes arrived while an earlier one was being loaded, whether the
   file was half written when it was read, and although the event of a
   volume names neither of its files.  The exception is a file changed
   between its first reading and its registration (main, api.New, RunGRPC). *)
ReloadSettles ==
    <>[](boot = "up" =>
            /\ "config" \in missed \/ ConfigCurrent
            /\ auth => "model" \in missed \/ AccessCurrent)
=============================================================================
