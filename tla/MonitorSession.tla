--------------------------- MODULE MonitorSession ---------------------------
(***************************************************************************)
(* What the monitor keeps from one visit to the next: the record writer    *)
(* (record_writer.c), the Lua runtime with the script it loaded            *)
(* (lua_runtime.c, the fields of lua_field.c), and the two settings in the *)
(* kernel module that steer them, the Lua state and the record flag, which *)
(* the control tool sets and every visit reads (startup.c, proc.c).        *)
(*                                                                         *)
(* Every thread has its own image of the monitor, so its static data is    *)
(* its own; the settings and the script files are shared.  A visit is      *)
(* three steps: the Lua state is fetched, it is written back if the file   *)
(* has changed since, and nod_monitor_main runs.                           *)
(***************************************************************************)
EXTENDS Integers

CONSTANTS
  Thread,
  Script,       \* paths of scripts
  Silent,       \* the scripts that define no on_event
  NFields,      \* how many fields a script requests when it is run
  MaxFields,    \* NOD_MAX_FIELDS
  MaxChange,    \* bound: settings made by the control tool, images replaced
  MaxTouch      \* bound: writes to the script files

VARIABLES
  lua,          \* g_lua_state
  flag,         \* g_record_flag
  chosen,       \* the path the control tool set last
  file,         \* the time of the last write of each script
  tool,         \* what the control tool is about to set, between stat and ioctl
  image,        \* the static data of each thread's monitor
  visit,        \* where each thread is in a visit, and what it fetched
  odd,          \* unusual things that happened so far
  changes, touches

vars == <<lua, flag, chosen, file, tool, image, visit, odd, changes, touches>>

NoScript == "none"
NoLua == [path |-> NoScript, mtime |-> 0]
LuaState == [path : Script, mtime : 1 .. MaxTouch + 1] \cup {NoLua}
Mode == {"stop", "start", "compress"}
Stream == {"null", "open", "closed"}
Odd == {"flag_changed", "log_unopened", "no_runtime", "unreadable", "no_handler", "fields_used_up", "overtaken"}

(* The static data as it is in the file: nothing set up, mode -1.          *)
Fresh == [up |-> FALSE, runtime |-> FALSE, run |-> NoLua, handler |-> NoScript, nfields |-> 0,
          mode |-> "unset", file |-> "null", gzfile |-> "null"]

Away == [pc |-> "away", lua |-> NoLua]

------------------------------------------------------------------------------
(* Faulty variants of some operations below, each with a plausible slip;   *)
(* they are no part of the specification.                                  *)
CloseWriterKeepsGz(i) == IF i.mode = "start" THEN [i EXCEPT !.file = "closed"] ELSE i

NewWriterByMode(i, f, opened) ==
  LET new == [i EXCEPT !.mode = f]
  IN  IF f = "compress" /\ i.mode # "compress" THEN [new EXCEPT !.gzfile = opened]
      ELSE IF f = "start" THEN [new EXCEPT !.file = opened] ELSE new

RunScriptUnlessNone(i, k, readable) ==
  IF k = i.run \/ k.mtime = 0 THEN i
  ELSE IF ~readable THEN [i EXCEPT !.run = k]
  ELSE [i EXCEPT !.run = k, !.handler = IF k.path \in Silent THEN @ ELSE k.path]

(* new_record_writer: the mode is kept from the first visit, the stream is *)
(* opened by the flag of this one.                                         *)
NewWriter(i, f, opened) ==
  LET new == [i EXCEPT !.mode = IF @ = "unset" THEN f ELSE @]
  IN  CASE f = "start"    -> [new EXCEPT !.file = opened]
        [] f = "stop"     -> [new EXCEPT !.file = "null"]
        [] f = "compress" -> [new EXCEPT !.gzfile = opened]

(* write_record_writer, close_record_writer: zlib takes a null stream for  *)
(* an error, stdio does not.                                               *)
Usable(i) ==
  /\ i.mode = "start" => i.file = "open"
  /\ i.mode = "compress" => i.gzfile # "closed"

CloseWriter(i) ==
  CASE i.mode = "start"    -> [i EXCEPT !.file = "closed"]
    [] i.mode = "stop"     -> i
    [] i.mode = "compress" -> [i EXCEPT !.gzfile = IF @ = "null" THEN @ ELSE "closed"]

(* lua_request_field while the script is run: the fields of the scripts    *)
(* run before stay requested.                                              *)
FieldsLeft(i, s) == i.nfields + NFields[s] <= MaxFields

(* lua_run_script with the state k that was fetched.  The state counts as  *)
(* run before the file is read; a global on_event stays until another one  *)
(* is defined.                                                             *)
RunScript(i, k, readable) ==
  LET seen == [i EXCEPT !.run = k]
  IN  IF k = i.run THEN i
      ELSE IF k.mtime = 0 \/ ~readable THEN seen
      ELSE IF ~FieldsLeft(i, k.path) THEN [seen EXCEPT !.nfields = MaxFields]
      ELSE [seen EXCEPT !.nfields = @ + NFields[k.path],
                        !.handler = IF k.path \in Silent THEN @ ELSE k.path]

(* Does lua_run_script get as far as lua_run_code?                         *)
RunsCode(i, k, readable) == k # i.run /\ k.mtime # 0 /\ readable

------------------------------------------------------------------------------
Init ==
  /\ lua = NoLua /\ flag = "stop" /\ chosen = NoScript
  /\ file = [s \in Script |-> 1]
  /\ tool = {}
  /\ image = [t \in Thread |-> Fresh] /\ visit = [t \in Thread |-> Away]
  /\ odd = {}
  /\ changes = 0 /\ touches = 0

(* nodrop-ctl start, with a script or without: stat, then SET_LUA_STATE.   *)
ToolStat(s) ==
  /\ tool = {} /\ changes < MaxChange
  /\ tool' = {IF s = NoScript THEN NoLua ELSE [path |-> s, mtime |-> file[s]]}
  /\ changes' = changes + 1
  /\ UNCHANGED <<lua, flag, chosen, file, image, visit, odd, touches>>

ToolSet ==
  /\ \E k \in tool : lua' = k /\ chosen' = k.path
  /\ tool' = {}
  /\ UNCHANGED <<flag, file, image, visit, odd, changes, touches>>

(* nodrop-ctl record.                                                      *)
SetRecordFlag(f) ==
  /\ changes < MaxChange /\ changes' = changes + 1
  /\ f # flag /\ flag' = f
  /\ UNCHANGED <<lua, chosen, file, tool, image, visit, odd, touches>>

(* Somebody edits a script.                                                *)
Touch(s) ==
  /\ touches < MaxTouch /\ touches' = touches + 1
  /\ file' = [file EXCEPT ![s] = touches + 2]
  /\ UNCHANGED <<lua, flag, chosen, tool, image, visit, odd, changes>>

(* A thread enters its monitor: on the first visit nod_monitor_init runs,  *)
(* and luaL_newstate may find no memory.  GET_LUA_STATE.                   *)
Enter(t) ==
  /\ visit[t].pc = "away"
  /\ visit' = [visit EXCEPT ![t] = [pc |-> "got", lua |-> lua]]
  /\ IF image[t].up THEN UNCHANGED <<image, odd>>
     ELSE \E made \in BOOLEAN :
            /\ image' = [image EXCEPT ![t].up = TRUE, ![t].runtime = made]
            /\ odd' = IF made THEN odd ELSE odd \cup {"no_runtime"}
  /\ UNCHANGED <<lua, flag, chosen, file, tool, changes, touches>>

(* stat, and SET_LUA_STATE if the file is newer (or older) than the state  *)
(* that was fetched.  The setting is overtaken if the control tool made    *)
(* another one in between.                                                 *)
Refresh(t) ==
  LET k == visit[t].lua
      now == [k EXCEPT !.mtime = file[k.path]]
  IN  /\ visit[t].pc = "got"
      /\ IF k.mtime # 0 /\ now # k
         THEN /\ lua' = now
              /\ visit' = [visit EXCEPT ![t] = [pc |-> "main", lua |-> now]]
              /\ odd' = IF lua.path # k.path THEN odd \cup {"overtaken"} ELSE odd
         ELSE /\ visit' = [visit EXCEPT ![t].pc = "main"]
              /\ UNCHANGED <<lua, odd>>
      /\ UNCHANGED <<flag, chosen, file, tool, image, changes, touches>>

(* GET_RECORD_FLAG and nod_monitor_main: the script is run if the state is *)
(* another one, the stream opened, the events written, the stream closed.  *)
(* A null Lua state or stream, or a closed stream, kills the process.      *)
Main(t, readable, opened) ==
  LET i == image[t]
      k == visit[t].lua
      s == RunScript(i, k, readable)
      w == NewWriter(s, flag, opened)
  IN  /\ visit[t].pc = "main"
      /\ IF (RunsCode(i, k, readable) /\ ~i.runtime) \/ ~Usable(w)
         THEN visit' = [visit EXCEPT ![t].pc = "crashed"] /\ UNCHANGED image
         ELSE visit' = [visit EXCEPT ![t] = Away] /\ image' = [image EXCEPT ![t] = CloseWriter(w)]
      /\ odd' = odd
           \cup (IF w.mode # flag THEN {"flag_changed"} ELSE {})
           \cup (IF opened = "null" /\ flag # "stop" THEN {"log_unopened"} ELSE {})
           \cup (IF k # i.run /\ k.mtime # 0 /\ ~readable THEN {"unreadable"} ELSE {})
           \cup (IF RunsCode(i, k, readable) /\ k.path \in Silent THEN {"no_handler"} ELSE {})
           \cup (IF RunsCode(i, k, readable) /\ ~FieldsLeft(i, k.path) THEN {"fields_used_up"} ELSE {})
      /\ UNCHANGED <<lua, flag, chosen, file, tool, changes, touches>>

(* execve: the next visit is in a new image.                               *)
Exec(t) ==
  /\ visit[t].pc = "away" /\ image[t].up
  /\ changes < MaxChange /\ changes' = changes + 1
  /\ image' = [image EXCEPT ![t] = Fresh]
  /\ UNCHANGED <<lua, flag, chosen, file, tool, visit, odd, touches>>

Next ==
  \/ \E s \in Script \cup {NoScript} : ToolStat(s)
  \/ ToolSet
  \/ \E f \in Mode : SetRecordFlag(f)
  \/ \E s \in Script : Touch(s)
  \/ \E t \in Thread :
       Enter(t) \/ Refresh(t) \/ Exec(t)
       \/ (\E readable \in BOOLEAN, opened \in {"open", "null"} : Main(t, readable, opened))

Spec == Init /\ [][Next]_vars

(* A thread that is in its monitor goes on: the monitor is code of its own *)
(* thread and waits for nobody.                                            *)
FairSpec ==
  /\ Spec
  /\ \A t \in Thread :
       WF_vars(Refresh(t) \/ (\E readable \in BOOLEAN, opened \in {"open", "null"} : Main(t, readable, opened)))

ASSUME SessionAssumption ==
  /\ Silent \subseteq Script /\ NoScript \notin Script
  /\ NFields \in [Script -> Nat] /\ MaxFields \in Nat
  /\ MaxChange \in Nat /\ MaxTouch \in Nat

------------------------------------------------------------------------------
(* Every part of the state has its type.                                   *)
TypeOK ==
  /\ lua \in LuaState /\ flag \in Mode /\ chosen \in Script \cup {NoScript}
  /\ file \in [Script -> 1 .. MaxTouch + 1] /\ tool \subseteq LuaState
  /\ image \in [Thread -> [up : BOOLEAN, runtime : BOOLEAN, run : LuaState,
                           handler : Script \cup {NoScript}, nfields : 0 .. MaxFields,
                           mode : Mode \cup {"unset"}, file : Stream, gzfile : Stream]]
  /\ visit \in [Thread -> [pc : {"away", "got", "main", "crashed"}, lua : LuaState]]
  /\ odd \subseteq Odd
  /\ changes \in 0 .. MaxChange /\ touches \in 0 .. MaxTouch

(* The monitor never writes to or closes a stream that is not open, nor    *)
(* runs a script in a Lua state it does not have (write_record_writer,     *)
(* close_record_writer, lua_run_code), as long as the record flag is not   *)
(* changed, the log can be opened and the Lua state was made.              *)
NoCrash ==
  odd \cap {"flag_changed", "log_unopened", "no_runtime"} = {} =>
    \A t \in Thread : visit[t].pc # "crashed"

(* Whatever scripts are loaded and however visits of threads fall between  *)
(* the settings, a visit leaves no stream open behind it (new_ and         *)
(* close_record_writer), as long as the record flag is not changed.        *)
NoStreamLeft ==
  "flag_changed" \notin odd =>
    \A t \in Thread : visit[t].pc = "away" => image[t].file # "open" /\ image[t].gzfile # "open"

(* Once the settings and the files rest, a thread that keeps visiting its  *)
(* monitor runs the script that was chosen last, and its on_event and no   *)
(* other (the check of lua_run_script, the write back of nod_start_main),  *)
(* unless a script could not be read or run, defines no on_event, or a     *)
(* choice was overtaken by a write back.                                   *)
SettlesOnChosen ==
  \A t \in Thread :
    []<>(visit[t].pc = "got") =>
      <>[](odd \cap {"unreadable", "no_handler", "fields_used_up", "overtaken"} = {} =>
             /\ image[t].run.path = chosen
             /\ chosen # NoScript => image[t].handler = chosen)

(* `Start: <path>' (nodrop-ctl.c): the script that the control tool        *)
(* reported is the one that is set until it reports another.               *)
ChoiceStands == lua.path = chosen
==============================================================================
