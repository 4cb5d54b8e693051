------------------------ MODULE MonitorSessionProofs ------------------------
(* Proofs about MonitorSession: the record writer and the Lua state are    *)
(* used only when they are there, for any number of threads and scripts.   *)
EXTENDS MonitorSession, TLAPS

(* Between visits both streams of an image are closed or were never        *)
(* opened.                                                                 *)
StreamsShut(i) == i.file # "open" /\ i.gzfile # "open"

(* What a thread needs not to crash on its next step.                      *)
Sound(t) ==
  /\ visit[t].pc # "crashed"
  /\ image[t].up => image[t].runtime
  /\ visit[t].pc \in {"got", "main"} => image[t].up

Regular(o) == o \cap {"flag_changed", "log_unopened", "no_runtime"} = {}

IInv ==
  /\ TypeOK
  /\ "flag_changed" \notin odd => \A t \in Thread : StreamsShut(image[t])
  /\ Regular(odd) => \A t \in Thread : Sound(t)

Image == [up : BOOLEAN, runtime : BOOLEAN, run : LuaState,
          handler : Script \cup {NoScript}, nfields : 0 .. MaxFields,
          mode : Mode \cup {"unset"}, file : Stream, gzfile : Stream]

LEMMA FreshIsImage == Fresh \in Image /\ StreamsShut(Fresh)
  BY SessionAssumption DEF Fresh, Image, LuaState, Stream, StreamsShut

(* lua_run_script changes nothing of the writer, the Lua state or up.      *)
LEMMA RunScriptKeeps ==
  ASSUME NEW i \in Image, NEW k \in LuaState, NEW readable \in BOOLEAN
  PROVE  /\ RunScript(i, k, readable) \in Image
         /\ RunScript(i, k, readable).mode = i.mode
         /\ RunScript(i, k, readable).file = i.file
         /\ RunScript(i, k, readable).gzfile = i.gzfile
         /\ RunScript(i, k, readable).up = i.up
         /\ RunScript(i, k, readable).runtime = i.runtime
<1>1. CASE k = i.run \/ k.mtime = 0 \/ ~readable
  BY <1>1 DEF RunScript, Image
<1>2. CASE k # i.run /\ k.mtime # 0 /\ readable
  <2>1. k.path \in Script
    BY <1>2 DEF LuaState, NoLua
  <2>2. NFields[k.path] \in Nat /\ i.nfields \in 0 .. MaxFields /\ MaxFields \in Nat
    BY <2>1, SessionAssumption DEF Image
  <2>3. CASE FieldsLeft(i, k.path)
    <3>1. i.nfields + NFields[k.path] \in 0 .. MaxFields
      BY <2>2, <2>3 DEF FieldsLeft
    <3>2. CASE k.path \in Silent
      BY <1>2, <2>1, <2>3, <3>1, <3>2 DEF RunScript, Image
    <3>3. CASE k.path \notin Silent
      BY <1>2, <2>1, <2>3, <3>1, <3>3 DEF RunScript, Image
    <3> QED
      BY <3>2, <3>3
  <2>4. CASE ~FieldsLeft(i, k.path)
    <3>1. MaxFields \in 0 .. MaxFields
      BY <2>2
    <3> QED
      BY <1>2, <3>1, <2>4 DEF RunScript, Image
  <2> QED
    BY <2>3, <2>4
<1> QED
  BY <1>1, <1>2

(* new_record_writer and close_record_writer, and what they leave behind   *)
(* when the mode of the writer is the flag of this visit.                  *)
LEMMA WriterKeeps ==
  ASSUME NEW i \in Image, NEW f \in Mode, NEW opened \in {"open", "null"}
  PROVE  LET w == NewWriter(i, f, opened) IN
         /\ w \in Image /\ CloseWriter(w) \in Image
         /\ w.up = i.up /\ w.runtime = i.runtime
         /\ CloseWriter(w).up = i.up /\ CloseWriter(w).runtime = i.runtime
         /\ w.mode = f /\ StreamsShut(i) => StreamsShut(CloseWriter(w))
         /\ w.mode = f /\ (opened = "null" => f = "stop") => Usable(w)
<1> DEFINE w   == NewWriter(i, f, opened)
           new == [i EXCEPT !.mode = IF @ = "unset" THEN f ELSE @]
<1>1. /\ new \in Image /\ new.mode \in Mode
      /\ new.file = i.file /\ new.gzfile = i.gzfile /\ new.up = i.up /\ new.runtime = i.runtime
  BY DEF Image, Mode
<1>2. \E x \in {opened, "null"} :
        \/ f = "start" /\ x = opened /\ w = [new EXCEPT !.file = x]
        \/ f = "stop" /\ x = "null" /\ w = [new EXCEPT !.file = x]
        \/ f = "compress" /\ x = opened /\ w = [new EXCEPT !.gzfile = x]
  BY DEF NewWriter, Mode
<1> HIDE DEF w, new
<1>3. /\ w \in Image /\ w.mode \in Mode /\ w.mode = new.mode /\ w.up = i.up /\ w.runtime = i.runtime
      /\ f = "start" => w.file = opened /\ w.gzfile = i.gzfile
      /\ f = "stop" => w.file = "null" /\ w.gzfile = i.gzfile
      /\ f = "compress" => w.gzfile = opened /\ w.file = i.file
  BY <1>1, <1>2 DEF Image, Stream
<1>4. w.mode = f /\ (opened = "null" => f = "stop") => Usable(w)
  BY <1>3 DEF Usable
<1>5. CASE w.mode = "start"
  <2>1. CloseWriter(w) = [w EXCEPT !.file = "closed"]
    BY <1>5 DEF CloseWriter
  <2>2. /\ CloseWriter(w) \in Image /\ CloseWriter(w).file = "closed" /\ CloseWriter(w).gzfile = w.gzfile
        /\ CloseWriter(w).up = w.up /\ CloseWriter(w).runtime = w.runtime
    BY <1>3, <2>1 DEF Image, Stream
  <2> QED
    BY <1>3, <1>4, <1>5, <2>2 DEF StreamsShut, w
<1>6. CASE w.mode = "stop"
  <2>1. CloseWriter(w) = w
    BY <1>6 DEF CloseWriter
  <2> QED
    BY <1>3, <1>4, <1>6, <2>1 DEF StreamsShut, w
<1>7. CASE w.mode = "compress"
  <2>1. PICK x \in {"null", "closed"} : CloseWriter(w) = [w EXCEPT !.gzfile = x]
    BY <1>3, <1>7 DEF CloseWriter
  <2>2. /\ CloseWriter(w) \in Image /\ CloseWriter(w).file = w.file /\ CloseWriter(w).gzfile # "open"
        /\ CloseWriter(w).up = w.up /\ CloseWriter(w).runtime = w.runtime
    BY <1>3, <2>1 DEF Image, Stream
  <2> QED
    BY <1>3, <1>4, <1>7, <2>2 DEF StreamsShut, w
<1> QED
  BY <1>3, <1>5, <1>6, <1>7 DEF Mode

------------------------------------------------------------------------------
LEMMA Initially == Init => IInv
<1> SUFFICES ASSUME Init PROVE IInv
  OBVIOUS
<1>1. TypeOK
  BY SessionAssumption DEF Init, TypeOK, Fresh, Away, NoLua, LuaState, Mode, Stream, Odd
<1>2. \A t \in Thread : StreamsShut(image[t]) /\ Sound(t)
  BY DEF Init, StreamsShut, Sound, Fresh, Away
<1> QED
  BY <1>1, <1>2 DEF IInv

(* A step of the tool, of an editor or of the kernel leaves the images and *)
(* visits alone.                                                           *)
LEMMA SettingsKeep ==
  ASSUME IInv, UNCHANGED <<image, visit, odd>>, TypeOK'
  PROVE  IInv'
  BY DEF IInv, Sound, Regular, StreamsShut

LEMMA EnterKeeps ==
  ASSUME IInv, NEW t \in Thread, Enter(t)
  PROVE  IInv'
<1>1. odd \subseteq odd' /\ odd' \subseteq odd \cup {"no_runtime"}
  BY DEF Enter
<1>2. visit' = [visit EXCEPT ![t] = [pc |-> "got", lua |-> lua]]
  BY DEF Enter
<1>3. \/ image[t].up /\ image' = image
      \/ \E made \in BOOLEAN :
           /\ image' = [image EXCEPT ![t].up = TRUE, ![t].runtime = made]
           /\ made \/ "no_runtime" \in odd'
  BY DEF Enter
<1>4. TypeOK'
  <2>1. image' \in [Thread -> Image]
    <3>1. image \in [Thread -> Image]
      BY DEF IInv, TypeOK, Image
    <3>2. ASSUME NEW made \in BOOLEAN
          PROVE  [image[t] EXCEPT !.up = TRUE, !.runtime = made] \in Image
      <4>1. image[t] \in Image
        BY <3>1
      <4> QED
        BY <4>1, Zenon DEF Image
    <3>3. CASE image' = image
      BY <3>1, <3>3
    <3>4. ASSUME NEW made \in BOOLEAN,
                 image' = [image EXCEPT ![t] = [image[t] EXCEPT !.up = TRUE, !.runtime = made]]
          PROVE  image' \in [Thread -> Image]
      BY <3>1, <3>2, <3>4
    <3>5. \/ image' = image
          \/ \E made \in BOOLEAN :
               image' = [image EXCEPT ![t] = [image[t] EXCEPT !.up = TRUE, !.runtime = made]]
      BY <1>3, <3>1
    <3> QED
      BY <3>3, <3>4, <3>5
  <2>2. visit' \in [Thread -> [pc : {"away", "got", "main", "crashed"}, lua : LuaState]]
    BY <1>2 DEF IInv, TypeOK
  <2>3. odd' \subseteq Odd
    BY <1>1 DEF IInv, TypeOK, Odd
  <2> QED
    BY <2>1, <2>2, <2>3 DEF IInv, TypeOK, Enter, Image
<1>5. \A u \in Thread : StreamsShut(image[u]) => StreamsShut(image'[u])
  <2>1. image \in [Thread -> Image]
    BY DEF IInv, TypeOK, Image
  <2>2. ASSUME NEW made \in BOOLEAN, NEW u \in Thread,
               image' = [image EXCEPT ![t].up = TRUE, ![t].runtime = made]
        PROVE  image'[u].file = image[u].file /\ image'[u].gzfile = image[u].gzfile
    BY <2>1, <2>2 DEF Image
  <2> QED
    BY <1>3, <2>2 DEF StreamsShut
<1>6. ASSUME Regular(odd'), NEW u \in Thread PROVE Sound(u)'
  <2>1. Regular(odd) /\ "no_runtime" \notin odd'
    BY <1>1, <1>6 DEF Regular
  <2>2. Sound(u)
    BY <2>1 DEF IInv
  <2> QED
    BY <1>2, <1>3, <2>1, <2>2 DEF IInv, TypeOK, Sound
<1> QED
  BY <1>1, <1>4, <1>5, <1>6 DEF IInv

LEMMA RefreshKeeps ==
  ASSUME IInv, NEW t \in Thread, Refresh(t)
  PROVE  IInv'
<1>1. odd \subseteq odd' /\ odd' \subseteq odd \cup {"overtaken"} /\ image' = image
  BY DEF Refresh
<1>2. visit[t].lua \in LuaState
  BY DEF IInv, TypeOK
<1>3. ASSUME visit[t].lua.mtime # 0
      PROVE  [visit[t].lua EXCEPT !.mtime = file[visit[t].lua.path]] \in LuaState
  <2>1. visit[t].lua.path \in Script
    BY <1>2, <1>3 DEF LuaState, NoLua
  <2> QED
    BY <1>2, <1>3, <2>1 DEF IInv, TypeOK, LuaState, NoLua
<1>4. PICK k \in LuaState : visit' = [visit EXCEPT ![t] = [pc |-> "main", lua |-> k]]
  <2>1. visit[t] \in [pc : {"away", "got", "main", "crashed"}, lua : LuaState]
    BY DEF IInv, TypeOK
  <2>2. [visit[t] EXCEPT !.pc = "main"] = [pc |-> "main", lua |-> visit[t].lua]
    BY <2>1
  <2> QED
    BY <1>2, <1>3, <2>2 DEF Refresh
<1>5. lua' \in LuaState
  BY <1>3 DEF Refresh, IInv, TypeOK
<1>6. TypeOK'
  BY <1>1, <1>4, <1>5 DEF Refresh, IInv, TypeOK, Odd
<1>7. ASSUME Regular(odd'), NEW u \in Thread PROVE Sound(u)'
  <2>1. Sound(u) /\ visit[t].pc = "got"
    BY <1>1, <1>7 DEF Regular, IInv, Refresh
  <2> QED
    BY <1>1, <1>4, <2>1 DEF IInv, TypeOK, Sound
<1> QED
  BY <1>1, <1>6, <1>7 DEF IInv, StreamsShut

LEMMA MainKeeps ==
  ASSUME IInv, NEW t \in Thread, NEW readable \in BOOLEAN, NEW opened \in {"open", "null"},
         Main(t, readable, opened)
  PROVE  IInv'
<1> DEFINE i == image[t]
           k == visit[t].lua
           s == RunScript(i, k, readable)
           w == NewWriter(s, flag, opened)
           broken == (RunsCode(i, k, readable) /\ ~i.runtime) \/ ~Usable(w)
<1>1. i \in Image /\ k \in LuaState /\ flag \in Mode
  BY DEF IInv, TypeOK, Image
<1>2. /\ s \in Image /\ s.up = i.up /\ s.runtime = i.runtime
      /\ s.file = i.file /\ s.gzfile = i.gzfile
  BY <1>1, RunScriptKeeps
<1> HIDE DEF s
<1>3. /\ CloseWriter(w) \in Image
      /\ CloseWriter(w).up = i.up /\ CloseWriter(w).runtime = i.runtime
      /\ w.mode = flag /\ StreamsShut(i) => StreamsShut(CloseWriter(w))
      /\ w.mode = flag /\ (opened = "null" => flag = "stop") => Usable(w)
  BY <1>1, <1>2, WriterKeeps DEF StreamsShut
<1>4. /\ visit[t].pc = "main"
      /\ \/ broken /\ visit' = [visit EXCEPT ![t].pc = "crashed"] /\ image' = image
         \/ ~broken /\ visit' = [visit EXCEPT ![t] = Away]
                    /\ image' = [image EXCEPT ![t] = CloseWriter(w)]
  BY DEF Main, s
<1>5. /\ odd \subseteq odd' /\ odd' \subseteq Odd
      /\ w.mode # flag => "flag_changed" \in odd'
      /\ opened = "null" /\ flag # "stop" => "log_unopened" \in odd'
  BY DEF Main, s, IInv, TypeOK, Odd
<1>6. UNCHANGED <<lua, flag, chosen, file, tool, changes, touches>>
  BY DEF Main
<1> HIDE DEF w
<1>7. TypeOK'
  <2>1. image' \in [Thread -> Image]
    BY <1>3, <1>4 DEF IInv, TypeOK, Image
  <2>2. visit' \in [Thread -> [pc : {"away", "got", "main", "crashed"}, lua : LuaState]]
    <3>1. Away \in [pc : {"away", "got", "main", "crashed"}, lua : LuaState]
      BY DEF Away, LuaState
    <3>2. [visit[t] EXCEPT !.pc = "crashed"] \in [pc : {"away", "got", "main", "crashed"}, lua : LuaState]
      BY DEF IInv, TypeOK
    <3>3. \/ visit' = [visit EXCEPT ![t] = [visit[t] EXCEPT !.pc = "crashed"]]
          \/ visit' = [visit EXCEPT ![t] = Away]
      BY <1>4
    <3> QED
      BY <3>1, <3>2, <3>3 DEF IInv, TypeOK
  <2> QED
    BY <1>5, <1>6, <2>1, <2>2 DEF IInv, TypeOK, Image
<1>8. ASSUME "flag_changed" \notin odd', NEW u \in Thread PROVE StreamsShut(image'[u])
  <2>1. StreamsShut(image[u]) /\ StreamsShut(i) /\ w.mode = flag
    BY <1>5, <1>8 DEF IInv
  <2> QED
    BY <1>3, <1>4, <2>1 DEF IInv, TypeOK
<1>9. ASSUME Regular(odd'), NEW u \in Thread PROVE Sound(u)'
  <2>1. Regular(odd) /\ w.mode = flag /\ (opened = "null" => flag = "stop")
    BY <1>5, <1>9 DEF Regular
  <2>2. Sound(u) /\ Sound(t)
    BY <2>1 DEF IInv
  <2>3. ~broken
    BY <1>3, <1>4, <2>1, <2>2 DEF Sound
  <2> QED
    BY <1>3, <1>4, <2>2, <2>3 DEF IInv, TypeOK, Sound, Away
<1> QED
  BY <1>7, <1>8, <1>9 DEF IInv

LEMMA ExecKeeps ==
  ASSUME IInv, NEW t \in Thread, Exec(t)
  PROVE  IInv'
<1>1. image' = [image EXCEPT ![t] = Fresh] /\ UNCHANGED <<visit, odd>> /\ visit[t].pc = "away"
  BY DEF Exec
<1>2. TypeOK'
  BY <1>1, FreshIsImage, SessionAssumption DEF Exec, IInv, TypeOK, Image
<1>3. \A u \in Thread : StreamsShut(image[u]) => StreamsShut(image'[u])
  BY <1>1, FreshIsImage DEF IInv, TypeOK
<1>4. \A u \in Thread : Sound(u) => Sound(u)'
  BY <1>1 DEF Sound, Fresh, IInv, TypeOK
<1> QED
  BY <1>1, <1>2, <1>3, <1>4 DEF IInv, Regular

LEMMA Inductive == IInv /\ [Next]_vars => IInv'
<1> SUFFICES ASSUME IInv, [Next]_vars PROVE IInv'
  OBVIOUS
<1>1. ASSUME NEW s \in Script \cup {NoScript}, ToolStat(s) PROVE IInv'
  <2>1. tool' \subseteq LuaState
    BY <1>1 DEF ToolStat, IInv, TypeOK, LuaState, NoLua
  <2> QED
    BY <1>1, <2>1, SettingsKeep, SessionAssumption DEF ToolStat, IInv, TypeOK
<1>2. CASE ToolSet
  <2>1. lua' \in LuaState /\ chosen' \in Script \cup {NoScript}
    BY <1>2 DEF ToolSet, IInv, TypeOK, LuaState, NoLua
  <2> QED
    BY <1>2, <2>1, SettingsKeep DEF ToolSet, IInv, TypeOK
<1>3. ASSUME NEW f \in Mode, SetRecordFlag(f) PROVE IInv'
  BY <1>3, SettingsKeep, SessionAssumption DEF SetRecordFlag, IInv, TypeOK
<1>4. ASSUME NEW s \in Script, Touch(s) PROVE IInv'
  <2>1. TypeOK'
    BY <1>4, SessionAssumption DEF Touch, IInv, TypeOK
  <2> QED
    BY <1>4, <2>1, SettingsKeep DEF Touch
<1>5. CASE UNCHANGED vars
  BY <1>5, SettingsKeep DEF vars, IInv, TypeOK
<1> QED
  BY <1>1, <1>2, <1>3, <1>4, <1>5, EnterKeeps, RefreshKeeps, ExecKeeps, MainKeeps DEF Next

LEMMA AlwaysIInv == Spec => []IInv
  BY Initially, Inductive, PTL DEF Spec

(* The monitor uses no stream that is not open and runs no script without  *)
(* a Lua state (write_record_writer, close_record_writer, lua_run_code),   *)
(* whatever scripts and modes are set and however many threads there are,  *)
(* while the mode of a monitor is the record flag, its log opens and its   *)
(* Lua state is made.                                                      *)
THEOREM NeverCrashes == Spec => []NoCrash
<1>1. IInv => NoCrash
  BY DEF IInv, NoCrash, Regular, Sound
<1> QED
  BY <1>1, AlwaysIInv, PTL

(* Nor does a visit leave a stream open (new_ and close_record_writer),    *)
(* even where the log could not be opened or a Lua state not be made.      *)
THEOREM StreamsAlwaysShut == Spec => []NoStreamLeft
<1>1. IInv => NoStreamLeft
  BY DEF IInv, NoStreamLeft, StreamsShut
<1> QED
  BY <1>1, AlwaysIInv, PTL
==============================================================================
