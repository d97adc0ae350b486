---------------------------- MODULE BuildPipeline ----------------------------
(***************************************************************************)
(* Running the build scripts: terminals in which a developer starts        *)
(* scripts, tools that fail at any command, scripts interrupted and run    *)
(* again, and the files they share.  Conversions of a model are numbered;  *)
(* the content of a file is the set of conversions whose configuration (or *)
(* model) went into it, {} if there is no such file.                       *)
(***************************************************************************)
EXTENDS BuildScripts, Naturals, FiniteSets

CONSTANTS Terminal,        \* terminals the developer works in
          Plans,           \* what the developer may set out to do, see Plan
          Stems,           \* models: "model" for model.onnx, other names
          MaxConversions,  \* bound on successful conversions
          CaseSensitive,   \* whether the file system tells macOS from macos
          UserMkdir        \* whether the developer creates libs/ios-arm64

(* The scripts used, in how many places at once, and the bound on failed *)
(* tools and interruptions.                                              *)
Plan == [scripts : SUBSET Script, terminals : SUBSET Terminal, faults : Nat]

ASSUME PipelineConstants ==
  /\ \A p \in Plans : /\ p.scripts \subseteq Script /\ p.terminals \subseteq Terminal
                       /\ p.faults \in Nat
  /\ "model" \in Stems
  /\ MaxConversions \in Nat
  /\ CaseSensitive \in BOOLEAN /\ UserMkdir \in BOOLEAN

VARIABLES plan,     \* what the developer is doing; it does not change
          disk,     \* content of every name
          dirs,     \* names whose parent directory exists
          run,      \* the script running in each terminal
          exit,     \* exit status of each script's last run
          made,     \* number of conversions so far
          budget    \* faults still to come

vars == <<plan, disk, dirs, run, exit, made, budget>>

Version == 1..MaxConversions

BuildId == {"macOS_x86_64", "macOS_arm64", "iOS_Simulator-x86_64", "iOS_Simulator-arm64",
            "iOS-arm64", "MinSizeRel", "Debug", "Linux", "wasm"}
CombId == {"macOS_x86_64", "macOS_arm64", "macos_x86_64", "macos_arm64",
           "iOS_Simulator-x86_64", "iOS_Simulator-arm64"}
Lib == UNION {Delivers(s) : s \in Script}

Name == ({"config", "ort"} \X Stems) \cup ({"tree"} \X BuildId) \cup ({"comb"} \X CombId)
          \cup Lib \cup {<<"header", "model">>, <<"xcf", "onnxruntime">>, <<"tmp", "tmp">>}

(* Names in a directory that a fresh checkout does not have. *)
InDirectory == Lib \cup {<<"header", "model">>}

(* The file a name denotes. *)
Resolve(n) ==
  IF CaseSensitive THEN n
  ELSE CASE n = <<"comb", "macos_x86_64">> -> <<"comb", "macOS_x86_64">>
         [] n = <<"comb", "macos_arm64">> -> <<"comb", "macOS_arm64">>
         [] OTHER -> n

(* stem: the model the script works for, i.e. its argument or its default;  *)
(* building: what the build in progress was configured with; reads: all     *)
(* configurations this run has built with; ok: $? of the last command.      *)
Idle == [script |-> "none", stem |-> "model", pc |-> 0,
         building |-> {}, reads |-> {}, ok |-> TRUE]

Init ==
  /\ plan \in Plans
  /\ disk = [n \in Name |-> {}]
  /\ dirs = {}
  /\ run = [t \in Terminal |-> Idle]
  /\ exit = [s \in Script |-> "never"]
  /\ made = 0
  /\ budget = plan.faults

Running(s) == \E t \in Terminal : run[t].script = s
AtEnd(t) == run[t] # Idle /\ run[t].pc > Len(Program(run[t].script))
Command(t) == Program(run[t].script)[run[t].pc]
AtCommand(t, op) == run[t] # Idle /\ ~AtEnd(t) /\ Command(t).op = op

(* The shell goes on to the next command, or ends the script. *)
Proceed(t, ok) == run' = [run EXCEPT ![t].pc = @ + 1, ![t].ok = ok, ![t].building = {}]
Finish(t, status) ==
  /\ run' = [run EXCEPT ![t] = Idle]
  /\ exit' = [exit EXCEPT ![run[t].script] = status]

-----------------------------------------------------------------------------
(* The developer. *)

(* Scripts that share no file may run side by side; a conversion and the     *)
(* packaging of the framework wait for everything else.  Only three scripts  *)
(* and the conversion take the model's name as an argument.                  *)
Alone == {"convert", "xcframework"}
Launch(t, s, stem) ==
  /\ t \in plan.terminals /\ s \in plan.scripts
  /\ run[t] = Idle /\ ~Running(s)
  /\ \A u \in Terminal : run[u] # Idle => s \notin Alone /\ run[u].script \notin Alone
  /\ s \in {"convert", "mac", "ios", "sim"} \/ stem = "model"
  /\ s = "convert" => made < MaxConversions
  /\ run' = [run EXCEPT ![t] = [Idle EXCEPT !.script = s, !.stem = stem, !.pc = 1]]
  /\ UNCHANGED <<plan, disk, dirs, exit, made, budget>>

MakeIosDirectory ==
  /\ UserMkdir
  /\ <<"lib", "ios-arm64">> \notin dirs
  /\ dirs' = dirs \cup {<<"lib", "ios-arm64">>}
  /\ UNCHANGED <<plan, disk, run, exit, made, budget>>

(* ^C, or the machine going down, at any point of a script. *)
Interrupt(t) ==
  /\ run[t] # Idle /\ budget > 0
  /\ budget' = budget - 1
  /\ Finish(t, "failed")
  /\ UNCHANGED <<plan, disk, dirs, made>>

-----------------------------------------------------------------------------
(* Commands that succeed. *)

(* convert_onnx_models_to_ort: writes <stem>.ort and <stem>'s config. *)
Convert(t) ==
  /\ AtCommand(t, "convert")
  /\ made' = made + 1
  /\ disk' = [disk EXCEPT ![<<"ort", run[t].stem>>] = {made'},
                          ![<<"config", run[t].stem>>] = {made'}]
  /\ Proceed(t, TRUE)
  /\ UNCHANGED <<plan, dirs, exit, budget>>

(* build.py starts: it reads the configuration and rewrites objects in the *)
(* build directory one after the other.                                    *)
BuildStart(t) ==
  LET config == disk[<<"config", run[t].stem>>]
      tree == Command(t).out
  IN /\ AtCommand(t, "build")
     /\ run[t].building = {} /\ config # {}
     /\ disk' = [disk EXCEPT ![tree] = @ \cup config]
     /\ run' = [run EXCEPT ![t].building = config, ![t].reads = @ \cup config]
     /\ UNCHANGED <<plan, dirs, exit, made, budget>>

(* build.py ends with every object up to date. *)
BuildEnd(t) ==
  /\ AtCommand(t, "build")
  /\ run[t].building # {}
  /\ disk' = [disk EXCEPT ![Command(t).out] = run[t].building]
  /\ Proceed(t, TRUE)
  /\ UNCHANGED <<plan, dirs, exit, made, budget>>

CanCombine(c) ==
  /\ \A n \in c.in : disk[Resolve(n)] # {}
  /\ c.out \in InDirectory => c.out \in dirs

(* libtool, lipo, lib.exe, bin2c and xcodebuild -create-xcframework: one output *)
(* made of all inputs, replaced except by xcodebuild, which refuses to.         *)
Combine(t) ==
  LET c == Command(t)
  IN /\ AtCommand(t, "combine") \/ AtCommand(t, "create")
     /\ CanCombine(c)
     /\ c.op = "create" => disk[c.out] = {}
     /\ disk' = [disk EXCEPT ![c.out] = UNION {disk[Resolve(n)] : n \in c.in}]
     /\ Proceed(t, TRUE)
     /\ UNCHANGED <<plan, dirs, exit, made, budget>>

(* mkdir -p; Windows mkdir ("newdir") only if the directory is not there. *)
MakeDirectory(t) ==
  /\ AtCommand(t, "mkdir") \/ AtCommand(t, "newdir")
  /\ Command(t).op = "newdir" => Command(t).out \notin dirs
  /\ dirs' = dirs \cup {Command(t).out}
  /\ Proceed(t, TRUE)
  /\ UNCHANGED <<plan, disk, exit, made, budget>>

(* rm of an intermediate. *)
Remove(t) ==
  LET n == Resolve(Command(t).out)
  IN /\ AtCommand(t, "rm")
     /\ disk[n] # {}
     /\ disk' = [disk EXCEPT ![n] = {}]
     /\ Proceed(t, TRUE)
     /\ UNCHANGED <<plan, dirs, exit, made, budget>>

(* rm -R ./model/ *)
RemoveDirectory(t) ==
  /\ AtCommand(t, "rmdir")
  /\ Command(t).out \in dirs
  /\ dirs' = dirs \ {Command(t).out}
  /\ disk' = [disk EXCEPT ![Command(t).out] = {}]
  /\ Proceed(t, TRUE)
  /\ UNCHANGED <<plan, exit, made, budget>>

(* vswhere and vcvarsall.bat change nothing that is modelled. *)
WindowsTool(t) ==
  /\ AtCommand(t, "vswhere") \/ AtCommand(t, "vcvars")
  /\ Proceed(t, TRUE)
  /\ UNCHANGED <<plan, disk, dirs, exit, made, budget>>

(* The end of the script: its status is that of its last command. *)
Exit(t) ==
  /\ AtEnd(t)
  /\ Finish(t, IF run[t].ok THEN "ok" ELSE "failed")
  /\ UNCHANGED <<plan, disk, dirs, made, budget>>

-----------------------------------------------------------------------------
(* Commands that fail. *)

(* Why a command fails although its tool works. *)
Refused(t) ==
  LET c == Command(t)
  IN \/ c.op = "build" /\ disk[<<"config", run[t].stem>>] = {} /\ run[t].building = {}
     \/ c.op = "combine" /\ ~CanCombine(c)
     \/ c.op = "create" /\ (~CanCombine(c) \/ disk[c.out] # {})
     \/ c.op = "newdir" /\ c.out \in dirs
     \/ c.op = "rm" /\ disk[Resolve(c.out)] = {}
     \/ c.op = "rmdir" /\ c.out \notin dirs

(* How the script reacts to a failed command.  cmd.exe leaves with an exit    *)
(* code of its own choosing on "exit \b": the caller stops or goes on.        *)
React(t) ==
  LET c == Command(t)
  IN \/ c.onFail \in {"stop", "leave"} /\ Finish(t, "failed")
     \/ c.onFail = "skip" /\ Proceed(t, FALSE) /\ UNCHANGED exit
     \/ /\ c.onFail = "leave"
        /\ run' = [run EXCEPT ![t].pc = AfterBat(run[t].pc), ![t].building = {}]
        /\ UNCHANGED exit

(* A conversion that fails may have written the .ort file before it did. *)
Fail(t) ==
  /\ run[t] # Idle /\ ~AtEnd(t)
  /\ \/ Refused(t) /\ UNCHANGED budget
     \/ ~Refused(t) /\ budget > 0 /\ budget' = budget - 1
  /\ React(t)
  /\ \/ UNCHANGED <<disk, made>>
     \/ /\ Command(t).op = "convert" /\ made < MaxConversions
        /\ made' = made + 1
        /\ disk' = [disk EXCEPT ![<<"ort", run[t].stem>>] = {made'}]
  /\ UNCHANGED <<plan, dirs>>

-----------------------------------------------------------------------------
(* What a running script does by itself. *)
Step(t) ==
  \/ Convert(t) \/ BuildStart(t) \/ BuildEnd(t) \/ Combine(t)
  \/ MakeDirectory(t) \/ Remove(t) \/ RemoveDirectory(t)
  \/ WindowsTool(t) \/ Exit(t) \/ Fail(t)

Next ==
  \/ \E t \in Terminal : \/ Step(t) \/ Interrupt(t)
                         \/ \E s \in Script, stem \in Stems : Launch(t, s, stem)
  \/ MakeIosDirectory

Spec == Init /\ [][Next]_vars

(* A command returns, and the developer keeps following the instructions: goes *)
(* back to every script with the default model and creates the missing         *)
(* directory.  Faults are not fair, and the plan bounds their number.          *)
FairSpec ==
  /\ Spec
  /\ \A t \in Terminal : WF_vars(Step(t))
  /\ \A t \in Terminal, s \in UNION {p.scripts : p \in Plans} :
       SF_vars(Launch(t, s, "model"))
  /\ WF_vars(MakeIosDirectory)
-----------------------------------------------------------------------------
TypeOK ==
  /\ plan \in Plans
  /\ disk \in [Name -> SUBSET Version]
  /\ dirs \subseteq InDirectory
  /\ run \in [Terminal -> [script : plan.scripts \cup {"none"}, stem : Stems, pc : 0..11,
                           building : SUBSET Version, reads : SUBSET Version,
                           ok : BOOLEAN]]
  /\ exit \in [Script -> {"never", "ok", "failed"}]
  /\ made \in 0..MaxConversions
  /\ budget \in 0..plan.faults

(* Every delivered library was built from one configuration: no architecture *)
(* of it comes from an earlier conversion or from a half-finished build.     *)
LibraryUniform == \A l \in Lib : \A v, w \in disk[l] : v = w

(* A library changes only in a run of its own script, and then holds exactly *)
(* what that run built.                                                      *)
LibraryFromItsRun ==
  [][\A l \in Lib : disk'[l] # disk[l] =>
       \E t \in Terminal : l \in Delivers(run[t].script) /\ disk'[l] = run[t].reads]_disk

(* A script that ends with status 0 has delivered what it built, and has     *)
(* removed its intermediates; the framework is made of the libraries as they *)
(* are.  (build-win.sh promises less: its status can hide a failed half.)    *)
SuccessDelivers ==
  \A t \in Terminal : AtEnd(t) /\ run[t].ok =>
    LET s == run[t].script
    IN /\ s \in {"mac", "sim", "ios"} => \A l \in Delivers(s) : disk[l] = run[t].reads
       /\ \A c \in Intermediates(s) : disk[c] = {}
       /\ s = "xcframework" =>
            disk[<<"xcf", "onnxruntime">>] = UNION {disk[l] : l \in AppleLibs}

(* Whatever a failed or interrupted run has left behind, running the scripts *)
(* again succeeds, and the framework is built in the end.                    *)
RetrySucceeds ==
  /\ \A s \in {"mac", "ios", "sim"} : s \in plan.scripts => []<>(exit[s] = "ok")
  /\ "xcframework" \in plan.scripts => <>(disk[<<"xcf", "onnxruntime">>] # {})

(* README.md, step 4: the script converts the given model "and serializes the *)
(* .ort format model to C++ source code".                                     *)
ConvertSerializesItsModel ==
  \A t \in Terminal : run[t].script = "convert" /\ AtEnd(t) /\ run[t].ok =>
    disk[<<"header", "model">>] = disk[<<"ort", run[t].stem>>]

(* A script fails although its configuration is there. *)
FailsOnlyWithoutConfig(s) ==
  exit[s] # "failed" /\ exit'[s] = "failed" => disk[<<"config", "model">>] = {}

(* As long as no tool has failed, scripts running at the same time do not make *)
(* one another fail: they share no intermediate.                               *)
ParallelUndisturbed ==
  [][budget' = plan.faults =>
       \A s \in {"mac", "sim", "linux", "wasm"} : FailsOnlyWithoutConfig(s)]_exit

(* README.md, step 6: after step 4, build-ios.sh and build-mac.sh build. *)
BuildIosWorks == [][FailsOnlyWithoutConfig("ios")]_exit
BuildMacWorks == [][FailsOnlyWithoutConfig("mac")]_exit
=============================================================================
