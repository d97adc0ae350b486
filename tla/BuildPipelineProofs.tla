------------------------ MODULE BuildPipelineProofs ------------------------
(***************************************************************************)
(* What BuildPipeline promises about delivered libraries, for any number   *)
(* of terminals, models, conversions and faults.                           *)
(***************************************************************************)
EXTENDS BuildPipeline, SequenceTheorems, TLAPS

(* What a run of a script with two architectures is sure of at command i:  *)
(* the names whose content is its configuration.                           *)
FatFresh(x, y, lib, i) ==
  {n \in {<<"tree", x>>, <<"tree", y>>, <<"comb", x>>, <<"comb", y>>, lib} :
     \/ n = <<"tree", x>> /\ i = 2
     \/ n = <<"comb", x>> /\ i \in 3..7
     \/ n = <<"tree", y>> /\ i = 4
     \/ n = <<"comb", y>> /\ i \in 5..8
     \/ n = lib /\ i \in 7..9}

Fresh(s, i) ==
  CASE s = "mac" ->
         FatFresh("macOS_x86_64", "macOS_arm64", <<"lib", "macos-arm64_x86_64">>, i)
    [] s = "sim" ->
         FatFresh("iOS_Simulator-x86_64", "iOS_Simulator-arm64",
                  <<"lib", "ios-arm64_x86_64-simulator">>, i)
    [] s = "ios" ->
         {n \in {<<"tree", "iOS-arm64">>, <<"lib", "ios-arm64">>} :
            \/ n = <<"tree", "iOS-arm64">> /\ i = 2
            \/ n = <<"lib", "ios-arm64">> /\ i = 3}
    [] s = "win" ->
         {n \in {<<"tree", "MinSizeRel">>, <<"tree", "Debug">>} :
            \/ n = <<"tree", "MinSizeRel">> /\ i \in 4..5
            \/ n = <<"tree", "Debug">> /\ i \in 9..10}
    [] OTHER -> {}

(* The intermediates it has removed. *)
FatGone(x, y, i) ==
  {n \in {<<"comb", x>>, <<"comb", y>>} :
     \/ n = <<"comb", x>> /\ i \in 8..9
     \/ n = <<"comb", y>> /\ i = 9}

Gone(s, i) ==
  CASE s = "mac" -> FatGone("macOS_x86_64", "macOS_arm64", i)
    [] s = "sim" -> FatGone("iOS_Simulator-x86_64", "iOS_Simulator-arm64", i)
    [] OTHER -> {}

(* Every script runs in one terminal at most, and some run alone. *)
Isolated ==
  \A t, u \in Terminal : t # u /\ run[t] # Idle /\ run[u] # Idle =>
    run[t].script # run[u].script /\ run[t].script \notin Alone /\ run[u].script \notin Alone

(* A terminal without a script is idle, and a conversion has room to count. *)
Positions ==
  \A t \in Terminal :
    /\ run[t].script = "none" => run[t] = Idle
    /\ run[t] # Idle => run[t].pc \in 1..(Len(Program(run[t].script)) + 1)
    /\ run[t].script = "convert" /\ run[t].pc = 1 => made < MaxConversions

(* A configuration comes from one conversion. *)
OneConfig == \A stem \in Stems : \A v, w \in disk[<<"config", stem>>] : v = w

(* Nothing is written under the names that build-mac.sh misspells. *)
NothingMisspelt ==
  CaseSensitive => \A a \in {"macos_x86_64", "macos_arm64"} : disk[<<"comb", a>>] = {}

(* What the run r is sure of while the disk is d: it has read nothing or the *)
(* configuration as it is, and its fresh names hold that.                    *)
Sure(r, d) ==
  LET config == d[<<"config", r.stem>>]
  IN /\ r.building \in {{}, config} /\ r.reads \in {{}, config}
     /\ r.building # {} => r.reads = config
     /\ r.script = "convert" => r.reads = {} /\ r.building = {}
     /\ \A n \in Fresh(r.script, r.pc) : d[n] = config /\ r.reads = config
     /\ \A n \in Gone(r.script, r.pc) : d[n] = {}
     /\ r.script = "xcframework" /\ r.pc = 2 =>
          d[<<"xcf", "onnxruntime">>] = UNION {d[l] : l \in AppleLibs}

Working == \A t \in Terminal : run[t] # Idle => Sure(run[t], disk)

IInv ==
  /\ TypeOK /\ Isolated /\ Positions /\ Working
  /\ OneConfig /\ NothingMisspelt /\ LibraryUniform

-----------------------------------------------------------------------------
(* The programs, command by command. *)

(* w is s followed by t. *)
Joined(w, s, t) ==
  /\ Len(w) = Len(s) + Len(t)
  /\ \A i \in 1..(Len(s) + Len(t)) : w[i] = IF i <= Len(s) THEN s[i] ELSE t[i - Len(s)]

(* Concatenation puts its operands one after the other. *)
LEMMA Concatenated ==
  ASSUME NEW U, NEW s \in Seq(U), NEW t \in Seq(U)
  PROVE  s \o t \in Seq(U) /\ Joined(s \o t, s, t)
  BY ConcatProperties DEF Joined

(* build-mac.sh and build-ios-simulator.sh: two architectures, then lipo. *)
FatScript(x, y, a, b, p) == BuildArch(x) \o BuildArch(y) \o Fatten(a, b, p)

FatListing(prog, x, y, a, b, p) ==
  /\ Len(prog) = 8
  /\ prog[1] = Build(x, "stop")
  /\ prog[2] = Libtool(x, <<"comb", x>>)
  /\ prog[3] = Build(y, "stop")
  /\ prog[4] = Libtool(y, <<"comb", y>>)
  /\ prog[5] = Mkdir(p)
  /\ prog[6] = Cmd("combine", {<<"comb", a>>, <<"comb", b>>}, <<"lib", p>>, "stop")
  /\ prog[7] = Rm(a)
  /\ prog[8] = Rm(b)

(* The eight commands of such a script. *)
LEMMA FatProgram ==
  ASSUME NEW x, NEW y, NEW a, NEW b, NEW p, NEW prog, prog = FatScript(x, y, a, b, p)
  PROVE  FatListing(prog, x, y, a, b, p)
<1> DEFINE A == BuildArch(x)
           B == BuildArch(y)
           F == Fatten(a, b, p)
           AB == A \o B
           U == {A[i] : i \in 1..2} \cup {B[i] : i \in 1..2} \cup {F[i] : i \in 1..4}
<1>1. /\ Len(A) = 2 /\ A[1] = Build(x, "stop") /\ A[2] = Libtool(x, <<"comb", x>>)
      /\ A \in Seq({A[i] : i \in 1..2})
  BY DEF BuildArch
<1>2. /\ Len(B) = 2 /\ B[1] = Build(y, "stop") /\ B[2] = Libtool(y, <<"comb", y>>)
      /\ B \in Seq({B[i] : i \in 1..2})
  BY DEF BuildArch
<1>3. /\ Len(F) = 4 /\ F[1] = Mkdir(p) /\ F[3] = Rm(a) /\ F[4] = Rm(b)
      /\ F[2] = Cmd("combine", {<<"comb", a>>, <<"comb", b>>}, <<"lib", p>>, "stop")
      /\ F \in Seq({F[i] : i \in 1..4})
  BY DEF Fatten
<1>4. prog = AB \o F
  BY DEF FatScript
<1> HIDE DEF A, B, F
<1>5. A \in Seq(U) /\ B \in Seq(U) /\ F \in Seq(U)
  BY <1>1, <1>2, <1>3
<1> HIDE DEF U
<1>6. AB \in Seq(U) /\ Joined(AB, A, B)
  BY <1>5, Concatenated
<1> HIDE DEF AB
<1>7. Joined(prog, AB, F)
  BY <1>4, <1>5, <1>6, Concatenated
<1>8. Len(AB) = 4 /\ AB[1] = A[1] /\ AB[2] = A[2] /\ AB[3] = B[1] /\ AB[4] = B[2]
  BY <1>1, <1>2, <1>6 DEF Joined
<1>9. /\ Len(prog) = 8
      /\ \A i \in 1..4 : prog[i] = AB[i]
      /\ prog[5] = F[1] /\ prog[6] = F[2] /\ prog[7] = F[3] /\ prog[8] = F[4]
  BY <1>3, <1>7, <1>8 DEF Joined
<1> QED
  BY <1>1, <1>2, <1>3, <1>8, <1>9 DEF FatListing

(* build-win.bat for one configuration. *)
LEMMA BatProgram ==
  ASSUME NEW type
  PROVE  LET W == WinBat(type)
         IN /\ Len(W) = 5
            /\ W[1] = Cmd("newdir", {}, <<"lib", type>>, "skip")
            /\ W[2] = Cmd("vswhere", {}, <<"tmp", "tmp">>, "leave")
            /\ W[3] = Build(type, "leave")
            /\ W[4] = Cmd("vcvars", {}, <<"tmp", "tmp">>, "leave")
            /\ W[5] = Cmd("combine", {<<"tree", type>>}, <<"lib", type>>, "stop")
            /\ W \in Seq({W[i] : i \in 1..5})
  BY DEF WinBat

(* build-win.bat runs for one configuration, then for the other. *)
LEMMA WinProgram ==
  ASSUME NEW prog, prog = Program("win")
  PROVE  /\ Len(prog) = 10
         /\ \A i \in 1..5 : /\ prog[i] = WinBat("MinSizeRel")[i]
                            /\ prog[i + 5] = WinBat("Debug")[i]
<1> DEFINE M == WinBat("MinSizeRel")
           D == WinBat("Debug")
           U == {M[i] : i \in 1..5} \cup {D[i] : i \in 1..5}
<1>1. prog = M \o D
  BY DEF Program, WinScript
<1>2. /\ M \in Seq({M[i] : i \in 1..5}) /\ D \in Seq({D[i] : i \in 1..5})
      /\ Len(M) = 5 /\ Len(D) = 5
  BY BatProgram
<1> HIDE DEF M, D
<1>3. M \in Seq(U) /\ D \in Seq(U)
  BY <1>2
<1> HIDE DEF U
<1>4. Joined(prog, M, D)
  BY <1>1, <1>3, Concatenated
<1>5. Len(prog) = 10 /\ \A i \in 1..5 : prog[i] = M[i] /\ prog[i + 5] = D[i]
  BY <1>2, <1>4 DEF Joined
<1> QED
  BY <1>5 DEF M, D

-----------------------------------------------------------------------------
(* What the scripts' commands have in common, as far as the invariant cares. *)

(* The names a script writes: no two scripts share one. *)
FatOwned(x, y, lib) == {<<"tree", x>>, <<"tree", y>>, <<"comb", x>>, <<"comb", y>>, lib}
Owned(s) ==
  CASE s = "mac" -> FatOwned("macOS_x86_64", "macOS_arm64", <<"lib", "macos-arm64_x86_64">>)
    [] s = "sim" -> FatOwned("iOS_Simulator-x86_64", "iOS_Simulator-arm64",
                             <<"lib", "ios-arm64_x86_64-simulator">>)
    [] s = "ios" -> {<<"tree", "iOS-arm64">>, <<"lib", "ios-arm64">>}
    [] s = "win" -> {<<"tree", "MinSizeRel">>, <<"tree", "Debug">>,
                     <<"lib", "MinSizeRel">>, <<"lib", "Debug">>}
    [] s = "linux" -> {<<"tree", "Linux">>}
    [] s = "wasm" -> {<<"tree", "wasm">>}
    [] s = "convert" -> {<<"header", "model">>}
    [] s = "xcframework" -> {<<"xcf", "onnxruntime">>}

Misspelt == {<<"comb", "macos_x86_64">>, <<"comb", "macos_arm64">>}
Op == {"convert", "build", "combine", "create", "mkdir", "newdir", "rm", "rmdir",
       "vswhere", "vcvars"}

(* Where a command finds and leaves its files. *)
Placed(s, c) ==
  /\ c.op \in Op /\ c.onFail \in {"stop", "skip", "leave"}
  /\ c.op \in {"combine", "create"} => \A n \in c.in : n \in Name /\ Resolve(n) \in Name
  /\ c.op \in {"build", "combine", "create", "rmdir"} => c.out \in Owned(s)
  /\ c.op = "rm" =>
       \/ Resolve(c.out) \in Owned(s) \ Lib
       \/ CaseSensitive /\ Resolve(c.out) \in Misspelt
  /\ c.op \in {"mkdir", "newdir", "rmdir"} => c.out \in InDirectory
  /\ c.op \in {"build", "create", "rmdir"} => c.out \notin Lib
  /\ c.op = "combine" /\ c.out \in Lib => c.out \in Delivers(s)

(* From command i on, the script is sure of no more than at i. *)
Keeps(s, i, j) == Fresh(s, j) \subseteq Fresh(s, i) /\ Gone(s, j) \subseteq Gone(s, i)

(* Command i makes c.out what the run is then sure of. *)
Makes(s, i, c) ==
  /\ c.out \notin Fresh(s, i) /\ Fresh(s, i + 1) \subseteq Fresh(s, i) \cup {c.out}
  /\ Gone(s, i) = {} /\ Gone(s, i + 1) = {}

(* What a script is sure of before and after command i. *)
Ordered(s, i, c) ==
  /\ c.op = "convert" => s = "convert" /\ i = 1
  /\ c.op = "create" <=> s = "xcframework"
  /\ s = "xcframework" => i = 1 /\ c.in = AppleLibs /\ c.out = <<"xcf", "onnxruntime">>
                          /\ c.onFail = "stop"
  /\ c.op = "rmdir" => s = "convert"
  /\ c.op = "build" => Makes(s, i, c) /\ s # "convert"
  /\ c.op = "combine" /\ s # "convert" =>
       \/ /\ c.in # {} /\ \A n \in c.in : Resolve(n) \in Fresh(s, i)
          /\ Makes(s, i, c)
       \/ CaseSensitive /\ \E n \in c.in : Resolve(n) \in Misspelt
  /\ c.op = "rm" =>
       \/ /\ Resolve(c.out) \in Fresh(s, i)
          /\ Fresh(s, i + 1) \subseteq Fresh(s, i) \ {Resolve(c.out)}
          /\ Gone(s, i + 1) \subseteq Gone(s, i) \cup {Resolve(c.out)}
       \/ CaseSensitive /\ Resolve(c.out) \in Misspelt
  /\ c.op \notin {"build", "combine", "rm"} \/ c.onFail = "skip" => Keeps(s, i, i + 1)
  /\ c.onFail = "leave" => /\ AfterBat(i) \in 1..(Len(Program(s)) + 1)
                           /\ Keeps(s, i, AfterBat(i)) /\ s = "win"

Fits(s, i, c) == Placed(s, c) /\ Ordered(s, i, c)

(* Every command of s is placed and ordered as the invariant needs. *)
Good(s) ==
  /\ Len(Program(s)) \in 1..10
  /\ \A i \in 1..Len(Program(s)) : Fits(s, i, Program(s)[i])

(* The libraries delivered, one by one. *)
LEMMA Libraries ==
  Lib = {<<"lib", "macos-arm64_x86_64">>, <<"lib", "ios-arm64_x86_64-simulator">>,
         <<"lib", "ios-arm64">>, <<"lib", "MinSizeRel">>, <<"lib", "Debug">>}
<1>1. /\ Delivers("mac") = {<<"lib", "macos-arm64_x86_64">>}
      /\ Delivers("sim") = {<<"lib", "ios-arm64_x86_64-simulator">>}
      /\ Delivers("ios") = {<<"lib", "ios-arm64">>}
      /\ Delivers("win") = {<<"lib", "MinSizeRel">>, <<"lib", "Debug">>}
      /\ Delivers("convert") = {} /\ Delivers("xcframework") = {}
      /\ Delivers("linux") = {} /\ Delivers("wasm") = {}
  BY DEF Delivers
<1>2. \A l : l \in Lib <=> \E s \in Script : l \in Delivers(s)
  BY DEF Lib
<1>3. \A l : l \in Lib <=> \E s \in {"mac", "sim", "ios", "win"} : l \in Delivers(s)
  BY <1>1, <1>2, SMTT(30) DEF Script
<1> QED
  BY <1>1, <1>3

(* build-xcframework.sh, build-linux.sh and build-wasm.sh. *)
LEMMA OneCommand ==
  /\ Good("xcframework") /\ Good("linux") /\ Good("wasm")
<1> USE DEF Good, Fits, Placed, Ordered, Keeps, Makes, Fresh, Gone, Owned, Program, Cmd, Op,
            InDirectory, Name, BuildId, CombId, Resolve, Build, Misspelt
<1>1. Good("xcframework")
  BY Libraries DEF XcframeworkScript, AppleLibs
<1>2. Good("linux")
  BY Libraries DEF LinuxScript
<1>3. Good("wasm")
  BY Libraries DEF WasmScript
<1> QED
  BY <1>1, <1>2, <1>3

(* convert-model-to-ort.sh. *)
LEMMA ConvertCommands == Good("convert")
<1>1. Len(Program("convert")) = 4
  BY DEF Program, ConvertScript
<1>2. ASSUME NEW i \in 1..4
      PROVE  Fits("convert", i, Program("convert")[i])
  <2> DEFINE c == Program("convert")[i]
  <2>1. CASE i \in {1, 2, 3}
    <3>1. Placed("convert", c)
      BY <2>1, Libraries
      DEF Placed, Owned, Program, Cmd, Op, InDirectory, Name, BuildId, CombId, Resolve,
          Misspelt, ConvertScript
    <3>2. Ordered("convert", i, c)
      BY <2>1
      DEF Ordered, Keeps, Makes, Fresh, Gone, Program, Cmd, Resolve, Misspelt, ConvertScript
    <3> QED
      BY <3>1, <3>2 DEF Fits
  <2>2. CASE i = 4
    <3>1. Placed("convert", c)
      BY <2>2, Libraries, PipelineConstants
      DEF Placed, Owned, Program, Cmd, Op, InDirectory, Name, BuildId, CombId, Resolve,
          Misspelt, ConvertScript
    <3>2. Ordered("convert", i, c)
      BY <2>2
      DEF Ordered, Keeps, Makes, Fresh, Gone, Program, Cmd, Resolve, Misspelt, ConvertScript
    <3> QED
      BY <3>1, <3>2 DEF Fits
  <2>3. i \in {1, 2, 3} \/ i = 4
    OBVIOUS
  <2> QED
    BY <2>1, <2>2, <2>3
<1> QED
  BY <1>1, <1>2 DEF Good

(* build-ios.sh. *)
LEMMA IosCommands == Good("ios")
<1> DEFINE c(i) == Program("ios")[i]
<1>1. /\ Len(Program("ios")) = 2
      /\ c(1) = Build("iOS-arm64", "stop")
      /\ c(2) = Libtool("iOS-arm64", <<"lib", "ios-arm64">>)
  BY DEF Program, IosScript
<1> HIDE DEF c
<1>2. Placed("ios", c(1)) /\ Ordered("ios", 1, c(1))
  BY <1>1, Libraries DEF Placed, Cmd, Op, Owned, Build, Ordered, Makes, Fresh, Gone
<1>3. Placed("ios", c(2)) /\ Ordered("ios", 2, c(2))
  <2>1. Placed("ios", c(2))
    BY <1>1, Libraries DEF Placed, Cmd, Op, Delivers, Name, BuildId, Resolve, Owned, Libtool
  <2>2. /\ Fresh("ios", 2) = {<<"tree", "iOS-arm64">>}
        /\ Gone("ios", 2) = {} /\ Gone("ios", 3) = {}
        /\ Fresh("ios", 3) = {<<"lib", "ios-arm64">>}
    BY DEF Fresh, Gone
  <2>3. Resolve(<<"tree", "iOS-arm64">>) = <<"tree", "iOS-arm64">>
    BY DEF Resolve
  <2>4. Ordered("ios", 2, c(2))
    BY <1>1, <2>2, <2>3 DEF Ordered, Makes, Cmd, Libtool
  <2> QED
    BY <2>1, <2>4
<1> QED
  <2>1. ASSUME NEW i \in 1..2
        PROVE  Fits("ios", i, c(i))
    BY <1>2, <1>3 DEF Fits
  <2> QED
    BY <1>1, <2>1 DEF Good, c

(* build-win.bat. *)
LEMMA WinCommands == Good("win")
<1> DEFINE c(i) == Program("win")[i]
<1>1. /\ Len(Program("win")) = 10
      /\ c(1) = Cmd("newdir", {}, <<"lib", "MinSizeRel">>, "skip")
      /\ c(2) = Cmd("vswhere", {}, <<"tmp", "tmp">>, "leave")
      /\ c(3) = Build("MinSizeRel", "leave")
      /\ c(4) = Cmd("vcvars", {}, <<"tmp", "tmp">>, "leave")
      /\ c(5) = Cmd("combine", {<<"tree", "MinSizeRel">>}, <<"lib", "MinSizeRel">>, "stop")
      /\ c(6) = Cmd("newdir", {}, <<"lib", "Debug">>, "skip")
      /\ c(7) = Cmd("vswhere", {}, <<"tmp", "tmp">>, "leave")
      /\ c(8) = Build("Debug", "leave")
      /\ c(9) = Cmd("vcvars", {}, <<"tmp", "tmp">>, "leave")
      /\ c(10) = Cmd("combine", {<<"tree", "Debug">>}, <<"lib", "Debug">>, "stop")
  <2>1. /\ Len(Program("win")) = 10
        /\ \A i \in 1..5 : c(i) = WinBat("MinSizeRel")[i] /\ c(i + 5) = WinBat("Debug")[i]
    BY WinProgram
  <2>2. /\ c(1) = WinBat("MinSizeRel")[1] /\ c(2) = WinBat("MinSizeRel")[2]
        /\ c(3) = WinBat("MinSizeRel")[3] /\ c(4) = WinBat("MinSizeRel")[4]
        /\ c(5) = WinBat("MinSizeRel")[5] /\ c(1 + 5) = WinBat("Debug")[1]
        /\ c(2 + 5) = WinBat("Debug")[2] /\ c(3 + 5) = WinBat("Debug")[3]
        /\ c(4 + 5) = WinBat("Debug")[4] /\ c(5 + 5) = WinBat("Debug")[5]
    BY <2>1
  <2>3. \A type : /\ WinBat(type)[1] = Cmd("newdir", {}, <<"lib", type>>, "skip")
                  /\ WinBat(type)[2] = Cmd("vswhere", {}, <<"tmp", "tmp">>, "leave")
                  /\ WinBat(type)[3] = Build(type, "leave")
                  /\ WinBat(type)[4] = Cmd("vcvars", {}, <<"tmp", "tmp">>, "leave")
                  /\ WinBat(type)[5] = Cmd("combine", {<<"tree", type>>}, <<"lib", type>>, "stop")
    BY BatProgram
  <2> QED
    BY <2>1, <2>2, <2>3
<1> HIDE DEF c
<1>0. /\ \A i \in {1, 2, 3, 6, 7, 8, 11} : Fresh("win", i) = {}
      /\ Fresh("win", 4) = {<<"tree", "MinSizeRel">>}
      /\ Fresh("win", 5) = {<<"tree", "MinSizeRel">>}
      /\ Fresh("win", 9) = {<<"tree", "Debug">>} /\ Fresh("win", 10) = {<<"tree", "Debug">>}
      /\ \A i \in Nat : Gone("win", i) = {}
      /\ \A type : Resolve(<<"tree", type>>) = <<"tree", type>>
      /\ AfterBat(2) = 6 /\ AfterBat(3) = 6 /\ AfterBat(4) = 6
      /\ AfterBat(7) = 11 /\ AfterBat(8) = 11 /\ AfterBat(9) = 11
  BY DEF Fresh, Gone, AfterBat, Resolve
<1>01. 1..(Len(Program("win")) + 1) = 1..11
  <2>1. \A n : n = 10 => 1..(n + 1) = 1..11
    OBVIOUS
  <2> QED
    BY <1>1, <2>1
<1>2. Fits("win", 1, c(1))
  <2>1. Placed("win", c(1))
    BY <1>1, Libraries DEF Placed, Cmd, Op, Delivers, InDirectory, Name, BuildId,
                              CombId, Resolve, Misspelt, Owned, Build
  <2>2. Ordered("win", 1, c(1))
    BY <1>0, <1>1 DEF Ordered, Keeps, Makes, Cmd, Build
  <2> QED
    BY <2>1, <2>2 DEF Fits
<1>3. Fits("win", 2, c(2))
  <2>1. Placed("win", c(2))
    BY <1>1, Libraries DEF Placed, Cmd, Op, Delivers, InDirectory, Name, BuildId,
                              CombId, Resolve, Misspelt, Owned, Build
  <2>2. Keeps("win", 2, 3) /\ Keeps("win", 2, 6)
    BY <1>0 DEF Keeps
  <2>3. AfterBat(2) = 6
    BY <1>0
  <2>5. 6 \in 1..(Len(Program("win")) + 1)
    BY <1>01
  <2>4. Ordered("win", 2, c(2))
    BY <1>0, <1>1, <2>2, <2>3, <2>5 DEF Ordered, Makes, Cmd, Build
  <2> QED
    BY <2>1, <2>4 DEF Fits
<1>4. Fits("win", 3, c(3))
  <2>1. Placed("win", c(3))
    BY <1>1, Libraries DEF Placed, Cmd, Op, Delivers, InDirectory, Name, BuildId,
                              CombId, Resolve, Misspelt, Owned, Build
  <2>2. Keeps("win", 3, 6)
    BY <1>0 DEF Keeps
  <2>3. AfterBat(3) = 6
    BY <1>0
  <2>5. 6 \in 1..(Len(Program("win")) + 1)
    BY <1>01
  <2>4. Ordered("win", 3, c(3))
    BY <1>0, <1>1, <2>2, <2>3, <2>5 DEF Ordered, Makes, Cmd, Build
  <2> QED
    BY <2>1, <2>4 DEF Fits
<1>5. Fits("win", 4, c(4))
  <2>1. Placed("win", c(4))
    BY <1>1, Libraries DEF Placed, Cmd, Op, Delivers, InDirectory, Name, BuildId,
                              CombId, Resolve, Misspelt, Owned, Build
  <2>2. Keeps("win", 4, 5) /\ Keeps("win", 4, 6)
    BY <1>0 DEF Keeps
  <2>3. AfterBat(4) = 6
    BY <1>0
  <2>5. 6 \in 1..(Len(Program("win")) + 1)
    BY <1>01
  <2>4. Ordered("win", 4, c(4))
    BY <1>0, <1>1, <2>2, <2>3, <2>5 DEF Ordered, Makes, Cmd, Build
  <2> QED
    BY <2>1, <2>4 DEF Fits
<1>6. Fits("win", 5, c(5))
  <2>1. Placed("win", c(5))
    BY <1>1, Libraries DEF Placed, Cmd, Op, Delivers, InDirectory, Name, BuildId,
                              CombId, Resolve, Misspelt, Owned, Build
  <2>2. Ordered("win", 5, c(5))
    BY <1>0, <1>1 DEF Ordered, Keeps, Makes, Cmd, Build
  <2> QED
    BY <2>1, <2>2 DEF Fits
<1>7. Fits("win", 6, c(6))
  <2>1. Placed("win", c(6))
    BY <1>1, Libraries DEF Placed, Cmd, Op, Delivers, InDirectory, Name, BuildId,
                              CombId, Resolve, Misspelt, Owned, Build
  <2>2. Ordered("win", 6, c(6))
    BY <1>0, <1>1 DEF Ordered, Keeps, Makes, Cmd, Build
  <2> QED
    BY <2>1, <2>2 DEF Fits
<1>8. Fits("win", 7, c(7))
  <2>1. Placed("win", c(7))
    BY <1>1, Libraries DEF Placed, Cmd, Op, Delivers, InDirectory, Name, BuildId,
                              CombId, Resolve, Misspelt, Owned, Build
  <2>2. Keeps("win", 7, 8) /\ Keeps("win", 7, 11)
    BY <1>0 DEF Keeps
  <2>3. AfterBat(7) = 11
    BY <1>0
  <2>5. 11 \in 1..(Len(Program("win")) + 1)
    BY <1>01
  <2>4. Ordered("win", 7, c(7))
    BY <1>0, <1>1, <2>2, <2>3, <2>5 DEF Ordered, Makes, Cmd, Build
  <2> QED
    BY <2>1, <2>4 DEF Fits
<1>9. Fits("win", 8, c(8))
  <2>1. Placed("win", c(8))
    BY <1>1, Libraries DEF Placed, Cmd, Op, Delivers, InDirectory, Name, BuildId,
                              CombId, Resolve, Misspelt, Owned, Build
  <2>2. Keeps("win", 8, 11)
    BY <1>0 DEF Keeps
  <2>3. AfterBat(8) = 11
    BY <1>0
  <2>5. 11 \in 1..(Len(Program("win")) + 1)
    BY <1>01
  <2>4. Ordered("win", 8, c(8))
    BY <1>0, <1>1, <2>2, <2>3, <2>5 DEF Ordered, Makes, Cmd, Build
  <2> QED
    BY <2>1, <2>4 DEF Fits
<1>10. Fits("win", 9, c(9))
  <2>1. Placed("win", c(9))
    BY <1>1, Libraries DEF Placed, Cmd, Op, Delivers, InDirectory, Name, BuildId,
                              CombId, Resolve, Misspelt, Owned, Build
  <2>2. Keeps("win", 9, 10) /\ Keeps("win", 9, 11)
    BY <1>0 DEF Keeps
  <2>3. AfterBat(9) = 11
    BY <1>0
  <2>5. 11 \in 1..(Len(Program("win")) + 1)
    BY <1>01
  <2>4. Ordered("win", 9, c(9))
    BY <1>0, <1>1, <2>2, <2>3, <2>5 DEF Ordered, Makes, Cmd, Build
  <2> QED
    BY <2>1, <2>4 DEF Fits
<1>11. Fits("win", 10, c(10))
  <2>1. Placed("win", c(10))
    BY <1>1, Libraries DEF Placed, Cmd, Op, Delivers, InDirectory, Name, BuildId,
                              CombId, Resolve, Misspelt, Owned, Build
  <2>2. Ordered("win", 10, c(10))
    BY <1>0, <1>1 DEF Ordered, Keeps, Makes, Cmd, Build
  <2> QED
    BY <2>1, <2>2 DEF Fits
<1> QED
  <2>1. ASSUME NEW i \in 1..10
        PROVE  Fits("win", i, c(i))
    <3>1. CASE i \in 1..5
      BY <1>2, <1>3, <1>4, <1>5, <1>6, <3>1
    <3>2. CASE i \in 6..10
      BY <1>7, <1>8, <1>9, <1>10, <1>11, <3>2
    <3>3. i \in 1..5 \/ i \in 6..10
      OBVIOUS
    <3> QED
      BY <3>1, <3>2, <3>3
  <2> QED
    BY <1>1, <2>1, SMTT(30) DEF Good, c

(* build-mac.sh. *)
LEMMA MacCommands == Good("mac") /\ Len(Program("mac")) = 8
<1> DEFINE c(i) == Program("mac")[i]
<1>1. /\ Len(Program("mac")) = 8
      /\ c(1) = Build("macOS_x86_64", "stop")
      /\ c(2) = Libtool("macOS_x86_64", <<"comb", "macOS_x86_64">>)
      /\ c(3) = Build("macOS_arm64", "stop")
      /\ c(4) = Libtool("macOS_arm64", <<"comb", "macOS_arm64">>)
      /\ c(5) = Mkdir("macos-arm64_x86_64")
      /\ c(6) = Cmd("combine", {<<"comb", "macos_x86_64">>, <<"comb", "macos_arm64">>},
                    <<"lib", "macos-arm64_x86_64">>, "stop")
      /\ c(7) = Rm("macos_x86_64")
      /\ c(8) = Rm("macos_arm64")
  <2>1. Program("mac") = FatScript("macOS_x86_64", "macOS_arm64", "macos_x86_64",
                                   "macos_arm64", "macos-arm64_x86_64")
    BY DEF Program, MacScript, FatScript
  <2>2. FatListing(Program("mac"), "macOS_x86_64", "macOS_arm64", "macos_x86_64",
                  "macos_arm64", "macos-arm64_x86_64")
    BY <2>1, FatProgram
  <2> QED
    BY <2>2 DEF FatListing
<1> HIDE DEF c
<1>2. Fits("mac", 1, c(1))
  <2>1. Placed("mac", c(1))
    BY <1>1, Libraries, PipelineConstants DEF Placed, Cmd, Op, Delivers, InDirectory, Name, BuildId,
                              CombId, Resolve, Misspelt, Owned, FatOwned, Build, Libtool, Mkdir, Rm
  <2>2. Ordered("mac", 1, c(1))
    BY <1>1, PipelineConstants DEF Ordered, Keeps, Makes, Fresh, Gone, Cmd, Resolve, Misspelt,
                   FatFresh, FatGone, Build, Libtool, Mkdir, Rm
  <2> QED
    BY <2>1, <2>2 DEF Fits
<1>3. Fits("mac", 2, c(2))
  <2>1. Placed("mac", c(2))
    BY <1>1, Libraries, PipelineConstants DEF Placed, Cmd, Op, Delivers, InDirectory, Name, BuildId,
                              CombId, Resolve, Misspelt, Owned, FatOwned, Build, Libtool, Mkdir, Rm
  <2>2. Ordered("mac", 2, c(2))
    BY <1>1, PipelineConstants DEF Ordered, Keeps, Makes, Fresh, Gone, Cmd, Resolve, Misspelt,
                   FatFresh, FatGone, Build, Libtool, Mkdir, Rm
  <2> QED
    BY <2>1, <2>2 DEF Fits
<1>4. Fits("mac", 3, c(3))
  <2>1. Placed("mac", c(3))
    BY <1>1, Libraries, PipelineConstants DEF Placed, Cmd, Op, Delivers, InDirectory, Name, BuildId,
                              CombId, Resolve, Misspelt, Owned, FatOwned, Build, Libtool, Mkdir, Rm
  <2>2. Ordered("mac", 3, c(3))
    BY <1>1, PipelineConstants DEF Ordered, Keeps, Makes, Fresh, Gone, Cmd, Resolve, Misspelt,
                   FatFresh, FatGone, Build, Libtool, Mkdir, Rm
  <2> QED
    BY <2>1, <2>2 DEF Fits
<1>5. Fits("mac", 4, c(4))
  <2>1. Placed("mac", c(4))
    BY <1>1, Libraries, PipelineConstants DEF Placed, Cmd, Op, Delivers, InDirectory, Name, BuildId,
                              CombId, Resolve, Misspelt, Owned, FatOwned, Build, Libtool, Mkdir, Rm
  <2>2. Ordered("mac", 4, c(4))
    BY <1>1, PipelineConstants DEF Ordered, Keeps, Makes, Fresh, Gone, Cmd, Resolve, Misspelt,
                   FatFresh, FatGone, Build, Libtool, Mkdir, Rm
  <2> QED
    BY <2>1, <2>2 DEF Fits
<1>6. Fits("mac", 5, c(5))
  <2>1. Placed("mac", c(5))
    BY <1>1, Libraries, PipelineConstants DEF Placed, Cmd, Op, Delivers, InDirectory, Name, BuildId,
                              CombId, Resolve, Misspelt, Owned, FatOwned, Build, Libtool, Mkdir, Rm
  <2>2. Ordered("mac", 5, c(5))
    BY <1>1, PipelineConstants DEF Ordered, Keeps, Makes, Fresh, Gone, Cmd, Resolve, Misspelt,
                   FatFresh, FatGone, Build, Libtool, Mkdir, Rm
  <2> QED
    BY <2>1, <2>2 DEF Fits
<1>7. Fits("mac", 6, c(6))
  <2>1. Placed("mac", c(6))
    BY <1>1, Libraries, PipelineConstants DEF Placed, Cmd, Op, Delivers, InDirectory, Name, BuildId,
                              CombId, Resolve, Misspelt, Owned, FatOwned, Build, Libtool, Mkdir, Rm
  <2>2. Ordered("mac", 6, c(6))
    BY <1>1, PipelineConstants DEF Ordered, Keeps, Makes, Fresh, Gone, Cmd, Resolve, Misspelt,
                   FatFresh, FatGone, Build, Libtool, Mkdir, Rm
  <2> QED
    BY <2>1, <2>2 DEF Fits
<1>8. Fits("mac", 7, c(7))
  <2>1. Placed("mac", c(7))
    BY <1>1, Libraries, PipelineConstants DEF Placed, Cmd, Op, Delivers, InDirectory, Name, BuildId,
                              CombId, Resolve, Misspelt, Owned, FatOwned, Build, Libtool, Mkdir, Rm
  <2>2. Ordered("mac", 7, c(7))
    BY <1>1, PipelineConstants DEF Ordered, Keeps, Makes, Fresh, Gone, Cmd, Resolve, Misspelt,
                   FatFresh, FatGone, Build, Libtool, Mkdir, Rm
  <2> QED
    BY <2>1, <2>2 DEF Fits
<1>9. Fits("mac", 8, c(8))
  <2>1. Placed("mac", c(8))
    BY <1>1, Libraries, PipelineConstants DEF Placed, Cmd, Op, Delivers, InDirectory, Name, BuildId,
                              CombId, Resolve, Misspelt, Owned, FatOwned, Build, Libtool, Mkdir, Rm
  <2>2. Ordered("mac", 8, c(8))
    BY <1>1, PipelineConstants DEF Ordered, Keeps, Makes, Fresh, Gone, Cmd, Resolve, Misspelt,
                   FatFresh, FatGone, Build, Libtool, Mkdir, Rm
  <2> QED
    BY <2>1, <2>2 DEF Fits
<1> QED
  <2>1. ASSUME NEW i \in 1..8
        PROVE  Fits("mac", i, c(i))
    BY <1>2, <1>3, <1>4, <1>5, <1>6, <1>7, <1>8, <1>9
  <2> QED
    BY <1>1, <2>1 DEF Good, c

(* build-ios-simulator.sh. *)
LEMMA SimCommands == Good("sim") /\ Len(Program("sim")) = 8
<1> DEFINE c(i) == Program("sim")[i]
<1>1. /\ Len(Program("sim")) = 8
      /\ c(1) = Build("iOS_Simulator-x86_64", "stop")
      /\ c(2) = Libtool("iOS_Simulator-x86_64", <<"comb", "iOS_Simulator-x86_64">>)
      /\ c(3) = Build("iOS_Simulator-arm64", "stop")
      /\ c(4) = Libtool("iOS_Simulator-arm64", <<"comb", "iOS_Simulator-arm64">>)
      /\ c(5) = Mkdir("ios-arm64_x86_64-simulator")
      /\ c(6) = Cmd("combine", {<<"comb", "iOS_Simulator-x86_64">>,
                                <<"comb", "iOS_Simulator-arm64">>},
                    <<"lib", "ios-arm64_x86_64-simulator">>, "stop")
      /\ c(7) = Rm("iOS_Simulator-x86_64")
      /\ c(8) = Rm("iOS_Simulator-arm64")
  <2>1. Program("sim") = FatScript("iOS_Simulator-x86_64", "iOS_Simulator-arm64",
                                   "iOS_Simulator-x86_64", "iOS_Simulator-arm64",
                                   "ios-arm64_x86_64-simulator")
    BY DEF Program, SimScript, FatScript
  <2>2. FatListing(Program("sim"), "iOS_Simulator-x86_64", "iOS_Simulator-arm64",
                  "iOS_Simulator-x86_64", "iOS_Simulator-arm64", "ios-arm64_x86_64-simulator")
    BY <2>1, FatProgram
  <2> QED
    BY <2>2 DEF FatListing
<1> HIDE DEF c
<1>2. Fits("sim", 1, c(1))
  <2>1. Placed("sim", c(1))
    BY <1>1, Libraries DEF Placed, Cmd, Op, Delivers, InDirectory, Name, BuildId,
                              CombId, Resolve, Misspelt, Owned, FatOwned, Build, Libtool, Mkdir, Rm
  <2>2. Ordered("sim", 1, c(1))
    BY <1>1 DEF Ordered, Keeps, Makes, Fresh, Gone, Cmd, Resolve, Misspelt,
                   FatFresh, FatGone, Build, Libtool, Mkdir, Rm
  <2> QED
    BY <2>1, <2>2 DEF Fits
<1>3. Fits("sim", 2, c(2))
  <2>1. Placed("sim", c(2))
    BY <1>1, Libraries DEF Placed, Cmd, Op, Delivers, InDirectory, Name, BuildId,
                              CombId, Resolve, Misspelt, Owned, FatOwned, Build, Libtool, Mkdir, Rm
  <2>2. Ordered("sim", 2, c(2))
    BY <1>1 DEF Ordered, Keeps, Makes, Fresh, Gone, Cmd, Resolve, Misspelt,
                   FatFresh, FatGone, Build, Libtool, Mkdir, Rm
  <2> QED
    BY <2>1, <2>2 DEF Fits
<1>4. Fits("sim", 3, c(3))
  <2>1. Placed("sim", c(3))
    BY <1>1, Libraries DEF Placed, Cmd, Op, Delivers, InDirectory, Name, BuildId,
                              CombId, Resolve, Misspelt, Owned, FatOwned, Build, Libtool, Mkdir, Rm
  <2>2. Ordered("sim", 3, c(3))
    BY <1>1 DEF Ordered, Keeps, Makes, Fresh, Gone, Cmd, Resolve, Misspelt,
                   FatFresh, FatGone, Build, Libtool, Mkdir, Rm
  <2> QED
    BY <2>1, <2>2 DEF Fits
<1>5. Fits("sim", 4, c(4))
  <2>1. Placed("sim", c(4))
    BY <1>1, Libraries DEF Placed, Cmd, Op, Delivers, InDirectory, Name, BuildId,
                              CombId, Resolve, Misspelt, Owned, FatOwned, Build, Libtool, Mkdir, Rm
  <2>2. Ordered("sim", 4, c(4))
    BY <1>1 DEF Ordered, Keeps, Makes, Fresh, Gone, Cmd, Resolve, Misspelt,
                   FatFresh, FatGone, Build, Libtool, Mkdir, Rm
  <2> QED
    BY <2>1, <2>2 DEF Fits
<1>6. Fits("sim", 5, c(5))
  <2>1. Placed("sim", c(5))
    BY <1>1, Libraries DEF Placed, Cmd, Op, Delivers, InDirectory, Name, BuildId,
                              CombId, Resolve, Misspelt, Owned, FatOwned, Build, Libtool, Mkdir, Rm
  <2>2. Ordered("sim", 5, c(5))
    BY <1>1 DEF Ordered, Keeps, Makes, Fresh, Gone, Cmd, Resolve, Misspelt,
                   FatFresh, FatGone, Build, Libtool, Mkdir, Rm
  <2> QED
    BY <2>1, <2>2 DEF Fits
<1>7. Fits("sim", 6, c(6))
  <2>1. Placed("sim", c(6))
    BY <1>1, Libraries DEF Placed, Cmd, Op, Delivers, InDirectory, Name, BuildId,
                              CombId, Resolve, Misspelt, Owned, FatOwned, Build, Libtool, Mkdir, Rm
  <2>2. Ordered("sim", 6, c(6))
    BY <1>1 DEF Ordered, Keeps, Makes, Fresh, Gone, Cmd, Resolve, Misspelt,
                   FatFresh, FatGone, Build, Libtool, Mkdir, Rm
  <2> QED
    BY <2>1, <2>2 DEF Fits
<1>8. Fits("sim", 7, c(7))
  <2>1. Placed("sim", c(7))
    BY <1>1, Libraries DEF Placed, Cmd, Op, Delivers, InDirectory, Name, BuildId,
                              CombId, Resolve, Misspelt, Owned, FatOwned, Build, Libtool, Mkdir, Rm
  <2>2. Ordered("sim", 7, c(7))
    BY <1>1 DEF Ordered, Keeps, Makes, Fresh, Gone, Cmd, Resolve, Misspelt,
                   FatFresh, FatGone, Build, Libtool, Mkdir, Rm
  <2> QED
    BY <2>1, <2>2 DEF Fits
<1>9. Fits("sim", 8, c(8))
  <2>1. Placed("sim", c(8))
    BY <1>1, Libraries DEF Placed, Cmd, Op, Delivers, InDirectory, Name, BuildId,
                              CombId, Resolve, Misspelt, Owned, FatOwned, Build, Libtool, Mkdir, Rm
  <2>2. Ordered("sim", 8, c(8))
    BY <1>1 DEF Ordered, Keeps, Makes, Fresh, Gone, Cmd, Resolve, Misspelt,
                   FatFresh, FatGone, Build, Libtool, Mkdir, Rm
  <2> QED
    BY <2>1, <2>2 DEF Fits
<1> QED
  <2>1. ASSUME NEW i \in 1..8
        PROVE  Fits("sim", i, c(i))
    BY <1>2, <1>3, <1>4, <1>5, <1>6, <1>7, <1>8, <1>9
  <2> QED
    BY <1>1, <2>1 DEF Good, c

LEMMA Commands ==
  /\ \A s \in Script : Good(s)
  /\ \A s \in Script : /\ Fresh(s, 1) = {} /\ Gone(s, 1) = {}
                       /\ \A i \in Nat : Fresh(s, i) \cup Gone(s, i) \subseteq Owned(s)
                       /\ Owned(s) \subseteq Name
                       /\ \A n \in Owned(s) : n[1] # "config" /\ n \notin Misspelt
  /\ \A s, r \in Script : s # r => Owned(s) \cap Owned(r) = {}
<1>1. \A s \in Script : Good(s)
  BY OneCommand, ConvertCommands, IosCommands, WinCommands, MacCommands, SimCommands DEF Script
<1>2. ASSUME NEW s \in Script
      PROVE  /\ Fresh(s, 1) = {} /\ Gone(s, 1) = {}
             /\ \A i \in Nat : Fresh(s, i) \cup Gone(s, i) \subseteq Owned(s)
  BY DEF Script, Fresh, FatFresh, Gone, FatGone, Owned, FatOwned
<1>3. ASSUME NEW s \in Script
      PROVE  /\ Owned(s) \subseteq Name
             /\ \A n \in Owned(s) : n[1] # "config" /\ n \notin Misspelt
  BY Libraries DEF Script, Owned, FatOwned, Name, BuildId, CombId, Misspelt
<1>4. ASSUME NEW s \in Script, NEW r \in Script, s # r
      PROVE  Owned(s) \cap Owned(r) = {}
  BY <1>4 DEF Script, Owned, FatOwned
<1> QED
  BY <1>1, <1>2, <1>3, <1>4

-----------------------------------------------------------------------------
(* One step of one terminal. *)
RunType == [script : plan.scripts \cup {"none"}, stem : Stems, pc : 0..11,
            building : SUBSET Version, reads : SUBSET Version, ok : BOOLEAN]

(* A running script is at one of its commands or at its end. *)
LEMMA AtWork ==
  ASSUME TypeOK, Positions, NEW t \in Terminal, run[t] # Idle
  PROVE  /\ run[t] \in RunType
         /\ run[t].script \in Script /\ run[t].script # "none"
         /\ run[t].pc \in 1..(Len(Program(run[t].script)) + 1)
         /\ Len(Program(run[t].script)) \in 1..10
         /\ Good(run[t].script)
<1>1. run[t] \in RunType
  BY DEF TypeOK, RunType
<1>2. run[t].script \in Script /\ run[t].script # "none"
  BY <1>1, PipelineConstants DEF TypeOK, Positions, RunType
<1> QED
  BY <1>1, <1>2, Commands DEF Positions, Good

(* A script that is not at its end is at a command that fits. *)
LEMMA AtACommand ==
  ASSUME TypeOK, Positions, NEW t \in Terminal, run[t] # Idle, ~AtEnd(t)
  PROVE  /\ run[t].pc \in 1..Len(Program(run[t].script))
         /\ Fits(run[t].script, run[t].pc, Command(t))
         /\ run[t].pc + 1 \in 1..(Len(Program(run[t].script)) + 1)
<1> DEFINE L == Len(Program(run[t].script))
           i == run[t].pc
<1>1. i \in 1..(L + 1) /\ L \in 1..10 /\ Good(run[t].script)
  BY AtWork
<1>2. ~(i > L)
  BY DEF AtEnd
<1> HIDE DEF L, i
<1>3. i \in 1..L /\ i + 1 \in 1..(L + 1)
  BY <1>1, <1>2
<1> QED
  BY <1>1, <1>3 DEF L, i, Good, Command

(* r is a state that the script of terminal t may go to. *)
Continues(t, r) ==
  \/ r = Idle
  \/ /\ r.script = run[t].script /\ r.stem = run[t].stem
     /\ r.pc \in 1..(Len(Program(r.script)) + 1)
     /\ r.script = "convert" /\ r.pc = 1 => run[t].pc = 1 /\ made' = made

(* Such a step leaves scripts apart and at their places. *)
LEMMA Moves ==
  ASSUME TypeOK, Isolated, Positions, NEW t \in Terminal, run[t] # Idle,
         NEW r, run' = [run EXCEPT ![t] = r], Continues(t, r),
         made' = made \/ run[t].script = "convert"
  PROVE  Isolated' /\ Positions'
<1>1. ASSUME NEW u \in Terminal
      PROVE  run'[u] = IF u = t THEN r ELSE run[u]
  BY DEF TypeOK
<1>2. run[t].script \in Script /\ run[t].script # "none" /\ "none" \notin Script
  BY AtWork DEF Script
<1>3. Idle.script = "none"
  BY DEF Idle
<1>4. \A u \in Terminal : run'[u] # Idle => run[u] # Idle /\ run'[u].script = run[u].script
  BY <1>1 DEF Continues
<1>5. Isolated'
  BY <1>4 DEF Isolated
<1>6. ASSUME NEW u \in Terminal
      PROVE  /\ run'[u].script = "none" => run'[u] = Idle
             /\ run'[u] # Idle => run'[u].pc \in 1..(Len(Program(run'[u].script)) + 1)
             /\ run'[u].script = "convert" /\ run'[u].pc = 1 => made' < MaxConversions
  <2>1. CASE u = t /\ r = Idle
    BY <1>1, <1>3, <2>1
  <2>2. CASE u = t /\ r # Idle
    BY <1>1, <1>2, <2>2 DEF Continues, Positions
  <2>3. CASE u # t
    <3>1. run'[u] = run[u]
      BY <1>1, <2>3
    <3>2. made' = made \/ run[u] = Idle
      BY <2>3 DEF Isolated, Alone
    <3> QED
      BY <1>3, <3>1, <3>2 DEF Positions
  <2> QED
    BY <2>1, <2>2, <2>3
<1> QED
  BY <1>5, <1>6 DEF Positions

(* What a terminal writes does not touch what the others are sure of. *)
LEMMA Others ==
  ASSUME IInv, NEW t \in Terminal, run[t] # Idle,
         run[t].script # "convert" =>
           \A n \in Name \ Owned(run[t].script) : disk'[n] = disk[n]
  PROVE  \A u \in Terminal : u # t /\ run[u] # Idle => Sure(run[u], disk')
<1> SUFFICES ASSUME NEW u \in Terminal, u # t, run[u] # Idle
             PROVE  Sure(run[u], disk')
  OBVIOUS
<1> DEFINE r == run[u]
           s == run[t].script
<1>1. r.script # s /\ r.script \notin Alone /\ s \notin Alone
  BY DEF IInv, Isolated
<1>2. r.script \in Script /\ s \in Script /\ r \in RunType /\ r.pc \in Nat
  <2>1. r.script \in Script /\ s \in Script /\ r \in RunType
    BY AtWork DEF IInv
  <2> QED
    BY <2>1 DEF RunType
<1>3. Sure(r, disk)
  BY DEF IInv, Working
<1>4. \A n \in Name \ Owned(s) : disk'[n] = disk[n]
  BY <1>1 DEF Alone
<1> HIDE DEF r, s
<1>5. \A n \in Fresh(r.script, r.pc) \cup Gone(r.script, r.pc) : disk'[n] = disk[n]
  <2>1. Fresh(r.script, r.pc) \cup Gone(r.script, r.pc) \subseteq Owned(r.script)
    BY <1>2, Commands
  <2>2. Owned(r.script) \subseteq Name /\ Owned(r.script) \cap Owned(s) = {}
    BY <1>1, <1>2, Commands
  <2> QED
    BY <1>4, <2>1, <2>2
<1>6. disk'[<<"config", r.stem>>] = disk[<<"config", r.stem>>]
  <2>1. <<"config", r.stem>> \in Name
    BY <1>2 DEF RunType, Name
  <2>2. <<"config", r.stem>> \notin Owned(s)
    BY <1>2, Commands
  <2> QED
    BY <1>4, <2>1, <2>2
<1>7. r.script # "xcframework"
  BY <1>1 DEF Alone
<1> QED
  BY <1>3, <1>5, <1>6, <1>7 DEF Sure, r

(* A step of terminal t that goes to r and writes what its script owns. *)
LEMMA Stepped ==
  ASSUME IInv, NEW t \in Terminal, run[t] # Idle, NEW r \in RunType,
         run' = [run EXCEPT ![t] = r], Continues(t, r),
         made' = made \/ run[t].script = "convert",
         run[t].script # "convert" =>
           \A n \in Name \ Owned(run[t].script) : disk'[n] = disk[n],
         r # Idle => Sure(r, disk'),
         plan' = plan, disk' \in [Name -> SUBSET Version], dirs' \subseteq InDirectory,
         exit' \in [Script -> {"never", "ok", "failed"}],
         made' \in 0..MaxConversions, budget' \in 0..plan.faults,
         OneConfig', NothingMisspelt', LibraryUniform'
  PROVE  IInv'
<1>1. Isolated' /\ Positions'
  BY Moves DEF IInv
<1>2. TypeOK'
  BY DEF IInv, TypeOK, RunType
<1>3. Working'
  <2>1. \A u \in Terminal : u # t /\ run[u] # Idle => Sure(run[u], disk')
    BY Others
  <2>2. \A u \in Terminal : run'[u] = IF u = t THEN r ELSE run[u]
    BY DEF IInv, TypeOK
  <2> QED
    BY <2>1, <2>2 DEF Working
<1> QED
  BY <1>1, <1>2, <1>3 DEF IInv

(* The same when the disk stays as it is. *)
LEMMA SteppedAside ==
  ASSUME IInv, NEW t \in Terminal, run[t] # Idle, NEW r \in RunType,
         run' = [run EXCEPT ![t] = r], Continues(t, r),
         r # Idle => Sure(r, disk),
         plan' = plan, made' = made, disk' = disk, dirs' \subseteq InDirectory,
         exit' \in [Script -> {"never", "ok", "failed"}], budget' \in 0..plan.faults
  PROVE  IInv'
<1>1. OneConfig' /\ NothingMisspelt' /\ LibraryUniform'
  BY DEF IInv, OneConfig, NothingMisspelt, LibraryUniform
<1>2. made' \in 0..MaxConversions /\ disk' \in [Name -> SUBSET Version]
  BY DEF IInv, TypeOK
<1> QED
  BY <1>1, <1>2, Stepped

(* One name that the script owns gets the content v. *)
LEMMA Written ==
  ASSUME IInv, NEW t \in Terminal, run[t] # Idle, NEW n \in Owned(run[t].script),
         NEW v \in SUBSET Version, disk' = [disk EXCEPT ![n] = v],
         n \in Lib => \A x, y \in v : x = y
  PROVE  /\ \A m \in Name : disk'[m] = IF m = n THEN v ELSE disk[m]
         /\ disk' \in [Name -> SUBSET Version]
         /\ \A m \in Name \ Owned(run[t].script) : disk'[m] = disk[m]
         /\ \A stem \in Stems : disk'[<<"config", stem>>] = disk[<<"config", stem>>]
         /\ OneConfig' /\ NothingMisspelt' /\ LibraryUniform'
<1> DEFINE s == run[t].script
<1>1. n \in Name /\ n[1] # "config" /\ n \notin Misspelt
  <2>1. s \in Script
    BY AtWork DEF IInv
  <2> QED
    BY <2>1, Commands
<1>2. \A m \in Name : disk'[m] = IF m = n THEN v ELSE disk[m]
  BY <1>1 DEF IInv, TypeOK
<1>3. disk' \in [Name -> SUBSET Version]
  BY <1>1 DEF IInv, TypeOK
<1>4. \A stem \in Stems : /\ <<"config", stem>> \in Name
                          /\ disk'[<<"config", stem>>] = disk[<<"config", stem>>]
  <2>1. \A stem \in Stems : <<"config", stem>> \in Name /\ <<"config", stem>> # n
    BY <1>1 DEF Name
  <2> QED
    BY <1>2, <2>1
<1>5. OneConfig'
  BY <1>4 DEF IInv, OneConfig
<1>6. NothingMisspelt'
  <2>1. \A a \in {"macos_x86_64", "macos_arm64"} : <<"comb", a>> \in Misspelt \cap Name
    BY DEF Misspelt, Name, CombId
  <2> QED
    BY <1>1, <1>2, <2>1 DEF IInv, NothingMisspelt
<1>7. LibraryUniform'
  <2>1. Lib \subseteq Name
    BY DEF Name
  <2> QED
    BY <1>2, <2>1 DEF IInv, LibraryUniform
<1> QED
  BY <1>2, <1>3, <1>4, <1>5, <1>6, <1>7

(* The shell goes on at command i. *)
Advanced(t, i, ok) == [run[t] EXCEPT !.pc = i, !.ok = ok, !.building = {}]

(* Going on keeps what the run has read and drops the build in progress. *)
LEMMA Advances ==
  ASSUME IInv, NEW t \in Terminal, run[t] # Idle, ~AtEnd(t), NEW ok \in BOOLEAN,
         NEW i \in 1..(Len(Program(run[t].script)) + 1), i # 1
  PROVE  LET r == Advanced(t, i, ok)
         IN /\ r \in RunType /\ r # Idle /\ Continues(t, r)
            /\ r.script = run[t].script /\ r.stem = run[t].stem /\ r.pc = i
            /\ r.building = {} /\ r.reads = run[t].reads
<1>1. /\ run[t] \in RunType /\ run[t].script # "none"
      /\ Len(Program(run[t].script)) \in 1..10
  BY AtWork DEF IInv
<1> DEFINE r == Advanced(t, i, ok)
           L == Len(Program(run[t].script))
<1>2. i \in 0..11
  <2>1. i \in 1..(L + 1) /\ L \in 1..10
    BY <1>1
  <2> HIDE DEF L
  <2> QED
    BY <2>1
<1>3. /\ r \in RunType
      /\ r.script = run[t].script /\ r.stem = run[t].stem /\ r.pc = i
      /\ r.building = {} /\ r.reads = run[t].reads
  BY <1>1, <1>2 DEF Advanced, RunType
<1>4. r # Idle
  BY <1>1, <1>3 DEF Idle
<1> HIDE DEF r
<1>5. Continues(t, r)
  BY <1>3 DEF Continues
<1> QED
  BY <1>3, <1>4, <1>5 DEF r

(* The same, to the next command. *)
LEMMA Proceeds ==
  ASSUME IInv, NEW t \in Terminal, run[t] # Idle, ~AtEnd(t), NEW ok \in BOOLEAN,
         Proceed(t, ok)
  PROVE  LET r == Advanced(t, run[t].pc + 1, ok)
         IN /\ run' = [run EXCEPT ![t] = r]
            /\ r \in RunType /\ r # Idle /\ Continues(t, r)
            /\ r.script = run[t].script /\ r.stem = run[t].stem /\ r.pc = run[t].pc + 1
            /\ r.building = {} /\ r.reads = run[t].reads
<1>1. /\ run[t].pc + 1 \in 1..(Len(Program(run[t].script)) + 1) /\ run[t].pc + 1 # 1
  <2>1. run[t].pc \in 1..Len(Program(run[t].script))
    BY AtACommand DEF IInv
  <2>2. run[t].pc + 1 \in 1..(Len(Program(run[t].script)) + 1)
    BY AtACommand DEF IInv
  <2> QED
    BY <2>1, <2>2
<1>2. run' = [run EXCEPT ![t] = Advanced(t, run[t].pc + 1, ok)]
  BY DEF Proceed, Advanced, IInv, TypeOK
<1> QED
  BY <1>1, <1>2, Advances

(* A command that leaves the disk alone leaves the run as sure as it was. *)
LEMMA Kept ==
  ASSUME NEW t \in Terminal, Sure(run[t], disk), NEW r, NEW d,
         \A n \in Name : d[n] = disk[n], run[t].stem \in Stems, run[t].script \in Script,
         run[t].pc \in Nat, r.script = run[t].script, r.stem = run[t].stem,
         r.building = {}, r.reads = run[t].reads, r.script # "xcframework",
         Keeps(r.script, run[t].pc, r.pc)
  PROVE  Sure(r, d)
<1>1. Fresh(r.script, run[t].pc) \cup Gone(r.script, run[t].pc) \subseteq Name
  BY Commands
<1>2. <<"config", r.stem>> \in Name
  BY DEF Name
<1> QED
  BY <1>1, <1>2 DEF Sure, Keeps

-----------------------------------------------------------------------------
(* What every command has to go by. *)
LEMMA At ==
  ASSUME IInv, NEW t \in Terminal, NEW op \in Op, AtCommand(t, op)
  PROVE  /\ run[t] # Idle /\ ~AtEnd(t)
         /\ Command(t).op = op
         /\ Placed(run[t].script, Command(t))
         /\ Ordered(run[t].script, run[t].pc, Command(t))
         /\ run[t].script \in Script /\ run[t].stem \in Stems /\ run[t].pc \in Nat
         /\ run[t] \in RunType /\ Sure(run[t], disk)
         /\ <<"config", run[t].stem>> \in Name
         /\ Owned(run[t].script) \subseteq Name
<1>1. run[t] # Idle /\ ~AtEnd(t) /\ Command(t).op = op
  BY DEF AtCommand
<1>2. run[t].script \in Script /\ run[t] \in RunType
  BY <1>1, AtWork DEF IInv
<1>3. Fits(run[t].script, run[t].pc, Command(t))
  BY <1>1, AtACommand DEF IInv
<1>4. Sure(run[t], disk)
  BY <1>1 DEF IInv, Working
<1>5. run[t].stem \in Stems /\ run[t].pc \in Nat
  BY <1>2 DEF RunType
<1> QED
  BY <1>1, <1>2, <1>3, <1>4, <1>5, Commands DEF Fits, Name

(* A conversion changes configurations while nothing else runs. *)
LEMMA ConvertStep ==
  ASSUME IInv, NEW t \in Terminal, Convert(t)
  PROVE  IInv'
<1> DEFINE r == Advanced(t, run[t].pc + 1, TRUE)
           stem == run[t].stem
<1>1. /\ run[t] # Idle /\ ~AtEnd(t) /\ Command(t).op = "convert"
      /\ Ordered(run[t].script, run[t].pc, Command(t))
      /\ stem \in Stems /\ run[t] \in RunType /\ Sure(run[t], disk)
  BY At DEF Convert, Op
<1>2. run[t].script = "convert" /\ run[t].pc = 1
  BY <1>1 DEF Ordered
<1>3. /\ run' = [run EXCEPT ![t] = r]
      /\ r \in RunType /\ r # Idle /\ Continues(t, r)
      /\ r.script = "convert" /\ r.stem = stem
      /\ r.building = {} /\ r.reads = run[t].reads
  BY <1>1, <1>2, Proceeds DEF Convert
<1> HIDE DEF r
<1>4. made' \in Version /\ made' \in 0..MaxConversions
  <2>1. made < MaxConversions /\ made \in 0..MaxConversions /\ made' = made + 1
    BY <1>2 DEF IInv, Positions, TypeOK, Convert
  <2> QED
    BY <2>1, PipelineConstants DEF Version
<1>5. /\ <<"ort", stem>> \in Name /\ <<"config", stem>> \in Name
      /\ <<"ort", stem>> # <<"config", stem>>
  BY <1>1 DEF Name
<1>6. \A n \in Name : disk'[n] = IF n \in {<<"ort", stem>>, <<"config", stem>>} THEN {made'}
                                 ELSE disk[n]
  BY <1>5 DEF Convert, IInv, TypeOK
<1>7. disk' \in [Name -> SUBSET Version]
  BY <1>4, <1>5 DEF Convert, IInv, TypeOK
<1>8. OneConfig'
  <2>1. \A st \in Stems : /\ <<"config", st>> \in Name /\ <<"config", st>> # <<"ort", stem>>
                          /\ <<"config", st>> = <<"config", stem>> <=> st = stem
    BY DEF Name
  <2> QED
    BY <1>6, <2>1 DEF IInv, OneConfig
<1>9. NothingMisspelt'
  <2>1. \A a \in {"macos_x86_64", "macos_arm64"} :
          /\ <<"comb", a>> \in Name
          /\ <<"comb", a>> \notin {<<"ort", stem>>, <<"config", stem>>}
    BY DEF Name, CombId
  <2> QED
    BY <1>6, <2>1 DEF IInv, NothingMisspelt
<1>10. LibraryUniform'
  <2>1. \A l \in Lib : l \in Name /\ l \notin {<<"ort", stem>>, <<"config", stem>>}
    BY Libraries DEF Name
  <2>2. \A l \in Lib : disk'[l] = disk[l]
    BY <1>6, <2>1
  <2> QED
    BY <2>2 DEF IInv, LibraryUniform
<1>11. Sure(r, disk')
  <2>1. r.reads = {} /\ r.building = {}
    <3>1. Sure(run[t], disk)
      BY <1>1
    <3>2. run[t].reads = {}
      BY <1>2, <3>1, SMTT(30) DEF Sure
    <3> QED
      BY <1>3, <3>2
  <2> QED
    BY <1>3, <2>1 DEF Sure, Fresh, Gone
<1> QED
  BY <1>1, <1>2, <1>3, <1>4, <1>7, <1>8, <1>9, <1>10, <1>11, Stepped
  DEF Convert, IInv, TypeOK

(* A build that starts reads the configuration that others of its run read. *)
LEMMA BuildStartStep ==
  ASSUME IInv, NEW t \in Terminal, BuildStart(t)
  PROVE  IInv'
<1> DEFINE s == run[t].script
           c == Command(t)
           config == disk[<<"config", run[t].stem>>]
           r == [run[t] EXCEPT !.building = config, !.reads = @ \cup config]
           v == disk[c.out] \cup config
<1>1. /\ run[t] # Idle /\ c.op = "build" /\ Placed(s, c) /\ Ordered(s, run[t].pc, c)
      /\ s \in Script /\ run[t].stem \in Stems /\ run[t] \in RunType /\ Sure(run[t], disk)
      /\ <<"config", run[t].stem>> \in Name /\ Owned(s) \subseteq Name
  BY At DEF BuildStart, Op
<1>2. c.out \in Owned(s) /\ c.out \notin Lib /\ Makes(s, run[t].pc, c) /\ s # "convert"
  BY <1>1 DEF Placed, Ordered
<1>3. v \in SUBSET Version /\ config \in SUBSET Version
  BY <1>1, <1>2 DEF IInv, TypeOK
<1>4. disk' = [disk EXCEPT ![c.out] = v] /\ run' = [run EXCEPT ![t] = r]
  BY DEF BuildStart, IInv, TypeOK
<1> HIDE DEF v
<1>5. /\ \A m \in Name : disk'[m] = IF m = c.out THEN v ELSE disk[m]
      /\ disk' \in [Name -> SUBSET Version]
      /\ \A m \in Name \ Owned(s) : disk'[m] = disk[m]
      /\ disk'[<<"config", run[t].stem>>] = config
      /\ OneConfig' /\ NothingMisspelt' /\ LibraryUniform'
  BY <1>1, <1>2, <1>3, <1>4, Written
<1>6. /\ r \in RunType /\ r.script = s /\ r.stem = run[t].stem /\ r.pc = run[t].pc
      /\ r.building = config /\ r.reads = run[t].reads \cup config /\ r.ok = run[t].ok
  BY <1>1, <1>3 DEF RunType
<1> HIDE DEF r
<1>7. r.reads = config /\ r.script # "xcframework"
  BY <1>1, <1>2, <1>6 DEF Sure, Ordered
<1>8. Sure(r, disk')
  <2>1. Gone(s, run[t].pc) = {} /\ \A n \in Fresh(s, run[t].pc) : n # c.out
    BY <1>2 DEF Makes
  <2>2. Fresh(s, run[t].pc) \subseteq Name
    BY <1>1, Commands DEF RunType
  <2> QED
    BY <1>1, <1>2, <1>5, <1>6, <1>7, <2>1, <2>2 DEF Sure
<1>9. Continues(t, r)
  BY <1>1, <1>2, <1>6, AtWork DEF Continues, IInv
<1> QED
  BY <1>1, <1>4, <1>5, <1>6, <1>8, <1>9, Stepped DEF BuildStart, IInv, TypeOK

(* A command that makes c.out, from what the run is sure of. *)
LEMMA Made ==
  ASSUME IInv, NEW t \in Terminal, AtCommand(t, Command(t).op),
         Command(t).op \in {"build", "combine"}, run[t].script # "convert",
         Makes(run[t].script, run[t].pc, Command(t)),
         NEW v, v = disk[<<"config", run[t].stem>>], run[t].reads = v,
         disk' = [disk EXCEPT ![Command(t).out] = v],
         Proceed(t, TRUE), UNCHANGED <<plan, dirs, exit, made, budget>>
  PROVE  IInv'
<1> DEFINE s == run[t].script
           c == Command(t)
           r == Advanced(t, run[t].pc + 1, TRUE)
<1>1. /\ run[t] # Idle /\ ~AtEnd(t) /\ Placed(s, c) /\ Ordered(s, run[t].pc, c)
      /\ s \in Script /\ run[t].stem \in Stems /\ run[t] \in RunType /\ Sure(run[t], disk)
      /\ <<"config", run[t].stem>> \in Name /\ Owned(s) \subseteq Name
  BY At DEF Op
<1>2. c.out \in Owned(s) /\ s # "xcframework"
  BY <1>1 DEF Placed, Ordered
<1>3. v \in SUBSET Version /\ \A x, y \in v : x = y
  BY <1>1 DEF IInv, TypeOK, OneConfig
<1>4. /\ \A m \in Name : disk'[m] = IF m = c.out THEN v ELSE disk[m]
      /\ disk' \in [Name -> SUBSET Version]
      /\ \A m \in Name \ Owned(s) : disk'[m] = disk[m]
      /\ disk'[<<"config", run[t].stem>>] = v
      /\ OneConfig' /\ NothingMisspelt' /\ LibraryUniform'
  BY <1>1, <1>2, <1>3, Written
<1>5. /\ run' = [run EXCEPT ![t] = r]
      /\ r \in RunType /\ r # Idle /\ Continues(t, r)
      /\ r.script = s /\ r.stem = run[t].stem /\ r.pc = run[t].pc + 1
      /\ r.building = {} /\ r.reads = run[t].reads
  BY <1>1, Proceeds
<1> HIDE DEF r
<1>6. Sure(r, disk')
  <2>1. /\ Gone(s, r.pc) = {}
        /\ \A n \in Fresh(s, r.pc) : n \in Fresh(s, run[t].pc) \/ n = c.out
    BY <1>5 DEF Makes
  <2>2. Fresh(s, r.pc) \subseteq Name
    BY <1>1, <1>5, Commands DEF RunType
  <2>3. \A n \in Fresh(s, r.pc) : disk'[n] = v
    BY <1>1, <1>4, <2>1, <2>2 DEF Sure
  <2> QED
    BY <1>1, <1>2, <1>4, <1>5, <2>1, <2>3 DEF Sure
<1> QED
  BY <1>1, <1>4, <1>5, <1>6, Stepped DEF IInv, TypeOK

(* A build that ends leaves a tree of its configuration. *)
LEMMA BuildEndStep ==
  ASSUME IInv, NEW t \in Terminal, BuildEnd(t)
  PROVE  IInv'
<1>1. /\ Command(t).op = "build" /\ Ordered(run[t].script, run[t].pc, Command(t))
      /\ Sure(run[t], disk)
  BY At DEF BuildEnd, Op
<1>2. /\ run[t].building = disk[<<"config", run[t].stem>>]
      /\ run[t].reads = disk[<<"config", run[t].stem>>]
  BY <1>1 DEF Sure, BuildEnd
<1>3. run[t].script # "convert" /\ Makes(run[t].script, run[t].pc, Command(t))
  BY <1>1 DEF Ordered
<1> QED
  BY <1>1, <1>2, <1>3, Made DEF BuildEnd

(* What a combining command of a build script puts together is what its run *)
(* has read.                                                                 *)
LEMMA Combined ==
  ASSUME IInv, NEW t \in Terminal, AtCommand(t, "combine"), CanCombine(Command(t)),
         run[t].script # "convert"
  PROVE  /\ UNION {disk[Resolve(n)] : n \in Command(t).in} = disk[<<"config", run[t].stem>>]
         /\ run[t].reads = disk[<<"config", run[t].stem>>]
         /\ Makes(run[t].script, run[t].pc, Command(t))
<1> DEFINE s == run[t].script
           c == Command(t)
           config == disk[<<"config", run[t].stem>>]
<1>1. /\ c.op = "combine" /\ Ordered(s, run[t].pc, c) /\ Sure(run[t], disk)
  BY At DEF Op
<1>2. ~(CaseSensitive /\ \E n \in c.in : Resolve(n) \in Misspelt)
  BY DEF CanCombine, IInv, NothingMisspelt, Misspelt
<1>3. /\ c.in # {} /\ \A n \in c.in : Resolve(n) \in Fresh(s, run[t].pc)
      /\ Makes(s, run[t].pc, c)
  BY <1>1, <1>2 DEF Ordered
<1>4. \A n \in c.in : disk[Resolve(n)] = config /\ run[t].reads = config
  BY <1>1, <1>3 DEF Sure
<1> HIDE DEF c, config
<1>5. UNION {disk[Resolve(n)] : n \in c.in} = config /\ run[t].reads = config
  BY <1>3, <1>4
<1> QED
  BY <1>3, <1>5 DEF c, config

(* A command that combines makes its output of fresh names, or runs alone. *)
LEMMA CombineStep ==
  ASSUME IInv, NEW t \in Terminal, Combine(t)
  PROVE  IInv'
<1> DEFINE s == run[t].script
           c == Command(t)
           r == Advanced(t, run[t].pc + 1, TRUE)
           v == UNION {disk[Resolve(n)] : n \in c.in}
<1>1. /\ run[t] # Idle /\ ~AtEnd(t) /\ c.op \in {"combine", "create"}
      /\ Placed(s, c) /\ Ordered(s, run[t].pc, c)
      /\ s \in Script /\ run[t].stem \in Stems /\ run[t] \in RunType /\ Sure(run[t], disk)
      /\ <<"config", run[t].stem>> \in Name /\ Owned(s) \subseteq Name
  BY At DEF Combine, Op
<1>2. CASE c.op = "combine" /\ s # "convert"
  <2>1. AtCommand(t, "combine") /\ CanCombine(c)
    BY <1>2 DEF Combine, AtCommand
  <2>2. /\ v = disk[<<"config", run[t].stem>>] /\ run[t].reads = v
        /\ Makes(s, run[t].pc, c)
    BY <1>2, <2>1, Combined
  <2>3. disk' = [disk EXCEPT ![c.out] = v]
    BY DEF Combine
  <2> HIDE DEF v
  <2> QED
    BY <1>2, <2>1, <2>2, <2>3, Made DEF Combine
<1>3. CASE c.op = "create" \/ s = "convert"
  <2>1. c.out \in Owned(s) /\ c.out \notin Lib
    <3>1. Owned("convert") \cap Lib = {}
      BY Libraries DEF Owned
    <3> QED
      BY <1>1, <1>3, <3>1 DEF Placed
  <2>2. v \in SUBSET Version
    BY <1>1 DEF Placed, IInv, TypeOK
  <2>3. disk' = [disk EXCEPT ![c.out] = v]
    BY DEF Combine
  <2> HIDE DEF v
  <2>4. /\ \A m \in Name : disk'[m] = IF m = c.out THEN v ELSE disk[m]
        /\ disk' \in [Name -> SUBSET Version]
        /\ \A m \in Name \ Owned(s) : disk'[m] = disk[m]
        /\ disk'[<<"config", run[t].stem>>] = disk[<<"config", run[t].stem>>]
        /\ OneConfig' /\ NothingMisspelt' /\ LibraryUniform'
    BY <1>1, <2>1, <2>2, <2>3, Written
  <2>5. /\ run' = [run EXCEPT ![t] = r]
        /\ r \in RunType /\ r # Idle /\ Continues(t, r)
        /\ r.script = s /\ r.stem = run[t].stem /\ r.pc = run[t].pc + 1
        /\ r.building = {} /\ r.reads = run[t].reads
    BY <1>1, Proceeds DEF Combine
  <2> HIDE DEF r
  <2>6. Fresh(s, r.pc) = {} /\ Gone(s, r.pc) = {} /\ s \in {"xcframework", "convert"}
    BY <1>1, <1>3 DEF Ordered, Fresh, Gone
  <2>7. s = "xcframework" =>
          disk'[<<"xcf", "onnxruntime">>] = UNION {disk'[l] : l \in AppleLibs}
    <3> SUFFICES ASSUME s = "xcframework"
                 PROVE  disk'[<<"xcf", "onnxruntime">>] = UNION {disk'[l] : l \in AppleLibs}
      OBVIOUS
    <3>1. c.in = AppleLibs /\ c.out = <<"xcf", "onnxruntime">>
      BY <1>1 DEF Ordered
    <3>2. \A l \in AppleLibs : /\ Resolve(l) = l /\ l \in Name /\ l # <<"xcf", "onnxruntime">>
      BY Libraries DEF AppleLibs, Resolve, Name
    <3>3. \A l \in AppleLibs : disk'[l] = disk[Resolve(l)]
      BY <2>4, <3>1, <3>2
    <3>4. disk'[<<"xcf", "onnxruntime">>] = v
      BY <2>4, <3>1 DEF Name
    <3>5. v = UNION {disk[Resolve(n)] : n \in AppleLibs}
      BY <3>1 DEF v
    <3>6. UNION {disk[Resolve(n)] : n \in AppleLibs} = UNION {disk'[l] : l \in AppleLibs}
      BY <3>3
    <3> QED
      BY <3>4, <3>5, <3>6
  <2>8. Sure(r, disk')
    BY <1>1, <2>4, <2>5, <2>6, <2>7 DEF Sure
  <2> QED
    BY <1>1, <2>4, <2>5, <2>8, Stepped DEF Combine, IInv, TypeOK
<1> QED
  BY <1>1, <1>2, <1>3

(* Making directories and finding tools writes nothing. *)
LEMMA DirectoryStep ==
  ASSUME IInv, NEW t \in Terminal, MakeDirectory(t) \/ WindowsTool(t)
  PROVE  IInv'
<1> DEFINE s == run[t].script
           c == Command(t)
           r == Advanced(t, run[t].pc + 1, TRUE)
<1>1. /\ run[t] # Idle /\ ~AtEnd(t) /\ c.op \in {"mkdir", "newdir", "vswhere", "vcvars"}
      /\ Placed(s, c) /\ Ordered(s, run[t].pc, c)
      /\ s \in Script /\ run[t].stem \in Stems /\ run[t] \in RunType /\ Sure(run[t], disk)
      /\ run[t].pc \in Nat
  BY At DEF MakeDirectory, WindowsTool, Op
<1>2. Keeps(s, run[t].pc, run[t].pc + 1) /\ s # "xcframework"
  BY <1>1 DEF Ordered
<1>3. /\ run' = [run EXCEPT ![t] = r]
      /\ r \in RunType /\ r # Idle /\ Continues(t, r)
      /\ r.script = s /\ r.stem = run[t].stem /\ r.pc = run[t].pc + 1
      /\ r.building = {} /\ r.reads = run[t].reads
  BY <1>1, Proceeds DEF MakeDirectory, WindowsTool
<1> HIDE DEF r
<1>4. Sure(r, disk)
  BY <1>1, <1>2, <1>3, Kept
<1>5. dirs' \subseteq InDirectory
  BY <1>1 DEF Placed, AtCommand, MakeDirectory, WindowsTool, IInv, TypeOK
<1>6. /\ plan' = plan /\ made' = made /\ made \in 0..MaxConversions /\ disk' = disk
      /\ exit' \in [Script -> {"never", "ok", "failed"}] /\ budget' \in 0..plan.faults
  BY DEF MakeDirectory, WindowsTool, IInv, TypeOK
<1> QED
  BY <1>1, <1>3, <1>4, <1>5, <1>6, SteppedAside

(* Removing an intermediate takes it from the fresh names to those gone. *)
LEMMA RemoveStep ==
  ASSUME IInv, NEW t \in Terminal, Remove(t)
  PROVE  IInv'
<1> DEFINE s == run[t].script
           c == Command(t)
           n == Resolve(c.out)
           r == Advanced(t, run[t].pc + 1, TRUE)
<1>1. /\ run[t] # Idle /\ ~AtEnd(t) /\ c.op = "rm"
      /\ Placed(s, c) /\ Ordered(s, run[t].pc, c)
      /\ s \in Script /\ run[t].stem \in Stems /\ run[t] \in RunType /\ Sure(run[t], disk)
      /\ <<"config", run[t].stem>> \in Name /\ Owned(s) \subseteq Name
      /\ run[t].pc \in Nat
  BY At DEF Remove, Op
<1>2. ~(CaseSensitive /\ n \in Misspelt)
  BY DEF Remove, IInv, NothingMisspelt, Misspelt
<1>3. /\ n \in Owned(s) \ Lib
      /\ Fresh(s, run[t].pc + 1) \subseteq Fresh(s, run[t].pc) \ {n}
      /\ Gone(s, run[t].pc + 1) \subseteq Gone(s, run[t].pc) \cup {n}
      /\ s # "xcframework"
  BY <1>1, <1>2 DEF Placed, Ordered
<1> DEFINE v == {}
<1>4. disk' = [disk EXCEPT ![n] = v] /\ v \in SUBSET Version /\ v = {}
  BY DEF Remove
<1> HIDE DEF n, v
<1>5. /\ \A m \in Name : disk'[m] = IF m = n THEN v ELSE disk[m]
      /\ disk' \in [Name -> SUBSET Version]
      /\ \A m \in Name \ Owned(s) : disk'[m] = disk[m]
      /\ disk'[<<"config", run[t].stem>>] = disk[<<"config", run[t].stem>>]
      /\ OneConfig' /\ NothingMisspelt' /\ LibraryUniform'
  <2>1. n \in Owned(run[t].script) /\ (n \in Lib => \A x, y \in v : x = y)
    BY <1>3
  <2>2. /\ \A m \in Name : disk'[m] = IF m = n THEN v ELSE disk[m]
        /\ disk' \in [Name -> SUBSET Version]
        /\ \A m \in Name \ Owned(run[t].script) : disk'[m] = disk[m]
        /\ \A stem \in Stems : disk'[<<"config", stem>>] = disk[<<"config", stem>>]
        /\ OneConfig' /\ NothingMisspelt' /\ LibraryUniform'
    BY <1>1, <1>4, <2>1, Written
  <2> QED
    BY <1>1, <2>2
<1>6. /\ run' = [run EXCEPT ![t] = r]
      /\ r \in RunType /\ r # Idle /\ Continues(t, r)
      /\ r.script = s /\ r.stem = run[t].stem /\ r.pc = run[t].pc + 1
      /\ r.building = {} /\ r.reads = run[t].reads
  BY <1>1, Proceeds DEF Remove
<1> HIDE DEF r
<1>7. Sure(r, disk')
  <2>1. Fresh(s, run[t].pc) \cup Gone(s, run[t].pc) \subseteq Name
    BY <1>1, Commands
  <2>2. \A m \in Fresh(s, r.pc) : disk'[m] = disk[m] /\ m \in Fresh(s, run[t].pc)
    BY <1>3, <1>5, <1>6, <2>1
  <2>3. \A m \in Gone(s, r.pc) : disk'[m] = {}
    BY <1>1, <1>3, <1>4, <1>5, <1>6, <2>1 DEF Sure
  <2> QED
    BY <1>1, <1>3, <1>5, <1>6, <2>2, <2>3 DEF Sure
<1>8. /\ plan' = plan /\ made' = made /\ made \in 0..MaxConversions /\ dirs' \subseteq InDirectory
      /\ exit' \in [Script -> {"never", "ok", "failed"}] /\ budget' \in 0..plan.faults
  BY DEF Remove, IInv, TypeOK
<1> QED
  BY <1>1, <1>5, <1>6, <1>7, <1>8, Stepped

(* rm -R ./model/ removes the header only. *)
LEMMA RemoveDirectoryStep ==
  ASSUME IInv, NEW t \in Terminal, RemoveDirectory(t)
  PROVE  IInv'
<1> DEFINE s == run[t].script
           c == Command(t)
           r == Advanced(t, run[t].pc + 1, TRUE)
<1>1. /\ run[t] # Idle /\ ~AtEnd(t) /\ c.op = "rmdir"
      /\ Placed(s, c) /\ Ordered(s, run[t].pc, c)
      /\ s \in Script /\ run[t].stem \in Stems /\ run[t] \in RunType /\ Sure(run[t], disk)
      /\ <<"config", run[t].stem>> \in Name /\ Owned(s) \subseteq Name
  BY At DEF RemoveDirectory, Op
<1>2. c.out \in Owned(s) \ Lib /\ s = "convert"
  BY <1>1 DEF Placed, Ordered
<1> DEFINE v == {}
<1>3. disk' = [disk EXCEPT ![c.out] = v] /\ v \in SUBSET Version
  BY DEF RemoveDirectory
<1> HIDE DEF v
<1>4. /\ disk' \in [Name -> SUBSET Version]
      /\ \A m \in Name \ Owned(s) : disk'[m] = disk[m]
      /\ disk'[<<"config", run[t].stem>>] = disk[<<"config", run[t].stem>>]
      /\ OneConfig' /\ NothingMisspelt' /\ LibraryUniform'
  BY <1>1, <1>2, <1>3, Written
<1>5. /\ run' = [run EXCEPT ![t] = r]
      /\ r \in RunType /\ r # Idle /\ Continues(t, r)
      /\ r.script = s /\ r.stem = run[t].stem
      /\ r.building = {} /\ r.reads = run[t].reads
  BY <1>1, Proceeds DEF RemoveDirectory
<1> HIDE DEF r
<1>6. Sure(r, disk')
  BY <1>1, <1>2, <1>4, <1>5 DEF Sure, Fresh, Gone
<1>7. /\ plan' = plan /\ made' = made /\ made \in 0..MaxConversions /\ dirs' \subseteq InDirectory
      /\ exit' \in [Script -> {"never", "ok", "failed"}] /\ budget' \in 0..plan.faults
  BY DEF RemoveDirectory, IInv, TypeOK
<1> QED
  BY <1>1, <1>4, <1>5, <1>6, <1>7, Stepped

(* A run that ends: at its last command, at one that fails, or interrupted. *)
LEMMA FinishStep ==
  ASSUME IInv, NEW t \in Terminal, run[t] # Idle,
         NEW status \in {"ok", "failed"}, Finish(t, status),
         UNCHANGED <<plan, disk, dirs, made>>, budget' \in 0..plan.faults
  PROVE  IInv'
<1>1. Idle \in RunType
  BY PipelineConstants DEF Idle, RunType
<1>2. run' = [run EXCEPT ![t] = Idle] /\ Continues(t, Idle)
  BY DEF Finish, Continues
<1>3. exit' \in [Script -> {"never", "ok", "failed"}]
  BY DEF Finish, IInv, TypeOK
<1>4. dirs' \subseteq InDirectory
  BY DEF IInv, TypeOK
<1> QED
  BY <1>1, <1>2, <1>3, <1>4, SteppedAside

(* The end of a script, and ^C. *)
LEMMA EndStep ==
  ASSUME IInv, NEW t \in Terminal, Exit(t) \/ Interrupt(t)
  PROVE  IInv'
<1>1. CASE Exit(t)
  <2>1. run[t] # Idle /\ budget' \in 0..plan.faults
    BY <1>1 DEF Exit, AtEnd, IInv, TypeOK
  <2>2. UNCHANGED <<plan, disk, dirs, made>>
    BY <1>1 DEF Exit
  <2>3. CASE run[t].ok
    BY <1>1, <2>1, <2>2, <2>3, FinishStep DEF Exit
  <2>4. CASE ~run[t].ok
    BY <1>1, <2>1, <2>2, <2>4, FinishStep DEF Exit
  <2> QED
    BY <2>3, <2>4
<1>2. CASE Interrupt(t)
  <2>1. budget' \in 0..plan.faults
    <3>1. plan.faults \in Nat /\ budget \in 0..plan.faults
      BY PipelineConstants DEF IInv, TypeOK
    <3> QED
      BY <1>2, <3>1 DEF Interrupt
  <2> QED
    BY <1>2, <2>1, FinishStep DEF Interrupt
<1> QED
  BY <1>1, <1>2

(* A command that fails may leave a .ort file, and nothing else. *)
LEMMA LeftBehind ==
  ASSUME IInv, NEW t \in Terminal, run[t] # Idle,
         NEW stem \in Stems, made < MaxConversions, made' = made + 1,
         disk' = [disk EXCEPT ![<<"ort", stem>>] = {made'}]
  PROVE  /\ disk' \in [Name -> SUBSET Version] /\ made' \in 0..MaxConversions
         /\ OneConfig' /\ NothingMisspelt' /\ LibraryUniform'
<1>1. made' \in Version /\ made' \in 0..MaxConversions
  <2>1. made \in 0..MaxConversions
    BY DEF IInv, TypeOK
  <2> QED
    BY <2>1, PipelineConstants DEF Version
<1>2. <<"ort", stem>> \in Name
  BY DEF Name
<1>3. /\ disk' \in [Name -> SUBSET Version]
      /\ \A n \in Name : n # <<"ort", stem>> => disk'[n] = disk[n]
  BY <1>1, <1>2 DEF IInv, TypeOK
<1>4. OneConfig'
  <2>1. \A st \in Stems : <<"config", st>> \in Name /\ <<"config", st>> # <<"ort", stem>>
    BY DEF Name
  <2> QED
    BY <1>3, <2>1 DEF IInv, OneConfig
<1>5. NothingMisspelt'
  <2>1. \A a \in {"macos_x86_64", "macos_arm64"} :
          <<"comb", a>> \in Name /\ <<"comb", a>> # <<"ort", stem>>
    BY DEF Name, CombId
  <2> QED
    BY <1>3, <2>1 DEF IInv, NothingMisspelt
<1>6. LibraryUniform'
  <2>1. \A l \in Lib : l \in Name /\ l # <<"ort", stem>>
    BY Libraries DEF Name
  <2> QED
    BY <1>3, <2>1 DEF IInv, LibraryUniform
<1> QED
  BY <1>1, <1>3, <1>4, <1>5, <1>6

(* A command that fails ends the script, or goes on with no more than before. *)
LEMMA FailStep ==
  ASSUME IInv, NEW t \in Terminal, Fail(t)
  PROVE  IInv'
<1> DEFINE s == run[t].script
           c == Command(t)
<1>1. /\ run[t] # Idle /\ ~AtEnd(t)
      /\ Placed(s, c) /\ Ordered(s, run[t].pc, c)
      /\ s \in Script /\ run[t].stem \in Stems /\ run[t].pc \in Nat /\ Sure(run[t], disk)
  <2>1. run[t] # Idle /\ ~AtEnd(t)
    BY DEF Fail
  <2>2. Fits(s, run[t].pc, c)
    BY <2>1, AtACommand DEF IInv
  <2>3. AtCommand(t, c.op) /\ c.op \in Op
    BY <2>1, <2>2 DEF AtCommand, Fits, Placed
  <2> QED
    BY <2>3, At
<1>2. budget' \in 0..plan.faults
  <2>1. plan.faults \in Nat /\ budget \in 0..plan.faults
    BY PipelineConstants DEF IInv, TypeOK
  <2> QED
    BY <2>1 DEF Fail
<1>3. \/ UNCHANGED <<disk, made>>
      \/ /\ s = "convert" /\ made < MaxConversions /\ made' = made + 1
         /\ disk' = [disk EXCEPT ![<<"ort", run[t].stem>>] = {made'}]
  BY <1>1 DEF Fail, Ordered
<1>4. /\ disk' \in [Name -> SUBSET Version] /\ made' \in 0..MaxConversions
      /\ OneConfig' /\ NothingMisspelt' /\ LibraryUniform'
  <2>1. CASE UNCHANGED <<disk, made>>
    BY <2>1 DEF IInv, TypeOK, OneConfig, NothingMisspelt, LibraryUniform
  <2>2. CASE ~UNCHANGED <<disk, made>>
    BY <1>1, <1>3, <2>2, LeftBehind
  <2> QED
    BY <2>1, <2>2
<1>5. plan' = plan /\ dirs' = dirs /\ dirs \subseteq InDirectory
  BY DEF Fail, IInv, TypeOK
<1>6. ASSUME NEW r \in RunType, r # Idle,
             run' = [run EXCEPT ![t] = r], Continues(t, r), exit' = exit,
             r.script = s, r.stem = run[t].stem, r.building = {}, r.reads = run[t].reads,
             s # "xcframework", Keeps(s, run[t].pc, r.pc)
      PROVE  IInv'
  <2>1. Sure(r, disk')
    <3>1. CASE s = "convert"
      <4>1. r.reads = {}
        BY <1>1, <1>6, <3>1 DEF Sure
      <4> QED
        BY <1>6, <3>1, <4>1 DEF Sure, Fresh, Gone
    <3>2. CASE s # "convert"
      BY <1>1, <1>3, <1>6, <3>2, Kept
    <3> QED
      BY <3>1, <3>2
  <2>2. exit' \in [Script -> {"never", "ok", "failed"}]
    BY <1>6 DEF IInv, TypeOK
  <2>3. made' = made \/ s = "convert"
    BY <1>3
  <2>4. s # "convert" => \A n \in Name \ Owned(s) : disk'[n] = disk[n]
    BY <1>3
  <2> QED
    BY <1>1, <1>2, <1>4, <1>5, <1>6, <2>1, <2>2, <2>3, <2>4, Stepped
<1>7. CASE Finish(t, "failed")
  <2>1. Idle \in RunType
    BY PipelineConstants DEF Idle, RunType
  <2>2. run' = [run EXCEPT ![t] = Idle] /\ Continues(t, Idle)
    BY <1>7 DEF Finish, Continues
  <2>3. exit' \in [Script -> {"never", "ok", "failed"}]
    BY <1>7 DEF Finish, IInv, TypeOK
  <2>4. made' = made \/ s = "convert"
    BY <1>3
  <2>5. s # "convert" => \A n \in Name \ Owned(s) : disk'[n] = disk[n]
    BY <1>3
  <2> QED
    BY <1>1, <1>2, <1>4, <1>5, <2>1, <2>2, <2>3, <2>4, <2>5, Stepped
<1>8. CASE c.onFail = "skip" /\ Proceed(t, FALSE) /\ UNCHANGED exit
  <2>1. Keeps(s, run[t].pc, run[t].pc + 1) /\ s # "xcframework"
    BY <1>1, <1>8 DEF Ordered
  <2> DEFINE r == Advanced(t, run[t].pc + 1, FALSE)
  <2>2. /\ run' = [run EXCEPT ![t] = r]
        /\ r \in RunType /\ r # Idle /\ Continues(t, r)
        /\ r.script = s /\ r.stem = run[t].stem /\ r.pc = run[t].pc + 1
        /\ r.building = {} /\ r.reads = run[t].reads
    BY <1>1, <1>8, Proceeds
  <2> HIDE DEF r
  <2> QED
    BY <1>6, <1>8, <2>1, <2>2
<1>9. CASE /\ c.onFail = "leave"
           /\ run' = [run EXCEPT ![t].pc = AfterBat(run[t].pc), ![t].building = {}]
           /\ UNCHANGED exit
  <2>1. /\ AfterBat(run[t].pc) \in 1..(Len(Program(s)) + 1)
        /\ Keeps(s, run[t].pc, AfterBat(run[t].pc)) /\ s = "win"
    BY <1>1, <1>9 DEF Ordered
  <2>2. AfterBat(run[t].pc) # 1
    BY DEF AfterBat
  <2> DEFINE i == AfterBat(run[t].pc)
             r == Advanced(t, i, run[t].ok)
  <2>3. run[t].ok \in BOOLEAN
    BY DEF IInv, TypeOK
  <2>4. run' = [run EXCEPT ![t] = r]
    BY <1>9, <2>3 DEF Advanced, IInv, TypeOK
  <2> HIDE DEF i
  <2>5. i \in 1..(Len(Program(s)) + 1) /\ i # 1 /\ Keeps(s, run[t].pc, i)
    BY <2>1, <2>2 DEF i
  <2>6. /\ r \in RunType /\ r # Idle /\ Continues(t, r)
        /\ r.script = s /\ r.stem = run[t].stem /\ r.pc = i
        /\ r.building = {} /\ r.reads = run[t].reads
    BY <1>1, <2>3, <2>5, Advances
  <2> HIDE DEF r
  <2> QED
    BY <1>6, <1>9, <2>1, <2>4, <2>5, <2>6
<1> QED
  BY <1>7, <1>8, <1>9 DEF Fail, React

(* A script starts sure of nothing, and apart from the others. *)
LEMMA LaunchStep ==
  ASSUME IInv, NEW t \in Terminal, NEW s \in Script, NEW stem \in Stems, Launch(t, s, stem)
  PROVE  IInv'
<1> DEFINE r == [Idle EXCEPT !.script = s, !.stem = stem, !.pc = 1]
<1>1. /\ r.script = s /\ r.pc = 1 /\ r.building = {} /\ r.reads = {}
      /\ r \in RunType /\ s # "none"
  <2>1. Idle \in RunType
    BY PipelineConstants DEF Idle, RunType
  <2>2. s \in plan.scripts /\ s # "none"
    BY DEF Launch, Script
  <2>3. \A q \in RunType : [q EXCEPT !.script = s, !.stem = stem, !.pc = 1] \in RunType
    <3>1. \A q \in RunType : [q EXCEPT !.script = s] \in RunType
      BY <2>2 DEF RunType
    <3>2. \A q \in RunType : [q EXCEPT !.stem = stem] \in RunType
      BY DEF RunType
    <3>3. \A q \in RunType : [q EXCEPT !.pc = 1] \in RunType
      BY DEF RunType
    <3> QED
      BY <3>1, <3>2, <3>3
  <2>4. r.script = s /\ r.pc = 1 /\ r.building = {} /\ r.reads = {}
    BY DEF Idle
  <2> QED
    BY <2>1, <2>2, <2>3, <2>4
<1>2. \A u \in Terminal : run'[u] = IF u = t THEN r ELSE run[u]
  BY DEF Launch, IInv, TypeOK
<1>3. TypeOK'
  <2>1. run' \in [Terminal -> RunType]
    BY <1>1 DEF Launch, IInv, TypeOK, RunType
  <2> QED
    BY <2>1 DEF Launch, IInv, TypeOK, RunType
<1> HIDE DEF r
<1>4. Isolated'
  <2>1. \A u \in Terminal : run[u] # Idle => /\ run[u].script # s /\ s \notin Alone
                                             /\ run[u].script \notin Alone
    BY DEF Launch, Running
  <2> QED
    BY <1>1, <1>2, <2>1 DEF IInv, Isolated
<1>5. Positions'
  <2>1. Len(Program(s)) \in 1..10
    BY Commands DEF Good
  <2>2. 1 \in 1..(Len(Program(s)) + 1)
    BY <2>1
  <2>3. made' = made /\ (s = "convert" => made < MaxConversions)
    BY DEF Launch
  <2> QED
    BY <1>1, <1>2, <2>2, <2>3 DEF IInv, Positions
<1>6. Working'
  <2>1. Sure(r, disk)
    BY <1>1, Commands DEF Sure
  <2>2. disk' = disk
    BY DEF Launch
  <2> QED
    BY <1>2, <2>1, <2>2 DEF IInv, Working
<1> QED
  BY <1>3, <1>4, <1>5, <1>6
  DEF IInv, Launch, OneConfig, NothingMisspelt, LibraryUniform

(* mkdir libs/ios-arm64 by hand, and steps that change nothing. *)
LEMMA AsideStep ==
  ASSUME IInv, MakeIosDirectory \/ UNCHANGED vars
  PROVE  IInv'
<1>1. <<"lib", "ios-arm64">> \in InDirectory
  BY Libraries DEF InDirectory
<1>2. /\ UNCHANGED <<plan, disk, run, exit, made, budget>>
      /\ dirs' \subseteq InDirectory
  BY <1>1 DEF MakeIosDirectory, vars, IInv, TypeOK
<1> QED
  BY <1>2
  DEF IInv, TypeOK, Isolated, Positions, Working, OneConfig, NothingMisspelt, LibraryUniform

-----------------------------------------------------------------------------
(* The invariant holds throughout. *)
LEMMA Initially == Init => IInv
<1> SUFFICES ASSUME Init PROVE IInv
  OBVIOUS
<1> USE DEF Init
<1>1. \A t \in Terminal : run[t] = Idle
  OBVIOUS
<1>2. TypeOK
  BY PipelineConstants DEF TypeOK, Idle, Version
<1>3. Isolated /\ Working
  BY <1>1 DEF Isolated, Working
<1>4. Positions
  BY <1>1 DEF Positions, Idle
<1>5. \A n \in Name : disk[n] = {}
  OBVIOUS
<1>6. OneConfig /\ NothingMisspelt /\ LibraryUniform
  BY <1>5 DEF OneConfig, NothingMisspelt, LibraryUniform, Name, CombId
<1> QED
  BY <1>2, <1>3, <1>4, <1>6 DEF IInv

LEMMA Inductive == IInv /\ [Next]_vars => IInv'
<1> SUFFICES ASSUME IInv, [Next]_vars PROVE IInv'
  OBVIOUS
<1>1. ASSUME NEW t \in Terminal, Step(t)
      PROVE  IInv'
  BY <1>1, ConvertStep, BuildStartStep, BuildEndStep, CombineStep, DirectoryStep,
     RemoveStep, RemoveDirectoryStep, EndStep, FailStep DEF Step
<1>2. ASSUME NEW t \in Terminal, Interrupt(t)
      PROVE  IInv'
  BY <1>2, EndStep
<1>3. ASSUME NEW t \in Terminal, NEW s \in Script, NEW stem \in Stems, Launch(t, s, stem)
      PROVE  IInv'
  BY <1>3, LaunchStep
<1>4. CASE MakeIosDirectory \/ UNCHANGED vars
  BY <1>4, AsideStep
<1> QED
  BY <1>1, <1>2, <1>3, <1>4 DEF Next

(* The strengthened invariant, for any number of terminals, models and       *)
(* conversions: what every run is sure of at every command.                  *)
THEOREM PipelineInvariant == Spec => []IInv
<1>1. Init => IInv
  BY Initially
<1>2. IInv /\ [Next]_vars => IInv'
  BY Inductive
<1> QED
  BY <1>1, <1>2, PTL DEF Spec

(* The state keeps its type; in particular no script runs past its end.      *)
THEOREM PipelineTypeCorrect == Spec => []TypeOK
<1>1. IInv => TypeOK
  BY DEF IInv
<1> QED
  BY <1>1, PipelineInvariant, PTL

(* No library mixes what was built from two conversions, whatever was        *)
(* interrupted, failed or ran side by side before.                           *)
THEOREM LibrariesUniform == Spec => []LibraryUniform
<1>1. IInv => LibraryUniform
  BY DEF IInv
<1> QED
  BY <1>1, PipelineInvariant, PTL

(* A script that ends well has delivered what it built and removed its       *)
(* intermediates.                                                            *)
THEOREM SuccessesDeliver == Spec => []SuccessDelivers
<1>1. IInv => SuccessDelivers
  <2> SUFFICES ASSUME IInv, NEW t \in Terminal, AtEnd(t), run[t].ok
               PROVE  LET s == run[t].script
                      IN /\ s \in {"mac", "sim", "ios"} =>
                              \A l \in Delivers(s) : disk[l] = run[t].reads
                         /\ \A c \in Intermediates(s) : disk[c] = {}
                         /\ s = "xcframework" =>
                              disk[<<"xcf", "onnxruntime">>] = UNION {disk[l] : l \in AppleLibs}
    BY DEF SuccessDelivers
  <2> DEFINE s == run[t].script
             L == Len(Program(s))
  <2>1. run[t] # Idle /\ run[t].pc > L
    BY DEF AtEnd
  <2>2. run[t].pc \in 1..(L + 1) /\ L \in 1..10
    BY <2>1, AtWork DEF IInv
  <2>3. Sure(run[t], disk)
    BY <2>1 DEF IInv, Working
  <2> HIDE DEF L
  <2>4. run[t].pc = L + 1
    BY <2>1, <2>2
  <2>5. CASE s = "mac"
    <3>1. run[t].pc = 9
      <4>1. L = 8
        BY <2>5, MacCommands DEF L
      <4> QED
        BY <2>4, <4>1
    <3>2. Delivers(s) = Fresh(s, 9) /\ Intermediates(s) = Gone(s, 9)
      BY <2>5 DEF Delivers, Fresh, FatFresh, Intermediates, Gone, FatGone
    <3> QED
      BY <2>3, <2>5, <3>1, <3>2 DEF Sure
  <2>6. CASE s = "sim"
    <3>1. run[t].pc = 9
      <4>1. L = 8
        BY <2>6, SimCommands DEF L
      <4> QED
        BY <2>4, <4>1
    <3>2. Delivers(s) = Fresh(s, 9) /\ Intermediates(s) = Gone(s, 9)
      BY <2>6 DEF Delivers, Fresh, FatFresh, Intermediates, Gone, FatGone
    <3> QED
      BY <2>3, <2>6, <3>1, <3>2 DEF Sure
  <2>7. CASE s = "ios"
    <3>1. run[t].pc = 3
      BY <2>4, <2>7 DEF L, Program, IosScript
    <3>2. Delivers(s) = Fresh(s, 3) /\ Intermediates(s) = {}
      BY <2>7 DEF Delivers, Fresh, Intermediates
    <3> QED
      BY <2>3, <2>7, <3>1, <3>2 DEF Sure
  <2>8. CASE s = "xcframework"
    <3>1. run[t].pc = 2
      BY <2>4, <2>8 DEF L, Program, XcframeworkScript
    <3>2. Intermediates(s) = {}
      BY <2>8 DEF Intermediates
    <3> QED
      BY <2>3, <2>8, <3>1, <3>2 DEF Sure
  <2>9. CASE s \notin {"mac", "sim", "ios", "xcframework"}
    BY <2>9 DEF Intermediates
  <2> QED
    BY <2>5, <2>6, <2>7, <2>8, <2>9
<1> QED
  BY <1>1, PipelineInvariant, PTL

(* A library is written by its own script only, with what that run has built. *)
THEOREM LibrariesFromTheirRuns == Spec => LibraryFromItsRun
<1> DEFINE FromItsRun ==
             \A l \in Lib : disk'[l] # disk[l] =>
               \E t \in Terminal : l \in Delivers(run[t].script) /\ disk'[l] = run[t].reads
<1>1. ASSUME IInv, [Next]_vars
      PROVE  [FromItsRun]_disk
  <2> SUFFICES ASSUME NEW l \in Lib, disk'[l] # disk[l]
               PROVE  \E t \in Terminal : /\ l \in Delivers(run[t].script)
                                          /\ disk'[l] = run[t].reads
    OBVIOUS
  <2>1. l \in Name /\ l[1] = "lib"
    BY Libraries DEF Name
  <2>2. PICK t \in Terminal : Step(t)
    BY <1>1 DEF Next, Interrupt, Launch, MakeIosDirectory, vars
  <2>3. CASE Combine(t)
    <3> DEFINE c == Command(t)
               v == UNION {disk[Resolve(n)] : n \in c.in}
    <3>1. disk' = [disk EXCEPT ![c.out] = v]
      BY <2>3 DEF Combine
    <3> HIDE DEF v
    <3>2. c.out = l /\ disk'[l] = v
      BY <1>1, <2>1, <3>1 DEF IInv, TypeOK
    <3>3. /\ AtCommand(t, c.op) /\ c.op \in {"combine", "create"} /\ c.op \in Op
          /\ CanCombine(c)
      BY <2>3 DEF Combine, AtCommand, Op
    <3>4. Placed(run[t].script, c)
      BY <1>1, <3>3, At
    <3>5. c.op = "combine" /\ l \in Delivers(run[t].script)
      BY <3>2, <3>3, <3>4 DEF Placed
    <3>6. run[t].script # "convert"
      BY <3>5 DEF Delivers
    <3>7. v = run[t].reads
      BY <1>1, <3>3, <3>5, <3>6, Combined DEF v
    <3> QED
      BY <3>2, <3>5, <3>7
  <2>4. CASE Convert(t)
    <3>1. l # <<"ort", run[t].stem>> /\ l # <<"config", run[t].stem>>
      BY <2>1
    <3> QED
      BY <1>1, <2>1, <2>4, <3>1 DEF Convert, IInv, TypeOK
  <2>5. CASE BuildStart(t) \/ BuildEnd(t)
    <3>1. AtCommand(t, "build") /\ Command(t).op = "build"
      BY <2>5 DEF BuildStart, BuildEnd, AtCommand
    <3>2. Command(t).out # l
      BY <1>1, <3>1, At DEF Placed, Op
    <3> QED
      BY <1>1, <2>1, <2>5, <3>2 DEF BuildStart, BuildEnd, IInv, TypeOK
  <2>6. CASE Remove(t)
    <3>1. AtCommand(t, "rm") /\ Command(t).op = "rm"
      BY <2>6 DEF Remove, AtCommand
    <3>2. Placed(run[t].script, Command(t))
      BY <1>1, <3>1, At DEF Op
    <3>3. l \notin Misspelt
      BY <2>1 DEF Misspelt
    <3>4. Resolve(Command(t).out) # l
      BY <3>1, <3>2, <3>3 DEF Placed
    <3> QED
      BY <1>1, <2>1, <2>6, <3>4 DEF Remove, IInv, TypeOK
  <2>7. CASE RemoveDirectory(t)
    <3>1. AtCommand(t, "rmdir") /\ Command(t).op = "rmdir"
      BY <2>7 DEF RemoveDirectory, AtCommand
    <3>2. Command(t).out # l
      BY <1>1, <3>1, At DEF Placed, Op
    <3> QED
      BY <1>1, <2>1, <2>7, <3>2 DEF RemoveDirectory, IInv, TypeOK
  <2>8. CASE Fail(t)
    <3>1. l # <<"ort", run[t].stem>>
      BY <2>1
    <3> QED
      BY <1>1, <2>1, <2>8, <3>1 DEF Fail, IInv, TypeOK
  <2>9. CASE MakeDirectory(t) \/ WindowsTool(t) \/ Exit(t)
    BY <2>9 DEF MakeDirectory, WindowsTool, Exit
  <2> QED
    BY <2>2, <2>3, <2>4, <2>5, <2>6, <2>7, <2>8, <2>9 DEF Step
<1> QED
  BY <1>1, PipelineInvariant, PTL DEF Spec, LibraryFromItsRun

-----------------------------------------------------------------------------
(* Builds side by side. *)
SideBySide == {"mac", "sim", "linux", "wasm"}

(* The directory that a script with two architectures has made by command i. *)
Ready(s, i) ==
  {l \in Lib : /\ i \in 6..9
               /\ \/ s = "mac" /\ l = <<"lib", "macos-arm64_x86_64">>
                  \/ s = "sim" /\ l = <<"lib", "ios-arm64_x86_64-simulator">>}

(* Every command that fails ends the script, and a library's directory is *)
(* made before the library is.                                            *)
Prepared(s, i, c) ==
  /\ c.onFail = "stop" /\ c.op \in {"build", "combine", "mkdir", "rm"}
  /\ c.op = "combine" /\ c.out \in InDirectory => c.out \in Ready(s, i)
  /\ Ready(s, i + 1) \subseteq Ready(s, i) \cup {c.out}
  /\ c.op # "mkdir" => Ready(s, i + 1) \subseteq Ready(s, i)

(* No command of such a script has failed, and its directory is there. *)
Steady ==
  \A t \in Terminal : run[t] # Idle /\ run[t].script \in SideBySide =>
    run[t].ok /\ Ready(run[t].script, run[t].pc) \subseteq dirs

(* A script with two architectures makes its directory at command 5. *)
LEMMA FatPrepared ==
  ASSUME NEW s \in {"mac", "sim"}, NEW x, NEW y, NEW a, NEW b, NEW p,
         FatListing(Program(s), x, y, a, b, p),
         <<"lib", p>> \in Lib,
         \A i : Ready(s, i) = IF i \in 6..9 THEN {<<"lib", p>>} ELSE {}
  PROVE  \A i \in 1..8 : Prepared(s, i, Program(s)[i])
<1> DEFINE c(i) == Program(s)[i]
<1>1. /\ c(1) = Build(x, "stop") /\ c(2) = Libtool(x, <<"comb", x>>)
      /\ c(3) = Build(y, "stop") /\ c(4) = Libtool(y, <<"comb", y>>)
      /\ c(5) = Mkdir(p) /\ c(7) = Rm(a) /\ c(8) = Rm(b)
      /\ c(6) = Cmd("combine", {<<"comb", a>>, <<"comb", b>>}, <<"lib", p>>, "stop")
  BY DEF FatListing
<1>2. \A z : <<"comb", z>> \notin InDirectory
  BY Libraries DEF InDirectory
<1> HIDE DEF c
<1>3. \A i \in 1..8 : c(i).onFail = "stop" /\ c(i).op \in {"build", "combine", "mkdir", "rm"}
  BY <1>1 DEF Build, Libtool, Mkdir, Rm, Cmd
<1>4. \A i \in 1..8 : c(i).op = "combine" /\ c(i).out \in InDirectory => i = 6
  BY <1>1, <1>2 DEF Build, Libtool, Mkdir, Rm, Cmd
<1>5. c(5).out = <<"lib", p>> /\ c(5).op = "mkdir" /\ c(6).out = <<"lib", p>>
  BY <1>1 DEF Mkdir, Cmd
<1>6. ASSUME NEW i \in 1..8
      PROVE  Prepared(s, i, c(i))
  <2>1. c(i).op = "combine" /\ c(i).out \in InDirectory => c(i).out \in Ready(s, i)
    BY <1>4, <1>5
  <2>2. CASE i = 5
    BY <1>3, <1>5, <2>1, <2>2 DEF Prepared
  <2>3. CASE i # 5
    <3>1. i \in 6..9 <=> i + 1 \in 6..9
      BY <2>3
    <3>2. Ready(s, i + 1) = Ready(s, i)
      BY <3>1
    <3> QED
      BY <1>3, <2>1, <3>2 DEF Prepared
  <2> QED
    BY <2>2, <2>3
<1> QED
  BY <1>6 DEF c

(* The same for all of these scripts. *)
LEMMA SidePrepared ==
  ASSUME NEW s \in SideBySide
  PROVE  /\ Ready(s, 1) = {}
         /\ \A i \in 1..Len(Program(s)) : Prepared(s, i, Program(s)[i])
<1>1. Ready(s, 1) = {}
  BY DEF Ready
<1>2. CASE s = "mac"
  <2>1. FatListing(Program(s), "macOS_x86_64", "macOS_arm64", "macos_x86_64",
                   "macos_arm64", "macos-arm64_x86_64")
    BY <1>2, FatProgram DEF Program, MacScript, FatScript
  <2>2. \A i : Ready(s, i) = IF i \in 6..9 THEN {<<"lib", "macos-arm64_x86_64">>} ELSE {}
    BY <1>2, Libraries DEF Ready
  <2>3. \A i \in 1..8 : Prepared(s, i, Program(s)[i])
    BY <1>2, <2>1, <2>2, Libraries, FatPrepared
  <2> QED
    BY <1>1, <1>2, <2>3, MacCommands
<1>3. CASE s = "sim"
  <2>1. FatListing(Program(s), "iOS_Simulator-x86_64", "iOS_Simulator-arm64",
                   "iOS_Simulator-x86_64", "iOS_Simulator-arm64", "ios-arm64_x86_64-simulator")
    BY <1>3, FatProgram DEF Program, SimScript, FatScript
  <2>2. \A i : Ready(s, i) = IF i \in 6..9 THEN {<<"lib", "ios-arm64_x86_64-simulator">>}
                             ELSE {}
    BY <1>3, Libraries DEF Ready
  <2>3. \A i \in 1..8 : Prepared(s, i, Program(s)[i])
    BY <1>3, <2>1, <2>2, Libraries, FatPrepared
  <2> QED
    BY <1>1, <1>3, <2>3, SimCommands
<1>4. CASE s = "linux"
  <2>1. Len(Program(s)) = 1 /\ Program(s)[1] = Build("Linux", "stop")
    BY <1>4 DEF Program, LinuxScript
  <2>2. Prepared(s, 1, Program(s)[1])
    BY <1>4, <2>1 DEF Prepared, Build, Cmd, Ready
  <2> QED
    BY <1>1, <2>1, <2>2
<1>5. CASE s = "wasm"
  <2>1. Len(Program(s)) = 1 /\ Program(s)[1] = Build("wasm", "stop")
    BY <1>5 DEF Program, WasmScript
  <2>2. Prepared(s, 1, Program(s)[1])
    BY <1>5, <2>1 DEF Prepared, Build, Cmd, Ready
  <2> QED
    BY <1>1, <2>1, <2>2
<1> QED
  BY <1>2, <1>3, <1>4, <1>5 DEF SideBySide

(* What such a script has at the command it is at. *)
LEMMA AtSide ==
  ASSUME IInv, NEW t \in Terminal, run[t] # Idle, ~AtEnd(t), run[t].script \in SideBySide
  PROVE  Prepared(run[t].script, run[t].pc, Command(t))
<1>1. run[t].pc \in 1..Len(Program(run[t].script))
  BY AtACommand DEF IInv
<1> QED
  BY <1>1, SidePrepared DEF Command

(* The directory of a library is never removed. *)
LEMMA DirectoriesStay ==
  ASSUME IInv, [Next]_vars
  PROVE  dirs \cap Lib \subseteq dirs'
<1>1. ASSUME NEW t \in Terminal, RemoveDirectory(t)
      PROVE  dirs \cap Lib \subseteq dirs'
  <2>1. AtCommand(t, "rmdir") /\ "rmdir" \in Op
    BY <1>1 DEF RemoveDirectory, Op
  <2>2. Command(t).out \notin Lib
    BY <2>1, At DEF Placed
  <2> QED
    BY <1>1, <2>2 DEF RemoveDirectory
<1>2. ASSUME NEW t \in Terminal, Step(t)
      PROVE  dirs \cap Lib \subseteq dirs'
  BY <1>1, <1>2 DEF Step, Convert, BuildStart, BuildEnd, Combine, MakeDirectory, Remove,
     WindowsTool, Exit, Fail
<1>3. (\E t \in Terminal : Step(t)) \/ dirs \subseteq dirs'
  <2>1. \A t \in Terminal : Interrupt(t) => dirs \subseteq dirs'
    BY DEF Interrupt
  <2>2. \A t \in Terminal, s \in Script, stem \in Stems : Launch(t, s, stem) =>
          dirs \subseteq dirs'
    BY Zenon DEF Launch
  <2>3. MakeIosDirectory \/ UNCHANGED vars => dirs \subseteq dirs'
    BY DEF MakeIosDirectory, vars
  <2> QED
    BY <2>1, <2>2, <2>3 DEF Next
<1> QED
  BY <1>2, <1>3

(* Where the script of a terminal is when its command succeeds. *)
LEMMA GoesOn ==
  ASSUME IInv, Steady, NEW t \in Terminal, run[t] # Idle, ~AtEnd(t),
         run[t].script \in SideBySide, Proceed(t, TRUE), dirs \cap Lib \subseteq dirs',
         Command(t).op = "mkdir" => Command(t).out \in dirs'
  PROVE  run'[t].ok /\ Ready(run'[t].script, run'[t].pc) \subseteq dirs'
<1> DEFINE r == Advanced(t, run[t].pc + 1, TRUE)
<1>1. run'[t] = r /\ r.script = run[t].script /\ r.pc = run[t].pc + 1
  BY Proceeds DEF IInv, TypeOK
<1>2. r.ok
  BY AtWork DEF IInv, Advanced, RunType
<1>3. Ready(run[t].script, run[t].pc) \subseteq dirs \cap Lib
  BY DEF Steady, Ready
<1>4. Ready(r.script, r.pc) \subseteq dirs'
  BY <1>1, <1>3, AtSide DEF Prepared
<1> QED
  BY <1>1, <1>2, <1>4

(* Every step keeps these scripts without a failure and their directories made. *)
LEMMA SteadyInductive ==
  ASSUME IInv, Steady, [Next]_vars
  PROVE  Steady'
<1> SUFFICES ASSUME NEW u \in Terminal, run'[u] # Idle, run'[u].script \in SideBySide
             PROVE  run'[u].ok /\ Ready(run'[u].script, run'[u].pc) \subseteq dirs'
  BY DEF Steady, Ready
<1>0. run \in [Terminal -> RunType]
  BY DEF IInv, TypeOK, RunType
<1>1. dirs \cap Lib \subseteq dirs'
  BY DirectoriesStay
<1>2. CASE run'[u] = run[u]
  <2>1. Ready(run[u].script, run[u].pc) \subseteq dirs \cap Lib /\ run[u].ok
    BY <1>2 DEF Steady, Ready
  <2> QED
    BY <1>1, <1>2, <2>1
<1>3. ASSUME NEW t \in Terminal, NEW s \in Script, NEW stem \in Stems,
             Launch(t, s, stem), run'[u] # run[u]
      PROVE  run'[u].ok /\ Ready(run'[u].script, run'[u].pc) \subseteq dirs'
  <2>1. u = t /\ run'[u] = [Idle EXCEPT !.script = s, !.stem = stem, !.pc = 1]
    BY <1>0, <1>3 DEF Launch
  <2>2. run'[u].ok /\ run'[u].pc = 1
    BY <2>1 DEF Idle
  <2> QED
    BY <2>2, SidePrepared
<1>4. ASSUME NEW t \in Terminal, Interrupt(t) \/ Exit(t), run'[u] # run[u]
      PROVE  run'[u].ok /\ Ready(run'[u].script, run'[u].pc) \subseteq dirs'
  BY <1>0, <1>4 DEF Interrupt, Exit, Finish
<1>5. ASSUME NEW t \in Terminal, BuildStart(t), run'[u] # run[u]
      PROVE  run'[u].ok /\ Ready(run'[u].script, run'[u].pc) \subseteq dirs'
  <2>1. u = t /\ run[u] # Idle
    BY <1>0, <1>5 DEF BuildStart, AtCommand
  <2>2. /\ run'[u].ok = run[u].ok /\ run'[u].script = run[u].script
        /\ run'[u].pc = run[u].pc
    BY <1>0, <1>5, <2>1 DEF BuildStart, RunType
  <2>3. Ready(run[u].script, run[u].pc) \subseteq dirs \cap Lib /\ run[u].ok
    BY <2>1, <2>2 DEF Steady, Ready
  <2> QED
    BY <1>1, <2>2, <2>3
<1>6. ASSUME NEW t \in Terminal, run'[u] # run[u],
             \/ Convert(t) \/ BuildEnd(t) \/ Combine(t) \/ MakeDirectory(t)
             \/ Remove(t) \/ RemoveDirectory(t) \/ WindowsTool(t)
      PROVE  run'[u].ok /\ Ready(run'[u].script, run'[u].pc) \subseteq dirs'
  <2>1. Proceed(t, TRUE) /\ run[t] # Idle /\ ~AtEnd(t)
    BY <1>6 DEF Convert, BuildEnd, Combine, MakeDirectory, Remove, RemoveDirectory,
       WindowsTool, AtCommand
  <2>2. u = t
    BY <1>0, <1>6, <2>1 DEF Proceed
  <2>3. run[t].script \in SideBySide
    BY <2>1, <2>2, Proceeds DEF IInv, TypeOK
  <2>4. Command(t).op = "mkdir" => Command(t).out \in dirs'
    <3>1. CASE MakeDirectory(t)
      BY <3>1 DEF MakeDirectory
    <3>2. CASE ~MakeDirectory(t)
      BY <1>6, <3>2 DEF Convert, BuildEnd, Combine, Remove, RemoveDirectory, WindowsTool,
         AtCommand
    <3> QED
      BY <3>1, <3>2
  <2> QED
    BY <1>1, <2>1, <2>2, <2>3, <2>4, GoesOn
<1>7. ASSUME NEW t \in Terminal, Fail(t), run'[u] # run[u]
      PROVE  run'[u].ok /\ Ready(run'[u].script, run'[u].pc) \subseteq dirs'
  <2>1. run[t] # Idle /\ ~AtEnd(t) /\ React(t)
    BY <1>7 DEF Fail
  <2>2. u = t
    BY <1>0, <1>7, <2>1 DEF React, Proceed, Finish
  <2>3. CASE run[t].script \in SideBySide
    <3>1. Command(t).onFail = "stop"
      BY <2>1, <2>3, AtSide DEF Prepared
    <3>2. run'[u] = Idle
      BY <1>0, <2>1, <2>2, <3>1 DEF React, Finish
    <3> QED
      BY <3>2
  <2>4. CASE run[t].script \notin SideBySide
    <3>1. run'[u].script = run[t].script \/ run'[u] = Idle
      BY <1>0, <2>1, <2>2 DEF React, Proceed, Finish, RunType
    <3> QED
      BY <2>4, <3>1
  <2> QED
    BY <2>3, <2>4
<1> QED
  BY <1>2, <1>3, <1>4, <1>5, <1>6, <1>7 DEF Next, Step, MakeIosDirectory, vars

(* While no tool has failed, a script of those that run side by side fails    *)
(* for want of its configuration only.  With more models than one a script    *)
(* may miss the configuration of another model, and where names differ by     *)
(* case build-mac.sh never finds its intermediates: hence the two conditions. *)
THEOREM SideBySideUndisturbed ==
  ASSUME Stems = {"model"}, ~CaseSensitive
  PROVE  Spec => ParallelUndisturbed
<1> DEFINE Undisturbed == budget' = plan.faults =>
             \A s \in {"mac", "sim", "linux", "wasm"} : FailsOnlyWithoutConfig(s)
<1>1. ASSUME IInv, Steady, [Next]_vars
      PROVE  [Undisturbed]_exit
  <2> SUFFICES ASSUME budget' = plan.faults, NEW s \in SideBySide,
                      exit[s] # "failed", exit'[s] = "failed"
               PROVE  disk[<<"config", "model">>] = {}
    BY DEF SideBySide, FailsOnlyWithoutConfig
  <2>0. budget \in 0..plan.faults /\ plan.faults \in Nat /\ run \in [Terminal -> RunType]
        /\ exit \in [Script -> {"never", "ok", "failed"}] /\ s \in Script
    BY <1>1, PipelineConstants DEF IInv, TypeOK, SideBySide, Script, RunType
  <2>1. PICK t \in Terminal : Exit(t) \/ Fail(t) \/ Interrupt(t)
    <3>1. ASSUME NEW t \in Terminal,
                 \/ Convert(t) \/ BuildStart(t) \/ BuildEnd(t) \/ Combine(t)
                 \/ MakeDirectory(t) \/ Remove(t) \/ RemoveDirectory(t) \/ WindowsTool(t)
          PROVE  exit' = exit
      BY <3>1 DEF Convert, BuildStart, BuildEnd, Combine, MakeDirectory, Remove,
         RemoveDirectory, WindowsTool
    <3>2. \A t \in Terminal, q \in Script, stem \in Stems : Launch(t, q, stem) => exit' = exit
      BY Zenon DEF Launch
    <3>3. MakeIosDirectory \/ UNCHANGED vars => exit' = exit
      BY DEF MakeIosDirectory, vars
    <3> QED
      BY <1>1, <3>1, <3>2, <3>3 DEF Next, Step
  <2>2. ~Interrupt(t)
    BY <2>0 DEF Interrupt
  <2>3. run[t] # Idle
    BY <2>1, <2>2 DEF Exit, AtEnd, Fail
  <2>4. /\ Exit(t) => Finish(t, IF run[t].ok THEN "ok" ELSE "failed")
        /\ Fail(t) => React(t)
    BY DEF Exit, Fail
  <2>5. run[t].script = s
    BY <2>0, <2>1, <2>2, <2>4 DEF React, Finish
  <2>6. run[t].ok /\ Ready(s, run[t].pc) \subseteq dirs
    BY <1>1, <2>3, <2>5 DEF Steady
  <2>7. ~Exit(t)
    BY <2>0, <2>4, <2>5, <2>6 DEF Finish
  <2>8. Refused(t) /\ ~AtEnd(t)
    BY <2>0, <2>1, <2>2, <2>7 DEF Fail
  <2> DEFINE c == Command(t)
             config == disk[<<"config", "model">>]
  <2>9. /\ Prepared(s, run[t].pc, c) /\ Ordered(s, run[t].pc, c) /\ Sure(run[t], disk)
        /\ run[t].stem = "model"
    <3>1. Fits(s, run[t].pc, c)
      BY <1>1, <2>3, <2>5, <2>8, AtACommand DEF IInv
    <3> QED
      BY <1>1, <2>0, <2>3, <2>5, <2>8, <3>1, AtSide DEF Fits, IInv, Working, RunType
  <2>10. \A n \in Fresh(s, run[t].pc) : disk[n] = config
    BY <2>5, <2>9 DEF Sure
  <2> HIDE DEF c, config
  <2>11. CASE c.op = "build"
    BY <2>8, <2>9, <2>11 DEF Refused, c, config
  <2>12. CASE c.op = "rm"
    <3>1. Resolve(c.out) \in Fresh(s, run[t].pc)
      BY <2>9, <2>12 DEF Ordered
    <3>2. disk[Resolve(c.out)] = {}
      BY <2>8, <2>12 DEF Refused, c
    <3> QED
      BY <2>10, <3>1, <3>2 DEF config
  <2>13. CASE c.op = "combine"
    <3>1. ~CanCombine(c)
      BY <2>8, <2>13 DEF Refused, c
    <3>2. c.out \in InDirectory => c.out \in dirs
      BY <2>6, <2>9, <2>13 DEF Prepared
    <3>3. PICK n \in c.in : disk[Resolve(n)] = {}
      BY <3>1, <3>2 DEF CanCombine
    <3>4. s # "convert"
      BY DEF SideBySide
    <3>5. Resolve(n) \in Fresh(s, run[t].pc)
      BY <2>9, <2>13, <3>4 DEF Ordered
    <3> QED
      BY <2>10, <3>3, <3>5 DEF config
  <2>14. c.op # "mkdir"
    BY <2>8 DEF Refused, c
  <2> QED
    BY <2>9, <2>11, <2>12, <2>13, <2>14 DEF Prepared, config
<1>2. Init => Steady
  BY DEF Init, Steady
<1>3. IInv /\ Steady /\ [Next]_vars => Steady'
  BY SteadyInductive
<1> QED
  BY <1>1, <1>2, <1>3, PipelineInvariant, PTL DEF Spec, ParallelUndisturbed
=============================================================================
