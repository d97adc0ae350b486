---------------------------- MODULE BuildScripts ----------------------------
(***************************************************************************)
(* The build scripts of the repository as programs: which commands each    *)
(* one runs, in which order, what a command reads and writes, and what the *)
(* script does when a command fails.                                       *)
(*                                                                         *)
(* A name on disk is a pair <<kind, id>>:                                  *)
(*   config, ort   $1's .required_operators_and_types.config and .ort      *)
(*   header        ./model/model.ort, the C++ source made by bin2c         *)
(*   tree          a build directory under onnxruntime/build               *)
(*   comb          an onnxruntime-<id>-static-combined.a intermediate      *)
(*   lib           libs/<id>/, the library delivered for a platform        *)
(*   xcf           onnxruntime.xcframework                                 *)
(*   tmp           build-win.bat's scratch file                            *)
(***************************************************************************)
EXTENDS Naturals, Sequences

Script == {"convert", "mac", "ios", "sim", "xcframework", "win", "linux", "wasm"}

(* What happens when a command fails: "stop" ends the script (set -e, or the *)
(* last command), "skip" goes on, "leave" is build-win.bat's "|| exit \b".   *)
Cmd(op, in, out, onFail) == [op |-> op, in |-> in, out |-> out, onFail |-> onFail]

(* build.py with --include_ops_by_config, then libtool over its archives. *)
Build(id, onFail) == Cmd("build", {}, <<"tree", id>>, onFail)
Libtool(id, out) == Cmd("combine", {<<"tree", id>>}, out, "stop")
Mkdir(id) == Cmd("mkdir", {}, <<"lib", id>>, "stop")
Rm(id) == Cmd("rm", {}, <<"comb", id>>, "stop")

(* Slip: build_arch without set -e. *)
BuildArchUnchecked(id) ==
  <<Build(id, "skip"), Cmd("combine", {<<"tree", id>>}, <<"comb", id>>, "skip")>>

(* build_arch of build-mac.sh and build-ios-simulator.sh. *)
BuildArch(id) == <<Build(id, "stop"), Libtool(id, <<"comb", id>>)>>

(* Slip: the second intermediate is not removed. *)
FattenKeepsOne(a, b, platform) ==
  <<Mkdir(platform),
    Cmd("combine", {<<"comb", a>>, <<"comb", b>>}, <<"lib", platform>>, "stop"),
    Rm(a)>>

(* Slip: mkdir without -p, which fails if the directory is there. *)
FattenPlainMkdir(a, b, platform) ==
  <<Cmd("newdir", {}, <<"lib", platform>>, "stop"),
    Cmd("combine", {<<"comb", a>>, <<"comb", b>>}, <<"lib", platform>>, "stop"),
    Rm(a), Rm(b)>>

(* lipo of two intermediates into a platform's library, then their removal. *)
Fatten(a, b, platform) ==
  <<Mkdir(platform),
    Cmd("combine", {<<"comb", a>>, <<"comb", b>>}, <<"lib", platform>>, "stop"),
    Rm(a), Rm(b)>>

(* Slip: mkdir of the wrong directory. *)
ConvertScriptWrongDirectory ==
  <<Cmd("convert", {}, <<"config", "model">>, "skip"),
    Cmd("rmdir", {}, <<"header", "model">>, "skip"),
    Cmd("mkdir", {}, <<"ort", "model">>, "skip"),
    Cmd("combine", {<<"ort", "model">>}, <<"header", "model">>, "stop")>>

ConvertScript ==
  <<Cmd("convert", {}, <<"config", "model">>, "skip"),
    Cmd("rmdir", {}, <<"header", "model">>, "skip"),
    Cmd("mkdir", {}, <<"header", "model">>, "skip"),
    Cmd("combine", {<<"ort", "model">>}, <<"header", "model">>, "stop")>>

(* build_arch writes onnxruntime-macOS_*, the lines after it name *)
(* onnxruntime-macos_*.                                           *)
MacScript ==
  BuildArch("macOS_x86_64") \o BuildArch("macOS_arm64")
    \o Fatten("macos_x86_64", "macos_arm64", "macos-arm64_x86_64")

(* Slip: copied from build-mac.sh with its output path. *)
SimScriptCopiedOutput ==
  BuildArch("iOS_Simulator-x86_64") \o BuildArch("iOS_Simulator-arm64")
    \o Fatten("iOS_Simulator-x86_64", "iOS_Simulator-arm64", "macos-arm64_x86_64")

(* Slip: copied from build-mac.sh with the names of its intermediates. *)
SimScriptCopiedNames ==
  BuildArch("macOS_x86_64") \o BuildArch("macOS_arm64")
    \o Fatten("macOS_x86_64", "macOS_arm64", "ios-arm64_x86_64-simulator")

SimScript ==
  BuildArch("iOS_Simulator-x86_64") \o BuildArch("iOS_Simulator-arm64")
    \o Fatten("iOS_Simulator-x86_64", "iOS_Simulator-arm64", "ios-arm64_x86_64-simulator")

(* libtool writes into ./libs/ios-arm64, which no command creates. *)
IosScript == <<Build("iOS-arm64", "stop"), Libtool("iOS-arm64", <<"lib", "ios-arm64">>)>>

AppleLibs == {<<"lib", "macos-arm64_x86_64">>, <<"lib", "ios-arm64_x86_64-simulator">>,
              <<"lib", "ios-arm64">>}

XcframeworkScript == <<Cmd("create", AppleLibs, <<"xcf", "onnxruntime">>, "stop")>>

(* build-win.bat for one configuration: Windows mkdir fails if the directory *)
(* exists and nobody looks; vswhere, the build and vcvarsall are followed by *)
(* "|| exit \b"; lib.exe's status is the status of the batch file.           *)
WinBat(type) ==
  <<Cmd("newdir", {}, <<"lib", type>>, "skip"),
    Cmd("vswhere", {}, <<"tmp", "tmp">>, "leave"),
    Build(type, "leave"),
    Cmd("vcvars", {}, <<"tmp", "tmp">>, "leave"),
    Cmd("combine", {<<"tree", type>>}, <<"lib", type>>, "stop")>>

WinScript == WinBat("MinSizeRel") \o WinBat("Debug")

LinuxScript == <<Build("Linux", "stop")>>
WasmScript == <<Build("wasm", "stop")>>

Program(script) ==
  CASE script = "convert"     -> ConvertScript
    [] script = "mac"         -> MacScript
    [] script = "ios"         -> IosScript
    [] script = "sim"         -> SimScript
    [] script = "xcframework" -> XcframeworkScript
    [] script = "win"         -> WinScript
    [] script = "linux"       -> LinuxScript
    [] script = "wasm"        -> WasmScript

(* Where "|| exit \b" ends up if cmd.exe reports success: the next batch run. *)
AfterBat(pc) == IF pc <= 5 THEN 6 ELSE 11

(* The libraries a script delivers and the intermediates it leaves behind *)
(* if it does not get to its last lines.                                  *)
Delivers(script) ==
  CASE script = "mac" -> {<<"lib", "macos-arm64_x86_64">>}
    [] script = "sim" -> {<<"lib", "ios-arm64_x86_64-simulator">>}
    [] script = "ios" -> {<<"lib", "ios-arm64">>}
    [] script = "win" -> {<<"lib", "MinSizeRel">>, <<"lib", "Debug">>}
    [] OTHER -> {}

Intermediates(script) ==
  CASE script = "mac" -> {<<"comb", "macOS_x86_64">>, <<"comb", "macOS_arm64">>}
    [] script = "sim" -> {<<"comb", "iOS_Simulator-x86_64">>, <<"comb", "iOS_Simulator-arm64">>}
    [] OTHER -> {}
=============================================================================
