-------------------------- MODULE MCBuildPipeline --------------------------
(* What the developer does in the model-checked instances of BuildPipeline. *)
EXTENDS BuildPipeline

CONSTANTS t1, t2

Uses(scripts, terminals, faults) ==
  [scripts |-> scripts, terminals |-> terminals, faults |-> faults]

(* All Apple platforms one after the other, with one fault anywhere; *)
(* Windows, Linux and wasm, with two; builds side by side, with none. *)
AllPlans == {Uses({"convert", "mac", "sim", "ios", "xcframework"}, {t1}, 1),
             Uses({"convert", "win", "linux", "wasm"}, {t1}, 2),
             Uses({"convert", "mac", "sim", "wasm"}, {t1, t2}, 0)}

(* Two platforms with two faults; the framework and all it is made of. *)
RetryPlans == {Uses({"convert", "sim", "ios"}, {t1}, 2),
               Uses({"convert", "mac", "sim", "ios", "xcframework"}, {t1}, 0)}

(* The conversion only, and README.md's steps for iOS. *)
ConvertPlan == {Uses({"convert"}, {t1}, 0)}
IosPlan == {Uses({"convert", "ios"}, {t1}, 0)}
=============================================================================
