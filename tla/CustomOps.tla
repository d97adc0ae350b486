----------------------------- MODULE CustomOps -----------------------------
(***************************************************************************)
(* The life of the kernels of a custom operator.  The constructor of       *)
(* CustomOpBase fills the function table; the runtime creates one kernel   *)
(* per node, whose constructor reads its attributes (AttributeReads);      *)
(* threads compute with the kernels and log as they do (Logger); the       *)
(* session destroys the kernels.                                           *)
(*                                                                         *)
(* The entries of the function table only forward, WithStatus or not.  An  *)
(* exception that a kernel throws goes into the C code of the runtime,     *)
(* unless the operator's own code catches it; what follows is open: the    *)
(* session goes on as after an error, or the process ends.                 *)
(***************************************************************************)
EXTENDS Logger, AttributeReads, FiniteSets

CONSTANTS Node,   \* nodes of the model with this operator
          NONE

ASSUME NodeConstants == NONE \notin Node

Entry == {"CreateKernel", "KernelCompute", "CreateKernelV2", "KernelComputeV2", "KernelDestroy"}

VARIABLES WithStatus,  \* template parameter of CustomOpBase
          table,       \* these entries of OrtCustomOp: "garbage", "null" or "set"
          session,     \* "none", "creating", "ready", "failing" or "over"
          kernel,      \* of each node: "none", "constructing", "ready" or "destroyed"
          working      \* the node each thread computes

opVars == <<WithStatus, table, session, kernel, working>>
vars == <<opVars, logVars, read>>

(* An operator with static storage starts as zeros, one on the stack does not. *)
Init ==
  /\ WithStatus \in BOOLEAN
  /\ \E before \in {"garbage", "null"} : table = [e \in Entry |-> before]
  /\ session = "none"
  /\ kernel = [n \in Node |-> "none"]
  /\ working = [t \in Thread |-> NONE]
  /\ LoggerInit /\ ReadInit

Set(old, entries, as) == [e \in Entry |-> IF e \in entries THEN as ELSE old[e]]

(* Slip: the entries of the other flavour are left as they are. *)
FilledNoNull(old) ==
  LET filled == Set(old, {"KernelDestroy"}, "set")
  IN IF WithStatus THEN Set(filled, {"CreateKernelV2", "KernelComputeV2"}, "set")
     ELSE Set(filled, {"CreateKernel", "KernelCompute"}, "set")

(* With WithStatus, CreateKernel and KernelCompute stay what they were. *)
Filled(old) ==
  LET filled == Set(old, {"KernelDestroy"}, "set")
      V2 == {"CreateKernelV2", "KernelComputeV2"}
  IN IF WithStatus THEN Set(filled, V2, "set")
     ELSE Set(Set(filled, V2, "null"), {"CreateKernel", "KernelCompute"}, "set")

(* CustomOpBase::CustomOpBase, and a session being created with the operator. *)
CustomOpBase ==
  /\ session = "none"
  /\ table' = Filled(table)
  /\ session' = "creating"
  /\ UNCHANGED <<WithStatus, kernel, working, logVars, read>>

-----------------------------------------------------------------------------
(* The runtime prefers the entry with a status, if there is one. *)
CreateEntry == IF table["CreateKernelV2"] # "null" THEN "CreateKernelV2" ELSE "CreateKernel"
ComputeEntry == IF table["KernelComputeV2"] # "null" THEN "KernelComputeV2" ELSE "KernelCompute"

Constructing == {n \in Node : kernel[n] = "constructing"}

CreateKernel(n) ==
  /\ session = "creating" /\ Constructing = {} /\ kernel[n] = "none" /\ ~ended
  /\ kernel' = [kernel EXCEPT ![n] = "constructing"]
  /\ UNCHANGED <<WithStatus, table, session, working, logVars, read>>

(* The constructor of TKernel reads. *)
ReadAttribute ==
  /\ Constructing # {} /\ ReadStep
  /\ UNCHANGED <<opVars, logVars>>

(* It goes on to its next read, or to its end. *)
UseAttribute ==
  /\ read.pc = "returned"
  /\ EndRead
  /\ UNCHANGED <<opVars, logVars>>

KernelCreated(n) ==
  /\ kernel[n] = "constructing" /\ read.pc = "idle"
  /\ kernel' = [kernel EXCEPT ![n] = "ready"]
  /\ session' = IF \A m \in Node \ {n} : kernel[m] = "ready" THEN "ready" ELSE session
  /\ UNCHANGED <<WithStatus, table, working, logVars, read>>

(* A failed read ends the constructor, and with it the session's: the operator *)
(* has reported it, or the exception has found its way through the runtime.    *)
KernelFails(n) ==
  /\ kernel[n] = "constructing" /\ read.pc = "threw" /\ ~ended
  /\ kernel' = [kernel EXCEPT ![n] = "none"]
  /\ session' = "failing"
  /\ EndRead
  /\ UNCHANGED <<WithStatus, table, working, logVars>>

-----------------------------------------------------------------------------
(* A run of the session reaches node n in thread t: GetLogger first. *)
Compute(t, n) ==
  /\ session = "ready" /\ kernel[n] = "ready" /\ working[t] = NONE
  /\ working' = [working EXCEPT ![t] = n]
  /\ MakeLogger(t) \/ MakeLoggerFails(t)
  /\ UNCHANGED <<WithStatus, table, session, kernel, read>>

(* GetLogger or a macro has thrown. *)
Threw(t) == cached[t] = Uncached \/ log[t].outcome = "threw"

LogInKernel(t) ==
  /\ working[t] # NONE /\ ~Threw(t)
  /\ \/ \E m \in Macro, sev \in Level, len \in Length : Log(t, m, sev, len)
     \/ Format(t) \/ AllocationFails(t) \/ Send(t) \/ SendFails(t) \/ Return(t)
  /\ UNCHANGED <<opVars, read>>

(* Compute returns, or its exception has found its way to the caller of the run. *)
ComputeEnds(t) ==
  /\ working[t] # NONE /\ DropLogger(t)
  /\ working' = [working EXCEPT ![t] = NONE]
  /\ UNCHANGED <<WithStatus, table, session, kernel, read>>

(* An exception that has gone through an entry into C code ends the process. *)
ExceptionInC ==
  /\ ~ended /\ (read.pc = "threw" \/ \E t \in Thread : working[t] # NONE /\ Threw(t))
  /\ ended' = TRUE
  /\ UNCHANGED <<opVars, level, cached, log, statuses, read>>

(* The application changes the level of the environment's logger. *)
SetLevel == (\E l \in Level : ChangeLevel(l)) /\ UNCHANGED <<opVars, read>>

(* The session goes: when its creation has failed, or when no run is left. *)
SessionEnds ==
  /\ session = "failing" \/ (session = "ready" /\ \A t \in Thread : working[t] = NONE)
  /\ session' = "over" /\ ~ended
  /\ kernel' = [n \in Node |-> IF kernel[n] = "ready" THEN "destroyed" ELSE kernel[n]]
  /\ UNCHANGED <<WithStatus, table, working, logVars, read>>

Over == (session = "over" \/ ended) /\ UNCHANGED vars

Next ==
  \/ CustomOpBase \/ ReadAttribute \/ UseAttribute \/ SetLevel \/ SessionEnds
  \/ ExceptionInC \/ Over
  \/ \E n \in Node : CreateKernel(n) \/ KernelCreated(n) \/ KernelFails(n)
  \/ \E t \in Thread : LogInKernel(t) \/ ComputeEnds(t)
  \/ \E t \in Thread, n \in Node : Compute(t, n)

Spec == Init /\ [][Next]_vars

-----------------------------------------------------------------------------
TypeOK ==
  /\ WithStatus \in BOOLEAN
  /\ table \in [Entry -> {"garbage", "null", "set"}]
  /\ session \in {"none", "creating", "ready", "failing", "over"}
  /\ kernel \in [Node -> {"none", "constructing", "ready", "destroyed"}]
  /\ working \in [Thread -> Node \cup {NONE}]
  /\ LoggerTypeOK /\ ReadTypeOK

(* Whatever memory the operator was made in, the runtime's choice between two *)
(* entries falls on one that CustomOpBase has set, and so does the entry that *)
(* destroys a kernel: none is garbage or null.                                *)
DispatchDefined ==
  session # "none" =>
    {table[CreateEntry], table[ComputeEntry], table["KernelDestroy"]} = {"set"}
=============================================================================
