---------------------------- MODULE SessionRuns ----------------------------
(***************************************************************************)
(* Runs of a session and the values they are given: SessionImpl::Run (the  *)
(* one that returns a vector, the one that fills the caller's array, the   *)
(* one with an IoBinding) and RunAsync, RunOptions' terminate flag, and    *)
(* the IoBinding's inputs and outputs.                                     *)
(*                                                                         *)
(* A run has one input and one output here.  Run and RunAsync hand the     *)
(* runtime the caller's own arrays of Values, by reinterpret_cast, and the *)
(* caller's OrtRunOptions; the runtime works on them in threads of its     *)
(* own, for RunAsync after the call has returned.  The caller meanwhile    *)
(* leaves the Values, the arrays and the binding of a run alone, as the    *)
(* interface demands, and may do anything else.                            *)
(***************************************************************************)
EXTENDS Naturals, FiniteSets

CONSTANTS Run,          \* calls, each made once
          Cell,         \* Ort::Value variables
          MaxObjects,   \* bound on the OrtValues handed out
          Told,         \* the runs given the RunOptions; others get RunOptions{nullptr}
          Style,        \* bound: an application passes "values" or uses a "binding"
          Device,       \* stands in the IoBinding for an output on a device
          NULL

ASSUME RunConstants ==
  /\ MaxObjects \in Nat /\ Told \subseteq Run
  /\ Style \subseteq {"values", "binding"}
  /\ NULL \notin Run \cup Cell /\ NULL \notin 1..MaxObjects
  /\ Device # NULL /\ Device \notin 1..MaxObjects

Obj == 1..MaxObjects   \* OrtValues, in the order they are handed out

VARIABLES
  style,       \* what this application does
  heap,        \* of each OrtValue: "unborn", "live" or "freed"
  content,     \* the run whose result an OrtValue holds, NULL if none
  alive,       \* Values that exist
  p,           \* their member p_
  binding,     \* the IoBinding: the input and the output bound (Device: the
               \* runtime allocates), and the run that last wrote the output
  terminate,   \* the flag of the RunOptions
  run,         \* the calls
  answer       \* what a completed call handed over: a run's result, or "failed"

vars == <<style, heap, content, alive, p, binding, terminate, run, answer>>

(* A call that does not run, or no longer. *)
AtRest(pc) == [pc |-> pc, how |-> "none", options |-> "none", arrays |-> "none",
               in |-> NULL, out |-> NULL, held |-> NULL]

Init ==
  /\ style \in Style
  /\ heap = [o \in Obj |-> "unborn"]
  /\ content = [o \in Obj |-> NULL]
  /\ alive = {}
  /\ p = [c \in Cell |-> NULL]
  /\ binding = [in |-> NULL, out |-> NULL, result |-> NULL]
  /\ terminate = FALSE
  /\ run = [r \in Run |-> AtRest("idle")]
  /\ answer = [r \in Run |-> NULL]

InProgress(r) == run[r].pc \in {"running", "written", "failing"}

(* What the caller must leave alone: the Values of the runs in progress (a   *)
(* second run may read an input) ...                                         *)
Busy(c) == \E r \in Run : InProgress(r) /\ c \in {run[r].in, run[r].out}
BeingWritten(c) == \E r \in Run : InProgress(r) /\ c = run[r].out

(* ... those it has bound, and the binding while a run uses it. *)
Bound(c) == p[c] # NULL /\ p[c] \in {binding.in, binding.out}
BindingBusy == \E r \in Run : InProgress(r) /\ run[r].how = "binding"

Free(c) == ~Busy(c) /\ ~Bound(c)

Fresh(o) == heap[o] = "unborn" /\ \A q \in 1..(o - 1) : heap[q] # "unborn"

OrtRelease(o) ==
  heap' = IF o = NULL THEN heap ELSE [heap EXCEPT ![o] = "freed"]

-----------------------------------------------------------------------------
(* Values. *)

(* Value{nullptr}, an element of an output array to be filled in. *)
EmptyValue(c) ==
  /\ c \notin alive
  /\ alive' = alive \cup {c}
  /\ UNCHANGED <<style, heap, content, p, binding, terminate, run, answer>>

(* Value::CreateTensor and its like. *)
NewValue(c, o) ==
  /\ c \notin alive /\ Fresh(o)
  /\ heap' = [heap EXCEPT ![o] = "live"]
  /\ alive' = alive \cup {c}
  /\ p' = [p EXCEPT ![c] = o]
  /\ UNCHANGED <<style, content, binding, terminate, run, answer>>

(* Value& operator=(Value&&) *)
MoveValue(d, s) ==
  /\ d \in alive /\ s \in alive /\ d # s /\ Free(d) /\ Free(s)
  /\ OrtRelease(p[d])
  /\ p' = [p EXCEPT ![d] = p[s], ![s] = NULL]
  /\ UNCHANGED <<style, content, alive, binding, terminate, run, answer>>

(* ~Value *)
DestroyValue(c) ==
  /\ c \in alive /\ Free(c)
  /\ OrtRelease(p[c])
  /\ p' = [p EXCEPT ![c] = NULL]
  /\ alive' = alive \ {c}
  /\ UNCHANGED <<style, content, binding, terminate, run, answer>>

-----------------------------------------------------------------------------
(* IoBinding and RunOptions. *)

BindInput(c) ==
  /\ style = "binding" /\ ~BindingBusy
  /\ c \in alive /\ p[c] # NULL
  /\ binding' = [binding EXCEPT !.in = p[c]]
  /\ UNCHANGED <<style, heap, content, alive, p, terminate, run, answer>>

BindOutput(c) ==
  /\ style = "binding" /\ ~BindingBusy
  /\ c \in alive /\ p[c] # NULL
  /\ binding' = [binding EXCEPT !.out = p[c], !.result = NULL]
  /\ UNCHANGED <<style, heap, content, alive, p, terminate, run, answer>>

(* BindOutput(name, mem_info) *)
BindOutputToDevice ==
  /\ style = "binding" /\ ~BindingBusy
  /\ binding' = [binding EXCEPT !.out = Device, !.result = NULL]
  /\ UNCHANGED <<style, heap, content, alive, p, terminate, run, answer>>

ClearBoundInputs ==
  /\ ~BindingBusy
  /\ binding' = [binding EXCEPT !.in = NULL]
  /\ UNCHANGED <<style, heap, content, alive, p, terminate, run, answer>>

ClearBoundOutputs ==
  /\ ~BindingBusy
  /\ binding' = [binding EXCEPT !.out = NULL, !.result = NULL]
  /\ UNCHANGED <<style, heap, content, alive, p, terminate, run, answer>>

(* GetOutputValues: new OrtValues on the bound outputs, here the element of  *)
(* the vector it returns.                                                    *)
GetOutputValues(c, o) ==
  /\ c \notin alive /\ ~BindingBusy /\ binding.result # NULL /\ Fresh(o)
  /\ heap' = [heap EXCEPT ![o] = "live"]
  /\ content' = [content EXCEPT ![o] = binding.result]
  /\ alive' = alive \cup {c}
  /\ p' = [p EXCEPT ![c] = o]
  /\ UNCHANGED <<style, binding, terminate, run, answer>>

SetTerminate ==
  /\ ~terminate /\ terminate' = TRUE
  /\ UNCHANGED <<style, heap, content, alive, p, binding, run, answer>>

UnsetTerminate ==
  /\ terminate /\ terminate' = FALSE
  /\ UNCHANGED <<style, heap, content, alive, p, binding, run, answer>>

-----------------------------------------------------------------------------
(* Calls. *)

(* Slip: the arrays of OrtValue* are locals of the wrapper, filled from the *)
(* Values as CreateSequence fills its own.                                  *)
ArraysCopied(how) == IF how = "async" THEN "wrapper" ELSE "caller"

(* Whose arrays the runtime is handed. *)
Arrays(how) == "caller"

(* Slip: the options are the ones of the moment, as a clone would be. *)
OptionsCloned(r) == IF r \in Told THEN "cloned" ELSE "none"

(* Which OrtRunOptions the runtime is handed: operator contained_type*(). *)
Options(r) == IF r \in Told THEN "shared" ELSE "none"

Handed(r, how, in, out) ==
  [pc |-> "running", how |-> how, options |-> Options(r),
   arrays |-> IF how = "binding" THEN "none" ELSE Arrays(how),
   in |-> in, out |-> out, held |-> IF out = NULL THEN NULL ELSE p[out]]

Started(r, call) ==
  /\ run[r].pc = "idle"
  /\ run' = [run EXCEPT ![r] = call]
  /\ UNCHANGED <<style, heap, content, binding, terminate, answer>>

(* Run returning a vector: its element out, a nullptr Value, is constructed  *)
(* where the caller will find it.                                            *)
RunVector(r, in, out) ==
  /\ style = "values"
  /\ in \in alive /\ p[in] # NULL /\ ~BeingWritten(in) /\ out \notin alive
  /\ Started(r, Handed(r, "vector", in, out))
  /\ alive' = alive \cup {out}
  /\ UNCHANGED p

(* Run and RunAsync into a Value of the caller's, null or preallocated. *)
RunInto(r, how, in, out) ==
  /\ style = "values"
  /\ in \in alive /\ p[in] # NULL /\ ~BeingWritten(in)
  /\ out \in alive \ {in} /\ Free(out)
  /\ Started(r, Handed(r, how, in, out))
  /\ UNCHANGED <<alive, p>>

(* Run(run_options, io_binding) *)
RunWithBinding(r) ==
  /\ r \in Told /\ binding.in # NULL /\ binding.out # NULL /\ binding.in # binding.out
  /\ ~BindingBusy
  /\ Started(r, Handed(r, "binding", NULL, NULL))
  /\ UNCHANGED <<alive, p>>

(* The runtime refuses the call: ThrowOnError throws, and there will be no *)
(* callback.                                                               *)
Refuse(r) ==
  /\ run[r].pc = "idle"
  /\ run' = [run EXCEPT ![r] = AtRest("failed")]
  /\ answer' = [answer EXCEPT ![r] = "failed"]
  /\ UNCHANGED <<style, heap, content, alive, p, binding, terminate>>

-----------------------------------------------------------------------------
(* The runtime's threads. *)

(* The result goes into an OrtValue: the preallocated one, in place, or a new *)
(* one, whose pointer is written over the null in the array it was given.     *)
Put(r, o) ==
  IF p[run[r].out] # NULL
  THEN /\ o = p[run[r].out]
       /\ content' = [content EXCEPT ![o] = r]
       /\ UNCHANGED <<heap, p>>
  ELSE /\ Fresh(o)
       /\ heap' = [heap EXCEPT ![o] = "live"]
       /\ content' = [content EXCEPT ![o] = r]
       /\ p' = IF run[r].arrays = "caller" THEN [p EXCEPT ![run[r].out] = o] ELSE p

Compute(r, o) ==
  /\ run[r].pc = "running" /\ run[r].how # "binding"
  /\ Put(r, o)
  /\ run' = [run EXCEPT ![r].pc = "written"]
  /\ UNCHANGED <<style, alive, binding, terminate, answer>>

ComputeBound(r) ==
  /\ run[r].pc = "running" /\ run[r].how = "binding"
  /\ content' = IF binding.out = Device THEN content
                ELSE [content EXCEPT ![binding.out] = r]
  /\ binding' = [binding EXCEPT !.result = r]
  /\ run' = [run EXCEPT ![r].pc = "written"]
  /\ UNCHANGED <<style, heap, alive, p, terminate, answer>>

(* An operator fails, before or after the output is written. *)
OperatorFails(r) ==
  /\ run[r].pc \in {"running", "written"}
  /\ run' = [run EXCEPT ![r].pc = "failing"]
  /\ UNCHANGED <<style, heap, content, alive, p, binding, terminate, answer>>

(* The runtime finds the flag of the run's options set. *)
Stop(r) ==
  /\ run[r].pc = "running" /\ run[r].options = "shared" /\ terminate
  /\ run' = [run EXCEPT ![r].pc = "failing"]
  /\ UNCHANGED <<style, heap, content, alive, p, binding, terminate, answer>>

(* What the caller finds where the output should be. *)
Result(r) ==
  IF run[r].how = "binding" THEN binding.result
  ELSE IF p[run[r].out] = NULL THEN "nothing"
  ELSE content[p[run[r].out]]

(* The call returns, or the callback is called with the caller's array. *)
Complete(r) ==
  /\ run[r].pc = "written"
  /\ run' = [run EXCEPT ![r] = AtRest("ok")]
  /\ answer' = [answer EXCEPT ![r] = Result(r)]
  /\ UNCHANGED <<style, heap, content, alive, p, binding, terminate>>

(* Slip: unwinding Run leaves what the runtime wrote to nobody. *)
ThrowAbandons(r) ==
  /\ run[r].pc = "failing"
  /\ run' = [run EXCEPT ![r] = AtRest("failed")]
  /\ answer' = [answer EXCEPT ![r] = "failed"]
  /\ IF run[r].how = "vector"
       THEN /\ p' = [p EXCEPT ![run[r].out] = NULL]
            /\ alive' = alive \ {run[r].out}
       ELSE UNCHANGED <<alive, p>>
  /\ UNCHANGED <<style, heap, content, binding, terminate>>

(* Slip: the status of the C call is not looked at. *)
ThrowIgnored(r) ==
  /\ run[r].pc = "failing"
  /\ run' = [run EXCEPT ![r] = AtRest("ok")]
  /\ answer' = [answer EXCEPT ![r] = Result(r)]
  /\ UNCHANGED <<style, heap, content, alive, p, binding, terminate>>

(* ThrowOnError throws, or the callback gets nullptr and the status.  Run's  *)
(* own vector is destroyed; the caller's Values keep what they were given.   *)
Throw(r) ==
  /\ run[r].pc = "failing"
  /\ run' = [run EXCEPT ![r] = AtRest("failed")]
  /\ answer' = [answer EXCEPT ![r] = "failed"]
  /\ IF run[r].how = "vector"
       THEN /\ OrtRelease(p[run[r].out])
            /\ p' = [p EXCEPT ![run[r].out] = NULL]
            /\ alive' = alive \ {run[r].out}
       ELSE UNCHANGED <<heap, alive, p>>
  /\ UNCHANGED <<style, content, binding, terminate>>

-----------------------------------------------------------------------------
CallStep(r) ==
  \/ \E in, out \in Cell :
       \/ RunVector(r, in, out)
       \/ \E how \in {"array", "async"} : RunInto(r, how, in, out)
  \/ RunWithBinding(r)
  \/ Refuse(r)

RuntimeStep(r) ==
  \/ \E o \in Obj : Compute(r, o)
  \/ ComputeBound(r) \/ OperatorFails(r) \/ Stop(r) \/ Complete(r) \/ Throw(r)

ValueStep(c) ==
  \/ EmptyValue(c) \/ DestroyValue(c) \/ BindInput(c) \/ BindOutput(c)
  \/ \E s \in Cell : MoveValue(c, s)
  \/ \E o \in Obj : NewValue(c, o) \/ GetOutputValues(c, o)

Next ==
  \/ \E r \in Run : CallStep(r) \/ RuntimeStep(r)
  \/ \E c \in Cell : ValueStep(c)
  \/ BindOutputToDevice \/ ClearBoundInputs \/ ClearBoundOutputs
  \/ SetTerminate \/ UnsetTerminate

(* The runtime looks at the flag again and again, and what has been computed *)
(* or has failed is reported; whether a computation ends is not assumed.     *)
Fairness == \A r \in Run : WF_vars(Stop(r)) /\ WF_vars(Complete(r)) /\ WF_vars(Throw(r))

Spec == Init /\ [][Next]_vars /\ Fairness

-----------------------------------------------------------------------------
TypeOK ==
  /\ style \in Style
  /\ heap \in [Obj -> {"unborn", "live", "freed"}]
  /\ content \in [Obj -> Run \cup {NULL}]
  /\ alive \subseteq Cell
  /\ p \in [Cell -> Obj \cup {NULL}]
  /\ binding \in [in : Obj \cup {NULL}, out : Obj \cup {NULL, Device},
                  result : Run \cup {NULL}]
  /\ terminate \in BOOLEAN
  /\ run \in [Run -> [pc : {"idle", "running", "written", "failing", "ok", "failed"},
                      how : {"none", "vector", "array", "async", "binding"},
                      options : {"none", "shared", "cloned"},
                      arrays : {"none", "caller", "wrapper"},
                      in : Cell \cup {NULL}, out : Cell \cup {NULL},
                      held : Obj \cup {NULL}]]
  /\ answer \in [Run -> Run \cup {NULL, "failed"}]

(* As long as the runtime works on a run, what it was handed is there: the   *)
(* arrays (the wrapper's frame is gone once RunAsync has returned), the      *)
(* input, and a preallocated output still in its place.                      *)
ArgumentsOutliveTheRun ==
  \A r \in Run : InProgress(r) =>
    /\ ~(run[r].how = "async" /\ run[r].arrays = "wrapper")
    /\ run[r].in # NULL => run[r].in \in alive /\ heap[p[run[r].in]] = "live"
    /\ run[r].held # NULL => p[run[r].out] = run[r].held /\ heap[run[r].held] = "live"
    /\ run[r].how = "binding" =>
         \A o \in {binding.in, binding.out} \ {Device} : heap[o] = "live"

(* Refinement mapping: an OrtValue is held by the Value that stores it.      *)
Holders(o) == {c \in alive : p[c] = o}

AbstractHolder(o) ==
  IF heap[o] = "unborn" THEN <<"unborn">>
  ELSE IF heap[o] = "freed" /\ Holders(o) = {} THEN <<"gone">>
  ELSE IF heap[o] = "live" /\ Cardinality(Holders(o)) = 1
       THEN <<"held", CHOOSE c \in Holders(o) : TRUE>>
  ELSE <<"torn">>

Ownership == INSTANCE ExclusiveOwnership
  WITH Res <- Obj, Holder <- Cell, holder <- [o \in Obj |-> AbstractHolder(o)]

(* Every OrtValue, whether the caller or the runtime created it, is held by  *)
(* one Value until it is released once: a run that fails half-way loses      *)
(* nothing, one that succeeds leaks no preallocated output.                  *)
ImplementsOwnership == Ownership!Spec

(* Refinement mapping: where a call stands.                                  *)
AbstractAnswer(r) ==
  IF run[r].pc = "idle" THEN "none"
  ELSE IF InProgress(r) THEN "pending"
  ELSE answer[r]

Calls == INSTANCE RunCalls
  WITH Call <- Run, answer <- [r \in Run |-> AbstractAnswer(r)]

(* Every call is answered at most once, and a successful one by the result   *)
(* of that very run, whatever runs beside it.                                *)
ImplementsCalls == Calls!Spec

(* A run that was given RunOptions ends if its terminate flag is set and     *)
(* stays set, although the computation itself may go on for ever.            *)
EndsWhenTold ==
  \A r \in Run :
    (InProgress(r) /\ run[r].options # "none" /\ terminate)
      ~> (~InProgress(r) \/ ~terminate)
=============================================================================
