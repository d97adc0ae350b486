-------------------------- MODULE SessionRunsProofs --------------------------
(***************************************************************************)
(* Runs of a session for every number of runs, of Values and of OrtValues: *)
(* what the runtime works on stays in place, every OrtValue has one owner, *)
(* and a successful call gets its own result.  That a run told to          *)
(* terminate ends depends on fairness and is left to the model checker.    *)
(***************************************************************************)
EXTENDS SessionRuns, FiniteSetTheorems, TLAPS

(* A Value that exists stores a live OrtValue, or none, and no two the same. *)
ValuesOK ==
  /\ \A c \in Cell : p[c] # NULL => c \in alive /\ heap[p[c]] = "live"
  /\ \A c, d \in Cell : p[c] = p[d] /\ p[c] # NULL => c = d
  /\ \A o \in Obj : heap[o] = "live" => \E c \in Cell : p[c] = o

(* Only an application that uses the binding binds, and what it bound is live. *)
BindingOK ==
  /\ style # "binding" => binding.in = NULL /\ binding.out = NULL
  /\ binding.in # NULL => heap[binding.in] = "live"
  /\ binding.out \in Obj => heap[binding.out] = "live"

(* A run with the binding ... *)
OnBinding(r) ==
  InProgress(r) /\ run[r].how = "binding" =>
    /\ run[r].in = NULL /\ run[r].out = NULL /\ run[r].held = NULL
    /\ style = "binding" /\ binding.in # NULL /\ binding.out # NULL

(* ... and one with Values still have what they were handed. *)
OnValues(r) ==
  InProgress(r) /\ run[r].how # "binding" =>
    /\ style # "binding" /\ run[r].arrays = "caller"
    /\ run[r].in \in Cell /\ p[run[r].in] # NULL
    /\ run[r].out \in alive \ {run[r].in}
    /\ run[r].held # NULL => p[run[r].out] = run[r].held

(* A run's result stays where the run put it until the caller has it. *)
ResultKept(r) ==
  /\ run[r].pc = "written" => Result(r) = r
  /\ run[r].pc = "ok" => answer[r] = r
  /\ run[r].pc = "failed" => answer[r] = "failed"

CallsOK == \A r \in Run : OnBinding(r) /\ OnValues(r) /\ ResultKept(r)

(* Two runs never share the binding, and neither writes what the other uses. *)
RunsApart ==
  \A r, q \in Run : r # q /\ InProgress(r) /\ InProgress(q) =>
    /\ ~(run[r].how = "binding" /\ run[q].how = "binding")
    /\ run[r].how # "binding" /\ run[q].how # "binding" =>
         run[r].out \notin {run[q].in, run[q].out}

(* The inductive invariant.  That a run's arguments outlive it needs to know  *)
(* that no other run writes them; that its result is still its own when the   *)
(* call returns needs, besides, that no two Values store one OrtValue, and    *)
(* that a new one is stored nowhere yet.                                      *)
Inv == TypeOK /\ ValuesOK /\ BindingOK /\ CallsOK /\ RunsApart

(* Every step keeps it. *)
LEMMA RunsInductive == Inv /\ [Next]_vars => Inv'
<1> SUFFICES ASSUME Inv, [Next]_vars PROVE Inv'
  OBVIOUS
<1> NULL \notin Obj /\ Device \notin Obj /\ Device # NULL /\ NULL \notin Cell
  BY RunConstants DEF Obj
<1> USE DEF Inv, TypeOK
<1>1. ASSUME NEW c \in Cell, EmptyValue(c) PROVE Inv'
  <2>1. TypeOK'
    BY <1>1 DEF EmptyValue
  <2>2. ValuesOK'
    BY <1>1 DEF EmptyValue, ValuesOK
  <2>3. BindingOK'
    BY <1>1 DEF EmptyValue, ValuesOK, BindingOK
  <2>4. CallsOK'
    BY <1>1
       DEF EmptyValue, ValuesOK, BindingOK, CallsOK, OnBinding, OnValues, ResultKept,
           InProgress, Result
  <2>5. RunsApart'
    BY <1>1 DEF EmptyValue, CallsOK, OnBinding, OnValues, RunsApart, InProgress
  <2> QED
    BY <2>1, <2>2, <2>3, <2>4, <2>5 DEF Inv
<1>2. ASSUME NEW c \in Cell, NEW o \in Obj, NewValue(c, o) PROVE Inv'
  <2>1. \A d \in Cell : p[d] # o
    BY <1>2 DEF NewValue, Fresh, ValuesOK
  <2>2. TypeOK'
    BY <1>2 DEF NewValue, Fresh
  <2>3. ValuesOK'
    BY <1>2, <2>1 DEF NewValue, Fresh, ValuesOK
  <2>4. BindingOK'
    BY <1>2 DEF NewValue, Fresh, ValuesOK, BindingOK
  <2>5. CallsOK'
    BY <1>2 DEF NewValue, Fresh, ValuesOK, BindingOK, CallsOK, OnBinding, OnValues,
           ResultKept, InProgress, Result
  <2>6. RunsApart'
    BY <1>2 DEF NewValue, Fresh, CallsOK, OnBinding, OnValues, RunsApart, InProgress
  <2> QED
    BY <2>2, <2>3, <2>4, <2>5, <2>6 DEF Inv
<1>3. ASSUME NEW d \in Cell, NEW s \in Cell, MoveValue(d, s) PROVE Inv'
  <2>1. TypeOK'
    BY <1>3 DEF MoveValue, Free, Busy, Bound, OrtRelease
  <2>2. ValuesOK'
    BY <1>3 DEF MoveValue, Free, Busy, Bound, OrtRelease, ValuesOK
  <2>3. BindingOK'
    BY <1>3 DEF MoveValue, Free, Busy, Bound, OrtRelease, ValuesOK, BindingOK
  <2>4. CallsOK'
    BY <1>3
       DEF MoveValue, Free, Busy, Bound, OrtRelease, ValuesOK, BindingOK, CallsOK,
           OnBinding, OnValues, ResultKept, InProgress, Result
  <2>5. RunsApart'
    BY <1>3
       DEF MoveValue, Free, Busy, Bound, OrtRelease, CallsOK, OnBinding, OnValues,
           RunsApart, InProgress
  <2> QED
    BY <2>1, <2>2, <2>3, <2>4, <2>5 DEF Inv
<1>4. ASSUME NEW c \in Cell, DestroyValue(c) PROVE Inv'
  <2>1. TypeOK'
    BY <1>4 DEF DestroyValue, Free, Busy, Bound, OrtRelease
  <2>2. ValuesOK'
    BY <1>4 DEF DestroyValue, Free, Busy, Bound, OrtRelease, ValuesOK
  <2>3. BindingOK'
    BY <1>4 DEF DestroyValue, Free, Busy, Bound, OrtRelease, ValuesOK, BindingOK
  <2>4. CallsOK'
    BY <1>4
       DEF DestroyValue, Free, Busy, Bound, OrtRelease, ValuesOK, BindingOK, CallsOK,
           OnBinding, OnValues, ResultKept, InProgress, Result
  <2>5. RunsApart'
    BY <1>4
       DEF DestroyValue, Free, Busy, Bound, OrtRelease, CallsOK, OnBinding, OnValues,
           RunsApart, InProgress
  <2> QED
    BY <2>1, <2>2, <2>3, <2>4, <2>5 DEF Inv
<1>5. ASSUME NEW c \in Cell, BindInput(c) PROVE Inv'
  <2>1. TypeOK'
    BY <1>5 DEF BindInput, BindingBusy
  <2>2. ValuesOK'
    BY <1>5 DEF BindInput, BindingBusy, ValuesOK
  <2>3. BindingOK'
    BY <1>5 DEF BindInput, BindingBusy, ValuesOK, BindingOK
  <2>4. CallsOK'
    BY <1>5
       DEF BindInput, BindingBusy, ValuesOK, BindingOK, CallsOK, OnBinding, OnValues,
           ResultKept, InProgress, Result
  <2>5. RunsApart'
    BY <1>5 DEF BindInput, BindingBusy, CallsOK, OnBinding, OnValues, RunsApart,
           InProgress
  <2> QED
    BY <2>1, <2>2, <2>3, <2>4, <2>5 DEF Inv
<1>6. ASSUME NEW c \in Cell, BindOutput(c) PROVE Inv'
  <2>1. TypeOK'
    BY <1>6 DEF BindOutput, BindingBusy
  <2>2. ValuesOK'
    BY <1>6 DEF BindOutput, BindingBusy, ValuesOK
  <2>3. BindingOK'
    BY <1>6 DEF BindOutput, BindingBusy, ValuesOK, BindingOK
  <2>4. CallsOK'
    BY <1>6 DEF BindOutput, BindingBusy, ValuesOK, BindingOK, CallsOK, OnBinding,
           OnValues, ResultKept, InProgress, Result
  <2>5. RunsApart'
    BY <1>6 DEF BindOutput, BindingBusy, CallsOK, OnBinding, OnValues, RunsApart,
           InProgress
  <2> QED
    BY <2>1, <2>2, <2>3, <2>4, <2>5 DEF Inv
<1>7. ASSUME BindOutputToDevice PROVE Inv'
  <2>1. TypeOK'
    BY <1>7 DEF BindOutputToDevice, BindingBusy
  <2>2. ValuesOK'
    BY <1>7 DEF BindOutputToDevice, BindingBusy, ValuesOK
  <2>3. BindingOK'
    BY <1>7 DEF BindOutputToDevice, BindingBusy, ValuesOK, BindingOK
  <2>4. CallsOK'
    BY <1>7
       DEF BindOutputToDevice, BindingBusy, ValuesOK, BindingOK, CallsOK, OnBinding,
           OnValues, ResultKept, InProgress, Result
  <2>5. RunsApart'
    BY <1>7
       DEF BindOutputToDevice, BindingBusy, CallsOK, OnBinding, OnValues, RunsApart,
           InProgress
  <2> QED
    BY <2>1, <2>2, <2>3, <2>4, <2>5 DEF Inv
<1>8. ASSUME ClearBoundInputs PROVE Inv'
  <2>1. TypeOK'
    BY <1>8 DEF ClearBoundInputs, BindingBusy
  <2>2. ValuesOK'
    BY <1>8 DEF ClearBoundInputs, BindingBusy, ValuesOK
  <2>3. BindingOK'
    BY <1>8 DEF ClearBoundInputs, BindingBusy, ValuesOK, BindingOK
  <2>4. CallsOK'
    BY <1>8
       DEF ClearBoundInputs, BindingBusy, ValuesOK, BindingOK, CallsOK, OnBinding,
           OnValues, ResultKept, InProgress, Result
  <2>5. RunsApart'
    BY <1>8
       DEF ClearBoundInputs, BindingBusy, CallsOK, OnBinding, OnValues, RunsApart,
           InProgress
  <2> QED
    BY <2>1, <2>2, <2>3, <2>4, <2>5 DEF Inv
<1>9. ASSUME ClearBoundOutputs PROVE Inv'
  <2>1. TypeOK'
    BY <1>9 DEF ClearBoundOutputs, BindingBusy
  <2>2. ValuesOK'
    BY <1>9 DEF ClearBoundOutputs, BindingBusy, ValuesOK
  <2>3. BindingOK'
    BY <1>9 DEF ClearBoundOutputs, BindingBusy, ValuesOK, BindingOK
  <2>4. CallsOK'
    BY <1>9
       DEF ClearBoundOutputs, BindingBusy, ValuesOK, BindingOK, CallsOK, OnBinding,
           OnValues, ResultKept, InProgress, Result
  <2>5. RunsApart'
    BY <1>9
       DEF ClearBoundOutputs, BindingBusy, CallsOK, OnBinding, OnValues, RunsApart,
           InProgress
  <2> QED
    BY <2>1, <2>2, <2>3, <2>4, <2>5 DEF Inv
<1>10. ASSUME NEW c \in Cell, NEW o \in Obj, GetOutputValues(c, o) PROVE Inv'
  <2>1. \A d \in Cell : p[d] # o
    BY <1>10 DEF GetOutputValues, Fresh, ValuesOK
  <2>2. TypeOK'
    BY <1>10 DEF GetOutputValues, Fresh, BindingBusy
  <2>3. ValuesOK'
    BY <1>10, <2>1 DEF GetOutputValues, Fresh, BindingBusy, ValuesOK
  <2>4. BindingOK'
    BY <1>10 DEF GetOutputValues, Fresh, BindingBusy, ValuesOK, BindingOK
  <2>5. CallsOK'
    BY <1>10 DEF GetOutputValues, Fresh, BindingBusy, ValuesOK, BindingOK, CallsOK,
           OnBinding, OnValues, ResultKept, InProgress, Result
  <2>6. RunsApart'
    BY <1>10 DEF GetOutputValues, Fresh, BindingBusy, CallsOK, OnBinding, OnValues,
           RunsApart, InProgress
  <2> QED
    BY <2>2, <2>3, <2>4, <2>5, <2>6 DEF Inv
<1>11. ASSUME SetTerminate PROVE Inv'
  <2>1. TypeOK'
    BY <1>11 DEF SetTerminate
  <2>2. ValuesOK'
    BY <1>11 DEF SetTerminate, ValuesOK
  <2>3. BindingOK'
    BY <1>11 DEF SetTerminate, ValuesOK, BindingOK
  <2>4. CallsOK'
    BY <1>11 DEF SetTerminate, ValuesOK, BindingOK, CallsOK, OnBinding, OnValues,
           ResultKept, InProgress, Result
  <2>5. RunsApart'
    BY <1>11 DEF SetTerminate, CallsOK, OnBinding, OnValues, RunsApart, InProgress
  <2> QED
    BY <2>1, <2>2, <2>3, <2>4, <2>5 DEF Inv
<1>12. ASSUME UnsetTerminate PROVE Inv'
  <2>1. TypeOK'
    BY <1>12 DEF UnsetTerminate
  <2>2. ValuesOK'
    BY <1>12 DEF UnsetTerminate, ValuesOK
  <2>3. BindingOK'
    BY <1>12 DEF UnsetTerminate, ValuesOK, BindingOK
  <2>4. CallsOK'
    BY <1>12 DEF UnsetTerminate, ValuesOK, BindingOK, CallsOK, OnBinding, OnValues,
           ResultKept, InProgress, Result
  <2>5. RunsApart'
    BY <1>12 DEF UnsetTerminate, CallsOK, OnBinding, OnValues, RunsApart, InProgress
  <2> QED
    BY <2>1, <2>2, <2>3, <2>4, <2>5 DEF Inv
<1>13. ASSUME NEW r \in Run, NEW in \in Cell, NEW out \in Cell, RunVector(r, in, out)
      PROVE  Inv'
  <2>1. TypeOK'
    BY <1>13 DEF RunVector, Started, Handed, Options, Arrays, BeingWritten
  <2>2. ValuesOK'
    BY <1>13 DEF RunVector, Started, Handed, Options, Arrays, BeingWritten, ValuesOK
  <2>3. BindingOK'
    BY <1>13 DEF RunVector, Started, Handed, Options, Arrays, BeingWritten, ValuesOK,
           BindingOK
  <2>4. CallsOK'
    BY <1>13 DEF RunVector, Started, Handed, Options, Arrays, BeingWritten, ValuesOK,
           BindingOK, CallsOK, OnBinding, OnValues, ResultKept, InProgress, Result
  <2>5. RunsApart'
    BY <1>13 DEF RunVector, Started, Handed, Options, Arrays, BeingWritten, CallsOK,
           OnBinding, OnValues, RunsApart, InProgress, ValuesOK
  <2> QED
    BY <2>1, <2>2, <2>3, <2>4, <2>5 DEF Inv
<1>14. ASSUME NEW r \in Run, NEW in \in Cell, NEW out \in Cell,
              NEW how \in {"array", "async"}, RunInto(r, how, in, out)
       PROVE  Inv'
  <2>1. TypeOK'
    BY <1>14 DEF RunInto, Started, Handed, Options, Arrays, BeingWritten, Free, Busy
  <2>2. ValuesOK'
    BY <1>14 DEF RunInto, Started, Handed, Options, Arrays, BeingWritten, Free, Busy,
           ValuesOK
  <2>3. BindingOK'
    BY <1>14 DEF RunInto, Started, Handed, Options, Arrays, BeingWritten, Free, Busy,
           ValuesOK, BindingOK
  <2>4. CallsOK'
    BY <1>14 DEF RunInto, Started, Handed, Options, Arrays, BeingWritten, Free, Busy,
           ValuesOK, BindingOK, CallsOK, OnBinding, OnValues, ResultKept, InProgress,
           Result
  <2>5. RunsApart'
    BY <1>14 DEF RunInto, Started, Handed, Options, Arrays, BeingWritten, Free, Busy,
           CallsOK, OnBinding, OnValues, RunsApart, InProgress
  <2> QED
    BY <2>1, <2>2, <2>3, <2>4, <2>5 DEF Inv
<1>15. ASSUME NEW r \in Run, RunWithBinding(r) PROVE Inv'
  <2>1. TypeOK'
    BY <1>15 DEF RunWithBinding, Started, Handed, Options, BindingBusy
  <2>2. ValuesOK'
    BY <1>15 DEF RunWithBinding, Started, Handed, Options, BindingBusy, ValuesOK
  <2>3. BindingOK'
    BY <1>15 DEF RunWithBinding, Started, Handed, Options, BindingBusy, ValuesOK,
           BindingOK
  <2>4. CallsOK'
    BY <1>15 DEF RunWithBinding, Started, Handed, Options, BindingBusy, ValuesOK,
           BindingOK, CallsOK, OnBinding, OnValues, ResultKept, InProgress, Result
  <2>5. RunsApart'
    BY <1>15
       DEF RunWithBinding, Started, Handed, Options, BindingBusy, CallsOK, OnBinding,
           OnValues, RunsApart, InProgress
  <2> QED
    BY <2>1, <2>2, <2>3, <2>4, <2>5 DEF Inv
<1>16. ASSUME NEW r \in Run, Refuse(r) PROVE Inv'
  <2>1. TypeOK'
    BY <1>16 DEF Refuse, AtRest
  <2>2. ValuesOK'
    BY <1>16 DEF Refuse, AtRest, ValuesOK
  <2>3. BindingOK'
    BY <1>16 DEF Refuse, AtRest, ValuesOK, BindingOK
  <2>4. CallsOK'
    BY <1>16 DEF Refuse, AtRest, ValuesOK, BindingOK, CallsOK, OnBinding, OnValues,
           ResultKept, InProgress, Result
  <2>5. RunsApart'
    BY <1>16 DEF Refuse, AtRest, CallsOK, OnBinding, OnValues, RunsApart, InProgress
  <2> QED
    BY <2>1, <2>2, <2>3, <2>4, <2>5 DEF Inv
<1>17. ASSUME NEW r \in Run, NEW o \in Obj, Compute(r, o) PROVE Inv'
  <2>1. /\ run[r].out \in alive /\ run[r].out \in Cell /\ run[r].arrays = "caller"
        /\ InProgress(r) /\ run[r].how # "binding" /\ style # "binding"
    BY <1>17 DEF Compute, CallsOK, OnBinding, OnValues, ResultKept, InProgress
  <2>2. UNCHANGED <<style, alive, binding, terminate, answer>>
    BY <1>17 DEF Compute
  <2>3. run' = [run EXCEPT ![r].pc = "written"] /\ run[r].pc = "running"
    BY <1>17 DEF Compute
  <2>4. content' = [content EXCEPT ![o] = r]
    BY <1>17 DEF Compute, Put
  <2>5. \/ o = p[run[r].out] /\ heap[o] = "live" /\ UNCHANGED <<heap, p>>
        \/ /\ p[run[r].out] = NULL /\ heap[o] = "unborn" /\ \A c \in Cell : p[c] # o
           /\ heap' = [heap EXCEPT ![o] = "live"]
           /\ p' = [p EXCEPT ![run[r].out] = o]
    BY <1>17, <2>1 DEF Compute, Put, Fresh, ValuesOK
  <2>6. TypeOK'
    BY <2>1, <2>2, <2>3, <2>4, <2>5
  <2>7. ValuesOK'
    BY <2>1, <2>2, <2>5 DEF ValuesOK
  <2>8. BindingOK'
    BY <2>1, <2>2, <2>5 DEF BindingOK
  <2>9. p'[run[r].out] = o /\ \A c \in Cell \ {run[r].out} : p'[c] = p[c] /\ p[c] # o
    BY <2>1, <2>5 DEF ValuesOK
  <2>10. /\ run'[r] = [run[r] EXCEPT !.pc = "written"]
         /\ \A q \in Run \ {r} : run'[q] = run[q]
    BY <2>3
  <2>11. CallsOK'
    <3> SUFFICES ASSUME NEW q \in Run
        PROVE  (OnBinding(q) /\ OnValues(q) /\ ResultKept(q))'
      BY DEF CallsOK
    <3>1. CASE q = r
      BY <2>1, <2>2, <2>3, <2>4, <2>5, <2>9, <2>10, <3>1
         DEF CallsOK, OnBinding, OnValues, ResultKept, InProgress, Result
    <3>2. CASE q # r
      BY <2>1, <2>2, <2>3, <2>4, <2>5, <2>9, <2>10, <3>2
         DEF CallsOK, OnBinding, OnValues, ResultKept, InProgress, Result, RunsApart
    <3> QED
      BY <3>1, <3>2
  <2>12. RunsApart'
    BY <1>17 DEF Compute, RunsApart, InProgress
  <2> QED
    BY <2>6, <2>7, <2>8, <2>11, <2>12
<1>18. ASSUME NEW r \in Run, ComputeBound(r) PROVE Inv'
  <2>1. binding.out \in Obj \cup {Device}
    BY <1>18 DEF ComputeBound, CallsOK, OnBinding, InProgress
  <2>2. content' \in [Obj -> Run \cup {NULL}]
    BY <1>18, <2>1 DEF ComputeBound
  <2>3. /\ binding' = [binding EXCEPT !.result = r]
        /\ run' = [run EXCEPT ![r].pc = "written"]
    BY <1>18 DEF ComputeBound
  <2>4. TypeOK'
    BY <1>18, <2>2, <2>3 DEF ComputeBound
  <2>5. ValuesOK'
    BY <1>18 DEF ComputeBound, ValuesOK
  <2>6. BindingOK'
    BY <1>18 DEF ComputeBound, ValuesOK, BindingOK
  <2>7. CallsOK'
    BY <1>18 DEF ComputeBound, ValuesOK, BindingOK, CallsOK, OnBinding, OnValues,
           ResultKept, InProgress, Result, RunsApart
  <2>8. RunsApart'
    BY <1>18 DEF ComputeBound, CallsOK, OnBinding, OnValues, RunsApart, InProgress
  <2> QED
    BY <2>4, <2>5, <2>6, <2>7, <2>8 DEF Inv
<1>19. ASSUME NEW r \in Run, OperatorFails(r) PROVE Inv'
  <2>1. TypeOK'
    BY <1>19 DEF OperatorFails
  <2>2. ValuesOK'
    BY <1>19 DEF OperatorFails, ValuesOK
  <2>3. BindingOK'
    BY <1>19 DEF OperatorFails, ValuesOK, BindingOK
  <2>4. CallsOK'
    BY <1>19 DEF OperatorFails, ValuesOK, BindingOK, CallsOK, OnBinding, OnValues,
           ResultKept, InProgress, Result
  <2>5. RunsApart'
    BY <1>19 DEF OperatorFails, CallsOK, OnBinding, OnValues, RunsApart, InProgress
  <2> QED
    BY <2>1, <2>2, <2>3, <2>4, <2>5 DEF Inv
<1>20. ASSUME NEW r \in Run, Stop(r) PROVE Inv'
  <2>1. TypeOK'
    BY <1>20 DEF Stop
  <2>2. ValuesOK'
    BY <1>20 DEF Stop, ValuesOK
  <2>3. BindingOK'
    BY <1>20 DEF Stop, ValuesOK, BindingOK
  <2>4. CallsOK'
    BY <1>20 DEF Stop, ValuesOK, BindingOK, CallsOK, OnBinding, OnValues, ResultKept,
           InProgress, Result
  <2>5. RunsApart'
    BY <1>20 DEF Stop, CallsOK, OnBinding, OnValues, RunsApart, InProgress
  <2> QED
    BY <2>1, <2>2, <2>3, <2>4, <2>5 DEF Inv
<1>21. ASSUME NEW r \in Run, Complete(r) PROVE Inv'
  <2>1. TypeOK'
    BY <1>21 DEF Complete, AtRest, CallsOK, ResultKept
  <2>2. ValuesOK'
    BY <1>21 DEF Complete, AtRest, ValuesOK
  <2>3. BindingOK'
    BY <1>21 DEF Complete, AtRest, ValuesOK, BindingOK
  <2>4. CallsOK'
    BY <1>21 DEF Complete, AtRest, ValuesOK, BindingOK, CallsOK, OnBinding, OnValues,
           ResultKept, InProgress, Result
  <2>5. RunsApart'
    BY <1>21
       DEF Complete, AtRest, CallsOK, OnBinding, OnValues, RunsApart, InProgress
  <2> QED
    BY <2>1, <2>2, <2>3, <2>4, <2>5 DEF Inv
<1>22. ASSUME NEW r \in Run, Throw(r) PROVE Inv'
  <2>1. TypeOK'
    BY <1>22 DEF Throw, AtRest, OrtRelease
  <2>2. ValuesOK'
    BY <1>22 DEF Throw, AtRest, OrtRelease, ValuesOK, CallsOK, OnBinding, OnValues,
           InProgress
  <2>3. BindingOK'
    BY <1>22 DEF Throw, AtRest, OrtRelease, ValuesOK, BindingOK, CallsOK, OnBinding,
           OnValues, InProgress
  <2>4. CallsOK'
    BY <1>22 DEF Throw, AtRest, OrtRelease, ValuesOK, BindingOK, CallsOK, OnBinding,
           OnValues, ResultKept, InProgress, Result, RunsApart
  <2>5. RunsApart'
    BY <1>22 DEF Throw, AtRest, OrtRelease, CallsOK, OnBinding, OnValues, RunsApart,
           InProgress
  <2> QED
    BY <2>1, <2>2, <2>3, <2>4, <2>5 DEF Inv
<1>23. CASE UNCHANGED vars
  BY <1>23 DEF vars, ValuesOK, BindingOK, CallsOK, OnBinding, OnValues, ResultKept,
         RunsApart, InProgress, Result
<1> QED
  BY <1>1, <1>2, <1>3, <1>4, <1>5, <1>6, <1>7, <1>8, <1>9, <1>10, <1>11, <1>12,
     <1>13, <1>14, <1>15, <1>16, <1>17, <1>18, <1>19, <1>20, <1>21, <1>22,
     <1>23
     DEF Next, CallStep, RuntimeStep, ValueStep

(* There are no Values and no calls at first. *)
LEMMA RunsInitially == Init => Inv
<1> SUFFICES ASSUME Init PROVE Inv
  OBVIOUS
<1>1. NULL \notin Obj
  BY RunConstants DEF Obj
<1>2. \A r \in Run : run[r].pc = "idle"
  BY DEF Init, AtRest
<1>3. TypeOK
  BY DEF Init, TypeOK, AtRest
<1>4. ValuesOK
  BY DEF Init, ValuesOK
<1>5. BindingOK
  BY <1>1 DEF Init, BindingOK
<1>6. CallsOK /\ RunsApart
  BY <1>2 DEF CallsOK, OnBinding, OnValues, ResultKept, RunsApart, InProgress
<1> QED
  BY <1>3, <1>4, <1>5, <1>6 DEF Inv

(* The inductive invariant holds in every state. *)
LEMMA RunsKept == Spec => []Inv
BY RunsInitially, RunsInductive, PTL DEF Spec

(* TypeOK holds in every reachable state. *)
THEOREM RunTypeCorrect == Spec => []TypeOK
<1>1. Inv => TypeOK
  BY DEF Inv
<1> QED
  BY <1>1, RunsKept, PTL

(* Whatever the caller does beside a run within the rules of the interface,   *)
(* the runtime finds the run's arguments where they were.                     *)
THEOREM ArgumentsOutlive == Spec => []ArgumentsOutliveTheRun
<1>1. Inv => ArgumentsOutliveTheRun
  <2> SUFFICES ASSUME Inv, NEW r \in Run, InProgress(r)
               PROVE  /\ ~(run[r].how = "async" /\ run[r].arrays = "wrapper")
                      /\ run[r].in # NULL =>
                           run[r].in \in alive /\ heap[p[run[r].in]] = "live"
                      /\ run[r].held # NULL =>
                           p[run[r].out] = run[r].held /\ heap[run[r].held] = "live"
                      /\ run[r].how = "binding" =>
                           \A o \in {binding.in, binding.out} \ {Device} : heap[o] = "live"
    BY DEF ArgumentsOutliveTheRun
  <2>1. CASE run[r].how = "binding"
    BY <2>1 DEF Inv, CallsOK, OnBinding, BindingOK, TypeOK
  <2>2. CASE run[r].how # "binding"
    <3>1. run[r].in \in Cell /\ run[r].out \in Cell
      BY <2>2 DEF Inv, CallsOK, OnValues, TypeOK
    <3> QED
      BY <2>2, <3>1 DEF Inv, CallsOK, OnValues, ValuesOK
  <2> QED
    BY <2>1, <2>2
<1> QED
  BY <1>1, RunsKept, PTL

-----------------------------------------------------------------------------
(* The life of an OrtValue. *)

(* What a step may do to an OrtValue. *)
HeapStep(o) ==
  \/ heap'[o] = heap[o]
  \/ heap[o] = "unborn" /\ heap'[o] = "live"
  \/ heap[o] = "live" /\ heap'[o] = "freed"

(* An OrtValue is handed out and released, each at most once. *)
LEMMA ValueLife == ASSUME Inv, [Next]_vars, NEW o \in Obj PROVE HeapStep(o)
<1> USE DEF HeapStep, Inv, TypeOK
<1>1. ASSUME NEW c \in Cell, OrtRelease(p[c]) PROVE HeapStep(o)
  BY <1>1 DEF OrtRelease, ValuesOK
<1>2. ASSUME NEW q \in Obj, Fresh(q), heap' = [heap EXCEPT ![q] = "live"]
      PROVE  HeapStep(o)
  BY <1>2 DEF Fresh
<1>3. ASSUME NEW r \in Run, Throw(r) PROVE HeapStep(o)
  <2>1. UNCHANGED heap \/ \E c \in Cell : OrtRelease(p[c])
    BY <1>3 DEF Throw, CallsOK, OnValues, InProgress
  <2> QED
    BY <1>1, <2>1
<1>4. ASSUME NEW r \in Run, NEW q \in Obj, Compute(r, q) PROVE HeapStep(o)
  BY <1>2, <1>4 DEF Compute, Put
<1>5. ASSUME NEW c \in Cell, NEW s \in Cell, MoveValue(c, s) \/ DestroyValue(c)
      PROVE  HeapStep(o)
  BY <1>1, <1>5 DEF MoveValue, DestroyValue
<1>6. ASSUME NEW c \in Cell, NEW q \in Obj, NewValue(c, q) \/ GetOutputValues(c, q)
      PROVE  HeapStep(o)
  BY <1>2, <1>6 DEF NewValue, GetOutputValues
<1>7. ASSUME NEW r \in Run, CallStep(r) PROVE UNCHANGED heap
  BY <1>7 DEF CallStep, RunVector, RunInto, RunWithBinding, Refuse, Started
<1>8. ASSUME NEW r \in Run,
             ComputeBound(r) \/ OperatorFails(r) \/ Stop(r) \/ Complete(r)
      PROVE  UNCHANGED heap
  BY <1>8 DEF ComputeBound, OperatorFails, Stop, Complete
<1>9. ASSUME NEW c \in Cell, EmptyValue(c) \/ BindInput(c) \/ BindOutput(c)
      PROVE  UNCHANGED heap
  BY <1>9 DEF EmptyValue, BindInput, BindOutput
<1>10. ASSUME \/ BindOutputToDevice \/ ClearBoundInputs \/ ClearBoundOutputs
              \/ SetTerminate \/ UnsetTerminate \/ UNCHANGED vars
       PROVE  UNCHANGED heap
  BY <1>10 DEF BindOutputToDevice, ClearBoundInputs, ClearBoundOutputs, SetTerminate,
               UnsetTerminate, vars
<1> QED
  BY <1>3, <1>4, <1>5, <1>6, <1>7, <1>8, <1>9, <1>10 DEF Next, RuntimeStep, ValueStep

(* Under the invariant the mapping yields a state of the abstract life. *)
MappedValues ==
  \A o \in Obj : /\ heap[o] = "unborn" => AbstractHolder(o) = Ownership!Unborn
                 /\ heap[o] = "live" => AbstractHolder(o) \in Ownership!Held
                 /\ heap[o] = "freed" => AbstractHolder(o) = Ownership!Gone

(* The refinement mapping sends every state of the invariant to one.          *)
LEMMA MappedValue == Inv => MappedValues
<1> SUFFICES ASSUME Inv, NEW o \in Obj
             PROVE  /\ heap[o] = "unborn" => AbstractHolder(o) = Ownership!Unborn
                    /\ heap[o] = "live" => AbstractHolder(o) \in Ownership!Held
                    /\ heap[o] = "freed" => AbstractHolder(o) = Ownership!Gone
  BY DEF MappedValues
<1>1. CASE heap[o] = "unborn"
  BY <1>1 DEF AbstractHolder, Ownership!Unborn
<1>2. CASE heap[o] = "freed"
  <2>1. Holders(o) = {}
    BY <1>2, RunConstants DEF Holders, Inv, TypeOK, ValuesOK, Obj
  <2> QED
    BY <1>2, <2>1 DEF AbstractHolder, Ownership!Gone
<1>3. CASE heap[o] = "live"
  <2>1. PICK c \in Cell : p[c] = o
    BY <1>3 DEF Inv, ValuesOK
  <2>2. Holders(o) = {c}
    BY <2>1, RunConstants DEF Holders, Inv, TypeOK, ValuesOK, Obj
  <2>3. Cardinality(Holders(o)) = 1
    BY <2>2, FS_Singleton
  <2>4. (CHOOSE d \in Holders(o) : TRUE) = c
    BY <2>2
  <2>5. AbstractHolder(o) = <<"held", c>>
    BY <1>3, <2>3, <2>4 DEF AbstractHolder
  <2> QED
    BY <1>3, <2>5 DEF Ownership!Held
<1> QED
  BY <1>1, <1>2, <1>3 DEF Inv, TypeOK

(* An OrtValue, the caller's or the runtime's, has one owner until it is      *)
(* released once, through whatever run it passes and however the run ends.    *)
THEOREM ValuesOwned == Spec => ImplementsOwnership
<1> DEFINE holder == [o \in Obj |-> AbstractHolder(o)]
<1>1. Init => Ownership!Init
  BY DEF Init, Ownership!Init, Ownership!Unborn, AbstractHolder
<1>2. Inv /\ Inv' /\ [Next]_vars => [Ownership!Next]_holder
  <2> SUFFICES ASSUME Inv, Inv', [Next]_vars PROVE Ownership!Next
    OBVIOUS
  <2>1. MappedValues /\ MappedValues'
    BY MappedValue, PTL
  <2>2. ASSUME NEW o \in Obj
        PROVE  /\ AbstractHolder(o)' \in
                    Ownership!Held \cup {Ownership!Unborn, Ownership!Gone}
               /\ Ownership!Lawful(AbstractHolder(o), AbstractHolder(o)')
    <3>1. HeapStep(o)
      BY ValueLife
    <3>2. /\ heap[o] \in {"unborn", "live", "freed"}
          /\ heap'[o] \in {"unborn", "live", "freed"}
      BY DEF Inv, TypeOK
    <3> QED
      BY <2>1, <3>1, <3>2 DEF HeapStep, MappedValues, Ownership!Lawful
  <2> QED
    BY <2>2 DEF Ownership!Next
<1> QED
  BY <1>1, <1>2, RunsKept, PTL DEF Spec, ImplementsOwnership, Ownership!Spec

-----------------------------------------------------------------------------
(* The life of a call. *)

(* What a step may do to the answer of one call. *)
AnswerStep(r) ==
  \/ AbstractAnswer(r) = "none" /\ AbstractAnswer(r)' \in {"pending", "failed"}
  \/ AbstractAnswer(r) = "pending" /\ AbstractAnswer(r)' \in {r, "failed"}

(* A step of a call begins it, refuses it, or answers it, and touches no other; *)
(* every other step leaves all of them as they were.                           *)
LEMMA OneAnswers ==
  ASSUME Inv, Inv', [Next]_vars
  PROVE  \/ \A r \in Run : AbstractAnswer(r)' = AbstractAnswer(r)
         \/ \E r \in Run : /\ AnswerStep(r)
                           /\ \A q \in Run \ {r} : AbstractAnswer(q)' = AbstractAnswer(q)
<1> USE DEF AbstractAnswer, InProgress, Inv, TypeOK
<1>1. ASSUME UNCHANGED <<run, answer>>
      PROVE  \A r \in Run : AbstractAnswer(r)' = AbstractAnswer(r)
  BY <1>1
<1>2. ASSUME NEW r \in Run, CallStep(r)
      PROVE  /\ AnswerStep(r)
             /\ \A q \in Run \ {r} : AbstractAnswer(q)' = AbstractAnswer(q)
  BY <1>2 DEF CallStep, RunVector, RunInto, RunWithBinding, Refuse, Started, Handed,
              AtRest, AnswerStep
<1>3. ASSUME NEW r \in Run, NEW o \in Obj,
             Compute(r, o) \/ ComputeBound(r) \/ OperatorFails(r) \/ Stop(r)
      PROVE  \A q \in Run : AbstractAnswer(q)' = AbstractAnswer(q)
  BY <1>3 DEF Compute, ComputeBound, OperatorFails, Stop
<1>4. ASSUME NEW r \in Run, Complete(r) \/ Throw(r)
      PROVE  /\ AnswerStep(r)
             /\ \A q \in Run \ {r} : AbstractAnswer(q)' = AbstractAnswer(q)
  BY <1>4 DEF Complete, Throw, AtRest, AnswerStep, CallsOK, ResultKept
<1>5. ASSUME NEW c \in Cell, ValueStep(c) PROVE UNCHANGED <<run, answer>>
  BY <1>5 DEF ValueStep, EmptyValue, DestroyValue, BindInput, BindOutput, MoveValue,
              NewValue, GetOutputValues
<1>6. ASSUME \/ BindOutputToDevice \/ ClearBoundInputs \/ ClearBoundOutputs
             \/ SetTerminate \/ UnsetTerminate \/ UNCHANGED vars
      PROVE  UNCHANGED <<run, answer>>
  BY <1>6 DEF BindOutputToDevice, ClearBoundInputs, ClearBoundOutputs, SetTerminate,
              UnsetTerminate, vars
<1>7. ASSUME NEW r \in Run, RuntimeStep(r), ~Complete(r), ~Throw(r)
      PROVE  \A q \in Run : AbstractAnswer(q)' = AbstractAnswer(q)
  <2>1. PICK o \in Obj \cup {NULL} :
          \/ o \in Obj /\ Compute(r, o)
          \/ ComputeBound(r) \/ OperatorFails(r) \/ Stop(r)
    BY <1>7 DEF RuntimeStep
  <2> QED
    BY <1>3, <2>1 DEF ComputeBound, OperatorFails, Stop
<1> QED
  BY <1>1, <1>2, <1>4, <1>5, <1>6, <1>7 DEF Next, RuntimeStep

(* Every call is refused, or answered once, and a successful one with the     *)
(* result of that very call, whatever other runs do meanwhile.                *)
THEOREM CallsAnswered == Spec => ImplementsCalls
<1> DEFINE given == [r \in Run |-> AbstractAnswer(r)]
<1>1. Init => Calls!Init
  BY DEF Init, Calls!Init, AbstractAnswer, AtRest
<1>2. Inv /\ Inv' /\ [Next]_vars => [Calls!Next]_given
  <2> SUFFICES ASSUME Inv, Inv', [Next]_vars, given' # given PROVE Calls!Next
    OBVIOUS
  <2>1. PICK r \in Run : /\ AnswerStep(r)
                         /\ \A q \in Run \ {r} : AbstractAnswer(q)' = AbstractAnswer(q)
    BY OneAnswers
  <2>2. given' = [given EXCEPT ![r] = AbstractAnswer(r)'] /\ given[r] = AbstractAnswer(r)
    BY <2>1
  <2>3. Calls!Begin(r) \/ Calls!Refuse(r) \/ Calls!Succeed(r) \/ Calls!Fail(r)
    BY <2>1, <2>2 DEF AnswerStep, Calls!Begin, Calls!Refuse, Calls!Succeed, Calls!Fail
  <2> QED
    BY <2>3 DEF Calls!Next
<1> QED
  BY <1>1, <1>2, RunsKept, PTL DEF Spec, ImplementsCalls, Calls!Spec
=============================================================================
