------------------------- MODULE ExclusiveOwnership -------------------------
(***************************************************************************)
(* What the C++ wrapper classes promise about the objects of the C API     *)
(* (onnxruntime_cxx_api.h, the comment at the top of the file and the one  *)
(* above Base<T>): "all the resources follow RAII and do not leak memory". *)
(*                                                                         *)
(* A resource is handed out once, then always has exactly one holder, may  *)
(* change hands any number of times, and is given back exactly once.  The  *)
(* wrapper classes and the functions that move results out of C arrays are *)
(* shown to implement this specification; it says nothing of how.          *)
(***************************************************************************)
CONSTANTS Res,      \* objects of the C API
          Holder    \* whoever may be responsible for releasing one

VARIABLE holder     \* [Res -> Holder \cup {Unborn, Gone}], tagged pairs

Unborn == <<"unborn">>
Gone   == <<"gone">>

Held == {"held"} \X Holder

(* The life of one resource: it is born into somebody's hands, it changes  *)
(* hands, it is given back, and nothing ever happens to it again.          *)
Lawful(a, b) ==
  \/ a = b
  \/ a = Unborn /\ b \in Held
  \/ a \in Held /\ b \in Held \cup {Gone}

Init == holder = [r \in Res |-> Unborn]

(* One step may move several resources, as a C call that fills an array does. *)
Next ==
  /\ holder' \in [Res -> Held \cup {Unborn, Gone}]
  /\ \A r \in Res : Lawful(holder[r], holder'[r])

Spec == Init /\ [][Next]_holder
=============================================================================
