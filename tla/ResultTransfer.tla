--------------------------- MODULE ResultTransfer ---------------------------
(***************************************************************************)
(* The functions that turn a C array of results into a C++ vector:         *)
(*   "values"     binding_utils::GetOutputValuesHelper                     *)
(*   "names"      binding_utils::GetOutputNamesHelper                      *)
(*   "keys"       ModelMetadata::GetCustomMetadataMapKeysAllocated         *)
(*   "providers"  GetAvailableProviders                                    *)
(*   "run"        Session::Run returning its outputs                       *)
(* A C call hands out the array and its elements; guards (unique_ptr with  *)
(* a deleter) and the result vector take them over while reserve() and     *)
(* string copies may throw.  Session::Run has room reserved and filled with *)
(* null Values first, and the runtime writes into those.  The locals with  *)
(* a destructor form the scope, a stack, which unwinding and returning     *)
(* empty from the top.                                                     *)
(***************************************************************************)
EXTENDS Naturals, Sequences, FiniteSets

CONSTANTS MaxCount   \* bound on the number of results

ASSUME ResultConstants == MaxCount \in Nat

Fn == {"values", "names", "keys", "providers", "run"}

(* The elements are numbered from 1; the array they are in is 0, and the    *)
(* array of lengths that comes with the names has the last number.          *)
Array == 0
Lengths == MaxCount + 1
Res == 0..(MaxCount + 1)

VARIABLES fn,       \* the function called
          pc,       \* where it is
          count,    \* output_count, count, num_keys or len; for a run, outputs written
          owned,    \* GetOutputValuesHelper's count of values moved out
          scope,    \* locals whose destructors are pending
          result,   \* the elements put into the result vector, in order; null Values
                    \* do not count
          state,    \* of each resource: "none", "live" or "freed"
          misused   \* resources freed twice, or read when not live

vars == <<fn, pc, count, owned, scope, result, state, misused>>

Elements(k) == 1..k
TakesOver(f) == f \in {"values", "keys", "run"}   \* the result owns the elements

(* What the C call allocates, nothing when it has no result; the names are *)
(* slices of one buffer, and the list of providers is there even if empty. *)
Allocated(f, k) ==
  IF k = 0 /\ f # "providers" THEN {}
  ELSE IF f = "names" THEN {Array, Lengths}
  ELSE IF f = "run" THEN Elements(k)
  ELSE {Array} \cup Elements(k)

(* Give back the resources rs, reading the pointers to them out of the array. *)
Free(rs, readsArray) ==
  /\ state' = [r \in Res |-> IF r \in rs THEN "freed" ELSE state[r]]
  /\ misused' = misused \cup {r \in rs : state[r] # "live"}
                  \cup (IF readsArray /\ state[Array] # "live" THEN {Array} ELSE {})

Init ==
  /\ fn = "none" /\ pc = "idle"
  /\ count = 0 /\ owned = 0
  /\ scope = <<>>
  /\ result = <<>>
  /\ state = [r \in Res |-> "none"]
  /\ misused = {}

-----------------------------------------------------------------------------
(* The function f is called; most declare their result first. *)
Begin(f) ==
  /\ pc = "idle"
  /\ fn' = f
  /\ pc' = IF f = "run" THEN "reserve" ELSE "call"
  /\ scope' = IF f = "providers" THEN <<>> ELSE <<"result">>
  /\ UNCHANGED <<count, owned, result, state, misused>>

(* The C call succeeds.  Without results there is nothing to guard, except  *)
(* for the providers, whose length is not looked at.                        *)
Call(k) ==
  /\ pc = "call" /\ fn # "run"
  /\ count' = k
  /\ state' = [r \in Res |-> IF r \in Allocated(fn, k) THEN "live" ELSE "none"]
  /\ pc' = IF k = 0 /\ fn # "providers" THEN "return" ELSE "guard"
  /\ UNCHANGED <<fn, owned, scope, result, misused>>

(* The C call fails: ThrowOnError throws. *)
CallFails ==
  /\ pc = "call" /\ fn # "run"
  /\ pc' = "unwind"
  /\ UNCHANGED <<fn, count, owned, scope, result, state, misused>>

(* The runtime writes k outputs into the vector's Values, all there are or, *)
(* if the run fails, those it had got to.                                   *)
Written(k) ==
  /\ pc = "call" /\ fn = "run"
  /\ count' = k
  /\ state' = [r \in Res |-> IF r \in Allocated(fn, k) THEN "live" ELSE "none"]
  /\ result' = [i \in 1..k |-> i]
  /\ UNCHANGED <<fn, owned, scope, misused>>

Run(k) == Written(k) /\ pc' = "return"
RunFails(k) == Written(k) /\ pc' = "unwind"

(* Slip: strings_guard is declared before array_guard.                    *)
GuardsSwapped(f) ==
  CASE f = "values" -> <<"buffer_g">>
    [] f = "names" -> <<"buffer_g", "lengths_g">>
    [] f = "keys" -> <<"strings_guard", "array_guard">>
    [] f = "providers" -> <<"guard", "result">>

(* Slip: the strings are left to the vector, as if reserve could not throw. *)
GuardsNoStrings(f) ==
  CASE f = "values" -> <<"buffer_g">>
    [] f = "names" -> <<"buffer_g", "lengths_g">>
    [] f = "keys" -> <<"array_guard">>
    [] f = "providers" -> <<"guard", "result">>

(* The guards are declared; GetAvailableProviders declares its result here. *)
Guards(f) ==
  CASE f = "values" -> <<"buffer_g">>
    [] f = "names" -> <<"buffer_g", "lengths_g">>
    [] f = "keys" -> <<"array_guard", "strings_guard">>
    [] f = "providers" -> <<"guard", "result">>

Guard ==
  /\ pc = "guard"
  /\ scope' = scope \o Guards(fn)
  /\ pc' = "reserve"
  /\ UNCHANGED <<fn, count, owned, result, state, misused>>

(* result.reserve(): std::bad_alloc, or room for everything that follows.   *)
(* GetCustomMetadataMapKeysAllocated releases strings_guard right after it, *)
(* and its destructor has nothing left to free; Session::Run appends nulls  *)
(* and calls the runtime.                                                   *)
ReserveFails ==
  /\ pc = "reserve"
  /\ pc' = "unwind"
  /\ UNCHANGED <<fn, count, owned, scope, result, state, misused>>

(* Slip: strings_guard is not released. *)
ReserveKeepsGuard ==
  /\ pc = "reserve"
  /\ pc' = "fill"
  /\ UNCHANGED <<fn, count, owned, scope, result, state, misused>>

Reserve ==
  /\ pc = "reserve"
  /\ scope' = [i \in DOMAIN scope |-> IF scope[i] = "strings_guard" THEN "released" ELSE scope[i]]
  /\ pc' = IF fn = "run" THEN "call" ELSE "fill"
  /\ UNCHANGED <<fn, count, owned, result, state, misused>>

(* Slip: the loop runs once too often. *)
FillPastEnd ==
  LET i == Len(result) + 1
  IN /\ pc = "fill" /\ i <= count + 1
     /\ result' = Append(result, i)
     /\ pc' = IF i > count THEN "return" ELSE pc
     /\ UNCHANGED <<fn, count, owned, scope, state, misused>>

(* Slip: values moved out are not counted. *)
FillUncounted ==
  LET i == Len(result) + 1
  IN /\ pc = "fill" /\ i <= count
     /\ result' = Append(result, i)
     /\ UNCHANGED <<fn, pc, count, owned, scope, state, misused>>

(* One iteration of the loop: element i goes into the vector, by ownership *)
(* or as a string copied from it.                                          *)
Fill ==
  LET i == Len(result) + 1
      source == IF fn = "names" THEN {Array, Lengths} ELSE {Array, i}
  IN /\ pc = "fill" /\ i <= count
     /\ result' = Append(result, i)
     /\ misused' = misused \cup {r \in source : state[r] # "live"}
     /\ owned' = IF fn = "values" THEN owned + 1 ELSE owned
     /\ UNCHANGED <<fn, pc, count, scope, state>>

(* Copying a string throws std::bad_alloc; moving a pointer cannot. *)
FillFails ==
  /\ pc = "fill" /\ Len(result) < count /\ ~TakesOver(fn)
  /\ pc' = "unwind"
  /\ UNCHANGED <<fn, count, owned, scope, result, state, misused>>

Filled ==
  /\ pc = "fill" /\ Len(result) = count
  /\ pc' = "return"
  /\ UNCHANGED <<fn, count, owned, scope, result, state, misused>>

-----------------------------------------------------------------------------
(* The destructor of one local: the deleters of the guards. *)
FreeGuarded(local) ==
  CASE local = "buffer_g" /\ fn = "values" ->
         (* values not moved out yet, then the buffer *)
         Free({Array} \cup {i \in Elements(count) : i > owned}, TRUE)
    [] local = "strings_guard" -> Free(Elements(count), TRUE)
    [] local = "released" -> Free({}, FALSE)
    [] local = "guard" -> Free({Array} \cup Elements(count), TRUE)
    [] local = "lengths_g" -> Free({Lengths}, FALSE)
    [] OTHER -> Free({Array}, FALSE)

Top == scope[Len(scope)]
Pop == SubSeq(scope, 1, Len(scope) - 1)

(* An exception leaves the function: destructors run, the result's too. *)
Unwind ==
  /\ pc = "unwind" /\ scope # <<>>
  /\ scope' = Pop
  /\ IF Top = "result"
       THEN /\ Free(IF TakesOver(fn) THEN {result[j] : j \in DOMAIN result} ELSE {}, FALSE)
            /\ result' = <<>>
       ELSE FreeGuarded(Top) /\ UNCHANGED result
  /\ UNCHANGED <<fn, pc, count, owned>>

(* The function returns: the result goes to the caller, the guards go. *)
Return ==
  /\ pc = "return" /\ scope # <<>>
  /\ scope' = Pop
  /\ IF Top = "result" THEN UNCHANGED <<state, misused>> ELSE FreeGuarded(Top)
  /\ UNCHANGED <<fn, pc, count, owned, result>>

Leave ==
  /\ pc \in {"unwind", "return"} /\ scope = <<>>
  /\ pc' = IF pc = "unwind" THEN "threw" ELSE "returned"
  /\ UNCHANGED <<fn, count, owned, scope, result, state, misused>>

(* The caller destroys the vector it was given. *)
DropResult ==
  /\ pc = "returned"
  /\ Free(IF TakesOver(fn) THEN {result[j] : j \in DOMAIN result} ELSE {}, FALSE)
  /\ result' = <<>>
  /\ pc' = "dropped"
  /\ UNCHANGED <<fn, count, owned, scope>>

(* A step of a function that has begun. *)
Step ==
  \/ \E k \in 0..MaxCount : Call(k) \/ Run(k) \/ RunFails(k)
  \/ CallFails \/ Guard \/ ReserveFails \/ Reserve
  \/ Fill \/ FillFails \/ Filled
  \/ Unwind \/ Return \/ Leave \/ DropResult

-----------------------------------------------------------------------------
Locals == {"result", "buffer_g", "lengths_g", "array_guard", "strings_guard", "released", "guard"}

TypeOK ==
  /\ fn \in Fn \cup {"none"}
  /\ pc \in {"idle", "call", "guard", "reserve", "fill", "unwind", "return", "threw",
             "returned", "dropped"}
  /\ count \in 0..MaxCount /\ owned \in 0..MaxCount
  /\ scope \in Seq(Locals)
  /\ result \in Seq(1..MaxCount)
  /\ state \in [Res -> {"none", "live", "freed"}]
  /\ misused \subseteq Res

(* Nothing is freed twice, and no pointer is read out of a freed array,      *)
(* wherever an exception strikes and in whatever order destructors run.      *)
NoMisuse == misused = {}

(* An exception leaves nothing behind: all that the C call had handed out is *)
(* back.                                                                     *)
ThrowsClean == pc = "threw" => \A r \in Res : state[r] # "live"

(* A normal return hands the caller exactly the results, in order, and       *)
(* nothing but what the result owns is still allocated.                      *)
ReturnsAll ==
  pc = "returned" =>
    /\ result = [i \in 1..count |-> i]
    /\ \A r \in Res : state[r] = "live" <=> TakesOver(fn) /\ r \in Elements(count)

-----------------------------------------------------------------------------
(* Refinement mapping: who must free a resource.  Between the call and the   *)
(* guards it is the function itself.                                         *)
InResult(r) == TakesOver(fn) /\ \E j \in DOMAIN result : result[j] = r

GuardOf(r) ==
  CASE fn = "values" -> "buffer_g"
    [] fn = "names" -> IF r = Array THEN "buffer_g" ELSE "lengths_g"
    [] fn = "keys" -> IF r = Array THEN "array_guard" ELSE "strings_guard"
    [] fn = "providers" -> "guard"
    [] fn = "run" -> "function"   \* there is none

Responsible(r) ==
  {x \in {"result"} : InResult(r)}
    \cup {x \in {"function"} : pc = "guard" \/ (fn = "keys" /\ pc = "fill" /\ r # Array /\ ~InResult(r))}
    \cup {x \in {GuardOf(r)} : /\ \E i \in DOMAIN scope : scope[i] = x
                               /\ fn = "values" /\ r # Array => r > owned}

AbstractHolder(r) ==
  IF r \in misused THEN <<"misused">>
  ELSE IF state[r] = "none" THEN <<"unborn">>
  ELSE IF state[r] = "freed" THEN <<"gone">>
  ELSE IF Cardinality(Responsible(r)) = 1
       THEN <<"held", CHOOSE x \in Responsible(r) : TRUE>>
  ELSE <<"torn">>

Abstract == INSTANCE ExclusiveOwnership
  WITH Holder <- Locals \cup {"function"},
       holder <- [r \in Res |-> AbstractHolder(r)]

(* Every resource always has exactly one holder until it is freed once. *)
ImplementsOwnership == Abstract!Spec
=============================================================================
