-------------------------- MODULE AccessorsProofs --------------------------
(***************************************************************************)
(* The functions that turn a C array into a vector, for any number of      *)
(* results and wherever an exception strikes; then the programs of         *)
(* Accessors around them, for any number of objects and locals.  Each      *)
(* leaves the other's variables alone (CallerSteps, SameProgram).          *)
(***************************************************************************)
EXTENDS Accessors, FiniteSetTheorems, TLAPS

(* The locals that a function declares, in order. *)
Frame ==
  CASE fn = "values" -> <<"result", "buffer_g">>
    [] fn = "names" -> <<"result", "buffer_g", "lengths_g">>
    [] fn = "keys" -> <<"result", "array_guard",
                        IF pc \in {"fill", "return"} THEN "released" ELSE "strings_guard">>
    [] fn = "providers" -> <<"guard", "result">>
    [] fn = "run" -> <<"result">>
    [] OTHER -> <<>>

(* How many of them there are before the C call, and after. *)
Before == IF fn \in {"none", "providers"} THEN 0 ELSE 1
All == CASE fn \in {"names", "keys"} -> 3
         [] fn \in {"values", "providers"} -> 2
         [] fn = "run" -> 1
         [] OTHER -> 0

(* What the destructor of a guard frees, and what that of the vector does. *)
Guarded(x) ==
  CASE x = "buffer_g" /\ fn = "values" -> {Array} \cup {i \in Elements(count) : i > owned}
    [] x = "buffer_g" /\ fn # "values" -> {Array}
    [] x = "lengths_g" -> {Lengths}
    [] x = "array_guard" -> {Array}
    [] x = "strings_guard" -> Elements(count)
    [] x = "guard" -> {Array} \cup Elements(count)
    [] OTHER -> {}

Moved == IF TakesOver(fn) THEN Elements(Len(result)) ELSE {}

Live(r) == state[r] = "live"

-----------------------------------------------------------------------------
(* The inductive invariant. *)

(* The scope is the part of the frame that is still, or already, there. *)
ScopeOK ==
  /\ Len(scope) <= All
  /\ \A i \in 1..Len(scope) : scope[i] = Frame[i]

(* The vector has the first results, and owned counts them where it matters. *)
ResultOK ==
  /\ Len(result) <= count
  /\ \A i \in 1..Len(result) : result[i] = i
  /\ fn = "values" /\ Len(scope) = 2 => owned = Len(result)

Fresh == result = <<>> /\ owned = 0

(* What there is at every stage. *)
StageOK ==
  /\ pc = "idle" <=> fn = "none"
  /\ pc \in {"idle", "call"} \/ (pc = "reserve" /\ fn = "run") =>
       /\ Len(scope) = Before /\ Fresh
       /\ \A r \in Res : state[r] = "none"
  /\ pc = "guard" => fn # "run" /\ Len(scope) = Before /\ Fresh
  /\ pc = "reserve" => Len(scope) = All /\ Fresh
  /\ pc = "fill" => fn # "run" /\ Len(scope) = All
  /\ pc \in {"guard", "fill"} \/ (pc = "reserve" /\ fn # "run") =>
       /\ count > 0 \/ fn = "providers"
       /\ \A r \in Res : Live(r) <=> r \in Allocated(fn, count)
  /\ pc \in {"unwind", "return"} =>
       \A r \in Res : Live(r) <=> r \in Moved \/ \E i \in 1..Len(scope) : r \in Guarded(scope[i])
  /\ pc = "unwind" /\ fn = "keys" => result = <<>>
  /\ pc = "unwind" /\ scope = <<>> => Moved = {}
  /\ pc \in {"return", "returned"} => Len(result) = count
  /\ pc \in {"threw", "returned", "dropped"} => scope = <<>>
  /\ pc \in {"threw", "dropped"} => \A r \in Res : ~Live(r)
  /\ pc = "returned" => \A r \in Res : Live(r) <=> r \in Moved

Inv == TypeOK /\ misused = {} /\ ScopeOK /\ ResultOK /\ StageOK

-----------------------------------------------------------------------------
(* The resources are numbers. *)
LEMMA Resources ==
  /\ MaxCount \in Nat /\ Array \in Res /\ Lengths \in Res /\ Array \notin 1..MaxCount
  /\ Lengths \notin 1..MaxCount /\ Array # Lengths
  /\ \A k \in 0..MaxCount : k \in Nat /\ Elements(k) \subseteq Res /\ Elements(k) \subseteq 1..MaxCount
BY ResultConstants DEF Res, Array, Lengths, Elements

(* What is freed when it is live goes, and nothing else does. *)
LEMMA FreeOK ==
  ASSUME NEW rs \in SUBSET Res, NEW ra \in BOOLEAN, Free(rs, ra),
         TypeOK, misused = {}, \A r \in rs : Live(r), ra => Live(Array)
  PROVE  /\ misused' = {}
         /\ state' \in [Res -> {"none", "live", "freed"}]
         /\ \A r \in Res : Live(r)' <=> Live(r) /\ r \notin rs
         /\ \A r \in Res : state'[r] = state[r] \/ (state[r] = "live" /\ state'[r] = "freed")
BY DEF Free, TypeOK, Live

(* The destructor of a guard frees what it guards; some read the array first. *)
ReadsArray(x) == x \in {"strings_guard", "guard"} \/ (x = "buffer_g" /\ fn = "values")

LEMMA GuardFrees ==
  ASSUME Inv, NEW x \in Locals \ {"result"}, FreeGuarded(x)
  PROVE  /\ Guarded(x) \in SUBSET Res
         /\ \/ Free(Guarded(x), FALSE)
            \/ ReadsArray(x) /\ Free(Guarded(x), TRUE)
<1>1. count \in 0..MaxCount
  BY DEF Inv, TypeOK
<1>2. Elements(count) \subseteq Res /\ Array \in Res /\ Lengths \in Res
  BY <1>1, Resources
<1>3. Guarded(x) \in SUBSET Res
  BY <1>2 DEF Guarded, Locals
<1>4. CASE x = "buffer_g" /\ fn = "values"
  BY <1>3, <1>4 DEF FreeGuarded, Guarded, ReadsArray
<1>5. CASE x = "buffer_g" /\ fn # "values"
  BY <1>3, <1>5 DEF FreeGuarded, Guarded, ReadsArray
<1>6. CASE x \in {"lengths_g", "array_guard", "released"}
  BY <1>3, <1>6 DEF FreeGuarded, Guarded, ReadsArray
<1>7. CASE x = "strings_guard"
  BY <1>3, <1>7 DEF FreeGuarded, Guarded, ReadsArray
<1>8. CASE x = "guard"
  BY <1>3, <1>8 DEF FreeGuarded, Guarded, ReadsArray
<1> QED
  BY <1>4, <1>5, <1>6, <1>7, <1>8 DEF Locals

(* What is in the scope, function by function. *)
LEMMA Scopes ==
  ASSUME Inv
  PROVE  /\ Len(scope) \in Nat /\ scope = <<>> <=> Len(scope) = 0
         /\ fn = "values" => /\ Len(scope) <= 2
                             /\ Len(scope) >= 1 => scope[1] = "result"
                             /\ Len(scope) = 2 => scope[2] = "buffer_g"
         /\ fn = "names" => /\ Len(scope) <= 3
                            /\ Len(scope) >= 1 => scope[1] = "result"
                            /\ Len(scope) >= 2 => scope[2] = "buffer_g"
                            /\ Len(scope) = 3 => scope[3] = "lengths_g"
         /\ fn = "keys" => /\ Len(scope) <= 3
                           /\ Len(scope) >= 1 => scope[1] = "result"
                           /\ Len(scope) >= 2 => scope[2] = "array_guard"
                           /\ Len(scope) = 3 => scope[3] = IF pc \in {"fill", "return"}
                                                          THEN "released" ELSE "strings_guard"
         /\ fn = "providers" => /\ Len(scope) <= 2
                                /\ Len(scope) >= 1 => scope[1] = "guard"
                                /\ Len(scope) = 2 => scope[2] = "result"
         /\ fn = "run" => /\ Len(scope) <= 1
                          /\ Len(scope) = 1 => scope[1] = "result"
         /\ fn = "none" => scope = <<>>
<1>1. /\ Len(scope) \in Nat /\ Len(scope) <= All
      /\ \A i \in 1..Len(scope) : scope[i] = Frame[i]
      /\ scope = <<>> <=> Len(scope) = 0
  BY DEF Inv, TypeOK, ScopeOK
<1>2. CASE fn = "values"
  BY <1>1, <1>2 DEF Frame, All
<1>3. CASE fn = "names"
  BY <1>1, <1>3 DEF Frame, All
<1>4. CASE fn = "keys"
  BY <1>1, <1>4 DEF Frame, All
<1>5. CASE fn = "providers"
  BY <1>1, <1>5 DEF Frame, All
<1>6. CASE fn = "run"
  BY <1>1, <1>6 DEF Frame, All
<1>7. CASE fn = "none"
  BY <1>1, <1>7 DEF Frame, All
<1> QED
  BY <1>1, <1>2, <1>3, <1>4, <1>5, <1>6, <1>7 DEF Inv, TypeOK, Fn

LEMMA Small ==
  \A m \in Nat : m > 0 => /\ m <= 3 /\ m # 1 => m >= 2 /\ m \in {2, 3}
                          /\ m <= 2 /\ m # 2 => m = 1
                          /\ m <= 1 => m = 1
OBVIOUS

(* In what remains when the last guard goes, nothing of what it frees is left. *)
LEMMA TopApart ==
  ASSUME Inv, pc \in {"unwind", "return"}, scope # <<>>, Top # "result"
  PROVE  /\ \A r \in Guarded(Top) \cap Res :
              /\ Live(r) /\ r \notin Moved
              /\ \A i \in 1..(Len(scope) - 1) : r \notin Guarded(scope[i])
         /\ ReadsArray(Top) => Live(Array)
<1> DEFINE n == Len(scope)
<1>1. n \in Nat /\ n > 0 /\ Top = scope[n] /\ n \in 1..n
  BY Scopes DEF Top
<1>2. /\ MaxCount \in Nat /\ Array \in Res /\ Array \notin 1..MaxCount /\ Lengths # Array
      /\ count \in 0..MaxCount /\ Len(result) \in Nat /\ Len(result) <= count
      /\ owned \in 0..MaxCount
  BY Resources DEF Inv, TypeOK, ResultOK
<1>3. \A r \in Res : Live(r) <=> r \in Moved \/ \E i \in 1..n : r \in Guarded(scope[i])
  BY DEF Inv, StageOK
<1>4. \A r \in Guarded(Top) \cap Res : Live(r)
  BY <1>1, <1>3
<1>5. Array \notin Moved
  BY <1>2 DEF Moved, Elements
<1>6. SUFFICES /\ \A r \in Guarded(Top) : r \notin Moved
               /\ \A i \in 1..(n - 1) : Guarded(scope[i]) \cap Guarded(Top) = {}
               /\ ReadsArray(Top) => \E i \in 1..n : Array \in Guarded(scope[i])
  BY <1>2, <1>3, <1>4
<1>7. CASE fn = "values"
  <2>1. n = 2 /\ scope[1] = "result" /\ Top = "buffer_g" /\ owned = Len(result)
    BY <1>1, <1>7, Scopes DEF Inv, ResultOK
  <2>2. Guarded("result") = {} /\ Guarded(Top) = {Array} \cup {i \in 1..count : i > owned}
    BY <1>7, <2>1 DEF Guarded, Elements
  <2>3. Moved = 1..owned
    BY <1>7, <2>1 DEF Moved, TakesOver, Elements
  <2>4. \A r \in Guarded(Top) : r \notin Moved
    BY <1>2, <1>5, <2>2, <2>3
  <2>5. \A i \in 1..(n - 1) : Guarded(scope[i]) = {}
    BY <2>1, <2>2
  <2>6. Array \in Guarded(scope[n])
    BY <1>1, <2>2
  <2> QED
    BY <1>1, <2>4, <2>5, <2>6
<1>8. CASE fn = "names"
  <2>1. /\ n \in {2, 3} /\ scope[1] = "result" /\ scope[2] = "buffer_g"
        /\ n = 3 => scope[3] = "lengths_g"
    <3>1. /\ n <= 3 /\ scope[1] = "result" /\ (n >= 2 => scope[2] = "buffer_g")
          /\ n = 3 => scope[3] = "lengths_g"
      BY <1>1, <1>8, Scopes
    <3>2. n # 1
      BY <1>1, <3>1
    <3> QED
      BY <1>1, <3>1, <3>2, Small
  <2>2. /\ Guarded("result") = {} /\ Guarded("buffer_g") = {Array}
        /\ Guarded("lengths_g") = {Lengths} /\ Moved = {}
    BY <1>8 DEF Guarded, Moved, TakesOver
  <2>3. ~ReadsArray(Top)
    BY <1>1, <1>8, <2>1 DEF ReadsArray
  <2>4. \A i \in 1..(n - 1) : Guarded(scope[i]) \cap Guarded(Top) = {}
    <3>1. CASE n = 2
      BY <1>1, <2>1, <2>2, <3>1
    <3>2. CASE n = 3
      <4>1. 1..(n - 1) = {1, 2} /\ Top = "lengths_g"
        BY <1>1, <2>1, <3>2
      <4> QED
        BY <1>2, <2>1, <2>2, <4>1
    <3> QED
      BY <2>1, <3>1, <3>2
  <2> QED
    BY <2>2, <2>3, <2>4
<1>9. CASE fn = "keys"
  <2>1. /\ n \in {2, 3} /\ scope[1] = "result" /\ scope[2] = "array_guard"
        /\ n = 3 => scope[3] = IF pc = "return" THEN "released" ELSE "strings_guard"
    <3>1. /\ n <= 3 /\ scope[1] = "result" /\ (n >= 2 => scope[2] = "array_guard")
          /\ n = 3 => scope[3] = IF pc = "return" THEN "released" ELSE "strings_guard"
      BY <1>1, <1>9, Scopes
    <3>2. n # 1
      BY <1>1, <3>1
    <3> QED
      BY <1>1, <3>1, <3>2, Small
  <2>2. /\ Guarded("result") = {} /\ Guarded("array_guard") = {Array}
        /\ Guarded("released") = {} /\ Guarded("strings_guard") = 1..count
    BY <1>9 DEF Guarded, Elements
  <2>3. pc # "return" => Moved = {}
    BY <1>2, <1>9 DEF Inv, StageOK, Moved, Elements
  <2>4. Array \notin 1..count
    BY <1>2
  <2>5. Array \in Guarded(scope[2]) /\ 2 \in 1..n
    BY <2>1, <2>2
  <2>6. CASE n = 2
    <3>1. Top = "array_guard" /\ 1..(n - 1) = {1}
      BY <1>1, <2>1, <2>6
    <3> QED
      BY <1>5, <2>1, <2>2, <2>5, <3>1
  <2>7. CASE n = 3
    <3>1. 1..(n - 1) = {1, 2}
      BY <2>7
    <3>2. CASE pc = "return"
      <4>1. Guarded(Top) = {}
        BY <1>1, <2>1, <2>2, <2>7, <3>2
      <4> QED
        BY <2>5, <4>1
    <3>3. CASE pc # "return"
      <4>1. Guarded(Top) = 1..count
        BY <1>1, <2>1, <2>2, <2>7, <3>3
      <4> QED
        BY <2>1, <2>2, <2>3, <2>4, <2>5, <3>1, <3>3, <4>1
    <3> QED
      BY <3>2, <3>3
  <2> QED
    BY <2>1, <2>6, <2>7
<1>10. CASE fn = "providers"
  <2>1. n = 1 /\ Top = "guard"
    <3>1. n <= 2 /\ scope[1] = "guard" /\ (n = 2 => scope[2] = "result")
      BY <1>1, <1>10, Scopes
    <3>2. n # 2
      BY <1>1, <3>1
    <3>3. n = 1
      BY <1>1, <3>1, <3>2, Small
    <3> QED
      BY <1>1, <3>1, <3>3
  <2>2. Array \in Guarded(scope[n]) /\ Moved = {}
    BY <1>1, <1>10, <2>1 DEF Guarded, Moved, TakesOver
  <2> QED
    BY <1>1, <2>1, <2>2
<1>11. CASE fn \in {"run", "none"}
  <2>1. n <= 1 /\ (n = 1 => scope[1] = "result")
    BY <1>1, <1>11, Scopes
  <2>2. n = 1
    BY <1>1, <2>1, Small
  <2> QED
    BY <1>1, <2>1, <2>2
<1> QED
  BY <1>7, <1>8, <1>9, <1>10, <1>11 DEF Inv, TypeOK, Fn

(* One local less. *)
LEMMA PopOK ==
  ASSUME Inv, scope # <<>>, scope' = Pop
  PROVE  /\ scope' \in Seq(Locals) /\ Len(scope') = Len(scope) - 1
         /\ \A i \in 1..(Len(scope) - 1) : scope'[i] = scope[i]
         /\ Top \in Locals
<1>1. scope \in Seq(Locals) /\ Len(scope) \in Nat /\ Len(scope) > 0
  BY DEF Inv, TypeOK
<1>2. \A i \in 1..Len(scope) : scope[i] \in Locals
  BY <1>1
<1>3. scope' = [i \in 1..(Len(scope) - 1) |-> scope[i]]
  BY <1>1 DEF Pop
<1> QED
  BY <1>1, <1>2, <1>3 DEF Top

(* The last guard goes, on either way out. *)
LEMMA GuardGoes ==
  ASSUME Inv, pc \in {"unwind", "return"}, scope # <<>>, Top # "result",
         FreeGuarded(Top), scope' = Pop, UNCHANGED <<fn, pc, count, owned, result>>
  PROVE  Inv'
<1>1. Top \in Locals \ {"result"} /\ scope' \in Seq(Locals) /\ Len(scope') = Len(scope) - 1
  BY PopOK
<1>2. \A i \in 1..(Len(scope) - 1) : scope'[i] = scope[i]
  BY PopOK
<1>3. Len(scope) \in Nat /\ Len(scope) > 0 /\ Top = scope[Len(scope)]
  BY Scopes DEF Top
<1>4. /\ misused' = {} /\ state' \in [Res -> {"none", "live", "freed"}]
      /\ \A r \in Res : Live(r)' <=> Live(r) /\ r \notin Guarded(Top)
  <2>1. Guarded(Top) \in SUBSET Res /\ TypeOK /\ misused = {}
    BY <1>1, GuardFrees DEF Inv
  <2>2. /\ \A r \in Guarded(Top) : Live(r)
        /\ ReadsArray(Top) => Live(Array)
    BY <2>1, TopApart
  <2>3. CASE Free(Guarded(Top), FALSE)
    BY <2>1, <2>2, <2>3, FreeOK
  <2>4. CASE ReadsArray(Top) /\ Free(Guarded(Top), TRUE)
    BY <2>1, <2>2, <2>4, FreeOK
  <2> QED
    BY <1>1, <2>3, <2>4, GuardFrees
<1>5. TypeOK'
  BY <1>1, <1>4 DEF Inv, TypeOK
<1>6. ScopeOK'
  BY <1>1, <1>2, <1>3 DEF Inv, ScopeOK, Frame, All
<1>7. ResultOK'
  BY <1>1, <1>3, Scopes DEF Inv, ResultOK
<1>8. StageOK'
  <2>1. \A x : Guarded(x)' = Guarded(x)
    BY DEF Guarded, Elements
  <2>2. Moved' = Moved
    BY DEF Moved
  <2>3. \A r \in Res : Live(r) <=> r \in Moved \/ \E i \in 1..Len(scope) : r \in Guarded(scope[i])
    BY DEF Inv, StageOK
  <2>4. \A r \in Res : r \in Guarded(Top) =>
          r \notin Moved /\ \A i \in 1..(Len(scope) - 1) : r \notin Guarded(scope[i])
    BY TopApart
  <2>5. ASSUME NEW r \in Res
        PROVE  Live(r)' <=> r \in Moved \/ \E i \in 1..(Len(scope) - 1) : r \in Guarded(scope[i])
    <3>1. \A i \in 1..Len(scope) : i \in 1..(Len(scope) - 1) \/ i = Len(scope)
      BY <1>3
    <3>2. \A i \in 1..(Len(scope) - 1) : i \in 1..Len(scope)
      BY <1>3
    <3>3. Live(r) <=> r \in Moved \/ r \in Guarded(Top)
                        \/ \E i \in 1..(Len(scope) - 1) : r \in Guarded(scope[i])
      BY <1>3, <2>3, <3>1, <3>2
    <3> QED
      BY <1>4, <2>4, <3>3
  <2>6. \A r \in Res :
          Live(r)' <=> r \in Moved' \/ \E i \in 1..Len(scope') : r \in Guarded(scope[i])'
    <3>1. \A i \in 1..Len(scope') : Guarded(scope[i])' = Guarded(scope[i])
      <4>1. \A x : Guarded(x)' = Guarded(x)
        BY <2>1
      <4> QED
        BY <1>1, <1>2 DEF Guarded, Elements
    <3> QED
      BY <1>1, <2>2, <2>5, <3>1
  <2>9. pc' = "unwind" /\ scope' = <<>> => Moved' = {}
    <3>1. SUFFICES ASSUME Len(scope) = 1, TakesOver(fn) PROVE FALSE
      BY <1>1, <1>3, <2>2 DEF Moved
    <3>2. scope[1] = "result"
      BY <3>1, Scopes DEF TakesOver
    <3> QED
      BY <1>3, <3>1, <3>2
  <2> HIDE DEF Inv
  <2>7. pc' \in {"unwind", "return"} /\ pc' = pc /\ fn' = fn /\ result' = result /\ count' = count
    OBVIOUS
  <2>8. /\ fn # "none"
        /\ pc = "unwind" /\ fn = "keys" => result = <<>>
        /\ pc = "return" => Len(result) = count
    BY <2>7 DEF Inv, StageOK
  <2> QED
    BY <2>6, <2>7, <2>8, <2>9 DEF StageOK
<1> QED
  BY <1>4, <1>5, <1>6, <1>7, <1>8 DEF Inv

(* The destructor of the vector gives back what it owns. *)
LEMMA MovedFrom ==
  ASSUME Inv
  PROVE  /\ (IF TakesOver(fn) THEN {result[j] : j \in DOMAIN result} ELSE {}) = Moved
         /\ Moved \in SUBSET Res
<1>1. /\ DOMAIN result = 1..Len(result) /\ Len(result) \in 0..MaxCount
      /\ \A i \in 1..Len(result) : result[i] = i
  <2>1. result \in Seq(1..MaxCount) /\ Len(result) <= count /\ count \in 0..MaxCount
    BY DEF Inv, TypeOK, ResultOK
  <2>2. \A i \in 1..Len(result) : result[i] = i
    BY DEF Inv, ResultOK
  <2> QED
    BY <2>1, <2>2, Resources
<1>2. Elements(Len(result)) \in SUBSET Res
  BY <1>1, Resources
<1> QED
  BY <1>1, <1>2 DEF Moved, Elements

(* The vector goes, as the exception leaves. *)
LEMMA VectorGoes ==
  ASSUME Inv, Unwind, Top = "result" PROVE Inv'
<1> DEFINE rs == IF TakesOver(fn) THEN {result[j] : j \in DOMAIN result} ELSE {}
<1>1. /\ pc = "unwind" /\ scope # <<>> /\ scope' = Pop /\ result' = <<>>
      /\ UNCHANGED <<fn, pc, count, owned>> /\ Free(rs, FALSE)
  BY DEF Unwind
<1>2. /\ scope' \in Seq(Locals) /\ Len(scope') = Len(scope) - 1
      /\ \A i \in 1..(Len(scope) - 1) : scope'[i] = scope[i]
      /\ Len(scope) \in Nat /\ Len(scope) > 0 /\ Top = scope[Len(scope)]
  BY <1>1, PopOK, Scopes DEF Top
<1>3. rs = Moved /\ Moved \in SUBSET Res
  BY MovedFrom
<1>4. \A r \in Res : Live(r) <=> r \in Moved \/ \E i \in 1..Len(scope) : r \in Guarded(scope[i])
  BY <1>1 DEF Inv, StageOK
<1>5. /\ misused' = {} /\ state' \in [Res -> {"none", "live", "freed"}]
      /\ \A r \in Res : Live(r)' <=> Live(r) /\ r \notin Moved
  BY <1>1, <1>3, <1>4, FreeOK DEF Inv
<1>6. TypeOK'
  BY <1>1, <1>2, <1>5 DEF Inv, TypeOK
<1>7. ScopeOK'
  BY <1>1, <1>2 DEF Inv, ScopeOK, Frame, All
<1>8. fn # "none" /\ (fn = "values" => Len(scope) = 1)
  <2>1. fn = "values" => Len(scope) <= 2 /\ (Len(scope) = 2 => scope[2] = "buffer_g")
    BY Scopes
  <2> QED
    BY <1>1, <1>2, <2>1, Small DEF Inv, StageOK
<1>9. ResultOK'
  BY <1>1, <1>2, <1>8 DEF Inv, TypeOK, ResultOK
<1>10. \A r \in Res : Live(r)' <=> \E i \in 1..(Len(scope) - 1) : r \in Guarded(scope[i])
  <2>1. Guarded(Top) = {}
    BY DEF Guarded
  <2>2. CASE fn = "providers"
    <3>1. Len(scope) = 2 /\ Moved = {}
      <4>1. Len(scope) <= 2 /\ scope[1] = "guard"
        BY <1>2, <2>2, Scopes
      <4> QED
        BY <1>2, <2>2, <4>1, Small DEF Moved, TakesOver
    <3>2. 1..Len(scope) = {1, 2} /\ 1..(Len(scope) - 1) = {1} /\ scope[2] = Top
      BY <1>2, <3>1
    <3> QED
      BY <1>4, <1>5, <2>1, <3>1, <3>2
  <2>3. CASE fn # "providers"
    <3>1. Len(scope) = 1
      <4>1. CASE fn = "names"
        <5>1. /\ Len(scope) <= 3 /\ (Len(scope) >= 2 => scope[2] = "buffer_g")
              /\ Len(scope) = 3 => scope[3] = "lengths_g"
          BY <4>1, Scopes
        <5> QED
          BY <1>2, <5>1, Small
      <4>2. CASE fn = "keys"
        <5>1. /\ Len(scope) <= 3 /\ (Len(scope) >= 2 => scope[2] = "array_guard")
              /\ Len(scope) = 3 => scope[3] = "strings_guard"
          BY <1>1, <4>2, Scopes
        <5> QED
          BY <1>2, <5>1, Small
      <4>3. CASE fn = "run"
        BY <1>2, <4>3, Scopes, Small
      <4> QED
        BY <1>8, <2>3, <4>1, <4>2, <4>3 DEF Inv, TypeOK, Fn
    <3>2. 1..Len(scope) = {1} /\ 1..(Len(scope) - 1) = {} /\ scope[1] = Top
      BY <1>2, <3>1
    <3> QED
      BY <1>4, <1>5, <2>1, <3>2
  <2> QED
    BY <2>2, <2>3
<1>11. StageOK'
  <2>1. Moved' = {}
    BY <1>1 DEF Moved, Elements
  <2>2. \A i \in 1..Len(scope') : Guarded(scope[i])' = Guarded(scope[i])
    BY <1>1, <1>2 DEF Guarded, Elements
  <2>3. \A r \in Res :
          Live(r)' <=> r \in Moved' \/ \E i \in 1..Len(scope') : r \in Guarded(scope[i])'
    BY <1>2, <1>10, <2>1, <2>2
  <2> QED
    BY <1>1, <1>8, <2>1, <2>3 DEF StageOK
<1> QED
  BY <1>5, <1>6, <1>7, <1>9, <1>11 DEF Inv

(* The function returns its vector: that local goes, and takes nothing along. *)
LEMMA VectorReturned ==
  ASSUME Inv, Return, Top = "result" PROVE Inv'
<1>1. /\ pc = "return" /\ scope # <<>> /\ scope' = Pop
      /\ UNCHANGED <<fn, pc, count, owned, result, state, misused>>
  BY DEF Return
<1>2. /\ scope' \in Seq(Locals) /\ Len(scope') = Len(scope) - 1
      /\ \A i \in 1..(Len(scope) - 1) : scope'[i] = scope[i]
      /\ Len(scope) \in Nat /\ Len(scope) > 0 /\ Top = scope[Len(scope)]
  BY <1>1, PopOK, Scopes DEF Top
<1>3. \A r \in Res : Live(r) <=> r \in Moved \/ \E i \in 1..Len(scope) : r \in Guarded(scope[i])
  BY <1>1 DEF Inv, StageOK
<1>4. TypeOK' /\ ScopeOK'
  BY <1>1, <1>2 DEF Inv, TypeOK, ScopeOK, Frame, All
<1>5. ResultOK'
  <2>1. fn = "values" => Len(scope) <= 2
    BY Scopes
  <2> QED
    BY <1>1, <1>2, <2>1 DEF Inv, ResultOK
<1>6. \A r \in Res : Live(r) <=> r \in Moved \/ \E i \in 1..(Len(scope) - 1) : r \in Guarded(scope[i])
  <2>1. Guarded(Top) = {}
    BY DEF Guarded
  <2>2. \A i \in 1..Len(scope) : i \in 1..(Len(scope) - 1) \/ i = Len(scope)
    BY <1>2
  <2>3. \A i \in 1..(Len(scope) - 1) : i \in 1..Len(scope)
    BY <1>2
  <2> QED
    BY <1>2, <1>3, <2>1, <2>2, <2>3
<1>7. StageOK'
  <2>1. Moved' = Moved
    BY <1>1 DEF Moved
  <2>2. \A i \in 1..Len(scope') : Guarded(scope[i])' = Guarded(scope[i])
    BY <1>1, <1>2 DEF Guarded, Elements
  <2>3. \A r \in Res :
          Live(r)' <=> r \in Moved' \/ \E i \in 1..Len(scope') : r \in Guarded(scope[i])'
    BY <1>1, <1>2, <1>6, <2>1, <2>2 DEF Live
  <2>4. fn # "none" /\ Len(result) = count
    BY <1>1 DEF Inv, StageOK
  <2> QED
    BY <1>1, <2>3, <2>4 DEF StageOK
<1> QED
  BY <1>1, <1>4, <1>5, <1>7 DEF Inv

-----------------------------------------------------------------------------
(* The function begins; the C call, however it ends. *)
LEMMA BeginOK == ASSUME Inv, NEW f \in Fn, Begin(f) PROVE Inv'
<1>1. /\ pc = "idle" /\ fn' = f /\ pc' = IF f = "run" THEN "reserve" ELSE "call"
      /\ scope' = IF f = "providers" THEN <<>> ELSE <<"result">>
      /\ UNCHANGED <<count, owned, result, state, misused>>
  BY DEF Begin
<1>2. Fresh /\ \A r \in Res : state[r] = "none"
  BY <1>1 DEF Inv, StageOK
<1>3. TypeOK'
  <2>1. <<>> \in Seq(Locals) /\ <<"result">> \in Seq(Locals)
    BY DEF Locals
  <2>2. scope' \in Seq(Locals)
    BY <1>1, <2>1
  <2>3. fn' \in Fn \cup {"none"} /\ pc' \in {"reserve", "call"}
    BY <1>1
  <2> QED
    BY <1>1, <2>2, <2>3 DEF Inv, TypeOK
<1>4. f \in {"values", "names", "keys", "providers", "run"}
  BY DEF Fn
<1>5. ScopeOK' /\ Len(scope') = Before'
  BY <1>1, <1>4 DEF ScopeOK, Frame, All, Before
<1>6. ResultOK'
  BY <1>1, <1>2, <1>4 DEF Inv, ResultOK, Fresh
<1>7. StageOK'
  <2>1. Fresh' /\ (\A r \in Res : state'[r] = "none") /\ fn' # "none"
    BY <1>1, <1>2, <1>4 DEF Fresh
  <2>2. pc' = "reserve" => fn' = "run" /\ Len(scope') = All'
    BY <1>1, <1>4 DEF All
  <2> QED
    BY <1>1, <1>4, <1>5, <2>1, <2>2 DEF StageOK
<1> QED
  BY <1>1, <1>3, <1>5, <1>6, <1>7 DEF Inv

LEMMA AllocatedIn ==
  ASSUME NEW f \in Fn, NEW k \in 0..MaxCount PROVE Allocated(f, k) \subseteq Res
BY Resources DEF Allocated

LEMMA CallOK == ASSUME Inv, NEW k \in 0..MaxCount, Call(k) PROVE Inv'
<1>1. /\ pc = "call" /\ fn # "run" /\ count' = k
      /\ state' = [r \in Res |-> IF r \in Allocated(fn, k) THEN "live" ELSE "none"]
      /\ pc' = IF k = 0 /\ fn # "providers" THEN "return" ELSE "guard"
      /\ UNCHANGED <<fn, owned, scope, result, misused>>
  BY DEF Call
<1>2. Fresh /\ Len(scope) = Before /\ fn # "none"
  BY <1>1 DEF Inv, StageOK
<1>3. TypeOK'
  BY <1>1 DEF Inv, TypeOK
<1>4. ScopeOK'
  <2>1. fn = "keys" => Len(scope) = 1
    BY <1>2 DEF Before
  <2> QED
    BY <1>1, <2>1 DEF Inv, ScopeOK, Frame, All
<1>5. ResultOK'
  BY <1>1, <1>2, Resources DEF Inv, ResultOK, Fresh
<1>6. \A r \in Res : Live(r)' <=> r \in Allocated(fn, k)
  BY <1>1 DEF Live
<1>7. CASE pc' = "guard"
  <2>1. k > 0 \/ fn = "providers"
    BY <1>1, <1>7, Resources
  <2>2. StageOK'
    BY <1>1, <1>2, <1>6, <1>7, <2>1 DEF StageOK, Fresh, Before
  <2> QED
    BY <1>1, <1>3, <1>4, <1>5, <2>2 DEF Inv
<1>8. CASE pc' = "return"
  <2>1. k = 0 /\ fn # "providers" /\ Len(scope) = 1 /\ scope[1] = "result"
    <3>1. k = 0 /\ fn # "providers"
      BY <1>1, <1>8
    <3>2. Len(scope) = 1
      BY <1>2, <3>1 DEF Before
    <3> QED
      BY <1>1, <3>1, <3>2, Scopes DEF Inv, TypeOK, Fn
  <2>2. Allocated(fn, k) = {} /\ Moved' = {} /\ Guarded(scope[1])' = {}
    BY <1>1, <1>2, <2>1 DEF Allocated, Moved, Elements, Guarded, Fresh
  <2>3. \A r \in Res :
          Live(r)' <=> r \in Moved' \/ \E i \in 1..Len(scope') : r \in Guarded(scope[i])'
    BY <1>1, <1>6, <2>1, <2>2
  <2>4. StageOK'
    BY <1>1, <1>2, <1>8, <2>1, <2>3 DEF StageOK, Fresh
  <2> QED
    BY <1>1, <1>3, <1>4, <1>5, <2>4 DEF Inv
<1> QED
  BY <1>1, <1>7, <1>8

LEMMA WrittenOK ==
  ASSUME Inv, NEW k \in 0..MaxCount, Written(k), pc' \in {"return", "unwind"} PROVE Inv'
<1>1. /\ pc = "call" /\ fn = "run" /\ count' = k
      /\ state' = [r \in Res |-> IF r \in Allocated(fn, k) THEN "live" ELSE "none"]
      /\ result' = [i \in 1..k |-> i]
      /\ UNCHANGED <<fn, owned, scope, misused>>
  BY DEF Written
<1>2. owned = 0 /\ Len(scope) = 1 /\ scope[1] = "result" /\ k \in Nat /\ 1..k \subseteq 1..MaxCount
  <2>1. owned = 0 /\ Len(scope) = 1
    BY <1>1 DEF Inv, StageOK, Fresh, Before
  <2> QED
    BY <1>1, <2>1, Scopes, Resources
<1>3. result' \in Seq(1..MaxCount) /\ Len(result') = k /\ \A i \in 1..k : result'[i] = i
  BY <1>1, <1>2
<1>4. TypeOK'
  BY <1>1, <1>3 DEF Inv, TypeOK
<1>5. ScopeOK' /\ ResultOK'
  BY <1>1, <1>2, <1>3 DEF Inv, ScopeOK, ResultOK, Frame, All
<1>6. \A r \in Res : Live(r)' <=> r \in 1..k
  <2>1. Allocated(fn, k) = 1..k
    BY <1>1, <1>2 DEF Allocated, Elements
  <2> QED
    BY <1>1, <2>1 DEF Live
<1>7. Moved' = 1..k /\ Guarded(scope[1])' = {}
  BY <1>1, <1>2, <1>3 DEF Moved, TakesOver, Elements, Guarded
<1>8. \A r \in Res :
        Live(r)' <=> r \in Moved' \/ \E i \in 1..Len(scope') : r \in Guarded(scope[i])'
  BY <1>1, <1>2, <1>6, <1>7
<1>9. StageOK'
  <2>1. scope' # <<>>
    BY <1>1, <1>2
  <2> QED
    BY <1>1, <1>3, <1>8, <2>1 DEF StageOK
<1> QED
  BY <1>1, <1>4, <1>5, <1>9 DEF Inv

(* An exception of reserve() or of a string copy: what there is is guarded.  *)
LEMMA Guarding ==
  ASSUME Inv, fn \notin {"run", "none"}, Len(scope) = All, count \in Nat,
         count > 0 \/ fn = "providers",
         fn \in {"values", "keys"} => Fresh /\ pc \notin {"fill", "return"}
  PROVE  \A r \in Res : r \in Allocated(fn, count)
                          <=> r \in Moved \/ \E i \in 1..Len(scope) : r \in Guarded(scope[i])
<1>1. Moved = {} /\ (fn = "values" => owned = 0)
  BY DEF Moved, Fresh, Elements, TakesOver
<1>2. count # 0 \/ fn = "providers"
  OBVIOUS
<1>3. CASE fn = "values"
  <2>1. 1..Len(scope) = {1, 2} /\ scope[1] = "result" /\ scope[2] = "buffer_g"
    BY <1>3, Scopes DEF All
  <2>2. Guarded("result") = {} /\ Guarded("buffer_g") = {Array} \cup Elements(count)
    BY <1>1, <1>3 DEF Guarded, Elements
  <2> QED
    BY <1>1, <1>2, <1>3, <2>1, <2>2 DEF Allocated
<1>4. CASE fn = "names"
  <2>1. /\ 1..Len(scope) = {1, 2, 3} /\ scope[1] = "result" /\ scope[2] = "buffer_g"
        /\ scope[3] = "lengths_g"
    BY <1>4, Scopes DEF All
  <2>2. Guarded("result") = {} /\ Guarded("buffer_g") = {Array} /\ Guarded("lengths_g") = {Lengths}
    BY <1>4 DEF Guarded
  <2> QED
    BY <1>1, <1>2, <1>4, <2>1, <2>2 DEF Allocated
<1>5. CASE fn = "keys"
  <2>1. /\ 1..Len(scope) = {1, 2, 3} /\ scope[1] = "result" /\ scope[2] = "array_guard"
        /\ scope[3] = "strings_guard"
    BY <1>5, Scopes DEF All
  <2>2. /\ Guarded("result") = {} /\ Guarded("array_guard") = {Array}
        /\ Guarded("strings_guard") = Elements(count)
    BY <1>5 DEF Guarded
  <2> QED
    BY <1>1, <1>2, <1>5, <2>1, <2>2 DEF Allocated
<1>6. CASE fn = "providers"
  <2>1. 1..Len(scope) = {1, 2} /\ scope[1] = "guard" /\ scope[2] = "result"
    BY <1>6, Scopes DEF All
  <2>2. Guarded("result") = {} /\ Guarded("guard") = {Array} \cup Elements(count)
    BY <1>6 DEF Guarded
  <2> QED
    BY <1>1, <1>2, <1>6, <2>1, <2>2 DEF Allocated
<1> QED
  BY <1>3, <1>4, <1>5, <1>6 DEF Inv, TypeOK, Fn

LEMMA CallFailsOK == ASSUME Inv, CallFails PROVE Inv'
<1>1. /\ pc = "call" /\ fn # "run" /\ pc' = "unwind"
      /\ UNCHANGED <<fn, count, owned, scope, result, state, misused>>
  BY DEF CallFails
<1>2. Fresh /\ Len(scope) = Before /\ fn # "none" /\ \A r \in Res : state[r] = "none"
  BY <1>1 DEF Inv, StageOK
<1>3. TypeOK' /\ ResultOK'
  BY <1>1 DEF Inv, TypeOK, ResultOK
<1>4. ScopeOK'
  <2>1. fn = "keys" => Len(scope) = 1
    BY <1>2 DEF Before
  <2> QED
    BY <1>1, <2>1 DEF Inv, ScopeOK, Frame, All
<1>5. Moved' = {} /\ \A i \in 1..Len(scope) : Guarded(scope[i])' = {}
  <2>1. Moved' = {}
    BY <1>1, <1>2 DEF Moved, Fresh, Elements
  <2>2. fn # "providers" => Len(scope) = 1 /\ scope[1] = "result"
    BY <1>1, <1>2, Scopes DEF Before, Inv, TypeOK, Fn
  <2>3. fn = "providers" => Len(scope) = 0
    BY <1>2 DEF Before
  <2>4. Guarded("result")' = {}
    BY DEF Guarded
  <2> QED
    BY <1>1, <2>1, <2>2, <2>3, <2>4
<1>6. StageOK'
  BY <1>1, <1>2, <1>5 DEF StageOK, Live, Fresh
<1> QED
  BY <1>1, <1>3, <1>4, <1>6 DEF Inv

(* The guards are declared. *)
LEMMA GuardOK == ASSUME Inv, Guard PROVE Inv'
<1>1. /\ pc = "guard" /\ pc' = "reserve" /\ scope' = scope \o Guards(fn)
      /\ UNCHANGED <<fn, count, owned, result, state, misused>>
  BY DEF Guard
<1>2. fn # "run" /\ fn # "none" /\ Len(scope) = Before /\ Fresh
  BY <1>1 DEF Inv, StageOK
<1>3. fn \in {"values", "names", "keys", "providers"}
  BY <1>2 DEF Inv, TypeOK, Fn
<1>4. /\ Len(scope) \in Nat /\ scope \in Seq(Locals)
      /\ \A i \in 1..Len(scope) : scope[i] = Frame[i]
  BY DEF Inv, TypeOK, ScopeOK
<1>5. /\ Guards(fn) \in Seq(Locals) /\ Len(Guards(fn)) = All - Before
      /\ \A i \in 1..Len(Guards(fn)) : Guards(fn)[i] = Frame'[Before + i]
  <2>1. CASE fn = "values"
    BY <1>1, <2>1 DEF Guards, Locals, All, Before, Frame
  <2>2. CASE fn = "names"
    BY <1>1, <2>2 DEF Guards, Locals, All, Before, Frame
  <2>3. CASE fn = "keys"
    BY <1>1, <2>3 DEF Guards, Locals, All, Before, Frame
  <2>4. CASE fn = "providers"
    BY <1>1, <2>4 DEF Guards, Locals, All, Before, Frame
  <2> QED
    BY <1>3, <2>1, <2>2, <2>3, <2>4
<1>6. /\ scope' \in Seq(Locals) /\ Len(scope') = All /\ All' = All
      /\ \A i \in 1..Before : scope'[i] = scope[i]
      /\ \A i \in 1..(All - Before) : scope'[Before + i] = Guards(fn)[i]
  BY <1>1, <1>2, <1>3, <1>4, <1>5 DEF All, Before
<1>7. ScopeOK'
  <2>1. \A i \in 1..Before : Frame'[i] = Frame[i]
    BY <1>1, <1>3 DEF Frame, Before
  <2>2. \A i \in 1..All : i \in 1..Before \/ \E j \in 1..(All - Before) : i = Before + j
    <3>1. All \in Nat /\ Before \in Nat
      BY DEF All, Before
    <3>2. \A i \in 1..All : i \in 1..Before \/ (i - Before \in 1..(All - Before) /\ i = Before + (i - Before))
      BY <3>1
    <3> QED
      BY <3>2
  <2>3. \A i \in 1..Before : scope'[i] = Frame'[i]
    BY <1>2, <1>4, <1>6, <2>1
  <2>4. \A j \in 1..(All - Before) : scope'[Before + j] = Frame'[Before + j]
    BY <1>5, <1>6
  <2>5. \A i \in 1..All : scope'[i] = Frame'[i]
    BY <2>2, <2>3, <2>4
  <2> QED
    BY <1>6, <2>5 DEF ScopeOK
<1>8. TypeOK'
  BY <1>1, <1>6 DEF Inv, TypeOK
<1>9. ResultOK'
  BY <1>1, <1>2 DEF Inv, ResultOK, Fresh
<1>10. StageOK'
  <2>1. /\ count > 0 \/ fn = "providers"
        /\ \A r \in Res : Live(r) <=> r \in Allocated(fn, count)
    BY <1>1 DEF Inv, StageOK
  <2> QED
    BY <1>1, <1>2, <1>6, <2>1 DEF StageOK, Live, Fresh, Allocated
<1> QED
  BY <1>1, <1>7, <1>8, <1>9, <1>10 DEF Inv

LEMMA ReserveFailsOK == ASSUME Inv, ReserveFails PROVE Inv'
<1>1. /\ pc = "reserve" /\ pc' = "unwind"
      /\ UNCHANGED <<fn, count, owned, scope, result, state, misused>>
  BY DEF ReserveFails
<1>2. Fresh /\ Len(scope) = All /\ fn # "none"
  BY <1>1 DEF Inv, StageOK
<1>3. TypeOK' /\ ResultOK'
  BY <1>1 DEF Inv, TypeOK, ResultOK
<1>4. ScopeOK'
  BY <1>1 DEF Inv, ScopeOK, Frame, All
<1>5. Moved' = Moved /\ Moved = {}
  BY <1>1, <1>2 DEF Moved, Fresh, Elements
<1>6. \A r \in Res : Live(r) <=> r \in Moved \/ \E i \in 1..Len(scope) : r \in Guarded(scope[i])
  <2>1. CASE fn = "run"
    <3>1. \A r \in Res : ~Live(r)
      BY <1>1, <2>1 DEF Inv, StageOK, Live
    <3>2. 1..Len(scope) = {1} /\ scope[1] = "result"
      BY <1>2, <2>1, Scopes DEF All
    <3>3. Guarded("result") = {}
      BY DEF Guarded
    <3> QED
      BY <1>5, <3>1, <3>2, <3>3
  <2>2. CASE fn # "run"
    <3>1. /\ count > 0 \/ fn = "providers"
          /\ \A r \in Res : Live(r) <=> r \in Allocated(fn, count)
      BY <1>1, <2>2 DEF Inv, StageOK
    <3>2. count \in Nat
      BY Resources DEF Inv, TypeOK
    <3> QED
      BY <1>1, <1>2, <2>2, <3>1, <3>2, Guarding
  <2> QED
    BY <2>1, <2>2
<1>7. \A r \in Res :
        Live(r)' <=> r \in Moved' \/ \E i \in 1..Len(scope') : r \in Guarded(scope[i])'
  <2>1. \A i \in 1..Len(scope) : Guarded(scope[i])' = Guarded(scope[i])
    BY <1>1 DEF Guarded, Elements
  <2> QED
    BY <1>1, <1>5, <1>6, <2>1 DEF Live
<1>8. StageOK'
  BY <1>1, <1>2, <1>5, <1>7 DEF StageOK, Fresh
<1> QED
  BY <1>1, <1>3, <1>4, <1>8 DEF Inv

(* Room is reserved; strings_guard, if there is one, is released. *)
LEMMA ReserveOK == ASSUME Inv, Reserve PROVE Inv'
<1>1. /\ pc = "reserve" /\ pc' = IF fn = "run" THEN "call" ELSE "fill"
      /\ scope' = [i \in DOMAIN scope |->
                     IF scope[i] = "strings_guard" THEN "released" ELSE scope[i]]
      /\ UNCHANGED <<fn, count, owned, result, state, misused>>
  BY DEF Reserve
<1>2. Fresh /\ Len(scope) = All /\ fn # "none"
  BY <1>1 DEF Inv, StageOK
<1>3. scope \in Seq(Locals) /\ DOMAIN scope = 1..Len(scope) /\ Len(scope) \in Nat
  BY DEF Inv, TypeOK
<1>4. \A i \in 1..Len(scope) : scope[i] \in Locals
  BY <1>3
<1>5. "released" \in Locals
  BY DEF Locals
<1>6. scope' \in Seq(Locals) /\ Len(scope') = Len(scope)
  BY <1>1, <1>3, <1>4, <1>5
<1>7. TypeOK'
  <2>1. pc' \in {"call", "fill"}
    BY <1>1
  <2> QED
    BY <1>1, <1>6, <2>1 DEF Inv, TypeOK
<1>8. ResultOK'
  BY <1>1, <1>2 DEF Inv, ResultOK, Fresh
<1>9. ScopeOK'
  <2>1. CASE fn = "keys"
    <3>1. /\ 1..Len(scope) = {1, 2, 3} /\ scope[1] = "result" /\ scope[2] = "array_guard"
          /\ scope[3] = "strings_guard"
      BY <1>1, <1>2, <2>1, Scopes DEF All
    <3>2. scope'[1] = "result" /\ scope'[2] = "array_guard" /\ scope'[3] = "released"
      BY <1>1, <1>3, <3>1
    <3>3. pc' = "fill" /\ Frame' = <<"result", "array_guard", "released">> /\ All' = 3
      BY <1>1, <2>1 DEF Frame, All
    <3> QED
      BY <1>2, <1>6, <2>1, <3>1, <3>2, <3>3 DEF ScopeOK, All
  <2>2. CASE fn # "keys"
    <3>1. Frame' = Frame /\ All' = All
      BY <1>1, <2>2 DEF Frame, All
    <3>2. \A i \in 1..Len(scope) : scope[i] # "strings_guard"
      <4>1. CASE fn = "values"
        BY <1>2, <4>1, Scopes DEF All
      <4>2. CASE fn = "names"
        BY <1>2, <4>2, Scopes DEF All
      <4>3. CASE fn = "providers"
        BY <1>2, <4>3, Scopes DEF All
      <4>4. CASE fn = "run"
        BY <1>2, <4>4, Scopes DEF All
      <4> QED
        BY <1>2, <2>2, <4>1, <4>2, <4>3, <4>4 DEF Inv, TypeOK, Fn
    <3>3. \A i \in 1..Len(scope) : scope'[i] = scope[i]
      BY <1>1, <1>3, <3>2
    <3> QED
      BY <1>6, <3>1, <3>3 DEF Inv, ScopeOK
  <2> QED
    BY <2>1, <2>2
<1>10. StageOK'
  <2>1. CASE fn = "run"
    <3>1. Len(scope) = Before
      BY <1>2, <2>1 DEF All, Before
    <3>2. \A r \in Res : state[r] = "none"
      BY <1>1, <2>1 DEF Inv, StageOK
    <3>3. Before' = Before /\ Fresh'
      BY <1>1, <1>2 DEF Before, Fresh
    <3> QED
      BY <1>1, <1>2, <1>6, <2>1, <3>1, <3>2, <3>3 DEF StageOK
  <2>2. CASE fn # "run"
    <3>1. /\ count > 0 \/ fn = "providers"
          /\ \A r \in Res : Live(r) <=> r \in Allocated(fn, count)
      BY <1>1, <2>2 DEF Inv, StageOK
    <3>2. All' = All /\ pc' = "fill"
      BY <1>1, <2>2 DEF All
    <3>3. \A r \in Res : Live(r)' <=> r \in Allocated(fn, count)'
      BY <1>1, <3>1 DEF Live, Allocated, Elements
    <3> QED
      BY <1>1, <1>2, <1>6, <2>2, <3>1, <3>2, <3>3 DEF StageOK
  <2> QED
    BY <2>1, <2>2
<1> QED
  BY <1>1, <1>7, <1>8, <1>9, <1>10 DEF Inv

(* An element goes into the vector. *)
LEMMA FillOK == ASSUME Inv, Fill PROVE Inv'
<1> DEFINE i == Len(result) + 1
<1> DEFINE source == IF fn = "names" THEN {Array, Lengths} ELSE {Array, i}
<1>1. /\ pc = "fill" /\ i <= count /\ result' = Append(result, i)
      /\ misused' = misused \cup {r \in source : state[r] # "live"}
      /\ owned' = IF fn = "values" THEN owned + 1 ELSE owned
      /\ UNCHANGED <<fn, pc, count, scope, state>>
  BY DEF Fill
<1>2. /\ fn # "run" /\ fn # "none" /\ Len(scope) = All
      /\ \A r \in Res : Live(r) <=> r \in Allocated(fn, count)
  BY <1>1 DEF Inv, StageOK
<1>3. /\ count \in 0..MaxCount /\ MaxCount \in Nat /\ Len(result) \in Nat
      /\ result \in Seq(1..MaxCount) /\ owned \in 0..MaxCount
  BY Resources DEF Inv, TypeOK
<1>4. i \in 1..count /\ i \in 1..MaxCount /\ count # 0
  BY <1>1, <1>3
<1>5. source \subseteq Allocated(fn, count) /\ source \subseteq Res
  <2>1. i \in Elements(count)
    BY <1>4 DEF Elements
  <2>2. i \in Res
    BY <1>3, <1>4 DEF Res
  <2> QED
    BY <1>2, <1>4, <2>1, <2>2, Resources DEF Allocated
<1>6. misused' = {}
  <2>1. \A r \in source : state[r] = "live"
    BY <1>2, <1>5 DEF Live
  <2> QED
    BY <1>1, <2>1 DEF Inv
<1>7. /\ result' \in Seq(1..MaxCount) /\ Len(result') = i /\ result'[i] = i
      /\ \A j \in 1..Len(result) : result'[j] = result[j]
  BY <1>1, <1>3, <1>4
<1>8. ResultOK' /\ owned' \in 0..MaxCount
  <2>1. \A j \in 1..i : j \in 1..Len(result) \/ j = i
    BY <1>3
  <2>2. \A j \in 1..Len(result) : result[j] = j
    BY DEF Inv, ResultOK
  <2>3. \A j \in 1..Len(result') : result'[j] = j
    BY <1>7, <2>1, <2>2
  <2>4. fn = "values" => owned = Len(result)
    BY <1>2 DEF Inv, ResultOK, All
  <2>5. fn = "values" => owned' = i
    BY <1>1, <2>4
  <2>6. owned' \in 0..MaxCount
    BY <1>1, <1>3, <1>4, <2>5
  <2> QED
    BY <1>1, <1>7, <2>3, <2>5, <2>6 DEF ResultOK
<1>9. TypeOK'
  BY <1>1, <1>6, <1>7, <1>8 DEF Inv, TypeOK
<1>10. ScopeOK'
  BY <1>1 DEF Inv, ScopeOK, Frame, All
<1>11. StageOK'
  <2>1. All' = All /\ Allocated(fn, count)' = Allocated(fn, count)
    BY <1>1 DEF All, Allocated, Elements
  <2>2. \A r \in Res : Live(r)' <=> r \in Allocated(fn, count)'
    BY <1>1, <1>2, <2>1 DEF Live
  <2> QED
    BY <1>1, <1>2, <1>4, <2>1, <2>2, <1>3 DEF StageOK
<1> QED
  BY <1>6, <1>8, <1>9, <1>10, <1>11 DEF Inv

LEMMA FillFailsOK == ASSUME Inv, FillFails PROVE Inv'
<1>1. /\ pc = "fill" /\ ~TakesOver(fn) /\ pc' = "unwind"
      /\ UNCHANGED <<fn, count, owned, scope, result, state, misused>>
  BY DEF FillFails
<1>2. /\ fn \in {"names", "providers"} /\ Len(scope) = All
      /\ count > 0 \/ fn = "providers"
      /\ \A r \in Res : Live(r) <=> r \in Allocated(fn, count)
  BY <1>1 DEF Inv, StageOK, TypeOK, Fn, TakesOver
<1>3. TypeOK' /\ ResultOK'
  BY <1>1 DEF Inv, TypeOK, ResultOK
<1>4. ScopeOK'
  BY <1>1, <1>2 DEF Inv, ScopeOK, Frame, All
<1>5. count \in Nat
  BY Resources DEF Inv, TypeOK
<1>6. \A r \in Res : Live(r) <=> r \in Moved \/ \E i \in 1..Len(scope) : r \in Guarded(scope[i])
  BY <1>2, <1>5, Guarding
<1>7. Moved' = Moved /\ Moved = {} /\ \A i \in 1..Len(scope) : Guarded(scope[i])' = Guarded(scope[i])
  BY <1>1 DEF Moved, Guarded, Elements
<1>8. \A r \in Res :
        Live(r)' <=> r \in Moved' \/ \E i \in 1..Len(scope') : r \in Guarded(scope[i])'
  BY <1>1, <1>6, <1>7 DEF Live
<1>9. StageOK'
  BY <1>1, <1>2, <1>7, <1>8 DEF StageOK
<1> QED
  BY <1>1, <1>3, <1>4, <1>9 DEF Inv

LEMMA FilledOK == ASSUME Inv, Filled PROVE Inv'
<1>1. /\ pc = "fill" /\ Len(result) = count /\ pc' = "return"
      /\ UNCHANGED <<fn, count, owned, scope, result, state, misused>>
  BY DEF Filled
<1>2. /\ fn # "run" /\ fn # "none" /\ Len(scope) = All
      /\ count > 0 \/ fn = "providers"
      /\ \A r \in Res : Live(r) <=> r \in Allocated(fn, count)
  BY <1>1 DEF Inv, StageOK
<1>3. TypeOK' /\ ResultOK'
  BY <1>1 DEF Inv, TypeOK, ResultOK
<1>4. ScopeOK'
  BY <1>1 DEF Inv, ScopeOK, Frame, All
<1>5. count \in Nat /\ (count # 0 \/ fn = "providers")
  BY <1>2, Resources DEF Inv, TypeOK
<1>6. \A r \in Res : Live(r) <=> r \in Moved \/ \E i \in 1..Len(scope) : r \in Guarded(scope[i])
  <2>1. CASE fn = "values"
    <3>1. 1..Len(scope) = {1, 2} /\ scope[1] = "result" /\ scope[2] = "buffer_g"
      BY <1>2, <2>1, Scopes DEF All
    <3>2. owned = count
      BY <1>1, <1>2, <2>1 DEF Inv, ResultOK, All
    <3>3. Guarded("result") = {} /\ Guarded("buffer_g") = {Array}
      BY <1>5, <2>1, <3>2 DEF Guarded, Elements
    <3>4. Moved = Elements(count) /\ Allocated(fn, count) = {Array} \cup Elements(count)
      BY <1>1, <1>5, <2>1 DEF Moved, TakesOver, Allocated
    <3> QED
      BY <1>2, <3>1, <3>3, <3>4
  <2>2. CASE fn = "keys"
    <3>1. /\ 1..Len(scope) = {1, 2, 3} /\ scope[1] = "result" /\ scope[2] = "array_guard"
          /\ scope[3] = "released"
      BY <1>1, <1>2, <2>2, Scopes DEF All
    <3>2. Guarded("result") = {} /\ Guarded("array_guard") = {Array} /\ Guarded("released") = {}
      BY DEF Guarded
    <3>3. Moved = Elements(count) /\ Allocated(fn, count) = {Array} \cup Elements(count)
      BY <1>1, <1>5, <2>2 DEF Moved, TakesOver, Allocated
    <3> QED
      BY <1>2, <3>1, <3>2, <3>3
  <2>3. CASE fn \notin {"values", "keys"}
    BY <1>2, <1>5, <2>3, Guarding
  <2> QED
    BY <2>1, <2>2, <2>3
<1>7. Moved' = Moved /\ \A i \in 1..Len(scope) : Guarded(scope[i])' = Guarded(scope[i])
  BY <1>1 DEF Moved, Guarded, Elements
<1>8. \A r \in Res :
        Live(r)' <=> r \in Moved' \/ \E i \in 1..Len(scope') : r \in Guarded(scope[i])'
  BY <1>1, <1>6, <1>7 DEF Live
<1>9. StageOK'
  BY <1>1, <1>2, <1>8 DEF StageOK
<1> QED
  BY <1>1, <1>3, <1>4, <1>9 DEF Inv

-----------------------------------------------------------------------------
(* The way out. *)
LEMMA UnwindOK == ASSUME Inv, Unwind PROVE Inv'
<1>1. CASE Top = "result"
  BY <1>1, VectorGoes
<1>2. CASE Top # "result"
  <2>1. /\ pc = "unwind" /\ scope # <<>> /\ scope' = Pop
        /\ FreeGuarded(Top) /\ UNCHANGED <<fn, pc, count, owned, result>>
    BY <1>2 DEF Unwind
  <2> QED
    BY <1>2, <2>1, GuardGoes
<1> QED
  BY <1>1, <1>2

LEMMA ReturnOK == ASSUME Inv, Return PROVE Inv'
<1>1. CASE Top = "result"
  BY <1>1, VectorReturned
<1>2. CASE Top # "result"
  <2>1. /\ pc = "return" /\ scope # <<>> /\ scope' = Pop
        /\ FreeGuarded(Top) /\ UNCHANGED <<fn, pc, count, owned, result>>
    BY <1>2 DEF Return
  <2> QED
    BY <1>2, <2>1, GuardGoes
<1> QED
  BY <1>1, <1>2

LEMMA LeaveOK == ASSUME Inv, Leave PROVE Inv'
<1>1. /\ pc \in {"unwind", "return"} /\ scope = <<>>
      /\ pc' = IF pc = "unwind" THEN "threw" ELSE "returned"
      /\ UNCHANGED <<fn, count, owned, scope, result, state, misused>>
  BY DEF Leave
<1>2. fn # "none" /\ \A r \in Res : Live(r) <=> r \in Moved
  BY <1>1 DEF Inv, StageOK
<1>3. TypeOK' /\ ResultOK'
  <2>1. pc' \in {"threw", "returned"}
    BY <1>1
  <2> QED
    BY <1>1, <2>1 DEF Inv, TypeOK, ResultOK
<1>4. ScopeOK'
  BY <1>1, <1>2 DEF ScopeOK, All
<1>5. Moved' = Moved
  BY <1>1 DEF Moved
<1>6. StageOK'
  <2>1. CASE pc = "unwind"
    <3>1. \A r \in Res : ~Live(r)
      BY <1>1, <1>2, <2>1 DEF Inv, StageOK
    <3> QED
      BY <1>1, <1>2, <2>1, <3>1 DEF StageOK, Live
  <2>2. CASE pc = "return"
    <3>1. Len(result) = count
      BY <2>2 DEF Inv, StageOK
    <3> QED
      BY <1>1, <1>2, <1>5, <2>2, <3>1 DEF StageOK, Live
  <2> QED
    BY <1>1, <2>1, <2>2
<1> QED
  BY <1>1, <1>3, <1>4, <1>6 DEF Inv

LEMMA DropResultOK == ASSUME Inv, DropResult PROVE Inv'
<1>1. /\ pc = "returned" /\ result' = <<>> /\ pc' = "dropped"
      /\ UNCHANGED <<fn, count, owned, scope>> /\ Free(Moved, FALSE)
  BY MovedFrom DEF DropResult
<1>2. scope = <<>> /\ fn # "none" /\ \A r \in Res : Live(r) <=> r \in Moved
  BY <1>1 DEF Inv, StageOK
<1>3. /\ misused' = {} /\ state' \in [Res -> {"none", "live", "freed"}]
      /\ \A r \in Res : Live(r)' <=> Live(r) /\ r \notin Moved
  BY <1>1, <1>2, MovedFrom, FreeOK DEF Inv
<1>4. TypeOK'
  BY <1>1, <1>3 DEF Inv, TypeOK
<1>5. ScopeOK' /\ ResultOK' /\ StageOK'
  <2>1. count \in Nat
    BY Resources DEF Inv, TypeOK
  <2> QED
    BY <1>1, <1>2, <1>3, <2>1 DEF ScopeOK, All, ResultOK, StageOK
<1> QED
  BY <1>3, <1>4, <1>5 DEF Inv

LEMMA StepOK == ASSUME Inv, Step PROVE Inv'
<1>1. ASSUME NEW k \in 0..MaxCount, Call(k) \/ Run(k) \/ RunFails(k) PROVE Inv'
  BY <1>1, CallOK, WrittenOK DEF Run, RunFails
<1> QED
  BY <1>1, CallFailsOK, GuardOK, ReserveFailsOK, ReserveOK, FillOK, FillFailsOK, FilledOK,
     UnwindOK, ReturnOK, LeaveOK, DropResultOK DEF Step

(* What a program does concerns the functions only when it calls one. *)
LEMMA CallerSteps ==
  [ApiNext]_<<apiVars, vars>> => Step \/ (\E f \in Fn : Begin(f)) \/ UNCHANGED vars
BY DEF ApiNext, CallOn, ViewOf, ReleaseOwner, Adopt, Relabel, CallFree, EnterKernel, LeaveScope,
       ReturnYoungest, CallVector, VectorStep, Over, vars

LEMMA IdleOK == ASSUME Inv, UNCHANGED vars PROVE Inv'
<1>1. UNCHANGED <<fn, pc, count, owned, scope, result, state, misused>>
  BY DEF vars
<1>2. TypeOK' /\ ResultOK' /\ misused' = {}
  BY <1>1 DEF Inv, TypeOK, ResultOK
<1>3. ScopeOK'
  BY <1>1 DEF Inv, ScopeOK, All, Frame
<1>4. StageOK'
  BY <1>1 DEF Inv, StageOK, Before, All, Fresh, Live, Allocated, Elements, Moved, Guarded
<1> QED
  BY <1>2, <1>3, <1>4 DEF Inv

LEMMA InitOK == ApiInit => Inv
<1> SUFFICES ASSUME Init PROVE Inv
  BY DEF ApiInit
<1>1. TypeOK /\ misused = {}
  BY Resources DEF Init, TypeOK
<1>2. ScopeOK /\ ResultOK
  BY DEF Init, ScopeOK, All, ResultOK
<1>3. StageOK
  BY DEF Init, StageOK, Before, Fresh
<1> QED
  BY <1>1, <1>2, <1>3 DEF Inv

LEMMA NextOK == Inv /\ [ApiNext]_<<apiVars, vars>> => Inv'
BY CallerSteps, StepOK, BeginOK, IdleOK

(* The invariant holds of every program, for any number of results. *)
THEOREM TransferInvariant == ApiSpec => []Inv
BY InitOK, NextOK, PTL DEF ApiSpec

-----------------------------------------------------------------------------
(* Nothing is freed twice and no pointer is read out of a freed array, *)
(* wherever an exception strikes.                                      *)
THEOREM NoResultMisused == ApiSpec => []NoMisuse
<1>1. Inv => NoMisuse
  BY DEF Inv, NoMisuse
<1> QED
  BY <1>1, TransferInvariant, PTL

(* An exception leaves nothing of what the C call handed out behind. *)
THEOREM ThrowsLeaveNothing == ApiSpec => []ThrowsClean
<1>1. Inv => ThrowsClean
  BY DEF Inv, StageOK, ThrowsClean, Live
<1> QED
  BY <1>1, TransferInvariant, PTL

(* A function that returns hands its caller all the results, in order, and *)
(* nothing else stays allocated.                                           *)
THEOREM AllReturned == ApiSpec => []ReturnsAll
<1>1. Inv => ReturnsAll
  <2> SUFFICES ASSUME Inv, pc = "returned" PROVE ReturnsAll
    BY DEF ReturnsAll
  <2>1. /\ Len(result) = count /\ result \in Seq(1..MaxCount)
        /\ \A i \in 1..Len(result) : result[i] = i
        /\ \A r \in Res : Live(r) <=> r \in Moved
    BY DEF Inv, TypeOK, ResultOK, StageOK
  <2>2. result = [i \in 1..count |-> i]
    BY <2>1
  <2>3. \A r \in Res : r \in Moved <=> TakesOver(fn) /\ r \in Elements(count)
    BY <2>1 DEF Moved
  <2> QED
    BY <2>1, <2>2, <2>3 DEF ReturnsAll, Live
<1> QED
  BY <1>1, TransferInvariant, PTL

-----------------------------------------------------------------------------
(* The life of a resource. *)

(* What a step may do to one. *)
ResourceStep(r) ==
  \/ state'[r] = state[r]
  \/ state[r] = "none" /\ state'[r] = "live"
  \/ state[r] = "live" /\ state'[r] = "freed"

LEMMA FreedOnce ==
  ASSUME NEW rs \in SUBSET Res, NEW ra \in BOOLEAN, Free(rs, ra), misused' = {}, NEW r \in Res
  PROVE  ResourceStep(r)
<1>1. \A x \in rs : state[x] = "live"
  BY DEF Free
<1> QED
  BY <1>1 DEF Free, ResourceStep

LEMMA ResourceLife ==
  ASSUME Inv, Inv', [ApiNext]_<<apiVars, vars>>, NEW r \in Res
  PROVE  ResourceStep(r)
<1>1. misused' = {}
  BY DEF Inv
<1>2. CASE UNCHANGED state
  BY <1>2 DEF ResourceStep
<1>3. CASE pc = "call" /\ \E rs : state' = [x \in Res |-> IF x \in rs THEN "live" ELSE "none"]
  <2>1. state[r] = "none"
    BY <1>3 DEF Inv, StageOK
  <2> QED
    BY <1>3, <2>1 DEF ResourceStep
<1>4. CASE scope # <<>> /\ Top # "result" /\ scope' = Pop /\ FreeGuarded(Top)
  <2>1. Top \in Locals \ {"result"}
    BY <1>4, PopOK
  <2>2. Guarded(Top) \in SUBSET Res
        /\ (Free(Guarded(Top), FALSE) \/ Free(Guarded(Top), TRUE))
    BY <1>4, <2>1, GuardFrees
  <2> QED
    BY <1>1, <2>2, FreedOnce
<1>5. CASE Free(Moved, FALSE)
  BY <1>1, <1>5, FreedOnce, MovedFrom
<1>6. CASE Step
  <2>1. CASE \E k \in 0..MaxCount : Call(k) \/ Run(k) \/ RunFails(k)
    BY <1>3, <2>1 DEF Call, Run, RunFails, Written
  <2>2. CASE CallFails \/ Guard \/ ReserveFails \/ Reserve \/ Fill \/ FillFails \/ Filled \/ Leave
    BY <1>2, <2>2 DEF CallFails, Guard, ReserveFails, Reserve, Fill, FillFails, Filled, Leave
  <2>3. CASE Unwind
    BY <1>4, <1>5, <2>3, MovedFrom DEF Unwind
  <2>4. CASE Return
    BY <1>2, <1>4, <2>4 DEF Return
  <2>5. CASE DropResult
    BY <1>5, <2>5, MovedFrom DEF DropResult
  <2> QED
    BY <1>6, <2>1, <2>2, <2>3, <2>4, <2>5 DEF Step
<1>7. CASE \E f \in Fn : Begin(f)
  BY <1>2, <1>7 DEF Begin
<1>8. CASE UNCHANGED vars
  BY <1>2, <1>8 DEF vars
<1> QED
  BY <1>6, <1>7, <1>8, CallerSteps

(* Who must free a resource, while there is one to free. *)
LEMMA OneResponsible ==
  ASSUME Inv, NEW r \in Res, Live(r)
  PROVE  \E h \in Locals \cup {"function"} : Responsible(r) = {h}
<1>1. InResult(r) <=> r \in Moved
  <2>1. DOMAIN result = 1..Len(result) /\ \A j \in 1..Len(result) : result[j] = j
    BY DEF Inv, TypeOK, ResultOK
  <2> QED
    BY <2>1 DEF InResult, Moved, Elements
<1>2. /\ DOMAIN scope = 1..Len(scope) /\ Len(scope) \in Nat /\ Array \notin 1..MaxCount
      /\ count \in 0..MaxCount /\ MaxCount \in Nat /\ Len(result) \in Nat /\ Len(result) <= count
      /\ Array # Lengths
  BY Resources DEF Inv, TypeOK, ResultOK
<1>3. Moved \subseteq 1..MaxCount /\ Array \notin Moved
  BY <1>2 DEF Moved, Elements
<1>4. pc \in {"guard", "reserve", "fill", "unwind", "return", "returned"} /\ fn # "none"
  BY DEF Inv, TypeOK, StageOK, Live
<1>5. fn \in Fn
  BY <1>4 DEF Inv, TypeOK
<1> DEFINE I == r \in Moved
           F == pc = "guard" \/ (fn = "keys" /\ pc = "fill" /\ r # Array /\ ~InResult(r))
           G == /\ \E i \in 1..Len(scope) : scope[i] = GuardOf(r)
                /\ fn = "values" /\ r # Array => r > owned
<1>6. Responsible(r) = {x \in {"result"} : I} \cup {x \in {"function"} : F}
                         \cup {x \in {GuardOf(r)} : G}
  BY <1>1, <1>2 DEF Responsible
<1>7. GuardOf(r) \in Locals \cup {"function"}
  BY <1>5 DEF GuardOf, Fn, Locals
<1> SUFFICES \/ I /\ ~F /\ ~G
             \/ ~I /\ F /\ ~G
             \/ ~I /\ ~F /\ G
  <2>1. CASE I /\ ~F /\ ~G
    <3>1. Responsible(r) = {"result"}
      BY <1>6, <2>1
    <3> QED
      BY <3>1 DEF Locals
  <2>2. CASE ~I /\ F /\ ~G
    <3>1. Responsible(r) = {"function"}
      BY <1>6, <2>2
    <3> QED
      BY <3>1
  <2>3. CASE ~I /\ ~F /\ G
    <3>1. Responsible(r) = {GuardOf(r)}
      BY <1>6, <2>3
    <3> QED
      BY <1>7, <3>1
  <2> QED
    BY <2>1, <2>2, <2>3
<1>8. CASE pc = "guard"
  <2>1. I = FALSE /\ F = TRUE
    BY <1>8 DEF Inv, StageOK, Moved, Fresh, Elements
  <2>2. ~G
    <3>1. Len(scope) = Before /\ fn # "run"
      BY <1>8 DEF Inv, StageOK
    <3>2. \A i \in 1..Len(scope) : scope[i] = "result"
      BY <1>4, <1>5, <3>1, Scopes DEF Before, Fn
    <3>3. GuardOf(r) # "result"
      BY <1>5, <3>1 DEF GuardOf, Fn
    <3> QED
      BY <3>2, <3>3
  <2> QED
    BY <2>1, <2>2
<1>9. CASE pc \in {"reserve", "fill"}
  <2>1. fn # "run" /\ Len(scope) = All /\ r \in Allocated(fn, count) /\ (pc = "reserve" => Fresh)
    BY <1>9 DEF Inv, StageOK, Live
  <2>2. pc = "reserve" => Moved = {} /\ owned = 0
    BY <2>1 DEF Moved, Fresh, Elements
  <2>3. CASE fn = "values"
    <3>1. 2 \in 1..Len(scope) /\ scope[2] = "buffer_g" /\ GuardOf(r) = "buffer_g" /\ owned = Len(result)
      BY <2>1, <2>3, Scopes DEF All, GuardOf, Inv, ResultOK
    <3>2. r = Array \/ r \in 1..count
      BY <2>1, <2>3 DEF Allocated, Elements
    <3>3. Moved = 1..owned
      BY <2>3, <3>1 DEF Moved, TakesOver, Elements
    <3>4. ~F
      BY <1>9, <2>3
    <3>5. r # Array => (I <=> ~(r > owned))
      BY <1>2, <3>1, <3>2, <3>3
    <3>6. \E i \in 1..Len(scope) : scope[i] = GuardOf(r)
      BY <3>1
    <3>7. CASE r = Array
      BY <1>3, <3>4, <3>6, <3>7
    <3>8. CASE r # Array
      BY <2>3, <3>4, <3>5, <3>6, <3>8
    <3> QED
      BY <3>7, <3>8
  <2>4. CASE fn = "names"
    <3>1. /\ 2 \in 1..Len(scope) /\ scope[2] = "buffer_g" /\ 3 \in 1..Len(scope)
          /\ scope[3] = "lengths_g" /\ GuardOf(r) \in {"buffer_g", "lengths_g"}
      BY <2>1, <2>4, Scopes DEF All, GuardOf
    <3>2. Moved = {} /\ ~F
      BY <1>9, <2>4 DEF Moved, TakesOver
    <3> QED
      BY <2>4, <3>1, <3>2
  <2>5. CASE fn = "providers"
    <3>1. 1 \in 1..Len(scope) /\ scope[1] = "guard" /\ GuardOf(r) = "guard"
      BY <2>1, <2>5, Scopes DEF All, GuardOf
    <3>2. Moved = {} /\ ~F
      BY <1>9, <2>5 DEF Moved, TakesOver
    <3> QED
      BY <2>5, <3>1, <3>2
  <2>6. CASE fn = "keys"
    <3>1. /\ 1..Len(scope) = {1, 2, 3} /\ scope[1] = "result" /\ scope[2] = "array_guard"
          /\ scope[3] = IF pc = "fill" THEN "released" ELSE "strings_guard"
      BY <1>9, <2>1, <2>6, Scopes DEF All
    <3>2. GuardOf(r) = IF r = Array THEN "array_guard" ELSE "strings_guard"
      BY <2>6 DEF GuardOf
    <3>3. CASE r = Array
      BY <1>3, <1>9, <2>6, <3>1, <3>2, <3>3
    <3>4. CASE r # Array /\ pc = "reserve"
      BY <2>2, <2>6, <3>1, <3>2, <3>4
    <3>5. CASE r # Array /\ pc = "fill"
      BY <1>1, <2>6, <3>1, <3>2, <3>5
    <3> QED
      BY <1>9, <3>3, <3>4, <3>5
  <2> QED
    BY <1>5, <2>1, <2>3, <2>4, <2>5, <2>6 DEF Fn
<1>10. CASE pc \in {"unwind", "return"}
  <2>1. ~F
    BY <1>10
  <2>2. I \/ \E i \in 1..Len(scope) : r \in Guarded(scope[i])
    BY <1>10 DEF Inv, StageOK
  <2>3. CASE fn = "values"
    <3>1. /\ Len(scope) <= 2 /\ (Len(scope) >= 1 => scope[1] = "result")
          /\ Len(scope) = 2 => scope[2] = "buffer_g" /\ owned = Len(result)
      BY <2>3, Scopes DEF Inv, ResultOK
    <3>2. \A i \in 1..Len(scope) : i = 1 \/ (i = 2 /\ Len(scope) = 2)
      BY <1>2, <3>1
    <3>3. /\ GuardOf(r) = "buffer_g" /\ Guarded("result") = {}
          /\ Guarded("buffer_g") = {Array} \cup {i \in 1..count : i > owned}
      BY <2>3 DEF GuardOf, Guarded, Elements
    <3>4. ASSUME I PROVE ~G
      <4>1. r \in 1..Len(result) /\ r # Array
        BY <1>3, <2>3, <3>4 DEF Moved, TakesOver, Elements
      <4>2. Len(scope) = 2 => ~(r > owned)
        BY <1>2, <3>1, <4>1
      <4>3. Len(scope) # 2 => \A i \in 1..Len(scope) : scope[i] = "result"
        BY <1>2, <3>1, <3>2
      <4> QED
        BY <2>3, <3>3, <4>1, <4>2, <4>3
    <3>5. ASSUME NEW i \in 1..Len(scope), r \in Guarded(scope[i]) PROVE G
      <4>1. scope[i] = "buffer_g"
        BY <1>2, <3>1, <3>2, <3>3, <3>5
      <4> QED
        BY <3>3, <3>5, <4>1
    <3> QED
      BY <2>1, <2>2, <3>4, <3>5
  <2>4. CASE fn = "names"
    <3>1. Moved = {} /\ GuardOf(r) = IF r = Array THEN "buffer_g" ELSE "lengths_g"
      BY <2>4 DEF Moved, TakesOver, GuardOf
    <3>2. \A i \in 1..Len(scope) : scope[i] \in {"result", "buffer_g", "lengths_g"}
      BY <2>4, Scopes DEF Inv, ScopeOK, All, Frame
    <3>3. /\ Guarded("result") = {} /\ Guarded("buffer_g") = {Array}
          /\ Guarded("lengths_g") = {Lengths}
      BY <2>4 DEF Guarded
    <3>4. ASSUME NEW i \in 1..Len(scope), r \in Guarded(scope[i]) PROVE scope[i] = GuardOf(r)
      BY <1>2, <3>1, <3>2, <3>3, <3>4
    <3> QED
      BY <2>1, <2>2, <2>4, <3>1, <3>4
  <2>5. CASE fn = "providers"
    <3>1. Moved = {} /\ GuardOf(r) = "guard"
      BY <2>5 DEF Moved, TakesOver, GuardOf
    <3>2. \A i \in 1..Len(scope) : scope[i] \in {"result", "guard"}
      BY <2>5 DEF Inv, ScopeOK, All, Frame
    <3>3. Guarded("result") = {}
      BY DEF Guarded
    <3>4. ASSUME NEW i \in 1..Len(scope), r \in Guarded(scope[i]) PROVE scope[i] = GuardOf(r)
      BY <3>1, <3>2, <3>3, <3>4
    <3> QED
      BY <2>1, <2>2, <2>5, <3>1, <3>4
  <2>6. CASE fn = "keys"
    <3>1. GuardOf(r) = IF r = Array THEN "array_guard" ELSE "strings_guard"
      BY <2>6 DEF GuardOf
    <3>2. \A i \in 1..Len(scope) :
            scope[i] \in {"result", "array_guard", IF pc = "return" THEN "released" ELSE "strings_guard"}
      BY <1>10, <2>6 DEF Inv, ScopeOK, All, Frame
    <3>3. /\ Guarded("result") = {} /\ Guarded("array_guard") = {Array} /\ Guarded("released") = {}
          /\ Guarded("strings_guard") = 1..count
      BY DEF Guarded, Elements
    <3>4. ASSUME NEW i \in 1..Len(scope), r \in Guarded(scope[i]) PROVE scope[i] = GuardOf(r)
      BY <1>2, <3>1, <3>2, <3>3, <3>4
    <3>5. ASSUME I PROVE ~G
      <4>1. pc = "return" /\ r # Array
        BY <1>3, <1>10, <2>6, <3>5 DEF Inv, StageOK, Moved, Elements
      <4> QED
        BY <3>1, <3>2, <4>1
    <3> QED
      BY <2>1, <2>2, <2>6, <3>4, <3>5
  <2>7. CASE fn = "run"
    <3>1. \A i \in 1..Len(scope) : scope[i] = "result"
      BY <2>7 DEF Inv, ScopeOK, All, Frame
    <3>2. Guarded("result") = {} /\ GuardOf(r) = "function"
      BY <2>7 DEF Guarded, GuardOf
    <3> QED
      BY <2>1, <2>2, <3>1, <3>2
  <2> QED
    BY <1>5, <2>3, <2>4, <2>5, <2>6, <2>7 DEF Fn
<1>11. CASE pc = "returned"
  <2>1. scope = <<>> /\ I
    BY <1>11 DEF Inv, StageOK
  <2>2. ~F /\ ~G
    BY <1>11, <2>1
  <2> QED
    BY <2>1, <2>2
<1> QED
  BY <1>4, <1>8, <1>9, <1>10, <1>11

(* The refinement mapping sends every state of the invariant to one. *)
MappedResources ==
  \A r \in Res : /\ state[r] = "none" => AbstractHolder(r) = Abstract!Unborn
                 /\ state[r] = "live" => AbstractHolder(r) \in Abstract!Held
                 /\ state[r] = "freed" => AbstractHolder(r) = Abstract!Gone

LEMMA MappedResource == Inv => MappedResources
<1> SUFFICES ASSUME Inv, NEW r \in Res
             PROVE  /\ state[r] = "none" => AbstractHolder(r) = Abstract!Unborn
                    /\ state[r] = "live" => AbstractHolder(r) \in Abstract!Held
                    /\ state[r] = "freed" => AbstractHolder(r) = Abstract!Gone
  BY DEF MappedResources
<1>1. r \notin misused
  BY DEF Inv
<1>2. CASE state[r] = "none"
  BY <1>1, <1>2 DEF AbstractHolder, Abstract!Unborn
<1>3. CASE state[r] = "freed"
  BY <1>1, <1>3 DEF AbstractHolder, Abstract!Gone
<1>4. CASE state[r] = "live"
  <2>1. PICK h \in Locals \cup {"function"} : Responsible(r) = {h}
    BY <1>4, OneResponsible DEF Live
  <2>2. Cardinality(Responsible(r)) = 1
    BY <2>1, FS_Singleton
  <2>3. (CHOOSE x \in Responsible(r) : TRUE) = h
    BY <2>1
  <2>4. AbstractHolder(r) = <<"held", h>>
    BY <1>1, <1>4, <2>2, <2>3 DEF AbstractHolder
  <2> QED
    BY <1>4, <2>4 DEF Abstract!Held
<1> QED
  BY <1>2, <1>3, <1>4 DEF Inv, TypeOK

(* A result, and the array it came in, has one holder from the C call until  *)
(* it is freed, once: the function, a guard or the vector.                   *)
THEOREM ResultsOwned == ApiSpec => ImplementsOwnership
<1> DEFINE holder == [r \in Res |-> AbstractHolder(r)]
<1>1. ApiInit => Abstract!Init
  BY DEF ApiInit, Init, Abstract!Init, Abstract!Unborn, AbstractHolder
<1>2. Inv /\ Inv' /\ [ApiNext]_<<apiVars, vars>> => [Abstract!Next]_holder
  <2> SUFFICES ASSUME Inv, Inv', [ApiNext]_<<apiVars, vars>> PROVE Abstract!Next
    OBVIOUS
  <2>1. MappedResources /\ MappedResources'
    BY MappedResource, PTL
  <2>2. ASSUME NEW r \in Res
        PROVE  /\ AbstractHolder(r)' \in Abstract!Held \cup {Abstract!Unborn, Abstract!Gone}
               /\ Abstract!Lawful(AbstractHolder(r), AbstractHolder(r)')
    <3>1. ResourceStep(r)
      BY ResourceLife
    <3>2. state[r] \in {"none", "live", "freed"} /\ state'[r] \in {"none", "live", "freed"}
      BY DEF Inv, TypeOK
    <3> QED
      BY <2>1, <3>1, <3>2 DEF ResourceStep, MappedResources, Abstract!Lawful
  <2> QED
    BY <2>2 DEF Abstract!Next
<1> QED
  BY <1>1, <1>2, TransferInvariant, PTL DEF ApiSpec, ImplementsOwnership, Abstract!Spec

-----------------------------------------------------------------------------
(* The program around them.  What an object is part of, and what a string or a *)
(* tensor was made with, stays below the locals that refer to it.              *)

Classes ==
  {"Allocator", "KernelContext", "KernelInfo", "gone"}
    \cup {e.gives.class : e \in Effects} \cup {e.returns.class : e \in Effects}

ObjectRecords ==
  [class : Classes, of : Nat, needs : Nat, const : BOOLEAN, live : BOOLEAN]
LocalRecords ==
  [kind : {"owner", "view", "const_view", "string", "raw"}, class : Classes, obj : Nat]

(* Parts belong to something that is part of nothing, and go with it. *)
ObjectsOK ==
  /\ objects \in Seq(ObjectRecords) /\ Len(objects) \in 1..MaxObjects
  /\ objects[DefaultAllocator].of = Runtime /\ objects[DefaultAllocator].live
  /\ ~objects[DefaultAllocator].const
  /\ \A o \in 1..Len(objects) :
       /\ objects[o].of \in 0..(o - 1) \cup {Caller} /\ objects[o].needs \in 0..(o - 1)
       /\ objects[o].of \in 1..Len(objects) =>
            /\ objects[objects[o].of].of \in {Runtime, Caller}
            /\ objects[o].live => objects[objects[o].of].live

(* The local i will give the object o back. *)
KeptBy(o, i) == Releases(locals[i]) /\ locals[i].obj = o

(* The object x is there, and while the first n locals are it will be. *)
Grounded(x, n) ==
  /\ objects[x].live
  /\ objects[Whole(x)].of = Caller => \E i \in 1..n : KeptBy(Whole(x), i)

(* What a local refers to, and what that needs, is kept by itself or below it. *)
LocalOK(j) ==
  LET l == locals[j]
      object == objects[l.obj]
  IN /\ l.obj \in 1..Len(objects)
     /\ Grounded(l.obj, j)
     /\ object.needs # Null => Grounded(object.needs, j - 1)
     /\ Releases(l) => object.of = Caller
     /\ l.kind = "owner" /\ ~Releases(l) => l.obj = DefaultAllocator
     /\ object.const => l.kind = "const_view"

LocalsOK ==
  /\ locals \in Seq(LocalRecords) /\ Len(locals) <= MaxLocals
  /\ \A j \in 1..Len(locals) : locals[j].obj # Null => LocalOK(j)

(* What was handed over is kept by one local. *)
KeptOnce ==
  /\ \A o \in 1..Len(objects) :
       objects[o].of = Caller /\ objects[o].live => \E i \in 1..Len(locals) : KeptBy(o, i)
  /\ \A i, j \in 1..Len(locals) :
       locals[i].obj # Null /\ KeptBy(locals[i].obj, i) /\ KeptBy(locals[i].obj, j) => i = j

ProgramInv == ObjectsOK /\ LocalsOK /\ KeptOnce /\ wrongs = {}

-----------------------------------------------------------------------------
(* The numbers that stand for nobody, the caller and the runtime's allocator. *)
LEMMA ProgramNumbers ==
  /\ MaxObjects \in Nat /\ MaxObjects > 0 /\ MaxLocals \in Nat
  /\ Null = 0 /\ Runtime = 0 /\ DefaultAllocator = 1
  /\ Caller \in Nat /\ Caller # 0 /\ \A n \in 0..MaxObjects : Caller \notin 1..n
BY AccessorConstants DEF Null, Runtime, DefaultAllocator, Caller

(* What an object is part of is part of nothing. *)
LEMMA Wholes ==
  ASSUME ObjectsOK, NEW o \in 1..Len(objects)
  PROVE  /\ Whole(o) \in 1..Len(objects) /\ objects[Whole(o)].of \in {Runtime, Caller}
         /\ Whole(Whole(o)) = Whole(o)
         /\ objects[o].live => objects[Whole(o)].live
         /\ objects[o].of = Caller => Whole(o) = o
<1>1. /\ DOMAIN objects = 1..Len(objects) /\ Len(objects) \in 0..MaxObjects
      /\ Caller \notin 1..Len(objects) /\ Runtime = 0 /\ 0 \notin 1..Len(objects)
  BY ProgramNumbers DEF ObjectsOK
<1>2. /\ objects[o].of \in 0..(o - 1) \cup {Caller}
      /\ objects[o].of \in 1..Len(objects) =>
            /\ objects[objects[o].of].of \in {Runtime, Caller}
            /\ objects[o].live => objects[objects[o].of].live
  BY DEF ObjectsOK
<1>3. CASE objects[o].of \in 1..Len(objects)
  <2>1. Whole(o) = objects[o].of
    BY <1>1, <1>3 DEF Whole
  <2>2. objects[Whole(o)].of \in {Runtime, Caller} /\ objects[Whole(o)].of \notin 1..Len(objects)
    BY <1>1, <1>2, <1>3, <2>1
  <2>3. Whole(Whole(o)) = Whole(o)
    BY <1>1, <2>2 DEF Whole
  <2> QED
    BY <1>1, <1>2, <1>3, <2>1, <2>2, <2>3
<1>4. CASE objects[o].of \notin 1..Len(objects)
  <2>1. Whole(o) = o
    BY <1>1, <1>4 DEF Whole
  <2>2. objects[o].of \in {Runtime, Caller}
    <3>1. Len(objects) \in Nat /\ o \in Nat /\ o <= Len(objects)
      BY <1>1
    <3>2. objects[o].of \in 0..(o - 1) => objects[o].of = 0
      BY <1>4, <3>1
    <3> QED
      BY <1>1, <1>2, <3>2
  <2> QED
    BY <2>1, <2>2
<1> QED
  BY <1>3, <1>4

(* What is kept below a place is kept below a higher one. *)
LEMMA GroundedHigher ==
  ASSUME NEW x, NEW n \in Nat, NEW m \in Nat, n <= m, Grounded(x, n)
  PROVE  Grounded(x, m)
<1>1. 1..n \subseteq 1..m
  OBVIOUS
<1> QED
  BY <1>1 DEF Grounded

(* Whether a local gives back what it refers to depends on the local only. *)
LEMMA ReleasesConstant ==
  ASSUME NEW i, NEW k, locals'[i] = locals[k]
  PROVE  \A o : KeptBy(o, i)' <=> KeptBy(o, k)
BY DEF KeptBy, Releases

(* An object more, or a local more, changes nothing for those that are there. *)
Grows ==
  /\ ObjectsOK' /\ Len(objects') >= Len(objects)
  /\ \A o \in 1..Len(objects) : objects'[o] = objects[o]

(* The objects are numbered, and nobody has the number of the caller. *)
LEMMA ObjectCounts ==
  ASSUME ObjectsOK, Grows
  PROVE  /\ DOMAIN objects = 1..Len(objects) /\ DOMAIN objects' = 1..Len(objects')
         /\ Len(objects) \in Nat /\ Len(objects') \in Nat
         /\ Caller \notin 1..Len(objects) /\ Caller \notin 1..Len(objects')
<1>1. objects \in Seq(ObjectRecords) /\ Len(objects) \in 0..MaxObjects
  BY ProgramNumbers DEF ObjectsOK
<1>2. objects' \in Seq(ObjectRecords) /\ Len(objects') \in 0..MaxObjects
  BY ProgramNumbers DEF Grows, ObjectsOK, ObjectRecords
<1> QED
  BY <1>1, <1>2, ProgramNumbers

(* What an object is part of stays what it was. *)
LEMMA WholeStays ==
  ASSUME ObjectsOK, Grows, NEW x \in 1..Len(objects)
  PROVE  Whole(x)' = Whole(x) /\ objects'[Whole(x)] = objects[Whole(x)]
<1>1. objects[x].of \in 1..Len(objects) <=> objects[x].of \in 1..Len(objects')
  <2>1. objects[x].of \in 0..(x - 1) \cup {Caller}
    BY DEF ObjectsOK
  <2> QED
    BY <2>1, ObjectCounts DEF Grows
<1> QED
  BY <1>1, ObjectCounts, Wholes DEF Whole, Grows

(* What is kept stays kept, by the same local. *)
LEMMA GroundedStays ==
  ASSUME ObjectsOK, Grows, NEW x \in 1..Len(objects), NEW n \in Nat, NEW m \in Nat, n <= m,
         \A i \in 1..n : locals'[i] = locals[i], Grounded(x, n)
  PROVE  Grounded(x, m)'
<1>1. \A i \in 1..n : KeptBy(Whole(x), i) => KeptBy(Whole(x), i)' /\ i \in 1..m
  BY WholeStays DEF KeptBy, Releases
<1>2. (objects[Whole(x)].of = Caller)' => \E i \in 1..m : KeptBy(Whole(x), i)'
  BY <1>1, WholeStays DEF Grounded, Caller
<1>3. objects'[x].live
  BY DEF Grounded, Grows
<1> QED
  BY <1>2, <1>3 DEF Grounded

(* What something needs is an object, an older one. *)
LEMMA NeedsObject ==
  ASSUME ObjectsOK, NEW x \in 1..Len(objects), objects[x].needs # Null
  PROVE  objects[x].needs \in 1..Len(objects)
<1>1. Len(objects) \in Nat /\ objects[x].needs \in 0..(x - 1)
  BY ProgramNumbers DEF ObjectsOK
<1> QED
  BY <1>1, ProgramNumbers

(* A local that was there. *)
LEMMA OlderOK ==
  ASSUME ObjectsOK, LocalsOK, Grows, NEW j \in 1..Len(locals), locals[j].obj # Null,
         \A i \in 1..j : locals'[i] = locals[i]
  PROVE  LocalOK(j)'
<1>1. LocalOK(j) /\ locals'[j] = locals[j] /\ j \in Nat /\ Len(locals) \in Nat
  BY DEF LocalsOK
<1>2. PICK x \in 1..Len(objects) : x = locals[j].obj
  BY <1>1 DEF LocalOK
<1>3. objects'[x] = objects[x] /\ x \in 1..Len(objects')
  BY <1>2, ObjectCounts DEF Grows
<1>4. Grounded(x, j)'
  <2>1. Grounded(x, j)
    BY <1>1, <1>2 DEF LocalOK
  <2> QED
    BY <1>1, <2>1, GroundedStays
<1>5. ASSUME objects[x].needs # Null PROVE Grounded(objects[x].needs, j - 1)'
  <2>1. PICK y \in 1..Len(objects) : y = objects[x].needs
    BY <1>2, <1>5, NeedsObject
  <2>2. Grounded(y, j - 1)
    BY <1>1, <1>2, <1>5, <2>1 DEF LocalOK
  <2>3. Grounded(y, j - 1)'
    BY <1>1, <2>2, GroundedStays
  <2> QED
    BY <1>3, <2>1, <2>3 DEF Grounded
<1> QED
  BY <1>1, <1>2, <1>3, <1>4, <1>5 DEF LocalOK, Releases, DefaultAllocator, Caller, Grounded

(* A view, or nothing at all, is put into a new local. *)
Referable(l) ==
  /\ l.obj \in 1..Len(objects) /\ ~Releases(l)
  /\ Grounded(l.obj, Len(locals))
  /\ objects[l.obj].needs # Null => Grounded(objects[l.obj].needs, Len(locals))
  /\ l.kind = "owner" => l.obj = DefaultAllocator
  /\ objects[l.obj].const => l.kind = "const_view"

(* No object more is allowed for. *)
LEMMA SameObjects ==
  ASSUME ObjectsOK, UNCHANGED objects
  PROVE  Grows
BY DEF Grows, ObjectsOK, Runtime, Caller, DefaultAllocator, ObjectRecords

(* A sequence with one more element. *)
LEMMA Appended ==
  ASSUME NEW S, NEW s \in Seq(S), NEW x \in S
  PROVE  /\ Append(s, x) \in Seq(S) /\ Len(s) \in Nat /\ Len(Append(s, x)) = Len(s) + 1
         /\ \A i \in 1..Len(s) : Append(s, x)[i] = s[i]
         /\ Append(s, x)[Len(s) + 1] = x
OBVIOUS

(* A local more that gives nothing back. *)
LEMMA PushOK ==
  ASSUME ProgramInv, UNCHANGED <<objects, wrongs>>, NEW l \in LocalRecords,
         Len(locals) < MaxLocals, locals' = Append(locals, l), l.obj # Null => Referable(l)
  PROVE  ProgramInv'
<1>0. PICK k \in Nat : k = Len(locals)
  BY DEF ProgramInv, LocalsOK
<1>1. /\ locals' \in Seq(LocalRecords) /\ k \in Nat /\ Len(locals') = k + 1 /\ k + 1 <= MaxLocals
      /\ \A i \in 1..k : locals'[i] = locals[i]
      /\ locals'[k + 1] = l
  BY <1>0, Appended, ProgramNumbers DEF ProgramInv, LocalsOK
<1>2. ObjectsOK /\ LocalsOK /\ KeptOnce /\ Grows
  BY SameObjects DEF ProgramInv
<1>3. \A o : \A i \in 1..k : KeptBy(o, i)' <=> KeptBy(o, i)
  BY <1>1 DEF KeptBy, Releases
<1>4. ASSUME NEW j \in 1..(k + 1), locals'[j].obj # Null PROVE LocalOK(j)'
  <2>1. CASE j \in 1..k
    BY <1>0, <1>1, <1>2, <1>4, <2>1, OlderOK
  <2>2. CASE j = k + 1
    <3>1. Referable(l)
      BY <1>1, <1>4, <2>2 DEF Null
    <3>2. PICK x \in 1..Len(objects) : x = l.obj
      BY <3>1 DEF Referable
    <3>3. Grounded(x, k + 1)'
      <4>1. Grounded(x, k)
        BY <1>0, <3>1, <3>2 DEF Referable
      <4> QED
        BY <1>1, <1>2, <4>1, GroundedStays
    <3>4. ASSUME objects[x].needs # Null PROVE Grounded(objects[x].needs, k)'
      <4>1. PICK y \in 1..Len(objects) : y = objects[x].needs
        BY <1>2, <3>2, <3>4, NeedsObject
      <4>2. Grounded(y, k)
        BY <1>0, <3>1, <3>2, <3>4, <4>1 DEF Referable
      <4>3. Grounded(y, k)'
        BY <1>1, <1>2, <4>2, GroundedStays
      <4> QED
        BY <4>1, <4>3 DEF Grounded
    <3>5. ~Releases(l)' /\ (l.kind = "owner" => x = DefaultAllocator)
          /\ (objects'[x].const => l.kind = "const_view") /\ x \in 1..Len(objects')
      BY <3>1, <3>2 DEF Referable, Releases
    <3>6. locals'[j] = l /\ j - 1 = k
      BY <1>1, <2>2
    <3>7. Grounded(locals[j].obj, j)'
      BY <2>2, <3>2, <3>3, <3>6 DEF Grounded
    <3>8. (objects[locals[j].obj].needs # Null)' =>
            Grounded(objects[locals[j].obj].needs, j - 1)'
      BY <1>2, <3>2, <3>4, <3>6 DEF Grounded, Null
    <3> QED
      BY <3>2, <3>5, <3>6, <3>7, <3>8 DEF LocalOK, Releases, DefaultAllocator, Null
  <2> QED
    BY <1>1, <2>1, <2>2
<1>5. LocalsOK'
  BY <1>1, <1>4 DEF LocalsOK
<1>6. KeptOnce'
  <2>1. \A i \in 1..k : i \in 1..(k + 1)
    BY <1>1
  <2>2. ASSUME NEW o \in 1..Len(objects'), (objects[o].of = Caller /\ objects[o].live)'
        PROVE  \E i \in 1..Len(locals') : KeptBy(o, i)'
    <3>1. \E i \in 1..k : KeptBy(o, i)
      BY <1>0, <1>2, <2>2 DEF KeptOnce, Caller, Grows
    <3> QED
      BY <1>1, <1>3, <2>1, <3>1
  <2>3. ASSUME NEW o, o # Null PROVE ~KeptBy(o, k + 1)'
    <3>1. SUFFICES ASSUME l.obj = o, Releases(l) PROVE FALSE
      BY <1>1 DEF KeptBy, Releases
    <3> QED
      BY <2>3, <3>1 DEF Referable
  <2>4. ASSUME NEW i \in 1..(k + 1), NEW j \in 1..(k + 1),
               (locals[i].obj # Null /\ KeptBy(locals[i].obj, i) /\ KeptBy(locals[i].obj, j))'
        PROVE  i = j
    <3>1. PICK o : o = locals'[i].obj
      OBVIOUS
    <3>2. o # Null /\ KeptBy(o, i)' /\ KeptBy(o, j)'
      BY <2>4, <3>1 DEF KeptBy, Null
    <3>3. i \in 1..k /\ j \in 1..k
      <4>1. i # k + 1 /\ j # k + 1
        BY <2>3, <3>2
      <4> QED
        BY <1>1, <4>1
    <3>4. KeptBy(o, i) /\ KeptBy(o, j) /\ locals[i].obj = o
      BY <1>1, <1>3, <3>1, <3>2, <3>3
    <3> QED
      BY <1>0, <1>2, <3>2, <3>3, <3>4 DEF KeptOnce
  <2> QED
    BY <1>1, <2>2, <2>4 DEF KeptOnce
<1> QED
  BY <1>2, <1>5, <1>6 DEF ProgramInv, Grows

(* A new object, which may be part of one that is there. *)
Fits(new) ==
  /\ new \in ObjectRecords /\ new.live /\ new.needs \in 0..Len(objects)
  /\ \/ new.of \in {Runtime, Caller}
     \/ /\ new.of \in 1..Len(objects) /\ objects[new.of].live
        /\ objects[new.of].of \in {Runtime, Caller}

(* Such an object belongs with those that are there. *)
LEMMA ObjectsGrow ==
  ASSUME ObjectsOK, NEW new, Fits(new), Len(objects) < MaxObjects, objects' = Append(objects, new)
  PROVE  /\ Grows /\ Len(objects') = Len(objects) + 1
         /\ objects'[Len(objects) + 1] = new
<1>0. PICK n \in Nat : n = Len(objects) /\ n > 0 /\ n < MaxObjects
  BY ProgramNumbers DEF ObjectsOK
<1>1. /\ objects' \in Seq(ObjectRecords) /\ Len(objects') = n + 1
      /\ \A i \in 1..n : objects'[i] = objects[i]
      /\ objects'[n + 1] = new
  BY <1>0, Appended DEF ObjectsOK, Fits
<1>2. ASSUME NEW o \in 1..(n + 1)
      PROVE  /\ objects'[o].of \in 0..(o - 1) \cup {Caller} /\ objects'[o].needs \in 0..(o - 1)
             /\ objects'[o].of \in 1..(n + 1) =>
                  /\ objects'[objects'[o].of].of \in {Runtime, Caller}
                  /\ objects'[o].live => objects'[objects'[o].of].live
  <2>1. CASE o \in 1..n
    <3>1. /\ objects[o].of \in 0..(o - 1) \cup {Caller} /\ objects[o].needs \in 0..(o - 1)
          /\ objects[o].of \in 1..n =>
               /\ objects[objects[o].of].of \in {Runtime, Caller}
               /\ objects[o].live => objects[objects[o].of].live
      BY <1>0, <2>1 DEF ObjectsOK
    <3>2. Caller \notin 1..(n + 1) /\ Caller \notin 1..n
      BY <1>0, ProgramNumbers
    <3>3. objects[o].of \in 1..(n + 1) => objects[o].of \in 1..n
      BY <2>1, <3>1, <3>2
    <3> QED
      BY <1>1, <2>1, <3>1, <3>3
  <2>2. CASE o = n + 1
    <3>1. Caller \notin 1..(n + 1)
      BY <1>0, ProgramNumbers
    <3>2. CASE new.of \in {Runtime, Caller}
      BY <1>0, <1>1, <2>2, <3>1, <3>2, ProgramNumbers DEF Fits
    <3>3. CASE new.of \in 1..n /\ objects[new.of].live /\ objects[new.of].of \in {Runtime, Caller}
      BY <1>0, <1>1, <2>2, <3>3 DEF Fits
    <3> QED
      BY <1>0, <3>2, <3>3 DEF Fits
  <2>3. o \in 1..n \/ o = n + 1
    BY <1>0
  <2> QED
    BY <2>1, <2>2, <2>3
<1>3. /\ objects'[DefaultAllocator].of = Runtime /\ objects'[DefaultAllocator].live
      /\ ~objects'[DefaultAllocator].const
  BY <1>0, <1>1, ProgramNumbers DEF ObjectsOK
<1>4. n + 1 \in 1..MaxObjects
  BY <1>0, ProgramNumbers
<1>5. ObjectsOK'
  BY <1>1, <1>2, <1>3, <1>4 DEF ObjectsOK, Caller, Runtime, DefaultAllocator, ObjectRecords
<1> QED
  BY <1>0, <1>1, <1>5 DEF Grows

(* It is kept by the new local if it was handed over, and by none if not. *)
NewLocal(l, new) ==
  /\ l \in LocalRecords /\ l.obj = Len(objects) + 1
  /\ Releases(l) <=> new.of = Caller
  /\ l.kind = "owner" => Releases(l)
  /\ new.const => l.kind = "const_view"
  /\ new.of \in 1..Len(objects) => Grounded(new.of, Len(locals))
  /\ new.needs # Null => Grounded(new.needs, Len(locals))

(* What was kept before is kept by the same local as before. *)
LEMMA KeptStays ==
  ASSUME ProgramInv, Grows, NEW k \in Nat, k = Len(locals), Len(locals') \in {k, k + 1},
         \A i \in 1..k : locals'[i] = locals[i],
         NEW o \in 1..Len(objects), (objects[o].of = Caller /\ objects[o].live)'
  PROVE  \E i \in 1..Len(locals') : KeptBy(o, i)'
<1>1. \E i \in 1..k : KeptBy(o, i)
  BY DEF ProgramInv, KeptOnce, Grows, Caller
<1>2. \A i \in 1..k : i \in 1..Len(locals') /\ (KeptBy(o, i) => KeptBy(o, i)')
  BY DEF KeptBy, Releases
<1> QED
  BY <1>1, <1>2

(* A new object that nobody keeps. *)
LEMMA NewUnkept ==
  ASSUME ProgramInv, UNCHANGED <<locals, wrongs>>, NEW new, Fits(new), new.of # Caller,
         Len(objects) < MaxObjects, objects' = Append(objects, new)
  PROVE  ProgramInv'
<1>1. Grows /\ Len(objects') = Len(objects) + 1 /\ objects'[Len(objects) + 1] = new
  BY ObjectsGrow DEF ProgramInv
<1>2. ASSUME NEW j \in 1..Len(locals'), (locals[j].obj # Null)' PROVE LocalOK(j)'
  BY <1>1, <1>2, OlderOK DEF ProgramInv, Null
<1>3. LocalsOK'
  BY <1>2 DEF ProgramInv, LocalsOK, LocalRecords
<1>4. ASSUME NEW o \in 1..Len(objects'), (objects[o].of = Caller /\ objects[o].live)'
      PROVE  \E i \in 1..Len(locals') : KeptBy(o, i)'
  <2>1. PICK n \in Nat : n = Len(objects)
    BY ProgramNumbers DEF ProgramInv, ObjectsOK
  <2>2. o # n + 1
    BY <1>1, <1>4, <2>1 DEF Caller
  <2>3. o \in 1..Len(objects)
    BY <1>1, <2>1, <2>2
  <2>4. PICK k \in Nat : k = Len(locals)
    BY DEF ProgramInv, LocalsOK
  <2> QED
    BY <1>1, <1>4, <2>3, <2>4, KeptStays
<1>5. KeptOnce'
  <2>1. \A i, j \in 1..Len(locals') :
          (locals[i].obj # Null /\ KeptBy(locals[i].obj, i) /\ KeptBy(locals[i].obj, j))' => i = j
    BY DEF ProgramInv, KeptOnce, KeptBy, Releases, Null
  <2> QED
    BY <1>4, <2>1 DEF KeptOnce
<1> QED
  BY <1>1, <1>3, <1>5 DEF ProgramInv, Grows

(* A new object in a new local. *)
LEMMA NewKept ==
  ASSUME ProgramInv, UNCHANGED wrongs, NEW new, Fits(new), Len(objects) < MaxObjects,
         objects' = Append(objects, new),
         NEW l, NewLocal(l, new), Len(locals) < MaxLocals, locals' = Append(locals, l)
  PROVE  ProgramInv'
<1>1. PICK n \in Nat : n = Len(objects)
  BY ProgramNumbers DEF ProgramInv, ObjectsOK
<1>2. PICK k \in Nat : k = Len(locals)
  BY DEF ProgramInv, LocalsOK
<1>3. Grows /\ Len(objects') = n + 1 /\ objects'[n + 1] = new
  BY <1>1, ObjectsGrow DEF ProgramInv
<1>4. /\ locals' \in Seq(LocalRecords) /\ Len(locals') = k + 1 /\ k + 1 <= MaxLocals
      /\ \A i \in 1..k : locals'[i] = locals[i]
      /\ locals'[k + 1] = l
  BY <1>2, Appended, ProgramNumbers DEF ProgramInv, LocalsOK, NewLocal
<1>5. l.obj = n + 1 /\ (Releases(l) <=> new.of = Caller) /\ Releases(l)' = Releases(l)
  BY <1>1 DEF NewLocal, Releases
<1>6. ObjectsOK /\ LocalsOK /\ KeptOnce /\ DOMAIN objects' = 1..(n + 1)
      /\ Caller \notin 1..(n + 1)
  BY <1>3, ObjectCounts DEF ProgramInv
<1>7. LocalOK(k + 1)'
  <2>1. ASSUME new.needs # Null PROVE Grounded(new.needs, k)'
    <3>1. PICK y \in 1..Len(objects) : y = new.needs
      BY <1>1, <2>1, ProgramNumbers DEF Fits
    <3>2. Grounded(y, k)
      BY <1>2, <2>1, <3>1 DEF NewLocal
    <3>3. Grounded(y, k)'
      BY <1>2, <1>3, <1>4, <1>6, <3>2, GroundedStays
    <3> QED
      BY <3>1, <3>3 DEF Grounded
  <2>2. Grounded(n + 1, k + 1)'
    <3>1. objects'[n + 1].live
      BY <1>3 DEF Fits
    <3>2. CASE new.of \in {Runtime, Caller}
      <4>1. new.of \notin 1..(n + 1)
        BY <1>6, <3>2, ProgramNumbers
      <4>2. Whole(n + 1)' = n + 1
        BY <1>3, <1>6, <4>1 DEF Whole
      <4>3. new.of = Caller => KeptBy(n + 1, k + 1)'
        BY <1>4, <1>5 DEF KeptBy, Releases
      <4>4. k + 1 \in 1..(k + 1)
        OBVIOUS
      <4> QED
        BY <1>3, <3>1, <4>2, <4>3, <4>4 DEF Grounded, Caller
    <3>3. CASE new.of \in 1..Len(objects) /\ objects[new.of].of \in {Runtime, Caller}
      <4>1. PICK y \in 1..Len(objects) : y = new.of
        BY <3>3
      <4>2. Grounded(y, k)
        BY <1>2, <3>3, <4>1 DEF NewLocal
      <4>3. Grounded(y, k + 1)'
        BY <1>2, <1>3, <1>4, <1>6, <4>2, GroundedStays
      <4>4. Whole(n + 1)' = y
        BY <1>1, <1>3, <1>6, <4>1 DEF Whole
      <4>5. Whole(y)' = y
        <5>1. y \notin {Runtime, Caller} /\ objects[y].of \notin 1..n
          BY <1>1, <1>6, <3>3, <4>1, ProgramNumbers
        <5>2. Whole(y) = y
          BY <1>1, <1>3, <1>6, <5>1, ObjectCounts DEF Whole
        <5> QED
          BY <1>3, <1>6, <5>2, WholeStays
      <4> QED
        BY <3>1, <4>3, <4>4, <4>5 DEF Grounded
    <3> QED
      BY <3>2, <3>3 DEF Fits
  <2>3. new.const => l.kind = "const_view"
    BY DEF NewLocal
  <2>4. l.kind = "owner" => Releases(l)
    BY DEF NewLocal
  <2>5. (k + 1) - 1 = k
    OBVIOUS
  <2>6. n + 1 \in 1..Len(objects')
    BY <1>3
  <2> QED
    BY <1>3, <1>4, <1>5, <2>1, <2>2, <2>3, <2>4, <2>5, <2>6
    DEF LocalOK, Releases, Null, Caller, DefaultAllocator
<1>8. ASSUME NEW j \in 1..Len(locals'), (locals[j].obj # Null)' PROVE LocalOK(j)'
  <2>1. CASE j \in 1..k
    BY <1>2, <1>3, <1>4, <1>6, <1>8, <2>1, OlderOK DEF Null
  <2>2. CASE j = k + 1
    BY <1>7, <2>2
  <2> QED
    BY <1>4, <2>1, <2>2
<1>9. LocalsOK'
  BY <1>4, <1>8 DEF LocalsOK, LocalRecords
<1>10. ASSUME NEW o \in 1..Len(objects'), (objects[o].of = Caller /\ objects[o].live)'
       PROVE  \E i \in 1..Len(locals') : KeptBy(o, i)'
  <2>1. CASE o \in 1..Len(objects)
    BY <1>2, <1>3, <1>4, <1>10, <2>1, KeptStays
  <2>2. CASE o = n + 1
    <3>1. new.of = Caller
      BY <1>3, <1>10, <2>2 DEF Caller
    <3>2. KeptBy(o, k + 1)' /\ k + 1 \in 1..Len(locals')
      BY <1>4, <1>5, <2>2, <3>1 DEF KeptBy, Releases
    <3> QED
      BY <3>2
  <2> QED
    BY <1>1, <1>3, <2>1, <2>2
<1>11. ASSUME NEW i \in 1..(k + 1), NEW j \in 1..(k + 1),
              (locals[i].obj # Null /\ KeptBy(locals[i].obj, i) /\ KeptBy(locals[i].obj, j))'
       PROVE  i = j
  <2>1. PICK o : o = locals'[i].obj
    OBVIOUS
  <2>2. o # Null /\ locals'[i].obj = o /\ locals'[j].obj = o
        /\ KeptBy(o, i)' /\ KeptBy(o, j)'
    BY <1>11, <2>1 DEF KeptBy, Null
  <2>3. ASSUME NEW m \in 1..k, locals'[m].obj = o
        PROVE  o \in 1..n /\ locals[m].obj = o /\ (KeptBy(o, m)' => KeptBy(o, m))
    BY <1>1, <1>2, <1>4, <1>6, <2>2, <2>3 DEF LocalsOK, LocalOK, KeptBy, Releases
  <2>4. o = n + 1 => i = k + 1 /\ j = k + 1
    <3>1. o = n + 1 => o \notin 1..n
      OBVIOUS
    <3>2. o = n + 1 => i \notin 1..k /\ j \notin 1..k
      BY <2>2, <2>3, <3>1
    <3> QED
      BY <3>2
  <2>5. ASSUME o # n + 1 PROVE i \in 1..k /\ j \in 1..k
    <3>1. i # k + 1 /\ j # k + 1
      BY <1>4, <1>5, <2>2, <2>5
    <3> QED
      BY <3>1
  <2> QED
    BY <1>2, <1>6, <2>2, <2>3, <2>4, <2>5 DEF KeptOnce
<1>12. KeptOnce'
  BY <1>4, <1>10, <1>11 DEF KeptOnce
<1> QED
  BY <1>3, <1>9, <1>12 DEF ProgramInv, Grows

(* Nothing changes. *)
LEMMA SameProgram ==
  ASSUME ProgramInv, UNCHANGED apiVars
  PROVE  ProgramInv'
<1>1. UNCHANGED <<objects, locals, wrongs>>
  BY DEF apiVars
<1>2. ObjectsOK /\ LocalsOK /\ KeptOnce /\ Grows
  BY <1>1, SameObjects DEF ProgramInv
<1>3. ASSUME NEW j \in 1..Len(locals'), (locals[j].obj # Null)' PROVE LocalOK(j)'
  BY <1>1, <1>2, <1>3, OlderOK DEF Null
<1>4. LocalsOK'
  BY <1>1, <1>2, <1>3 DEF LocalsOK, LocalRecords
<1>5. \A o, i : KeptBy(o, i)' <=> KeptBy(o, i)
  BY <1>1 DEF KeptBy, Releases
<1>6. KeptOnce'
  <2>1. ASSUME NEW o \in 1..Len(objects'), (objects[o].of = Caller /\ objects[o].live)'
        PROVE  \E i \in 1..Len(locals') : KeptBy(o, i)'
    BY <1>1, <1>2, <1>5, <2>1 DEF KeptOnce, Caller
  <2>2. ASSUME NEW i \in 1..Len(locals'), NEW j \in 1..Len(locals'),
               (locals[i].obj # Null /\ KeptBy(locals[i].obj, i) /\ KeptBy(locals[i].obj, j))'
        PROVE  i = j
    BY <1>1, <1>2, <2>2 DEF KeptOnce, KeptBy, Releases, Null
  <2> QED
    BY <2>1, <2>2 DEF KeptOnce
<1> QED
  BY <1>1, <1>2, <1>4, <1>6 DEF ProgramInv, Grows

-----------------------------------------------------------------------------
(* The tables agree on what a program calls that stays away from *)
(* GetOptionalElementType.                                       *)
LEMMA CallsAgree ==
  ASSUME ~TakesOptionalElement, NEW e \in Callable
  PROVE  Agrees(e) /\ e.gives.class \in Classes /\ e.returns.class \in Classes
<1>1. e \in Effects /\ e.on # "OptionalTypeInfo"
  BY DEF Callable
<1>2. Agrees(e)
  BY <1>1, TablesAgree
<1> QED
  BY <1>1, <1>2 DEF Classes

(* A call on an object that is there, and on an allocator that is. *)
LEMMA GiftOK ==
  ASSUME ProgramInv, ~TakesOptionalElement, UNCHANGED wrongs, NEW e \in Callable,
         NEW obj \in 0..Len(objects), NEW allocator \in 0..Len(objects),
         obj # Null => Grounded(obj, Len(locals)),
         allocator # Null => Grounded(allocator, Len(locals)),
         Gift(e, obj, allocator)
  PROVE  ProgramInv'
<1>1. Agrees(e) /\ e.gives.class \in Classes /\ e.returns.class \in Classes
  BY CallsAgree
<1>2. ObjectsOK /\ LocalsOK /\ Len(objects) \in Nat /\ Len(locals) \in Nat
  BY ProgramNumbers DEF ProgramInv, ObjectsOK, LocalsOK
<1> DEFINE r == e.returns
           K == {"owner", "view", "const_view", "string", "raw"}
<1>3. Kept(r) => r.kind \in K
  BY DEF Kept
<1>4. CASE GiveNone(e)
  <2>1. CASE Kept(r)
    <3>1. PICK l : l = Local(r.kind, r.class, Null)
      OBVIOUS
    <3>2. l \in LocalRecords /\ l.obj = Null
      BY <1>1, <1>3, <2>1, <3>1, ProgramNumbers DEF Local, LocalRecords, Agrees
    <3>3. Len(locals) < MaxLocals /\ locals' = Append(locals, l) /\ UNCHANGED objects
      BY <1>4, <2>1, <3>1 DEF GiveNone, Push
    <3> QED
      BY <3>2, <3>3, PushOK
  <2>2. CASE ~Kept(r)
    <3>1. UNCHANGED apiVars
      BY <1>4, <2>2 DEF GiveNone, apiVars
    <3> QED
      BY <3>1, SameProgram
  <2> QED
    BY <2>1, <2>2
<1>5. CASE e.gives.class # "none" /\ Give(e, obj, allocator) /\ IsDefault(e)
  <2>1. ~HandsOver(e.gives) /\ ~Releases(r) /\ UNCHANGED objects
    BY <1>1, <1>5 DEF Agrees, IsDefault, HandsOver, Give
  <2>2. CASE Kept(r)
    <3>1. PICK l : l = Local(r.kind, r.class, DefaultAllocator)
      OBVIOUS
    <3>2. l \in LocalRecords /\ l.obj = DefaultAllocator /\ ~Releases(l)
      BY <1>1, <1>3, <2>1, <2>2, <3>1, ProgramNumbers DEF Local, LocalRecords, Agrees, Releases
    <3>3. Len(locals) < MaxLocals /\ locals' = Append(locals, l)
      BY <1>5, <2>2, <3>1 DEF Give, Push
    <3>4. Referable(l)
      <4>1. DefaultAllocator \in 1..Len(objects) /\ objects[DefaultAllocator].needs = Null
            /\ objects[DefaultAllocator].of = Runtime /\ objects[DefaultAllocator].live
            /\ ~objects[DefaultAllocator].const
        BY ProgramNumbers DEF ProgramInv, ObjectsOK
      <4>2. Whole(DefaultAllocator) = DefaultAllocator
        BY <1>2, <4>1, ProgramNumbers DEF Whole, ObjectsOK
      <4>3. Grounded(DefaultAllocator, Len(locals))
        BY <4>1, <4>2, ProgramNumbers DEF Grounded
      <4> QED
        BY <3>2, <4>1, <4>3 DEF Referable
    <3> QED
      BY <2>1, <3>2, <3>3, <3>4, PushOK
  <2>3. CASE ~Kept(r)
    <3>1. UNCHANGED locals
      BY <1>5, <2>3 DEF Give
    <3>2. UNCHANGED apiVars
      BY <2>1, <3>1 DEF apiVars
    <3> QED
      BY <3>2, SameProgram
  <2> QED
    BY <2>2, <2>3
<1>6. CASE e.gives.class # "none" /\ Give(e, obj, allocator) /\ ~IsDefault(e)
  <2>1. PICK new : new = Object(e.gives.class,
                    IF HandsOver(e.gives) THEN Caller
                    ELSE IF obj = Null THEN Runtime ELSE Whole(obj),
                    CASE e.gives.how = "string" -> allocator
                      [] e.gives.how = "handed_in" -> obj
                      [] OTHER -> Null,
                    e.gives.how = "const_lent")
    OBVIOUS
  <2>2. /\ Len(objects) < MaxObjects /\ objects' = Append(objects, new)
        /\ IF Kept(r) THEN Push(Local(r.kind, r.class, Len(objects) + 1)) ELSE UNCHANGED locals
    BY <1>6, <2>1 DEF Give
  <2>3. /\ new.of = IF HandsOver(e.gives) THEN Caller
                    ELSE IF obj = Null THEN Runtime ELSE Whole(obj)
        /\ new.needs \in {Null, allocator, obj} /\ new.live /\ new.class = e.gives.class
        /\ new.const = (e.gives.how = "const_lent")
    BY <2>1 DEF Object
  <2>4. obj # Null => /\ Whole(obj) \in 1..Len(objects) /\ objects[Whole(obj)].live
                      /\ objects[Whole(obj)].of \in {Runtime, Caller}
                      /\ Grounded(Whole(obj), Len(locals)) /\ Whole(obj) # Caller
    <3>1. SUFFICES ASSUME NEW x \in 1..Len(objects), Grounded(x, Len(locals))
                   PROVE  /\ Whole(x) \in 1..Len(objects) /\ objects[Whole(x)].live
                          /\ objects[Whole(x)].of \in {Runtime, Caller}
                          /\ Grounded(Whole(x), Len(locals)) /\ Whole(x) # Caller
      BY <1>2, ProgramNumbers
    <3>2. objects[x].live
      BY <3>1 DEF Grounded
    <3>3. /\ Whole(x) \in 1..Len(objects) /\ objects[Whole(x)].live
          /\ objects[Whole(x)].of \in {Runtime, Caller} /\ Whole(Whole(x)) = Whole(x)
      BY <1>2, <3>1, <3>2, Wholes
    <3>4. Caller \notin 1..Len(objects)
      <4>1. Len(objects) \in 0..MaxObjects
        BY <1>2, ProgramNumbers DEF ObjectsOK
      <4> QED
        BY <4>1, ProgramNumbers
    <3> QED
      BY <3>1, <3>3, <3>4 DEF Grounded
  <2>5. new.of = Caller <=> HandsOver(e.gives)
    BY <2>3, <2>4, ProgramNumbers
  <2>6. Fits(new)
    <3>1. new.needs \in 0..Len(objects)
      BY <2>3, <1>2, ProgramNumbers
    <3>2. \/ new.of \in {Runtime, Caller}
          \/ /\ new.of \in 1..Len(objects) /\ objects[new.of].live
             /\ objects[new.of].of \in {Runtime, Caller}
      BY <2>3, <2>4
    <3>3. new.of \in Nat /\ new.needs \in Nat
      BY <1>2, <3>1, <3>2, ProgramNumbers
    <3>4. new \in ObjectRecords
      BY <1>1, <2>1, <2>3, <3>3 DEF Object, ObjectRecords, Agrees
    <3> QED
      BY <2>3, <3>1, <3>2, <3>4 DEF Fits
  <2>7. CASE Kept(r)
    <3>1. PICK l : l = Local(r.kind, r.class, Len(objects) + 1)
      OBVIOUS
    <3>2. l \in LocalRecords /\ l.obj = Len(objects) + 1 /\ l.kind = r.kind /\ l.class = r.class
      BY <1>1, <1>2, <1>3, <2>7, <3>1 DEF Local, LocalRecords, Agrees
    <3>3. Releases(l) <=> HandsOver(e.gives)
      BY <1>1, <1>6, <3>2 DEF Agrees, Releases
    <3>4. l.kind = "owner" => Releases(l)
      BY <1>1, <1>6, <3>2 DEF Agrees, Releases
    <3>5. new.const => l.kind = "const_view"
      BY <1>1, <1>3, <2>3, <2>7, <3>2 DEF Agrees
    <3>6. new.of \in 1..Len(objects) => Grounded(new.of, Len(locals))
      <4>1. Caller \notin 1..Len(objects) /\ Runtime \notin 1..Len(objects)
        <5>1. Len(objects) \in 0..MaxObjects
          BY <1>2, ProgramNumbers DEF ObjectsOK
        <5> QED
          BY <5>1, ProgramNumbers
      <4> QED
        BY <2>3, <2>4, <4>1
    <3>7. new.needs # Null => Grounded(new.needs, Len(locals))
      BY <2>3
    <3>8. NewLocal(l, new)
      BY <2>5, <3>2, <3>3, <3>4, <3>5, <3>6, <3>7 DEF NewLocal
    <3>9. Len(locals) < MaxLocals /\ locals' = Append(locals, l)
      BY <2>2, <2>7, <3>1 DEF Push
    <3> QED
      BY <2>2, <2>6, <3>8, <3>9, NewKept
  <2>8. CASE ~Kept(r)
    <3>1. ~HandsOver(e.gives)
      BY <1>1, <2>8 DEF Agrees, Releases, Kept
    <3> QED
      BY <2>2, <2>5, <2>6, <2>8, <3>1, NewUnkept
  <2> QED
    BY <2>7, <2>8
<1> QED
  BY <1>4, <1>5, <1>6 DEF Gift

(* A local that refers to something refers to something that is there, and what *)
(* made it, or what it is made from, is kept below the next local.              *)
LEMMA Referred ==
  ASSUME ProgramInv, NEW i \in 1..Len(locals), locals[i].obj # Null
  PROVE  /\ locals[i].obj \in 1..Len(objects) /\ Grounded(locals[i].obj, Len(locals))
         /\ objects[locals[i].obj].live
         /\ objects[locals[i].obj].const => locals[i].kind = "const_view"
         /\ objects[locals[i].obj].needs # Null =>
              Grounded(objects[locals[i].obj].needs, Len(locals))
<1>1. LocalOK(i) /\ i \in Nat /\ Len(locals) \in Nat /\ i <= Len(locals)
  BY DEF ProgramInv, LocalsOK
<1>2. locals[i].obj \in 1..Len(objects) /\ Grounded(locals[i].obj, Len(locals))
  BY <1>1, GroundedHigher DEF LocalOK
<1>3. objects[locals[i].obj].needs # Null => Grounded(objects[locals[i].obj].needs, Len(locals))
  <2>1. ASSUME objects[locals[i].obj].needs # Null
        PROVE  Grounded(objects[locals[i].obj].needs, i - 1)
    BY <1>1, <2>1 DEF LocalOK
  <2>2. i - 1 \in Nat /\ i - 1 <= Len(locals)
    BY <1>1
  <2> QED
    BY <1>1, <2>1, <2>2, GroundedHigher
<1> QED
  BY <1>1, <1>2, <1>3 DEF LocalOK, Grounded

(* A method called on a local: its object is there, and not const if it is changed. *)
LEMMA CallOnOK ==
  ASSUME ProgramInv, ~TakesOptionalElement,
         NEW i \in DOMAIN locals, NEW e \in Callable, CallOn(i, e)
  PROVE  ProgramInv'
<1>1. i \in 1..Len(locals) /\ locals[i].obj # Null /\ wrongs = {}
      /\ locals[i].kind \in Accepts(e.part) /\ Agrees(e)
      /\ Len(objects) \in Nat
  BY CallsAgree, ProgramNumbers DEF ProgramInv, ObjectsOK, LocalsOK, CallOn
<1>2. PICK x \in 1..Len(objects) : x = locals[i].obj
  BY <1>1, Referred
<1>3. Grounded(x, Len(locals)) /\ objects[x].live /\ x # Null
      /\ (objects[x].const => locals[i].kind = "const_view")
  BY <1>1, <1>2, Referred
<1>4. e.alters => locals[i].kind # "const_view" /\ ~objects[x].const
  BY <1>1, <1>3 DEF Accepts, Agrees
<1>5. UNCHANGED wrongs
  BY <1>1, <1>2, <1>3, <1>4 DEF CallOn
<1>6. CASE Gift(e, x, Null)
  <2>1. Null \in 0..Len(objects) /\ x \in 0..Len(objects)
    BY <1>1, ProgramNumbers
  <2> QED
    BY <1>3, <1>5, <1>6, <2>1, GiftOK
<1>7. CASE \E a \in Allocators : Gift(e, x, a)
  <2>1. PICK a \in Allocators : Gift(e, x, a)
    BY <1>7
  <2>2. a \in 1..Len(objects) /\ Grounded(a, Len(locals))
    <3>1. PICK j \in DOMAIN locals : locals[j].obj = a /\ locals[j].obj # Null
      BY DEF Allocators
    <3>2. j \in 1..Len(locals)
      BY DEF ProgramInv, LocalsOK
    <3> QED
      BY <3>1, <3>2, Referred
  <2>3. a \in 0..Len(objects) /\ x \in 0..Len(objects)
    BY <1>1, <2>2
  <2> QED
    BY <1>3, <1>5, <2>1, <2>2, <2>3, GiftOK
<1> QED
  BY <1>2, <1>6, <1>7 DEF CallOn

(* A constructor has no object to be wrong about. *)
LEMMA CallFreeOK ==
  ASSUME ProgramInv, ~TakesOptionalElement, NEW e \in Callable, CallFree(e)
  PROVE  ProgramInv'
<1>1. Len(objects) \in Nat
  BY ProgramNumbers DEF ProgramInv, ObjectsOK
<1>2. Null \in 0..Len(objects) /\ Gift(e, Null, Null) /\ UNCHANGED wrongs
  BY <1>1, ProgramNumbers DEF CallFree
<1> QED
  BY <1>2, GiftOK

(* What the runtime passes to a kernel is its own. *)
LEMMA EnterKernelOK ==
  ASSUME ProgramInv, NEW kind \in {"view", "const_view"}, NEW class \in Classes,
         EnterKernel(kind, class)
  PROVE  ProgramInv'
<1>1. PICK n \in Nat : n = Len(objects)
  BY ProgramNumbers DEF ProgramInv, ObjectsOK
<1>2. PICK new : new = Object(class, Runtime, Null, kind = "const_view")
  OBVIOUS
<1>3. PICK l : l = Local(kind, class, n + 1)
  OBVIOUS
<1>4. /\ n < MaxObjects /\ objects' = Append(objects, new) /\ UNCHANGED wrongs
      /\ Len(locals) < MaxLocals /\ locals' = Append(locals, l)
  BY <1>1, <1>2, <1>3 DEF EnterKernel, Push
<1>5. /\ new.of = Runtime /\ new.needs = Null /\ new.live /\ new \in ObjectRecords
      /\ new.const = (kind = "const_view")
  BY <1>2, ProgramNumbers DEF Object, ObjectRecords
<1>6. Fits(new)
  BY <1>1, <1>5, ProgramNumbers DEF Fits
<1>7. l \in LocalRecords /\ l.obj = n + 1 /\ l.kind = kind /\ ~Releases(l)
  BY <1>1, <1>3 DEF Local, LocalRecords, Releases
<1>8. new.of # Caller /\ new.of \notin 1..n
  BY <1>5, ProgramNumbers
<1>9. NewLocal(l, new)
  BY <1>1, <1>5, <1>7, <1>8 DEF NewLocal
<1> QED
  BY <1>1, <1>4, <1>6, <1>9, NewKept

(* A view of what a local refers to. *)
LEMMA ViewOfOK ==
  ASSUME ProgramInv, NEW i \in DOMAIN locals, NEW kind \in {"view", "const_view"}, ViewOf(i, kind)
  PROVE  ProgramInv'
<1>1. i \in 1..Len(locals) /\ locals[i] \in LocalRecords
  BY DEF ProgramInv, LocalsOK
<1>2. PICK l : l = Local(kind, locals[i].class, locals[i].obj)
  OBVIOUS
<1>3. /\ l \in LocalRecords /\ l.obj = locals[i].obj /\ l.kind = kind /\ ~Releases(l)
      /\ Len(locals) < MaxLocals /\ locals' = Append(locals, l)
      /\ UNCHANGED <<objects, wrongs>>
  BY <1>1, <1>2 DEF Local, LocalRecords, Releases, ViewOf, Push
<1>4. ASSUME l.obj # Null PROVE Referable(l)
  <2>1. locals[i].kind \in {"owner", kind}
    BY DEF ViewOf
  <2> QED
    BY <1>1, <1>3, <1>4, <2>1, Referred DEF Referable
<1> QED
  BY <1>3, <1>4, PushOK

(* A local of another kind. *)
Relabels(t, s, i, to) == t = [s EXCEPT ![i].kind = to]

(* It refers to what it did, and the others are as they were. *)
LEMMA Relabelled ==
  ASSUME NEW s \in Seq(LocalRecords), NEW i \in 1..Len(s), NEW to \in {"owner", "raw"},
         NEW t, Relabels(t, s, i, to)
  PROVE  /\ t \in Seq(LocalRecords) /\ Len(t) = Len(s)
         /\ \A j \in 1..Len(s) : t[j].obj = s[j].obj /\ (j # i => t[j] = s[j])
         /\ t[i].class = s[i].class /\ t[i].kind = to
<1>1. PICK l \in LocalRecords : l = s[i]
  OBVIOUS
<1>2. PICK m \in LocalRecords : m = [l EXCEPT !.kind = to]
  BY <1>1 DEF LocalRecords
<1>3. m.kind = to /\ m.class = l.class /\ m.obj = l.obj
  BY <1>2 DEF LocalRecords
<1>4. t = [s EXCEPT ![i] = m]
  BY <1>1, <1>2 DEF Relabels
<1> QED
  BY <1>1, <1>3, <1>4

(* A pointer that changes hands is given back as before. *)
LEMMA RelabelOK ==
  ASSUME ProgramInv, NEW i \in DOMAIN locals, NEW from \in {"owner", "raw"},
         NEW to \in {"owner", "raw"}, Relabel(i, from, to)
  PROVE  ProgramInv'
<1>1. PICK k \in Nat : k = Len(locals)
  BY DEF ProgramInv, LocalsOK
<1>2. /\ i \in 1..k /\ locals \in Seq(LocalRecords) /\ locals[i].class \in Releasable
      /\ locals[i].kind = from /\ UNCHANGED <<objects, wrongs>>
  BY <1>1, TablesAgree DEF ProgramInv, LocalsOK, Relabel
<1>3. /\ locals' \in Seq(LocalRecords) /\ Len(locals') = k
      /\ \A j \in 1..k : /\ locals'[j].obj = locals[j].obj
                         /\ j # i => locals'[j] = locals[j]
      /\ locals'[i].class = locals[i].class /\ locals'[i].kind = to
  <2>1. locals \in Seq(LocalRecords) /\ i \in 1..Len(locals)
    BY <1>1, <1>2
  <2>2. Relabels(locals', locals, i, to)
    BY DEF Relabel, Relabels
  <2>3. /\ locals' \in Seq(LocalRecords) /\ Len(locals') = Len(locals)
        /\ \A j \in 1..Len(locals) : /\ locals'[j].obj = locals[j].obj
                                     /\ j # i => locals'[j] = locals[j]
        /\ locals'[i].class = locals[i].class /\ locals'[i].kind = to
    BY <2>1, <2>2, Relabelled
  <2> QED
    BY <1>1, <2>3
<1>4. \A j \in 1..k : Releases(locals[j])' <=> Releases(locals[j])
  BY <1>2, <1>3 DEF Releases
<1>5. \A o : \A j \in 1..k : KeptBy(o, j)' <=> KeptBy(o, j)
  BY <1>3, <1>4 DEF KeptBy
<1>6. ObjectsOK /\ Grows
  BY <1>2, SameObjects DEF ProgramInv
<1>7. ASSUME NEW x \in 1..Len(objects), NEW n \in 0..k, Grounded(x, n) PROVE Grounded(x, n)'
  <2>1. Whole(x)' = Whole(x)
    BY <1>6, WholeStays
  <2>2. 1..n \subseteq 1..k
    OBVIOUS
  <2> QED
    BY <1>2, <1>5, <1>7, <2>1, <2>2 DEF Grounded, Caller
<1>8. ASSUME NEW j \in 1..k, (locals[j].obj # Null)' PROVE LocalOK(j)'
  <2>1. LocalOK(j) /\ j \in 0..k /\ j - 1 \in 0..k
    BY <1>1, <1>3, <1>8 DEF ProgramInv, LocalsOK, Null
  <2>2. PICK x \in 1..Len(objects) : x = locals[j].obj
    BY <2>1 DEF LocalOK
  <2>3. Grounded(x, j)'
    BY <1>7, <2>1, <2>2 DEF LocalOK
  <2>4. ASSUME objects[x].needs # Null PROVE Grounded(objects[x].needs, j - 1)'
    <3>1. PICK y \in 1..Len(objects) : y = objects[x].needs
      BY <1>6, <2>4, NeedsObject
    <3>2. Grounded(y, j - 1)
      BY <2>1, <2>2, <2>4, <3>1 DEF LocalOK
    <3>3. Grounded(y, j - 1)'
      BY <1>7, <2>1, <3>2
    <3> QED
      BY <3>1, <3>3, <1>2 DEF Grounded
  <2>5. CASE j = i
    <3>1. Releases(locals[j])
      BY <1>2, <2>5 DEF Releases
    <3>2. ~objects[x].const /\ objects[x].of = Caller
      BY <1>2, <2>1, <2>2, <2>5, <3>1 DEF LocalOK
    <3>3. locals'[j].obj = x /\ Releases(locals[j])'
      BY <1>3, <1>4, <2>2, <3>1
    <3> QED
      BY <1>2, <2>2, <2>3, <2>4, <3>2, <3>3 DEF LocalOK, Grounded, Caller, Null
  <2>6. CASE j # i
    <3>1. locals'[j] = locals[j]
      BY <1>3, <2>6
    <3> QED
      BY <1>2, <1>4, <2>1, <2>2, <2>3, <2>4, <3>1
      DEF LocalOK, Grounded, Caller, Null, DefaultAllocator
  <2> QED
    BY <2>5, <2>6
<1>9. LocalsOK'
  BY <1>1, <1>3, <1>8 DEF ProgramInv, LocalsOK, LocalRecords
<1>10. KeptOnce'
  <2>1. ASSUME NEW o \in 1..Len(objects'), (objects[o].of = Caller /\ objects[o].live)'
        PROVE  \E j \in 1..Len(locals') : KeptBy(o, j)'
    BY <1>1, <1>2, <1>3, <1>5, <2>1 DEF ProgramInv, KeptOnce, Caller
  <2>2. ASSUME NEW h \in 1..k, NEW j \in 1..k,
               (locals[h].obj # Null /\ KeptBy(locals[h].obj, h) /\ KeptBy(locals[h].obj, j))'
        PROVE  h = j
    BY <1>1, <1>3, <1>4, <2>2 DEF ProgramInv, KeptOnce, KeptBy, Null
  <2> QED
    BY <1>3, <2>1, <2>2 DEF KeptOnce
<1> QED
  BY <1>2, <1>6, <1>9, <1>10 DEF ProgramInv, Grows

-----------------------------------------------------------------------------
(* The local h goes: where those that stay were before. *)
Old(i, h) == IF i < h THEN i ELSE i + 1

(* The others keep their order. *)
LEMMA OldOrder ==
  ASSUME NEW k \in Nat, NEW h \in 1..k
  PROVE  /\ \A i \in 1..(k - 1) : Old(i, h) \in 1..k /\ Old(i, h) # h
         /\ \A i, j \in 1..(k - 1) : Old(i, h) = Old(j, h) => i = j
         /\ \A i \in 1..k : i # h => \E m \in 1..(k - 1) : Old(m, h) = i
         /\ \A j \in 1..(k - 1) : \A i \in 1..Old(j, h) :
              i # h => \E m \in 1..j : Old(m, h) = i
         /\ \A j \in 1..(k - 1) : \A i \in 1..(Old(j, h) - 1) :
              i # h => \E m \in 1..(j - 1) : Old(m, h) = i
<1>1. \A i \in 1..(k - 1) : Old(i, h) \in 1..k /\ Old(i, h) # h
  BY DEF Old
<1>2. \A i, j \in 1..(k - 1) : Old(i, h) = Old(j, h) => i = j
  BY DEF Old
<1>3. \A i \in 1..k : i < h => Old(i, h) = i
  BY DEF Old
<1>4. \A i \in 1..k : i > h => Old(i - 1, h) = i
  BY DEF Old
<1>5. ASSUME NEW i \in 1..k, i # h PROVE \E m \in 1..(k - 1) : Old(m, h) = i
  <2>1. CASE i < h
    BY <1>3, <2>1
  <2>2. CASE i > h
    <3>1. i - 1 \in 1..(k - 1)
      BY <2>2
    <3> QED
      BY <1>4, <2>2, <3>1
  <2> QED
    BY <1>5, <2>1, <2>2
<1>6. ASSUME NEW j \in 1..(k - 1), NEW i \in 1..Old(j, h), i # h
      PROVE  \E m \in 1..j : Old(m, h) = i
  <2>1. i \in 1..k
    BY <1>1
  <2>2. CASE i < h
    <3>1. i \in 1..j
      BY <2>1, <2>2 DEF Old
    <3> QED
      BY <1>3, <2>1, <2>2, <3>1
  <2>3. CASE i > h
    <3>1. i - 1 \in 1..j
      BY <2>1, <2>3 DEF Old
    <3> QED
      BY <1>4, <2>1, <2>3, <3>1
  <2> QED
    BY <1>6, <2>1, <2>2, <2>3
<1>7. ASSUME NEW j \in 1..(k - 1), NEW i \in 1..(Old(j, h) - 1), i # h
      PROVE  \E m \in 1..(j - 1) : Old(m, h) = i
  <2>1. i \in 1..k
    BY <1>1
  <2>2. CASE i < h
    <3>1. i \in 1..(j - 1)
      BY <2>1, <2>2 DEF Old
    <3> QED
      BY <1>3, <2>1, <2>2, <3>1
  <2>3. CASE i > h
    <3>1. i - 1 \in 1..(j - 1)
      BY <2>1, <2>3 DEF Old
    <3> QED
      BY <1>4, <2>1, <2>3, <3>1
  <2> QED
    BY <1>7, <2>1, <2>2, <2>3
<1> QED
  BY <1>1, <1>2, <1>5, <1>6, <1>7

(* What goes with the local h. *)
Lost(x, h) == Releases(locals[h]) /\ locals[h].obj # Null /\ Whole(x) = locals[h].obj

(* The local h goes, and nothing that another one refers to, or needs, with it. *)
Removes(h) ==
  /\ h \in 1..Len(locals) /\ Destroy(locals[h])
  /\ locals' \in Seq(LocalRecords) /\ Len(locals') = Len(locals) - 1
  /\ \A i \in 1..(Len(locals) - 1) : locals'[i] = locals[Old(i, h)]
  /\ \A j \in 1..Len(locals) :
       j # h /\ locals[j].obj # Null =>
         /\ ~Lost(locals[j].obj, h)
         /\ objects[locals[j].obj].needs # Null => ~Lost(objects[locals[j].obj].needs, h)

(* Of an object that is gone only who it belonged to is left. *)
LEMMA GoneObject ==
  ASSUME NEW x \in ObjectRecords
  PROVE  /\ Gone(x) \in ObjectRecords
         /\ Gone(x).of = (IF x.of = Caller THEN Caller ELSE Runtime) /\ Gone(x).needs = Null
         /\ ~Gone(x).live /\ ~Gone(x).const
<1>1. PICK of \in Nat : of = IF x.of = Caller THEN Caller ELSE Runtime
  BY ProgramNumbers
<1>2. Gone(x) = [class |-> "gone", of |-> of, needs |-> Null, const |-> FALSE, live |-> FALSE]
  BY <1>1 DEF Gone
<1>3. Null \in Nat
  BY ProgramNumbers
<1>4. "gone" \in Classes
  BY DEF Classes
<1> QED
  BY <1>1, <1>2, <1>3, <1>4 DEF ObjectRecords

(* The objects are given back in order, and only they are gone. *)
LEMMA RemovedObjects ==
  ASSUME ProgramInv, NEW h, Removes(h)
  PROVE  /\ objects' \in Seq(ObjectRecords) /\ Len(objects') = Len(objects) /\ wrongs' = {}
         /\ \A x \in 1..Len(objects) :
              objects'[x] = IF Lost(x, h) THEN Gone(objects[x]) ELSE objects[x]
<1>1. PICK n \in Nat : n = Len(objects)
  BY ProgramNumbers DEF ProgramInv, ObjectsOK
<1>2. objects \in Seq(ObjectRecords) /\ DOMAIN objects = 1..n /\ wrongs = {}
  BY <1>1 DEF ProgramInv, ObjectsOK
<1>3. CASE locals[h].obj # Null /\ Releases(locals[h])
  <2>1. PICK o : o = locals[h].obj
    OBVIOUS
  <2>2. GiveBack(o) /\ \A x : Lost(x, h) <=> Whole(x) = o
    BY <1>3, <2>1 DEF Removes, Destroy, Lost
  <2>3. objects' = [x \in 1..n |-> IF Whole(x) = o THEN Gone(objects[x]) ELSE objects[x]]
    BY <1>2, <2>2 DEF GiveBack
  <2>4. \A x \in 1..n : objects[x] \in ObjectRecords /\ Gone(objects[x]) \in ObjectRecords
    BY <1>1, <1>2, GoneObject
  <2>5. objects' \in Seq(ObjectRecords) /\ Len(objects') = n
    BY <2>3, <2>4
  <2>6. LocalOK(h) /\ wrongs = {}
    BY <1>3 DEF Removes, ProgramInv, LocalsOK
  <2>7. objects[o].of = Caller /\ objects[o].live
        /\ (objects[o].needs # Null => objects[objects[o].needs].live)
    BY <1>3, <2>1, <2>6 DEF LocalOK, Grounded
  <2>8. wrongs' = {}
    BY <2>2, <2>6, <2>7 DEF GiveBack
  <2> QED
    BY <1>1, <2>2, <2>3, <2>5, <2>8
<1>4. CASE ~(locals[h].obj # Null /\ Releases(locals[h]))
  <2>1. UNCHANGED <<objects, wrongs>> /\ \A x : ~Lost(x, h)
    BY <1>4 DEF Removes, Destroy, Lost
  <2> QED
    BY <1>2, <2>1
<1> QED
  BY <1>3, <1>4

(* What does not go with it is as it was, and so is what it is part of. *)
LEMMA RemainingWhole ==
  ASSUME ProgramInv, NEW h, Removes(h), NEW x \in 1..Len(objects), ~Lost(x, h)
  PROVE  /\ objects'[x] = objects[x] /\ Whole(x)' = Whole(x)
         /\ objects'[Whole(x)] = objects[Whole(x)] /\ ~Lost(Whole(x), h)
         /\ Whole(x) \in 1..Len(objects)
<1>1. ObjectsOK
  BY DEF ProgramInv
<1>2. Whole(x) \in 1..Len(objects) /\ Whole(Whole(x)) = Whole(x)
  BY <1>1, Wholes
<1>3. ~Lost(Whole(x), h)
  BY <1>2 DEF Lost
<1>4. objects'[x] = objects[x] /\ objects'[Whole(x)] = objects[Whole(x)]
  BY <1>2, <1>3, RemovedObjects
<1>5. DOMAIN objects' = DOMAIN objects
  BY <1>1, RemovedObjects DEF ObjectsOK
<1>6. Whole(x)' = Whole(x)
  BY <1>4, <1>5 DEF Whole
<1> QED
  BY <1>2, <1>3, <1>4, <1>6

(* Parts go with what they are part of. *)
LEMMA RemainingObjectsOK ==
  ASSUME ProgramInv, NEW h, Removes(h)
  PROVE  ObjectsOK'
<1>1. PICK n \in 1..MaxObjects : n = Len(objects)
  BY DEF ProgramInv, ObjectsOK
<1>2. /\ objects' \in Seq(ObjectRecords) /\ Len(objects') = n
      /\ \A x \in 1..n : objects'[x] = IF Lost(x, h) THEN Gone(objects[x]) ELSE objects[x]
  BY <1>1, RemovedObjects
<1>3. ObjectsOK /\ objects \in Seq(ObjectRecords)
  BY DEF ProgramInv, ObjectsOK
<1>4. Caller \notin 1..n /\ Runtime \notin 1..n /\ Runtime # Caller /\ 1 \in 1..n
  BY <1>1, ProgramNumbers
<1>5. ASSUME NEW x \in 1..n, ~Lost(x, h)
      PROVE  /\ objects'[x] = objects[x]
             /\ objects[x].of \in 1..n => objects'[objects[x].of] = objects[objects[x].of]
  <2>1. objects[x].of \in 1..n => Whole(x) = objects[x].of
    BY <1>1, <1>3 DEF Whole, ObjectsOK
  <2> QED
    BY <1>1, <1>5, <2>1, RemainingWhole
<1>6. ASSUME NEW o \in 1..n
      PROVE  /\ objects'[o].of \in 0..(o - 1) \cup {Caller} /\ objects'[o].needs \in 0..(o - 1)
             /\ objects'[o].of \in 1..n =>
                  /\ objects'[objects'[o].of].of \in {Runtime, Caller}
                  /\ objects'[o].live => objects'[objects'[o].of].live
  <2>1. CASE Lost(o, h)
    <3>1. objects'[o] = Gone(objects[o]) /\ objects[o] \in ObjectRecords
      BY <1>1, <1>2, <1>3, <2>1
    <3>2. objects'[o].of \in {Runtime, Caller} /\ objects'[o].needs = Null
      BY <3>1, GoneObject
    <3>3. 0 \in 0..(o - 1)
      BY <1>1
    <3> QED
      BY <1>4, <3>2, <3>3, ProgramNumbers
  <2>2. CASE ~Lost(o, h)
    BY <1>1, <1>3, <1>5, <2>2 DEF ObjectsOK
  <2> QED
    BY <2>1, <2>2
<1>7. ~Lost(DefaultAllocator, h)
  <2>1. objects[DefaultAllocator].of = Runtime /\ DefaultAllocator = 1 /\ DOMAIN objects = 1..n
    BY <1>1, <1>3, ProgramNumbers DEF ObjectsOK
  <2>2. Whole(DefaultAllocator) = DefaultAllocator
    BY <1>4, <2>1 DEF Whole
  <2>3. SUFFICES ASSUME Releases(locals[h]), locals[h].obj # Null, locals[h].obj = DefaultAllocator
                 PROVE  FALSE
    BY <2>2 DEF Lost
  <2>4. LocalOK(h)
    BY <2>3 DEF Removes, ProgramInv, LocalsOK
  <2> QED
    BY <1>4, <2>1, <2>3, <2>4 DEF LocalOK
<1>8. objects'[DefaultAllocator] = objects[DefaultAllocator]
  BY <1>2, <1>4, <1>7, ProgramNumbers
<1> QED
  BY <1>1, <1>2, <1>3, <1>6, <1>8
  DEF ObjectsOK, Caller, Runtime, DefaultAllocator, ObjectRecords

(* What stays is kept by the locals that stay, in their order. *)
LEMMA GroundedRemains ==
  ASSUME ProgramInv, NEW h, Removes(h), NEW x \in 1..Len(objects), ~Lost(x, h),
         NEW n \in Nat, NEW m \in Nat, n <= Len(locals), m <= Len(locals) - 1, Grounded(x, n),
         \A i \in 1..n : i # h => \E j \in 1..m : Old(j, h) = i
  PROVE  Grounded(x, m)'
<1>1. /\ objects'[x] = objects[x] /\ Whole(x)' = Whole(x)
      /\ objects'[Whole(x)] = objects[Whole(x)] /\ Whole(x) \in 1..Len(objects)
      /\ ~Lost(Whole(x), h) /\ Whole(Whole(x)) = Whole(x)
  BY RemainingWhole, Wholes DEF ProgramInv
<1>2. ASSUME objects[Whole(x)].of = Caller PROVE \E j \in 1..m : KeptBy(Whole(x), j)'
  <2>1. PICK i \in 1..n : KeptBy(Whole(x), i)
    BY <1>2 DEF Grounded
  <2>2. i # h
    <3>1. SUFFICES ASSUME KeptBy(Whole(x), h) PROVE FALSE
      BY <2>1
    <3>2. Len(objects) \in Nat
      BY ProgramNumbers DEF ProgramInv, ObjectsOK
    <3>3. Whole(x) # Null
      BY <1>1, <3>2, ProgramNumbers
    <3> QED
      BY <1>1, <3>1, <3>3 DEF KeptBy, Lost
  <2>3. PICK j \in 1..m : Old(j, h) = i
    BY <2>1, <2>2
  <2>4. Len(locals) \in Nat
    BY DEF ProgramInv, LocalsOK
  <2>5. j \in 1..(Len(locals) - 1)
    BY <2>4
  <2>6. locals'[j] = locals[i]
    BY <2>3, <2>5 DEF Removes
  <2> QED
    BY <1>1, <2>1, <2>6 DEF KeptBy, Releases
<1>3. objects'[x].live
  BY <1>1 DEF Grounded
<1> QED
  BY <1>1, <1>2, <1>3 DEF Grounded, Caller

(* A local goes whose object nothing else refers to. *)
LEMMA RemoveOK ==
  ASSUME ProgramInv, NEW h, Removes(h)
  PROVE  ProgramInv'
<1>1. PICK k \in Nat : k = Len(locals)
  BY DEF ProgramInv, LocalsOK
<1>2. /\ h \in 1..k /\ locals' \in Seq(LocalRecords) /\ Len(locals') = k - 1
      /\ \A i \in 1..(k - 1) : locals'[i] = locals[Old(i, h)]
      /\ \A i \in 1..(k - 1) : Old(i, h) \in 1..k /\ Old(i, h) # h
  BY <1>1, OldOrder DEF Removes
<1>3. /\ \A i, j \in 1..(k - 1) : Old(i, h) = Old(j, h) => i = j
      /\ \A i \in 1..k : i # h => \E m \in 1..(k - 1) : Old(m, h) = i
      /\ \A j \in 1..(k - 1) : \A i \in 1..Old(j, h) :
           i # h => \E m \in 1..j : Old(m, h) = i
      /\ \A j \in 1..(k - 1) : \A i \in 1..(Old(j, h) - 1) :
           i # h => \E m \in 1..(j - 1) : Old(m, h) = i
  BY <1>1, <1>2, OldOrder
<1>4. /\ ObjectsOK /\ ObjectsOK' /\ wrongs' = {} /\ Len(objects') = Len(objects)
      /\ \A x \in 1..Len(objects) :
           objects'[x] = IF Lost(x, h) THEN Gone(objects[x]) ELSE objects[x]
  BY RemovedObjects, RemainingObjectsOK DEF ProgramInv
<1>5. \A o : \A i \in 1..(k - 1) : KeptBy(o, i)' <=> KeptBy(o, Old(i, h))
  BY <1>2 DEF KeptBy, Releases
<1>6. ASSUME NEW j \in 1..(k - 1), (locals[j].obj # Null)' PROVE LocalOK(j)'
  <2>1. PICK i \in 1..k : i = Old(j, h) /\ i # h
    BY <1>2
  <2>2. locals'[j] = locals[i] /\ locals[i].obj # Null /\ LocalOK(i)
    BY <1>1, <1>2, <1>6, <2>1 DEF ProgramInv, LocalsOK, Null
  <2>3. PICK x \in 1..Len(objects) : x = locals[i].obj
    BY <2>2 DEF LocalOK
  <2>4. ~Lost(x, h) /\ objects'[x] = objects[x]
    BY <1>1, <1>4, <2>1, <2>2, <2>3 DEF Removes
  <2>5. Grounded(x, j)'
    <3>1. Grounded(x, i)
      BY <2>2, <2>3 DEF LocalOK
    <3>2. \A g \in 1..i : g # h => \E m \in 1..j : Old(m, h) = g
      BY <1>3, <2>1
    <3>3. i \in Nat /\ j \in Nat /\ i <= Len(locals) /\ j <= Len(locals) - 1
      BY <1>1
    <3> QED
      BY <2>4, <3>1, <3>2, <3>3, GroundedRemains
  <2>6. ASSUME objects[x].needs # Null PROVE Grounded(objects[x].needs, j - 1)'
    <3>1. PICK y \in 1..Len(objects) : y = objects[x].needs
      BY <1>4, <2>6, NeedsObject
    <3>2. Grounded(y, i - 1) /\ ~Lost(y, h)
      BY <1>1, <2>1, <2>2, <2>3, <2>6, <3>1 DEF LocalOK, Removes
    <3>3. \A g \in 1..(i - 1) : g # h => \E m \in 1..(j - 1) : Old(m, h) = g
      BY <1>3, <2>1
    <3>4. i - 1 \in Nat /\ j - 1 \in Nat /\ i - 1 <= Len(locals) /\ j - 1 <= Len(locals) - 1
      BY <1>1
    <3>5. Grounded(y, j - 1)'
      BY <3>2, <3>3, <3>4, GroundedRemains
    <3> QED
      BY <2>4, <3>1, <3>5 DEF Grounded
  <2> QED
    BY <1>4, <2>2, <2>3, <2>4, <2>5, <2>6
    DEF LocalOK, Releases, Grounded, Null, Caller, DefaultAllocator
<1>7. LocalsOK'
  <2>1. k - 1 <= MaxLocals
    BY <1>1, ProgramNumbers DEF ProgramInv, LocalsOK
  <2> QED
    BY <1>2, <1>6, <2>1 DEF LocalsOK, LocalRecords
<1>8. KeptOnce'
  <2>1. ASSUME NEW o \in 1..Len(objects'), (objects[o].of = Caller /\ objects[o].live)'
        PROVE  \E j \in 1..(k - 1) : KeptBy(o, j)'
    <3>1. o \in 1..Len(objects) /\ ~Lost(o, h) /\ objects'[o] = objects[o] /\ o # Null
      <4>1. o \in 1..Len(objects) /\ objects \in Seq(ObjectRecords) /\ o # Null
        BY <1>4, ProgramNumbers DEF ObjectsOK
      <4>2. ~Lost(o, h)
        BY <1>4, <2>1, <4>1, GoneObject
      <4> QED
        BY <1>4, <4>1, <4>2
    <3>2. objects[o].of = Caller /\ objects[o].live
      BY <2>1, <3>1 DEF Caller
    <3>3. PICK i \in 1..k : KeptBy(o, i)
      BY <1>1, <3>1, <3>2 DEF ProgramInv, KeptOnce
    <3>4. i # h
      <4>1. Whole(o) = o
        BY <1>4, <3>1, <3>2, Wholes
      <4> QED
        BY <3>1, <3>3, <4>1 DEF KeptBy, Lost
    <3>5. PICK j \in 1..(k - 1) : Old(j, h) = i
      BY <1>3, <3>4
    <3> QED
      BY <1>5, <3>3, <3>5
  <2>2. ASSUME NEW i \in 1..(k - 1), NEW j \in 1..(k - 1),
               (locals[i].obj # Null /\ KeptBy(locals[i].obj, i) /\ KeptBy(locals[i].obj, j))'
        PROVE  i = j
    <3>1. PICK o : o = locals'[i].obj
      OBVIOUS
    <3>2. o # Null /\ KeptBy(o, i)' /\ KeptBy(o, j)'
      BY <2>2, <3>1 DEF KeptBy, Null
    <3>3. KeptBy(o, Old(i, h)) /\ KeptBy(o, Old(j, h)) /\ locals[Old(i, h)].obj = o
      BY <1>2, <1>5, <3>1, <3>2
    <3>4. Old(i, h) = Old(j, h)
      BY <1>1, <1>2, <3>2, <3>3 DEF ProgramInv, KeptOnce
    <3> QED
      BY <1>3, <3>4
  <2> QED
    BY <1>2, <2>1, <2>2 DEF KeptOnce
<1> QED
  BY <1>4, <1>7, <1>8 DEF ProgramInv

(* What is kept at or below a place is not lost with a local above it. *)
LEMMA NotLost ==
  ASSUME ProgramInv, NEW h \in 1..Len(locals), NEW n \in Nat, n < h,
         NEW x \in 1..Len(objects), Grounded(x, n)
  PROVE  ~Lost(x, h)
<1>1. SUFFICES ASSUME Releases(locals[h]), locals[h].obj # Null, Whole(x) = locals[h].obj
               PROVE  FALSE
  BY DEF Lost
<1>2. PICK k \in Nat : k = Len(locals)
  BY DEF ProgramInv, LocalsOK
<1>3. LocalOK(h)
  BY <1>1 DEF ProgramInv, LocalsOK
<1>4. objects[Whole(x)].of = Caller
  BY <1>1, <1>3 DEF LocalOK
<1>5. PICK i \in 1..n : KeptBy(Whole(x), i)
  BY <1>4 DEF Grounded
<1>6. KeptBy(Whole(x), h) /\ Whole(x) # Null
  BY <1>1 DEF KeptBy
<1>7. i \in 1..Len(locals) /\ i # h
  BY <1>2
<1>8. locals[h].obj # Null /\ KeptBy(locals[h].obj, h) /\ KeptBy(locals[h].obj, i)
  BY <1>1, <1>5, <1>6
<1> QED
  BY <1>7, <1>8 DEF ProgramInv, KeptOnce

(* So nothing that a local refers to, or needs, goes with a local above it. *)
LEMMA NotLostBelow ==
  ASSUME ProgramInv, NEW h \in 1..Len(locals), NEW j \in 1..Len(locals), j < h,
         locals[j].obj # Null
  PROVE  /\ ~Lost(locals[j].obj, h)
         /\ objects[locals[j].obj].needs # Null => ~Lost(objects[locals[j].obj].needs, h)
<1>1. LocalOK(j) /\ ObjectsOK /\ h \in Nat /\ j \in Nat /\ j - 1 \in Nat /\ j - 1 < h
  BY DEF ProgramInv, LocalsOK
<1>2. PICK x \in 1..Len(objects) : x = locals[j].obj
  BY <1>1 DEF LocalOK
<1>3. ~Lost(x, h)
  BY <1>1, <1>2, NotLost DEF LocalOK
<1>4. ASSUME objects[x].needs # Null PROVE ~Lost(objects[x].needs, h)
  <2>1. objects[x].needs \in 1..Len(objects)
    BY <1>1, <1>4, NeedsObject
  <2>2. Grounded(objects[x].needs, j - 1)
    BY <1>1, <1>2, <1>4 DEF LocalOK
  <2> QED
    BY <1>1, <2>1, <2>2, NotLost
<1> QED
  BY <1>2, <1>3, <1>4

(* The youngest local: nothing can refer to what it alone keeps. *)
LEMMA LeaveScopeOK ==
  ASSUME ProgramInv, LeaveScope
  PROVE  ProgramInv'
<1>1. PICK k \in Nat : k = Len(locals)
  BY DEF ProgramInv, LocalsOK
<1>2. locals \in Seq(LocalRecords) /\ k >= 1
  BY <1>1 DEF ProgramInv, LocalsOK, LeaveScope
<1>3. Destroy(locals[k]) /\ locals' = SubSeq(locals, 1, k - 1)
  BY <1>1 DEF LeaveScope
<1>4. /\ locals' \in Seq(LocalRecords) /\ Len(locals') = k - 1
      /\ \A i \in 1..(k - 1) : locals'[i] = locals[i]
  BY <1>1, <1>2, <1>3
<1>5. \A i \in 1..(k - 1) : Old(i, k) = i
  BY DEF Old
<1>6. \A j \in 1..k : j # k /\ locals[j].obj # Null =>
        /\ ~Lost(locals[j].obj, k)
        /\ objects[locals[j].obj].needs # Null => ~Lost(objects[locals[j].obj].needs, k)
  BY <1>1, <1>2, NotLostBelow
<1>7. Removes(k)
  BY <1>1, <1>2, <1>3, <1>4, <1>5, <1>6 DEF Removes
<1> QED
  BY <1>7, RemoveOK

(* The second youngest: the returned one does not refer to it, those below cannot. *)
LEMMA ReturnYoungestOK ==
  ASSUME ProgramInv, ReturnYoungest
  PROVE  ProgramInv'
<1>1. PICK k \in Nat : k = Len(locals) /\ k >= 2
  BY DEF ProgramInv, LocalsOK, ReturnYoungest
<1>2. PICK h \in 1..k : h = k - 1
  BY <1>1
<1>3. locals \in Seq(LocalRecords)
  BY DEF ProgramInv, LocalsOK
<1>4. Destroy(locals[h]) /\ locals' = SubSeq(locals, 1, k - 2) \o <<locals[k]>>
  BY <1>1, <1>2 DEF ReturnYoungest
<1>5. /\ locals' \in Seq(LocalRecords) /\ Len(locals') = k - 1
      /\ \A i \in 1..(k - 2) : locals'[i] = locals[i]
      /\ locals'[k - 1] = locals[k]
  <2>1. PICK s : s = SubSeq(locals, 1, k - 2)
    OBVIOUS
  <2>2. s \in Seq(LocalRecords) /\ Len(s) = k - 2 /\ \A i \in 1..(k - 2) : s[i] = locals[i]
    BY <1>1, <1>3, <2>1
  <2>3. locals[k] \in LocalRecords
    BY <1>1, <1>3
  <2>4. locals' = Append(s, locals[k])
    BY <1>4, <2>1, <2>2, <2>3
  <2> QED
    BY <1>1, <2>2, <2>3, <2>4, Appended
<1>6. \A i \in 1..(k - 1) : locals'[i] = locals[Old(i, h)]
  <2>1. ASSUME NEW i \in 1..(k - 1) PROVE locals'[i] = locals[Old(i, h)]
    <3>1. CASE i = k - 1
      BY <1>1, <1>2, <1>5, <3>1 DEF Old
    <3>2. CASE i # k - 1
      <4>1. i \in 1..(k - 2)
        BY <1>1, <3>2
      <4> QED
        BY <1>1, <1>2, <1>5, <4>1 DEF Old
    <3> QED
      BY <3>1, <3>2
  <2> QED
    BY <2>1
<1>7. ASSUME locals[k].obj # Null
      PROVE  /\ ~Lost(locals[k].obj, h)
             /\ objects[locals[k].obj].needs # Null => ~Lost(objects[locals[k].obj].needs, h)
  BY <1>1, <1>2, <1>7 DEF ReturnYoungest, Lost, Releases
<1>8. ASSUME NEW j \in 1..k, j # h, locals[j].obj # Null
      PROVE  /\ ~Lost(locals[j].obj, h)
             /\ objects[locals[j].obj].needs # Null => ~Lost(objects[locals[j].obj].needs, h)
  <2>1. j < h \/ j = k
    BY <1>1, <1>2, <1>8
  <2> QED
    BY <1>1, <1>7, <1>8, <2>1, NotLostBelow
<1>9. Removes(h)
  BY <1>1, <1>2, <1>4, <1>5, <1>6, <1>8 DEF Removes
<1> QED
  BY <1>9, RemoveOK

-----------------------------------------------------------------------------
(* A program starts with the runtime's allocator and no locals. *)
LEMMA ProgramInit == ApiInit => ProgramInv
<1> SUFFICES ASSUME ApiInit PROVE ProgramInv
  OBVIOUS
<1>1. PICK first : first = Object("Allocator", Runtime, Null, FALSE)
  OBVIOUS
<1>2. /\ first.of = Runtime /\ first.needs = Null /\ first.live /\ ~first.const
      /\ first \in ObjectRecords
  <2>1. "Allocator" \in Classes /\ Runtime \in Nat /\ Null \in Nat
    BY ProgramNumbers DEF Classes
  <2> QED
    BY <1>1, <2>1 DEF Object, ObjectRecords
<1>3. /\ objects \in Seq(ObjectRecords) /\ Len(objects) = 1 /\ objects[1] = first
      /\ locals \in Seq(LocalRecords) /\ Len(locals) = 0 /\ wrongs = {}
  <2>1. objects = <<first>> /\ locals = <<>> /\ wrongs = {}
    BY <1>1 DEF ApiInit
  <2> QED
    BY <1>2, <2>1
<1>4. ObjectsOK
  <2>1. \A o \in 1..Len(objects) : o = 1
    BY <1>3
  <2>2. objects[1].of = 0 /\ objects[1].needs = 0 /\ 1 \in 1..MaxObjects
    BY <1>2, <1>3, ProgramNumbers
  <2> QED
    BY <1>2, <1>3, <2>1, <2>2, ProgramNumbers DEF ObjectsOK
<1>5. LocalsOK
  BY <1>3, ProgramNumbers DEF LocalsOK
<1>6. KeptOnce
  <2>1. \A o \in 1..Len(objects) : o = 1
    BY <1>3
  <2>2. objects[1].of # Caller
    BY <1>2, <1>3, ProgramNumbers
  <2> QED
    BY <1>3, <2>1, <2>2 DEF KeptOnce
<1> QED
  BY <1>3, <1>4, <1>5, <1>6 DEF ProgramInv

(* What is called on a class, or on nothing, is among what the program calls. *)
LEMMA CallsAre ==
  /\ \A class \in DOMAIN CallableOn : \A e \in CallableOn[class] : e \in Callable
  /\ \A e \in CallableOn["none"] : e \in Callable
<1>1. PICK e \in Effects : e.on = "none" /\ e.gives.class = "none"
  BY TablesAgree
<1>2. e \in Callable
  BY <1>1 DEF Callable
<1>3. "none" \in DOMAIN CallableOn
  BY <1>1, <1>2 DEF CallableOn
<1>4. \A class \in DOMAIN CallableOn : \A d \in CallableOn[class] : d \in Callable
  BY DEF CallableOn
<1> QED
  BY <1>3, <1>4

(* One step, by action. *)
LEMMA ProgramNext ==
  ASSUME ProgramInv, ~TakesOptionalElement, [ApiNext]_<<apiVars, vars>>
  PROVE  ProgramInv'
<1>1. ASSUME NEW i \in DOMAIN locals, NEW e \in Callable, CallOn(i, e) PROVE ProgramInv'
  BY <1>1, CallOnOK
<1>2. ASSUME NEW i \in DOMAIN locals, NEW kind \in {"view", "const_view"}, ViewOf(i, kind)
      PROVE  ProgramInv'
  BY <1>2, ViewOfOK
<1>3. ASSUME NEW i \in DOMAIN locals, ReleaseOwner(i) \/ Adopt(i) PROVE ProgramInv'
  BY <1>3, RelabelOK DEF ReleaseOwner, Adopt
<1>4. ASSUME NEW e \in Callable, CallFree(e) PROVE ProgramInv'
  BY <1>4, CallFreeOK
<1>5. CASE EnterKernel("view", "KernelContext")
  <2>1. "KernelContext" \in Classes
    BY DEF Classes
  <2> QED
    BY <1>5, <2>1, EnterKernelOK
<1>6. CASE EnterKernel("const_view", "KernelInfo")
  <2>1. "KernelInfo" \in Classes
    BY DEF Classes
  <2> QED
    BY <1>6, <2>1, EnterKernelOK
<1>7. CASE LeaveScope
  BY <1>7, LeaveScopeOK
<1>8. CASE ReturnYoungest
  BY <1>8, ReturnYoungestOK
<1>9. CASE \/ \E f \in Fn : CallVector(f)
           \/ VectorStep \/ Over \/ UNCHANGED <<apiVars, vars>>
  <2>1. UNCHANGED apiVars
    BY <1>9 DEF CallVector, VectorStep, Over
  <2> QED
    BY <2>1, SameProgram
<1> QED
  BY <1>1, <1>2, <1>3, <1>4, <1>5, <1>6, <1>7, <1>8, <1>9, CallsAre DEF ApiNext

(* Whatever a program does with the wrapper classes, GetOptionalElementType apart: *)
(* what a local refers to, and what made it, is kept by the local itself or by one *)
(* below it, what was handed over by one local only, and nothing was done that     *)
(* must not be.  The tables of the methods come in through TablesAgree.            *)
THEOREM ProgramInvariant == ASSUME ~TakesOptionalElement PROVE ApiSpec => []ProgramInv
<1>1. ProgramInv /\ [ApiNext]_<<apiVars, vars>> => ProgramInv'
  BY ProgramNext
<1> QED
  BY <1>1, ProgramInit, PTL DEF ApiSpec

(* The type invariant is part of it. *)
LEMMA ProgramTyped == ProgramInv /\ TypeOK => ApiTypeOK
<1> SUFFICES ASSUME ProgramInv, TypeOK PROVE ApiTypeOK
  OBVIOUS
<1>1. /\ DOMAIN objects = 1..Len(objects) /\ Len(objects) \in 1..MaxObjects
      /\ \A o \in 1..Len(objects) : /\ objects[o].of \in 0..(o - 1) \cup {Caller}
                                    /\ objects[o].needs \in 0..(o - 1)
  BY DEF ProgramInv, ObjectsOK
<1>2. /\ DOMAIN locals = 1..Len(locals) /\ Len(locals) <= MaxLocals
      /\ \A i \in 1..Len(locals) : /\ locals[i] \in LocalRecords
                                   /\ locals[i].obj # Null => LocalOK(i)
  BY DEF ProgramInv, LocalsOK
<1>3. ASSUME NEW i \in 1..Len(locals) PROVE locals[i].obj \in 0..Len(objects)
  BY <1>1, <1>2, ProgramNumbers DEF LocalOK
<1>4. ASSUME NEW l \in LocalRecords PROVE Kept(l)
  BY DEF LocalRecords, Kept
<1>5. wrongs = {}
  BY DEF ProgramInv
<1> QED
  BY <1>1, <1>2, <1>3, <1>4, <1>5 DEF ApiTypeOK

(* Every reference is to something kept. *)
LEMMA ProgramLive == ProgramInv => LocalsStayValid
<1> SUFFICES ASSUME ProgramInv PROVE LocalsStayValid
  OBVIOUS
<1>1. \A i \in DOMAIN locals : locals[i].obj # Null => objects[locals[i].obj].live
  BY DEF ProgramInv, LocalsOK, LocalOK, Grounded
<1> QED
  BY <1>1 DEF ProgramInv, LocalsStayValid

-----------------------------------------------------------------------------
(* An object's life: it comes up live, belongs to whom it did, and once gone *)
(* stays gone.                                                               *)
ObjectsLive ==
  /\ Len(objects) \in Nat /\ Len(objects') \in Nat /\ Len(objects') >= Len(objects)
  /\ \A o \in 1..Len(objects) : /\ objects'[o].of = Caller <=> objects[o].of = Caller
                                /\ objects'[o].live => objects[o].live
  /\ \A o \in 1..Len(objects') : o > Len(objects) => objects'[o].live

(* Nothing comes up or goes. *)
LEMMA ObjectsKept ==
  ASSUME ProgramInv, UNCHANGED objects
  PROVE  ObjectsLive
<1>1. Len(objects) \in Nat
  BY ProgramNumbers DEF ProgramInv, ObjectsOK
<1> QED
  BY <1>1 DEF ObjectsLive

(* One comes up. *)
LEMMA ObjectAdded ==
  ASSUME ProgramInv, NEW new \in ObjectRecords, new.live, objects' = Append(objects, new)
  PROVE  ObjectsLive
<1>1. objects \in Seq(ObjectRecords)
  BY DEF ProgramInv, ObjectsOK
<1>2. PICK n \in Nat : n = Len(objects)
  BY <1>1
<1>3. /\ Len(objects') = n + 1 /\ objects'[n + 1] = new
      /\ \A o \in 1..n : objects'[o] = objects[o]
  BY <1>1, <1>2, Appended
<1>4. \A o \in 1..(n + 1) : o > n => o = n + 1
  OBVIOUS
<1> QED
  BY <1>2, <1>3, <1>4 DEF ObjectsLive

(* A destructor gives one back, or none. *)
LEMMA ObjectsRemoved ==
  ASSUME ProgramInv, NEW l, Destroy(l)
  PROVE  ObjectsLive
<1>1. CASE UNCHANGED objects
  BY <1>1, ObjectsKept
<1>2. CASE GiveBack(l.obj)
  <2>1. PICK n \in Nat : n = Len(objects)
    BY ProgramNumbers DEF ProgramInv, ObjectsOK
  <2>2. objects \in Seq(ObjectRecords) /\ DOMAIN objects = 1..n
    BY <2>1 DEF ProgramInv, ObjectsOK
  <2>3. objects' = [x \in 1..n |-> IF Whole(x) = l.obj THEN Gone(objects[x]) ELSE objects[x]]
    BY <1>2, <2>2 DEF GiveBack
  <2>4. Len(objects') = n
    BY <2>2, <2>3, GoneObject
  <2>5. ASSUME NEW o \in 1..n
        PROVE  /\ objects'[o].of = Caller <=> objects[o].of = Caller
               /\ objects'[o].live => objects[o].live
    <3>1. objects[o] \in ObjectRecords /\ Runtime # Caller
      BY <2>2, ProgramNumbers
    <3> QED
      BY <2>3, <3>1, GoneObject
  <2> QED
    BY <2>1, <2>4, <2>5 DEF ObjectsLive
<1> QED
  BY <1>1, <1>2 DEF Destroy

(* A call hands out or lends at most one object, a live one. *)
LEMMA GiftLives ==
  ASSUME ProgramInv, NEW e \in Callable, NEW obj \in 0..Len(objects),
         NEW allocator \in 0..Len(objects), Gift(e, obj, allocator)
  PROVE  ObjectsLive
<1>1. CASE UNCHANGED objects
  BY <1>1, ObjectsKept
<1>2. CASE Give(e, obj, allocator) /\ ~IsDefault(e)
  <2>1. PICK new : new = Object(e.gives.class,
                    IF HandsOver(e.gives) THEN Caller
                    ELSE IF obj = Null THEN Runtime ELSE Whole(obj),
                    CASE e.gives.how = "string" -> allocator
                      [] e.gives.how = "handed_in" -> obj
                      [] OTHER -> Null,
                    e.gives.how = "const_lent")
    OBVIOUS
  <2>2. objects' = Append(objects, new)
    BY <1>2, <2>1 DEF Give
  <2>3. new.live
    BY <2>1 DEF Object
  <2>4. ObjectsOK /\ Len(objects) \in Nat
    BY ProgramNumbers DEF ProgramInv, ObjectsOK
  <2>5. new \in ObjectRecords
    <3>1. new.class \in Classes /\ new.class = e.gives.class
      BY <2>1 DEF Callable, Classes, Object
    <3>2. new.of \in Nat /\ new.needs \in Nat
      <4>1. Caller \in Nat /\ Runtime \in Nat /\ Null = 0
        BY ProgramNumbers
      <4>2. obj # Null => Whole(obj) \in Nat
        <5>1. obj # Null => obj \in 1..Len(objects)
          BY <2>4, <4>1
        <5>2. obj # Null => Whole(obj) \in 1..Len(objects)
          BY <2>4, <5>1, Wholes
        <5> QED
          BY <2>4, <5>2
      <4>3. new.of \in {Caller, Runtime} \/ (obj # Null /\ new.of = Whole(obj))
        BY <2>1 DEF Object
      <4>4. new.needs \in {allocator, obj, Null}
        BY <2>1 DEF Object
      <4> QED
        BY <2>4, <4>1, <4>2, <4>3, <4>4
    <3> QED
      BY <2>1, <3>1, <3>2 DEF Object, ObjectRecords
  <2> QED
    BY <2>2, <2>3, <2>5, ObjectAdded
<1> QED
  BY <1>1, <1>2 DEF Gift, GiveNone, Give

(* One step, by action. *)
LEMMA ObjectLife ==
  ASSUME ProgramInv, [ApiNext]_<<apiVars, vars>>
  PROVE  ObjectsLive
<1>0. Len(objects) \in Nat /\ Null \in 0..Len(objects)
  BY ProgramNumbers DEF ProgramInv, ObjectsOK
<1>1. ASSUME NEW i \in DOMAIN locals, NEW e \in Callable, CallOn(i, e) PROVE ObjectsLive
  <2>1. i \in 1..Len(locals) /\ locals[i].obj # Null
    BY <1>1 DEF ProgramInv, LocalsOK, CallOn
  <2>2. locals[i].obj \in 0..Len(objects)
    BY <1>0, <2>1, Referred
  <2>3. ASSUME NEW a \in Allocators PROVE a \in 0..Len(objects)
    <3>1. PICK j \in DOMAIN locals : locals[j].obj = a /\ locals[j].obj # Null
      BY DEF Allocators
    <3>2. j \in 1..Len(locals)
      BY DEF ProgramInv, LocalsOK
    <3> QED
      BY <1>0, <3>1, <3>2, Referred
  <2>4. \E a \in Allocators \cup {Null} : Gift(e, locals[i].obj, a)
    BY <1>1 DEF CallOn
  <2> QED
    BY <1>0, <2>2, <2>3, <2>4, GiftLives
<1>2. ASSUME NEW e \in Callable, CallFree(e) PROVE ObjectsLive
  BY <1>0, <1>2, GiftLives DEF CallFree
<1>3. ASSUME NEW kind \in {"view", "const_view"}, NEW class \in Classes, EnterKernel(kind, class)
      PROVE  ObjectsLive
  <2>1. PICK new : new = Object(class, Runtime, Null, kind = "const_view")
    OBVIOUS
  <2>2. objects' = Append(objects, new)
    BY <1>3, <2>1 DEF EnterKernel
  <2>3. new.live /\ new \in ObjectRecords
    BY <2>1, ProgramNumbers DEF Object, ObjectRecords
  <2> QED
    BY <2>2, <2>3, ObjectAdded
<1>4. "KernelContext" \in Classes /\ "KernelInfo" \in Classes
  BY DEF Classes
<1>5. CASE LeaveScope \/ ReturnYoungest
  BY <1>5, ObjectsRemoved DEF LeaveScope, ReturnYoungest
<1>6. CASE \/ \E i \in DOMAIN locals : \/ \E kind \in {"view", "const_view"} : ViewOf(i, kind)
                                       \/ ReleaseOwner(i) \/ Adopt(i)
           \/ \E f \in Fn : CallVector(f)
           \/ VectorStep \/ Over \/ UNCHANGED <<apiVars, vars>>
  <2>1. UNCHANGED objects
    BY <1>6 DEF ViewOf, ReleaseOwner, Adopt, Relabel, CallVector, VectorStep, Over, apiVars
  <2> QED
    BY <2>1, ObjectsKept
<1> QED
  BY <1>1, <1>2, <1>3, <1>4, <1>5, <1>6, CallsAre DEF ApiNext

(* The refinement mapping sends every object of the invariant to a state of its life. *)
MappedObjects ==
  \A o \in 1..MaxObjects :
    /\ o > Len(objects) => ObjectHolder(o) = Owning!Unborn
    /\ o <= Len(objects) /\ objects[o].of # Caller => ObjectHolder(o) = Owning!Unborn
    /\ o <= Len(objects) /\ objects[o].of = Caller /\ ~objects[o].live =>
         ObjectHolder(o) = Owning!Gone
    /\ o <= Len(objects) /\ objects[o].of = Caller /\ objects[o].live =>
         ObjectHolder(o) \in Owning!Held

(* One local keeps what was handed over, none what was lent. *)
LEMMA MappedObject == ProgramInv => MappedObjects
<1> SUFFICES ASSUME ProgramInv, NEW o \in 1..MaxObjects
             PROVE  /\ o > Len(objects) => ObjectHolder(o) = <<"unborn">>
                    /\ o <= Len(objects) /\ objects[o].of # Caller =>
                         ObjectHolder(o) = <<"unborn">>
                    /\ o <= Len(objects) /\ objects[o].of = Caller /\ ~objects[o].live =>
                         ObjectHolder(o) = <<"gone">>
                    /\ o <= Len(objects) /\ objects[o].of = Caller /\ objects[o].live =>
                         ObjectHolder(o) \in Owning!Held
  BY DEF MappedObjects, Owning!Unborn, Owning!Gone
<1>1. PICK n \in Nat : n = Len(objects)
  BY ProgramNumbers DEF ProgramInv, ObjectsOK
<1>2. PICK k \in Nat : k = Len(locals) /\ DOMAIN locals = 1..k /\ k <= MaxLocals
  BY DEF ProgramInv, LocalsOK
<1>3. objects[DefaultAllocator].of # Caller
  BY ProgramNumbers DEF ProgramInv, ObjectsOK
<1>4. CASE o > n \/ o = DefaultAllocator
  <2>1. ObjectHolder(o) = <<"unborn">>
    BY <1>1, <1>4 DEF ObjectHolder
  <2>2. o > n => ~(o <= n)
    BY <1>1
  <2> QED
    BY <1>1, <1>3, <1>4, <2>1, <2>2
<1>5. CASE o <= n /\ o # DefaultAllocator
  <2>1. o \in 1..n /\ ~(o > n) /\ o # Null
    BY <1>1, <1>5, ProgramNumbers
  <2>2. ASSUME NEW i \in Keepers(o)
        PROVE  i \in 1..k /\ KeptBy(o, i) /\ objects[o].of = Caller /\ objects[o].live
    <3>1. /\ i \in 1..k /\ locals[i].obj = o
          /\ locals[i].kind \in {"owner", "string", "raw"} /\ LocalOK(i)
      BY <1>2, <2>1 DEF Keepers, ProgramInv, LocalsOK
    <3>2. Releases(locals[i])
      BY <1>5, <3>1 DEF LocalOK, Releases
    <3> QED
      BY <3>1, <3>2 DEF LocalOK, KeptBy, Grounded
  <2>3. CASE objects[o].of # Caller
    <3>1. Keepers(o) = {}
      BY <2>2, <2>3
    <3> QED
      BY <1>1, <1>5, <2>1, <2>3, <3>1 DEF ObjectHolder
  <2>4. CASE objects[o].of = Caller /\ ~objects[o].live
    <3>1. Keepers(o) = {}
      BY <2>2, <2>4
    <3> QED
      BY <1>1, <1>5, <2>1, <2>4, <3>1 DEF ObjectHolder
  <2>5. CASE objects[o].of = Caller /\ objects[o].live
    <3>1. PICK i \in 1..k : KeptBy(o, i)
      BY <1>1, <1>2, <2>1, <2>5 DEF ProgramInv, KeptOnce
    <3>2. i \in Keepers(o)
      BY <1>2, <3>1 DEF Keepers, KeptBy, Releases
    <3>3. \A j \in Keepers(o) : j = i
      BY <1>2, <2>1, <2>2, <3>1, <3>2 DEF ProgramInv, KeptOnce, KeptBy
    <3>4. Keepers(o) = {i}
      BY <3>2, <3>3
    <3>5. Cardinality(Keepers(o)) = 1
      BY <3>4, FS_Singleton
    <3>6. (CHOOSE x \in Keepers(o) : TRUE) = i
      BY <3>4
    <3>7. ObjectHolder(o) = <<"held", i>>
      BY <1>1, <1>5, <2>1, <2>5, <3>5, <3>6 DEF ObjectHolder
    <3>8. i \in 1..MaxLocals
      BY <1>2, <3>1, ProgramNumbers
    <3>9. <<"held", i>> \in Owning!Held
      BY <3>8 DEF Owning!Held
    <3> QED
      BY <1>1, <2>1, <2>5, <3>7, <3>9
  <2> QED
    BY <1>1, <2>1, <2>3, <2>4, <2>5
<1> QED
  BY <1>1, <1>4, <1>5

(* A step of an object is one of its life. *)
LEMMA ObjectSteps ==
  ASSUME MappedObjects, MappedObjects', ObjectsLive, NEW o \in 1..MaxObjects
  PROVE  /\ ObjectHolder(o)' \in Owning!Held \cup {Owning!Unborn, Owning!Gone}
         /\ Owning!Lawful(ObjectHolder(o), ObjectHolder(o)')
<1>1. PICK n \in Nat : n = Len(objects)
  BY DEF ObjectsLive
<1>2. PICK m \in Nat : m = Len(objects') /\ m >= n
  BY <1>1 DEF ObjectsLive
<1>3. /\ o > n => ObjectHolder(o) = Owning!Unborn
      /\ o <= n /\ objects[o].of # Caller => ObjectHolder(o) = Owning!Unborn
      /\ o <= n /\ objects[o].of = Caller /\ ~objects[o].live => ObjectHolder(o) = Owning!Gone
      /\ o <= n /\ objects[o].of = Caller /\ objects[o].live => ObjectHolder(o) \in Owning!Held
  BY <1>1 DEF MappedObjects
<1>4. /\ o > m => ObjectHolder(o)' = Owning!Unborn
      /\ o <= m /\ objects'[o].of # Caller => ObjectHolder(o)' = Owning!Unborn
      /\ o <= m /\ objects'[o].of = Caller /\ ~objects'[o].live => ObjectHolder(o)' = Owning!Gone
      /\ o <= m /\ objects'[o].of = Caller /\ objects'[o].live => ObjectHolder(o)' \in Owning!Held
  BY <1>2 DEF MappedObjects, Caller, Owning!Unborn, Owning!Gone, Owning!Held
<1>5. /\ o <= n => /\ objects'[o].of = Caller <=> objects[o].of = Caller
                   /\ objects'[o].live => objects[o].live
      /\ o > n /\ o <= m => objects'[o].live
  BY <1>1, <1>2 DEF ObjectsLive
<1>6. (o > n \/ o <= n) /\ (o > m \/ o <= m) /\ (o <= n => o <= m)
  BY <1>2
<1> QED
  BY <1>3, <1>4, <1>5, <1>6 DEF Owning!Lawful

(* However the scopes end of a program that does not call GetOptionalElementType,  *)
(* every local refers to something known, and no counter leaves its bound.         *)
THEOREM ProgramsTyped == ASSUME ~TakesOptionalElement PROVE ApiSpec => []ApiTypeOK
<1>1. ProgramInv /\ Inv => ApiTypeOK
  BY ProgramTyped DEF Inv
<1> QED
  BY <1>1, ProgramInvariant, TransferInvariant, PTL

(* What the runtime lends is never released and never used when it is gone, what *)
(* it hands over is released once, and every local refers to a live object: in    *)
(* whatever order locals are made, moved, returned and destroyed, by a program     *)
(* that does not call GetOptionalElementType, the one row on which the tables do   *)
(* not agree.                                                                      *)
THEOREM LocalsValid == ASSUME ~TakesOptionalElement PROVE ApiSpec => []LocalsStayValid
BY ProgramInvariant, ProgramLive, PTL

(* Nothing lent as const, and nothing reached through a ConstX view, is changed: *)
(* by a program that does not call GetOptionalElementType.                       *)
THEOREM ConstKept == ASSUME ~TakesOptionalElement PROVE ApiSpec => []ConstStaysConst
<1>1. ProgramInv => ConstStaysConst
  BY DEF ProgramInv, ConstStaysConst
<1> QED
  BY <1>1, ProgramInvariant, PTL

(* Whatever the runtime hands over is in one local at a time until it is given   *)
(* back, once; what it lends is in none: in a program that does not call           *)
(* GetOptionalElementType, which makes an owner of what is lent.                   *)
THEOREM ObjectsOwned == ASSUME ~TakesOptionalElement PROVE ApiSpec => HandedOverIsOwned
<1> DEFINE holder == [o \in 1..MaxObjects |-> ObjectHolder(o)]
<1>1. ApiInit => Owning!Init
  <2> SUFFICES ASSUME ApiInit PROVE Owning!Init
    OBVIOUS
  <2>1. Len(objects) = 1
    BY DEF ApiInit
  <2>2. ASSUME NEW o \in 1..MaxObjects PROVE ObjectHolder(o) = <<"unborn">>
    BY <2>1, ProgramNumbers DEF ObjectHolder
  <2> QED
    BY <2>2 DEF Owning!Init, Owning!Unborn
<1>2. ProgramInv /\ ProgramInv' /\ [ApiNext]_<<apiVars, vars>> => [Owning!Next]_holder
  <2> SUFFICES ASSUME ProgramInv, ProgramInv', [ApiNext]_<<apiVars, vars>> PROVE Owning!Next
    OBVIOUS
  <2>1. MappedObjects /\ MappedObjects' /\ ObjectsLive
    BY MappedObject, ObjectLife, PTL
  <2>2. ASSUME NEW o \in 1..MaxObjects
        PROVE  /\ ObjectHolder(o)' \in Owning!Held \cup {Owning!Unborn, Owning!Gone}
               /\ Owning!Lawful(ObjectHolder(o), ObjectHolder(o)')
    BY <2>1, ObjectSteps
  <2> QED
    BY <2>2 DEF Owning!Next
<1> QED
  BY <1>1, <1>2, ProgramInvariant, PTL DEF ApiSpec, HandedOverIsOwned, Owning!Spec
=============================================================================
