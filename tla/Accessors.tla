----------------------------- MODULE Accessors -----------------------------
(***************************************************************************)
(* A program that uses the wrapper classes: what CxxDeclarations and       *)
(* CxxBodies say of every method meets here what CApi says of the          *)
(* functions underneath.  The runtime hands objects over or lends parts of *)
(* them; the program holds them in local variables, which go in the        *)
(* opposite order of their declaration, when a scope ends as well as when  *)
(* an exception unwinds it.                                                *)
(*                                                                         *)
(* Methods that fill a vector are the functions of ResultTransfer, which   *)
(* run here with the program's locals below them: an exception they throw  *)
(* goes on to unwind the locals.                                           *)
(***************************************************************************)
EXTENDS CxxBodies, ResultTransfer

CONSTANTS MaxObjects,           \* bound on the objects and strings ever handed out or lent
          MaxLocals,            \* bound on the local variables
          MaxBelow,             \* bound on them when a method that fills a vector is called
          ClassesInUse,         \* the classes the program has objects of
          TakesOptionalElement  \* whether it calls GetOptionalElementType

ASSUME AccessorConstants ==
  MaxObjects \in Nat \ {0} /\ MaxLocals \in Nat /\ MaxBelow \in Nat
  /\ TakesOptionalElement \in BOOLEAN

Null == 0               \* the pointer
Runtime == 0            \* as the one an object belongs to
Caller == MaxObjects + 1
DefaultAllocator == 1   \* the runtime's own, "returned value should NOT be freed"

VARIABLES objects,    \* in the order they came up: their class; of, whom they belong to: the
                      \* caller, the runtime or the object they are part of; needs, what
                      \* must outlive them; whether they are lent as const; whether live
          locals,     \* the program's locals, oldest first: what they are and refer to
          wrongs      \* of "released", "used", "altered": what was done that must not be

apiVars == <<objects, locals, wrongs>>

Object(class, of, needs, const) ==
  [class |-> class, of |-> of, needs |-> needs, const |-> const, live |-> TRUE]
Local(kind, class, obj) == [kind |-> kind, class |-> class, obj |-> obj]

ApiInit ==
  /\ Init
  /\ objects = <<Object("Allocator", Runtime, Null, FALSE)>>
  /\ locals = <<>>
  /\ wrongs = {}

-----------------------------------------------------------------------------
(* What there is to call.  Of a method only its effect matters here: the class *)
(* it is called on, the part it is in, what the C interface gives, what it      *)
(* returns, and whether the object changes or can be changed by the result.     *)
C == Calls

Gifts(m) == {C[Bodies[m][k]].gives : k \in DOMAIN Bodies[m]} \ {Data}

Alters(m) ==
  \/ Declared[m].returns = Writable
  \/ \E k \in DOMAIN Bodies[m] :
       C[Bodies[m][k]].access = "changes" /\ C[Bodies[m][k]].gives # Pointer

MethodEffect(m) ==
  [on |-> C[Bodies[m][1]].on,
   part |-> Declared[m].part,
   gives |-> IF Gifts(m) = {} THEN Data ELSE CHOOSE g \in Gifts(m) : TRUE,
   returns |-> Declared[m].returns,
   alters |-> Alters(m)]

Methods == {MethodEffect(m) : m \in {d \in DOMAIN Declared : Declared[d].returns # Vector}}

(* A program calls the C interface itself where no method does, and keeps what *)
(* it is given in the view of its kind, or behind a guard of its own.          *)
Keeps(g) ==
  CASE g.how = "handed" -> RawPtr(g.class)
    [] g.how = "string" -> Str
    [] OTHER -> Plain

FunctionEffect(f) ==
  [on |-> C[f].on,
   part |-> IF C[f].access = "changes" THEN "mutable" ELSE "const",
   gives |-> C[f].gives,
   returns |-> Keeps(C[f].gives),
   alters |-> C[f].access = "changes"]

Wrapped == UNION {{Bodies[m][k] : k \in DOMAIN Bodies[m]} : m \in DOMAIN Bodies}

Functions == {FunctionEffect(f) : f \in {f \in DOMAIN C \ Wrapped : C[f].gives # Results}}

Effects == Methods \cup Functions

(* What this program calls.  GetOptionalElementType is the one method called on *)
(* an OrtOptionalTypeInfo.                                                      *)
Callable ==
  {e \in Effects : /\ {e.on, e.gives.class} \subseteq ClassesInUse \cup {"none", "char"}
                   /\ e.on = "OptionalTypeInfo" => TakesOptionalElement}
CallableOn == [class \in {e.on : e \in Callable} |-> {e \in Callable : e.on = class}]

(* What gives its object back when it goes: a class that OrtRelease is defined  *)
(* for, a string with its deleter, a pointer behind a guard of the program's own. *)
Releases(l) == l.kind \in {"string", "raw"} \/ (l.kind = "owner" /\ l.class \in Releasable)

HandsOver(g) == g.how \in {"handed", "handed_in", "string"}

(* The runtime's own allocator comes from a function without an object. *)
IsDefault(e) == e.on = "none" /\ e.gives.how = "lent"

(* What a method is declared to return is right for what its C functions give:  *)
(* what is handed over, and nothing else, comes back in something that gives it *)
(* back; what is lent as const comes back as const, if at all; and a method that *)
(* changes its object is not among those a const view has.                      *)
Agrees(e) ==
  /\ HandsOver(e.gives) => Releases(e.returns)
  /\ Releases(e.returns) => HandsOver(e.gives) \/ e.gives.class = "none"
  /\ e.returns.kind = "owner" /\ ~Releases(e.returns) => IsDefault(e) \/ e.gives.class = "none"
  /\ e.gives.how = "const_lent" => e.returns.kind \notin {"owner", "raw", "string", "view"}
  /\ e.alters => e.part # "const"

(* The three tables agree, row by row, but for one: GetOptionalElementType makes *)
(* an owner of what the OrtOptionalTypeInfo keeps for itself.                    *)
ASSUME TablesAgree ==
  /\ \A e \in Effects : Agrees(e) <=> e.on # "OptionalTypeInfo"
  /\ \E e \in Effects : e.on = "none" /\ e.gives.class = "none"
  /\ Adopting \subseteq Releasable

(* Slip: a ConstX class has the methods of X. *)
AcceptsConst(part) ==
  {"owner"} \cup (IF part = "owner" THEN {} ELSE {"raw", "view", "const_view"})

(* The kinds of locals a function of the part accepts as its object. *)
Accepts(part) ==
  {"owner"} \cup (IF part = "owner" THEN {} ELSE {"raw", "view"})
            \cup (IF part = "const" THEN {"const_view"} ELSE {})

-----------------------------------------------------------------------------
Push(l) == Len(locals) < MaxLocals /\ locals' = Append(locals, l)
Kept(returns) == returns.kind \in {"owner", "view", "const_view", "string", "raw"}

(* What o is part of, and goes with. *)
Whole(o) == IF objects[o].of \in DOMAIN objects THEN objects[o].of ELSE o

(* The call gives an object: a new one, or the runtime's allocator. *)
Give(e, obj, allocator) ==
  LET g == e.gives
      new == Object(g.class,
                    IF HandsOver(g) THEN Caller ELSE IF obj = Null THEN Runtime ELSE Whole(obj),
                    CASE g.how = "string" -> allocator
                      [] g.how = "handed_in" -> obj
                      [] OTHER -> Null,
                    g.how = "const_lent")
      given == IF IsDefault(e) THEN DefaultAllocator ELSE Len(objects) + 1
  IN /\ IF IsDefault(e) THEN UNCHANGED objects
        ELSE Len(objects) < MaxObjects /\ objects' = Append(objects, new)
     /\ IF Kept(e.returns) THEN Push(Local(e.returns.kind, e.returns.class, given))
        ELSE UNCHANGED locals

(* The call gives no object: a number, a pointer into one, or nullptr. *)
GiveNone(e) ==
  /\ IF Kept(e.returns) THEN Push(Local(e.returns.kind, e.returns.class, Null))
     ELSE UNCHANGED locals
  /\ UNCHANGED objects

Gift(e, obj, allocator) ==
  \/ e.gives.class # "none" /\ Give(e, obj, allocator)
  \/ (e.gives.class = "none" \/ e.gives.null) /\ GiveNone(e)

(* No vector is in the making. *)
Running == pc = "idle"

(* The allocators a string can be asked from. *)
Allocators == {locals[i].obj : i \in {j \in DOMAIN locals :
                 locals[j].class = "Allocator" /\ locals[j].obj # Null
                   /\ locals[j].kind \in Accepts("mutable")}}

(* A method, or a function of the C interface, is called on the local i. *)
CallOn(i, e) ==
  LET l == locals[i]
  IN /\ Running
     /\ l.kind \in Accepts(e.part) /\ l.obj # Null
     /\ IF e.gives.how = "string" THEN \E a \in Allocators : Gift(e, l.obj, a)
        ELSE Gift(e, l.obj, Null)
     /\ wrongs' = wrongs
          \cup (IF objects[l.obj].live THEN {} ELSE {"used"})
          \cup (IF e.alters /\ (l.kind = "const_view" \/ objects[l.obj].const)
                THEN {"altered"} ELSE {})
     /\ UNCHANGED vars

(* A constructor, or a function of the C interface, that needs no object. *)
CallFree(e) ==
  /\ Running
  /\ Gift(e, Null, Null)
  /\ UNCHANGED <<wrongs, vars>>

(* The runtime calls a custom operator's kernel, which wraps what it is passed: *)
(* KernelContext{context}, ConstKernelInfo{info}.                               *)
EnterKernel(kind, class) ==
  /\ Running
  /\ class \in ClassesInUse /\ Len(objects) < MaxObjects
  /\ objects' = Append(objects, Object(class, Runtime, Null, kind = "const_view"))
  /\ Push(Local(kind, class, Len(objects) + 1))
  /\ UNCHANGED <<wrongs, vars>>

(* GetConst() and GetUnowned() of an owner, and copies of views. *)
ViewOf(i, kind) ==
  LET l == locals[i]
  IN /\ Running
     /\ \/ l.kind = "owner" /\ l.class \in (IF kind = "view" THEN HasUnowned ELSE HasConst)
        \/ l.kind = kind
     /\ Push(Local(kind, l.class, l.obj))
     /\ UNCHANGED <<objects, wrongs, vars>>

(* Slip: the source keeps its pointer. *)
RelabelCopying(i, from, to) ==
  /\ Running
  /\ locals[i].kind = from /\ locals[i].class \in Adopting
  /\ Push([locals[i] EXCEPT !.kind = to])
  /\ UNCHANGED <<objects, wrongs, vars>>

(* release(), and the constructors that take over a pointer. *)
Relabel(i, from, to) ==
  /\ Running
  /\ locals[i].kind = from /\ locals[i].class \in Adopting
  /\ locals' = [locals EXCEPT ![i].kind = to]
  /\ UNCHANGED <<objects, wrongs, vars>>

ReleaseOwner(i) == Relabel(i, "owner", "raw")
Adopt(i) == Relabel(i, "raw", "owner")

-----------------------------------------------------------------------------
(* Of an object that is gone only who it belonged to is remembered. *)
Gone(object) ==
  [class |-> "gone", of |-> IF object.of = Caller THEN Caller ELSE Runtime,
   needs |-> Null, const |-> FALSE, live |-> FALSE]

(* Give o back, and with it whatever is part of it. *)
GiveBack(o) ==
  /\ objects' = [x \in DOMAIN objects |->
                   IF Whole(x) = o THEN Gone(objects[x]) ELSE objects[x]]
  /\ wrongs' = IF /\ objects[o].of = Caller /\ objects[o].live
                  /\ objects[o].needs # Null => objects[objects[o].needs].live
               THEN wrongs ELSE wrongs \cup {"released"}

(* Slip: the deleter of a string forgets to free it. *)
DestroyForgetful(l) ==
  IF l.obj # Null /\ Releases(l) /\ l.kind # "string" THEN GiveBack(l.obj)
  ELSE UNCHANGED <<objects, wrongs>>

(* The destructor of a local: Base<T> calls OrtRelease, AllocatedFree the        *)
(* allocator, a guard the Release function; Base<Unowned<T>> does nothing.       *)
Destroy(l) ==
  IF l.obj # Null /\ Releases(l) THEN GiveBack(l.obj) ELSE UNCHANGED <<objects, wrongs>>

(* The youngest local goes: a scope ends, or an exception, which any call may  *)
(* throw, unwinds it.                                                           *)
LeaveScope ==
  /\ locals # <<>> /\ pc \in {"idle", "threw", "dropped"}
  /\ Destroy(locals[Len(locals)])
  /\ locals' = SubSeq(locals, 1, Len(locals) - 1)
  /\ UNCHANGED vars

(* A function returns its youngest local and the one below goes.  The program     *)
(* does not return a view of what goes, nor a string from an allocator that does. *)
ReturnYoungest ==
  LET k == Len(locals)
      top == locals[k]
      goes == locals[k - 1]
      depends == /\ top.obj # Null /\ goes.obj # Null /\ goes.kind \in {"owner", "raw", "string"}
                 /\ \/ Whole(top.obj) = goes.obj
                    \/ objects[top.obj].needs # Null /\ Whole(objects[top.obj].needs) = goes.obj
  IN /\ Running /\ k >= 2 /\ ~depends
     /\ Destroy(goes)
     /\ locals' = SubSeq(locals, 1, k - 2) \o <<top>>
     /\ UNCHANGED vars

-----------------------------------------------------------------------------
(* The methods that return a vector. *)
Filler(f) ==
  CASE f = "values" -> <<"IoBinding", "GetOutputValues">>
    [] f = "names" -> <<"IoBinding", "GetOutputNames">>
    [] f = "keys" -> <<"ModelMetadata", "GetCustomMetadataMapKeysAllocated">>
    [] f = "run" -> <<"Session", "Run">>

(* One is called on the youngest local, and is the last call of a behaviour. *)
FillsFrom(f) ==
  IF f = "providers" THEN TRUE
  ELSE /\ locals # <<>>
       /\ LET l == locals[Len(locals)]
          IN /\ l.class = MethodEffect(Filler(f)).on
             /\ l.kind \in Accepts(Declared[Filler(f)].part)
             /\ l.obj # Null

CallVector(f) ==
  /\ Running /\ Len(locals) <= MaxBelow /\ FillsFrom(f)
  /\ Begin(f)
  /\ UNCHANGED apiVars

VectorStep ==
  /\ Step
  /\ UNCHANGED apiVars

(* Nothing is left to do. *)
Over == pc \in {"threw", "dropped"} /\ locals = <<>> /\ UNCHANGED <<apiVars, vars>>

ApiNext ==
  \/ \E i \in DOMAIN locals :
       \/ /\ locals[i].class \in DOMAIN CallableOn
          /\ \E e \in CallableOn[locals[i].class] : CallOn(i, e)
       \/ \E kind \in {"view", "const_view"} : ViewOf(i, kind)
       \/ ReleaseOwner(i) \/ Adopt(i)
  \/ \E e \in CallableOn["none"] : CallFree(e)
  \/ EnterKernel("view", "KernelContext") \/ EnterKernel("const_view", "KernelInfo")
  \/ LeaveScope \/ ReturnYoungest
  \/ \E f \in Fn : CallVector(f)
  \/ VectorStep \/ Over

ApiSpec == ApiInit /\ [][ApiNext]_<<apiVars, vars>>

-----------------------------------------------------------------------------
ApiTypeOK ==
  /\ TypeOK
  /\ Len(objects) \in 1..MaxObjects
  /\ \A o \in DOMAIN objects : /\ objects[o].of \in 0..(o - 1) \cup {Caller}
                               /\ objects[o].needs \in 0..(o - 1)
  /\ Len(locals) <= MaxLocals
  /\ \A i \in DOMAIN locals : /\ locals[i].obj \in 0..Len(objects)
                              /\ Kept(locals[i])
  /\ wrongs \subseteq {"released", "used", "altered"}

(* What the runtime lends is never released and never used when it is gone, what  *)
(* it hands over is released once, a string while its allocator is there: however *)
(* scopes end.  Every local refers to a live object all the while.                *)
LocalsStayValid ==
  /\ wrongs \cap {"released", "used"} = {}
  /\ \A i \in DOMAIN locals : locals[i].obj # Null => objects[locals[i].obj].live

(* Nothing the runtime lends as const, and nothing reached through a ConstX view, *)
(* is changed or can be changed by the result.                                    *)
ConstStaysConst == "altered" \notin wrongs

(* Refinement mapping: the locals that will give an object back. *)
Keepers(o) == {i \in DOMAIN locals : locals[i].obj = o /\ locals[i].kind \in {"owner", "string", "raw"}}

ObjectHolder(o) ==
  IF o > Len(objects) \/ o = DefaultAllocator THEN <<"unborn">>
  ELSE IF objects[o].of # Caller
       THEN (IF Keepers(o) = {} THEN <<"unborn">> ELSE <<"torn">>)
  ELSE IF ~objects[o].live THEN (IF Keepers(o) = {} THEN <<"gone">> ELSE <<"torn">>)
  ELSE IF Cardinality(Keepers(o)) = 1 THEN <<"held", CHOOSE i \in Keepers(o) : TRUE>>
  ELSE <<"torn">>

Owning == INSTANCE ExclusiveOwnership
  WITH Res <- 1..MaxObjects, Holder <- 1..MaxLocals,
       holder <- [o \in 1..MaxObjects |-> ObjectHolder(o)]

(* Whatever the runtime hands over is in one local at a time until it is given    *)
(* back, once; what it lends is in none.                                          *)
HandedOverIsOwned == Owning!Spec
=============================================================================
