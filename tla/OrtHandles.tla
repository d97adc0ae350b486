----------------------------- MODULE OrtHandles -----------------------------
(***************************************************************************)
(* The owning wrapper classes of the C++ API: detail::Base<T> and what its *)
(* derived classes (Env, Session, Value, SessionOptions, ...) do with it.  *)
(*                                                                         *)
(* A slot is a C++ variable of a wrapper type, a pointer an object of the  *)
(* C API.  Every constructor is a sequence of C calls, each wrapped in     *)
(* ThrowOnError; any of them may fail, which returns an OrtStatus (itself  *)
(* an object of the C API), throws, and unwinds the half-built wrapper.    *)
(* operator=(Base&&) releases first and takes the pointer over second, and *)
(* is modelled in these two steps.                                         *)
(***************************************************************************)
CONSTANTS Ptr,            \* objects the C API can hand out, each at most once
          Slot,           \* C++ variables of a wrapper type
          NULL,           \* nullptr
          App,            \* the application, holding a raw pointer
          Thrower,        \* the Status local of ThrowOnError
          AllowSelfMove   \* whether the application writes x = std::move(x)

ASSUME HandleConstants ==
  /\ NULL \notin Ptr \cup Slot
  /\ App \notin Slot /\ Thrower \notin Slot /\ App # Thrower
  /\ AllowSelfMove \in BOOLEAN

VARIABLES heap,    \* the C API's view of each object
          faults,  \* objects passed to a Release function when not live
          alive,   \* slots whose constructor has finished, not yet destroyed
          p,       \* the p_ member of each slot
          raw,     \* pointers the application must release or adopt itself
          call     \* the wrapper function in progress

vars == <<heap, faults, alive, p, raw, call>>

Idle == [pc |-> "idle", obj |-> NULL, src |-> NULL, st |-> NULL]
Frame(pc, obj, src, st) == [pc |-> pc, obj |-> obj, src |-> src, st |-> st]

(* A C call handing out the object q. *)
Allocate(q) ==
  /\ heap[q] = "unborn"
  /\ heap' = [heap EXCEPT ![q] = "live"]
  /\ UNCHANGED faults

(* OrtRelease(q), the overload set generated by ORT_DEFINE_RELEASE. *)
OrtRelease(q) ==
  /\ heap' = IF q = NULL THEN heap ELSE [heap EXCEPT ![q] = "freed"]
  /\ faults' = IF q = NULL \/ heap[q] = "live" THEN faults ELSE faults \cup {q}

Init ==
  /\ heap = [q \in Ptr |-> "unborn"]
  /\ faults = {}
  /\ alive = {}
  /\ p = [s \in Slot |-> NULL]
  /\ raw = {}
  /\ call = Idle

-----------------------------------------------------------------------------
(* Construction. *)

(* Base() and the nullptr constructors of the derived classes. *)
DefaultConstruct(s) ==
  /\ call = Idle /\ s \notin alive
  /\ alive' = alive \cup {s}
  /\ UNCHANGED <<heap, faults, p, raw, call>>

(* explicit Base(contained_type* p): takes over a raw pointer. *)
Adopt(s, q) ==
  /\ call = Idle /\ s \notin alive /\ q \in raw
  /\ alive' = alive \cup {s}
  /\ p' = [p EXCEPT ![s] = q]
  /\ raw' = raw \ {q}
  /\ UNCHANGED <<heap, faults, call>>

(* A constructor's first C call succeeds and stores the object in p_.  Most *)
(* constructors end here; those of Env go on to SetLanguageProjection.      *)
Create(s, q, more) ==
  /\ call = Idle /\ s \notin alive
  /\ Allocate(q)
  /\ p' = [p EXCEPT ![s] = q]
  /\ IF more THEN /\ call' = Frame("configure", s, NULL, NULL)
                  /\ UNCHANGED alive
             ELSE /\ alive' = alive \cup {s}
                  /\ UNCHANGED call
  /\ UNCHANGED raw

(* The first C call fails: q is the OrtStatus it returns, p_ stays null. *)
CreateFails(s, q) ==
  /\ call = Idle /\ s \notin alive
  /\ Allocate(q)
  /\ call' = Frame("throw", s, NULL, q)
  /\ UNCHANGED <<alive, p, raw>>

(* Env: SetLanguageProjection succeeds and the constructor returns. *)
Configure ==
  /\ call.pc = "configure"
  /\ alive' = alive \cup {call.obj}
  /\ call' = Idle
  /\ UNCHANGED <<heap, faults, p, raw>>

(* Env: SetLanguageProjection fails while p_ already owns the OrtEnv. *)
ConfigureFails(q) ==
  /\ call.pc = "configure"
  /\ Allocate(q)
  /\ call' = [call EXCEPT !.pc = "throw", !.st = q]
  /\ UNCHANGED <<alive, p, raw>>

(* Slip: a failing member function unwinds its own object as well. *)
MemberFailsUnwindsObject(s, q) ==
  /\ call = Idle /\ s \in alive /\ p[s] # NULL
  /\ Allocate(q)
  /\ call' = Frame("throw", s, NULL, q)
  /\ UNCHANGED <<alive, p, raw>>

(* A C call made by a member function of a complete object fails. *)
MemberFails(s, q) ==
  /\ call = Idle /\ s \in alive /\ p[s] # NULL
  /\ Allocate(q)
  /\ call' = Frame("throw", NULL, NULL, q)
  /\ UNCHANGED <<alive, p, raw>>

-----------------------------------------------------------------------------
(* ThrowOnError: the local Status adopts the OrtStatus, ThrowStatus copies  *)
(* message and code and throws, and unwinding destroys the Status first ... *)
UnwindStatus ==
  /\ call.pc = "throw"
  /\ OrtRelease(call.st)
  /\ call' = [call EXCEPT !.pc = "unwind", !.st = NULL]
  /\ UNCHANGED <<alive, p, raw>>

(* ... and then the Base subobject of the wrapper under construction. *)
UnwindObject ==
  /\ call.pc = "unwind"
  /\ IF call.obj = NULL
       THEN UNCHANGED <<heap, faults, p>>
       ELSE /\ OrtRelease(p[call.obj])
            /\ p' = [p EXCEPT ![call.obj] = NULL]
  /\ call' = Idle
  /\ UNCHANGED <<alive, raw>>

-----------------------------------------------------------------------------
(* Transfer and destruction. *)

(* Slip: the move constructor does not null its source. *)
MoveConstructKeepsSource(d, s) ==
  /\ call = Idle /\ d \notin alive /\ s \in alive
  /\ alive' = alive \cup {d}
  /\ p' = [p EXCEPT ![d] = p[s]]
  /\ UNCHANGED <<heap, faults, raw, call>>

(* Base(Base&& v) *)
MoveConstruct(d, s) ==
  /\ call = Idle /\ d \notin alive /\ s \in alive
  /\ alive' = alive \cup {d}
  /\ p' = [p EXCEPT ![d] = p[s], ![s] = NULL]
  /\ UNCHANGED <<heap, faults, raw, call>>

(* Slip: operator= overwrites p_ without releasing what it owned. *)
MoveAssignNoRelease(d, s) ==
  /\ call = Idle /\ d \in alive /\ s \in alive
  /\ d # s \/ AllowSelfMove
  /\ call' = Frame("take", d, s, NULL)
  /\ UNCHANGED <<heap, faults, alive, p, raw>>

(* operator=(Base&& v), first statement: OrtRelease(p_). *)
MoveAssign(d, s) ==
  /\ call = Idle /\ d \in alive /\ s \in alive
  /\ d # s \/ AllowSelfMove
  /\ OrtRelease(p[d])
  /\ call' = Frame("take", d, s, NULL)
  /\ UNCHANGED <<alive, p, raw>>

(* operator=(Base&& v), second statement: p_ = v.release(). *)
MoveAssignTake ==
  /\ call.pc = "take"
  /\ p' = [[p EXCEPT ![call.src] = NULL] EXCEPT ![call.obj] = p[call.src]]
  /\ call' = Idle
  /\ UNCHANGED <<heap, faults, alive, raw>>

(* Slip: release() of an empty wrapper hands nullptr out as an object. *)
ReleaseEmpty(s) ==
  /\ call = Idle /\ s \in alive
  /\ raw' = raw \cup {p[s]}
  /\ p' = [p EXCEPT ![s] = NULL]
  /\ UNCHANGED <<heap, faults, alive, call>>

(* release(): ownership goes to the application. *)
Release(s) ==
  /\ call = Idle /\ s \in alive /\ p[s] # NULL
  /\ raw' = raw \cup {p[s]}
  /\ p' = [p EXCEPT ![s] = NULL]
  /\ UNCHANGED <<heap, faults, alive, call>>

(* ~Base(); a destroyed variable is recorded as holding nothing. *)
Destroy(s) ==
  /\ call = Idle /\ s \in alive
  /\ OrtRelease(p[s])
  /\ p' = [p EXCEPT ![s] = NULL]
  /\ alive' = alive \ {s}
  /\ UNCHANGED <<raw, call>>

(* Factories (MemoryInfo::CreateCpu, Clone, GetTypeInfo, ...) and users of the C *)
(* API: a successful call leaves the object in a plain local pointer.            *)
CCreate(q) ==
  /\ call = Idle
  /\ Allocate(q)
  /\ raw' = raw \cup {q}
  /\ UNCHANGED <<alive, p, call>>

(* The application gives a raw pointer back through the C API. *)
CRelease(q) ==
  /\ call = Idle /\ q \in raw
  /\ OrtRelease(q)
  /\ raw' = raw \ {q}
  /\ UNCHANGED <<alive, p, call>>

-----------------------------------------------------------------------------
(* Steps the C++ runtime takes by itself once a wrapper function has begun. *)
Resume ==
  \/ Configure
  \/ UnwindStatus
  \/ UnwindObject
  \/ MoveAssignTake

SlotStep(s) ==
  \/ DefaultConstruct(s)
  \/ Release(s)
  \/ Destroy(s)
  \/ \E d \in Slot : MoveConstruct(d, s) \/ MoveAssign(d, s)
  \/ \E q \in Ptr : \/ Adopt(s, q)
                    \/ Create(s, q, TRUE) \/ Create(s, q, FALSE)
                    \/ CreateFails(s, q) \/ MemberFails(s, q)

Next ==
  \/ \E s \in Slot : SlotStep(s)
  \/ \E q \in Ptr : CCreate(q) \/ CRelease(q) \/ ConfigureFails(q)
  \/ Resume

Spec == Init /\ [][Next]_vars

-----------------------------------------------------------------------------
TypeOK ==
  /\ heap \in [Ptr -> {"unborn", "live", "freed"}]
  /\ faults \subseteq Ptr
  /\ alive \subseteq Slot
  /\ p \in [Slot -> Ptr \cup {NULL}]
  /\ raw \subseteq Ptr
  /\ call \in [pc : {"idle", "configure", "throw", "unwind", "take"},
               obj : Slot \cup {NULL}, src : Slot \cup {NULL},
               st : Ptr \cup {NULL}]

(* Who must release q.  Between the two statements of operator= the target  *)
(* still stores the pointer it has given back, and no longer owns it.       *)
Owns(h, q) ==
  \/ h \in Slot /\ p[h] = q /\ ~(call.pc = "take" /\ call.obj = h)
  \/ h = App /\ q \in raw
  \/ h = Thrower /\ call.st = q

Holder == Slot \cup {App, Thrower}

(* No object of the C API is released twice, or used as an argument of a    *)
(* Release function before it exists, whatever the order of moves, releases *)
(* and failed constructions.                                                *)
NoDoubleRelease == faults = {}

(* At any time an object is the responsibility of at most one holder. *)
UniqueHolder ==
  \A q \in Ptr : \A h, k \in Holder : Owns(h, q) /\ Owns(k, q) => h = k

(* A holder never holds an object that is gone: no wrapper dangles. *)
HeldIsLive == \A q \in Ptr : \A h \in Holder : Owns(h, q) => heap[q] = "live"

(* No leak: a live object always has a holder, also while an exception is   *)
(* unwinding a half-built wrapper.                                          *)
LiveIsHeld == \A q \in Ptr : heap[q] = "live" => \E h \in Holder : Owns(h, q)

(* The four facts together, the safety of the wrappers. *)
Ownership == NoDoubleRelease /\ UniqueHolder /\ HeldIsLive /\ LiveIsHeld

(* A C call that fails leaves every complete wrapper as it was: unwinding   *)
(* releases the status and the half-built object and touches nothing else.  *)
FailureIsContained ==
  [][call.pc \in {"throw", "unwind"} =>
       /\ alive' = alive
       /\ \A s \in alive : /\ p'[s] = p[s]
                           /\ p[s] # NULL => heap'[p[s]] = "live"]_vars

(* Refinement mapping: an object with one holder is held by it; an object   *)
(* that was misused, shared or lost maps to no state of the abstract life.  *)
AbstractHolder(q) ==
  IF q \in faults THEN <<"misused">>
  ELSE IF heap[q] = "unborn" THEN <<"unborn">>
  ELSE IF heap[q] = "freed" /\ \A h \in Holder : ~Owns(h, q) THEN <<"gone">>
  ELSE IF heap[q] = "live" /\ \E h \in Holder : \A k \in Holder : Owns(k, q) <=> k = h
       THEN <<"held", CHOOSE h \in Holder : Owns(h, q)>>
  ELSE <<"torn">>

Abstract == INSTANCE ExclusiveOwnership
  WITH Res <- Ptr, holder <- [q \in Ptr |-> AbstractHolder(q)]

(* The wrappers implement the abstract life of a resource. *)
ImplementsOwnership == Abstract!Spec
=============================================================================
