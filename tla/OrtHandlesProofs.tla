-------------------------- MODULE OrtHandlesProofs --------------------------
(***************************************************************************)
(* Type correctness and ownership of the C++ wrappers, for every number of *)
(* objects and of C++ variables.                                           *)
(***************************************************************************)
EXTENDS OrtHandles, TLAPS

(* What TypeOK needs to be inductive: a function that will write to a wrapper *)
(* after its first step has wrappers to write to.                             *)
OperandsExist ==
  /\ call.pc = "configure" => call.obj \in Slot
  /\ call.pc = "take" => call.obj \in Slot /\ call.src \in Slot

TypeInv == TypeOK /\ OperandsExist

(* TypeOK holds in every reachable state, with self-moves or without. *)
THEOREM TypeCorrect == Spec => []TypeOK
<1>1. Init => TypeInv
  BY DEF Init, TypeInv, OperandsExist, TypeOK, Idle
<1>2. TypeInv /\ [Next]_vars => TypeInv'
  <2> SUFFICES ASSUME TypeInv, [Next]_vars PROVE TypeInv'
    OBVIOUS
  <2> USE DEF TypeInv, OperandsExist, TypeOK, Idle, Frame, Allocate, OrtRelease
  <2>1. ASSUME NEW s \in Slot, DefaultConstruct(s) PROVE TypeInv'
    BY <2>1 DEF DefaultConstruct
  <2>2. ASSUME NEW s \in Slot, Release(s) PROVE TypeInv'
    BY <2>2 DEF Release
  <2>3. ASSUME NEW s \in Slot, Destroy(s) PROVE TypeInv'
    BY <2>3 DEF Destroy
  <2>4. ASSUME NEW s \in Slot, NEW d \in Slot, MoveConstruct(d, s) PROVE TypeInv'
    BY <2>4 DEF MoveConstruct
  <2>5. ASSUME NEW s \in Slot, NEW d \in Slot, MoveAssign(d, s) PROVE TypeInv'
    BY <2>5 DEF MoveAssign
  <2>6. ASSUME NEW s \in Slot, NEW q \in Ptr, Adopt(s, q) PROVE TypeInv'
    BY <2>6 DEF Adopt
  <2>7. ASSUME NEW s \in Slot, NEW q \in Ptr, NEW more \in BOOLEAN, Create(s, q, more)
        PROVE TypeInv'
    BY <2>7 DEF Create
  <2>8. ASSUME NEW s \in Slot, NEW q \in Ptr, CreateFails(s, q) PROVE TypeInv'
    BY <2>8 DEF CreateFails
  <2>9. ASSUME NEW s \in Slot, NEW q \in Ptr, MemberFails(s, q) PROVE TypeInv'
    BY <2>9 DEF MemberFails
  <2>10. ASSUME NEW q \in Ptr, CCreate(q) PROVE TypeInv'
    BY <2>10 DEF CCreate
  <2>11. ASSUME NEW q \in Ptr, CRelease(q) PROVE TypeInv'
    BY <2>11 DEF CRelease
  <2>12. ASSUME NEW q \in Ptr, ConfigureFails(q) PROVE TypeInv'
    BY <2>12 DEF ConfigureFails
  <2>13. ASSUME Configure PROVE TypeInv'
    BY <2>13 DEF Configure
  <2>14. ASSUME UnwindStatus PROVE TypeInv'
    BY <2>14 DEF UnwindStatus
  <2>15. ASSUME UnwindObject PROVE TypeInv'
    BY <2>15 DEF UnwindObject
  <2>16. ASSUME MoveAssignTake PROVE TypeInv'
    BY <2>16 DEF MoveAssignTake
  <2>17. CASE UNCHANGED vars
    BY <2>17 DEF vars
  <2> QED
    BY <2>1, <2>2, <2>3, <2>4, <2>5, <2>6, <2>7, <2>8, <2>9, <2>10, <2>11, <2>12,
       <2>13, <2>14, <2>15, <2>16, <2>17 DEF Next, SlotStep, Resume
<1>3. TypeInv => TypeOK
  BY DEF TypeInv
<1> QED
  BY <1>1, <1>2, <1>3, PTL DEF Spec

-----------------------------------------------------------------------------
(* The inductive invariant.  Ownership is not inductive as it stands: that  *)
(* Destroy or operator= releases a live object needs to know which wrappers *)
(* hold one, and that depends on the function in progress.                  *)

(* Slots whose wrapper is under construction by the function in progress. *)
UnderConstruction(s) == call.pc \in {"configure", "throw", "unwind"} /\ call.obj = s

FrameOK ==
  /\ call.pc = "idle" => call = Idle
  /\ call.pc = "take" =>
       call.obj \in alive /\ call.src \in alive /\ call.obj # call.src
  /\ call.pc \in {"configure", "throw", "unwind"} => call.obj \notin alive
  /\ call.pc = "throw" => call.st # NULL
  /\ call.pc # "throw" => call.st = NULL

(* A variable without a wrapper in it, finished or half-built, holds nothing. *)
OnlyWrappersHold ==
  \A s \in Slot : p[s] # NULL => s \in alive \/ UnderConstruction(s)

IInv == TypeInv /\ FrameOK /\ OnlyWrappersHold /\ Ownership

(* What a step does to one object.  *)
Untouched(q) == /\ heap'[q] = heap[q]
                /\ \A h \in Holder : Owns(h, q)' <=> Owns(h, q)
HeldOnlyBy(g, q) == heap[q] = "live" /\ \A h \in Holder : Owns(h, q) <=> h = g
GivenBack(q) == heap[q] = "freed" /\ \A h \in Holder : ~Owns(h, q)

(* A step that touches no object keeps Ownership. *)
LEMMA NothingTouched ==
  ASSUME Ownership, faults' = faults, \A q \in Ptr : Untouched(q)
  PROVE  Ownership'
  BY DEF Ownership, NoDoubleRelease, UniqueHolder, HeldIsLive, LiveIsHeld, Untouched

(* So does a step that touches one object and leaves it with one holder, or *)
(* released and without any.                                                *)
LEMMA OneTouched ==
  ASSUME Ownership, faults' = faults, NEW r \in Ptr,
         \A q \in Ptr \ {r} : Untouched(q),
         GivenBack(r)' \/ \E g \in Holder : HeldOnlyBy(g, r)'
  PROVE  Ownership'
<1>1. UniqueHolder'
  BY DEF Ownership, UniqueHolder, Untouched, GivenBack, HeldOnlyBy
<1>2. HeldIsLive'
  BY DEF Ownership, HeldIsLive, Untouched, GivenBack, HeldOnlyBy
<1>3. LiveIsHeld'
  BY DEF Ownership, LiveIsHeld, Untouched, GivenBack, HeldOnlyBy
<1> QED
  BY <1>1, <1>2, <1>3 DEF Ownership, NoDoubleRelease

(* What IInv says of a complete wrapper while no function is in progress, or *)
(* of the wrapper a function is working on.                                  *)
LEMMA WrapperOwns ==
  ASSUME IInv, NEW s \in Slot, p[s] # NULL,
         ~(call.pc = "take" /\ call.obj = s)
  PROVE  \E r \in Ptr : /\ r = p[s] /\ heap[r] = "live"
                        /\ \A h \in Holder : Owns(h, r) <=> h = s
<1>1. p[s] \in Ptr
  BY DEF IInv, TypeInv, TypeOK
<1>2. Owns(s, p[s]) /\ s \in Holder
  BY DEF Owns, Holder
<1> QED
  BY <1>1, <1>2 DEF IInv, Ownership, UniqueHolder, HeldIsLive

(* An object the C API has not handed out yet is nobody's. *)
LEMMA UnbornIsFree ==
  ASSUME IInv, NEW q \in Ptr, heap[q] = "unborn"
  PROVE  \A h \in Holder : ~Owns(h, q)
  BY DEF IInv, Ownership, HeldIsLive

(* Without self-moves every step keeps the inductive invariant. *)
LEMMA OwnershipInductive ==
  ASSUME ~AllowSelfMove, IInv, [Next]_vars PROVE IInv'
<1>1. ASSUME NEW s \in Slot, DefaultConstruct(s) PROVE IInv'
  <2>1. TypeInv' /\ FrameOK' /\ OnlyWrappersHold'
    BY <1>1, ~AllowSelfMove, HandleConstants DEF DefaultConstruct, IInv, TypeInv, OperandsExist, TypeOK, FrameOK, OnlyWrappersHold,
         UnderConstruction, Idle, Frame, Allocate, OrtRelease
  <2>2. faults' = faults /\ \A q \in Ptr : Untouched(q)
    BY <1>1, HandleConstants DEF DefaultConstruct, IInv, TypeInv, TypeOK, FrameOK, OperandsExist, OnlyWrappersHold,
         UnderConstruction, Untouched, GivenBack, HeldOnlyBy, Owns, Holder, Idle, Frame, Allocate, OrtRelease
  <2> QED
    BY <2>1, <2>2, NothingTouched DEF IInv
<1>2. ASSUME NEW s \in Slot, Release(s) PROVE IInv'
  <2>1. TypeInv' /\ FrameOK' /\ OnlyWrappersHold'
    BY <1>2, ~AllowSelfMove, HandleConstants DEF Release, IInv, TypeInv, OperandsExist, TypeOK, FrameOK, OnlyWrappersHold,
         UnderConstruction, Idle, Frame, Allocate, OrtRelease
  <2>2. PICK r \in Ptr : /\ r = p[s] /\ heap[r] = "live"
                      /\ \A h \in Holder : Owns(h, r) <=> h = s
    BY <1>2, WrapperOwns DEF Release, Idle
  <2>3. faults' = faults /\ \A q \in Ptr \ {r} : Untouched(q)
    BY <1>2, <2>2, HandleConstants DEF Release, IInv, TypeInv, TypeOK, FrameOK, OperandsExist, OnlyWrappersHold,
         UnderConstruction, Untouched, GivenBack, HeldOnlyBy, Owns, Holder, Idle, Frame, Allocate, OrtRelease
  <2>4. App \in Holder /\ HeldOnlyBy(App, r)'
    BY <1>2, <2>2, HandleConstants DEF Release, IInv, TypeInv, TypeOK, FrameOK, OperandsExist, OnlyWrappersHold,
         UnderConstruction, Untouched, GivenBack, HeldOnlyBy, Owns, Holder, Idle, Frame, Allocate, OrtRelease
  <2> QED
    BY <2>1, <2>2, <2>3, <2>4, OneTouched DEF IInv
<1>3. ASSUME NEW s \in Slot, Destroy(s) PROVE IInv'
  <2>1. TypeInv' /\ FrameOK' /\ OnlyWrappersHold'
    BY <1>3, ~AllowSelfMove, HandleConstants DEF Destroy, IInv, TypeInv, OperandsExist, TypeOK, FrameOK, OnlyWrappersHold,
         UnderConstruction, Idle, Frame, Allocate, OrtRelease
  <2>2. CASE p[s] = NULL
    <3>1. faults' = faults /\ \A q \in Ptr : Untouched(q)
      BY <2>2, <1>3, HandleConstants DEF Destroy, IInv, TypeInv, TypeOK, FrameOK, OperandsExist, OnlyWrappersHold,
         UnderConstruction, Untouched, GivenBack, HeldOnlyBy, Owns, Holder, Idle, Frame, Allocate, OrtRelease
    <3> QED
      BY <2>1, <3>1, NothingTouched DEF IInv
  <2>3. CASE p[s] # NULL
    <3>1. PICK r \in Ptr : /\ r = p[s] /\ heap[r] = "live"
                        /\ \A h \in Holder : Owns(h, r) <=> h = s
      BY <1>3, <2>3, WrapperOwns DEF Destroy, Idle
    <3>2. faults' = faults /\ \A q \in Ptr \ {r} : Untouched(q)
      BY <2>3, <3>1, <1>3, HandleConstants DEF Destroy, IInv, TypeInv, TypeOK, FrameOK, OperandsExist, OnlyWrappersHold,
         UnderConstruction, Untouched, GivenBack, HeldOnlyBy, Owns, Holder, Idle, Frame, Allocate, OrtRelease
    <3>3. GivenBack(r)'
      BY <2>3, <3>1, <1>3, HandleConstants DEF Destroy, IInv, TypeInv, TypeOK, FrameOK, OperandsExist, OnlyWrappersHold,
         UnderConstruction, Untouched, GivenBack, HeldOnlyBy, Owns, Holder, Idle, Frame, Allocate, OrtRelease
    <3> QED
      BY <2>1, <3>1, <3>2, <3>3, OneTouched DEF IInv
  <2> QED
    BY <2>2, <2>3
<1>4. ASSUME NEW s \in Slot, NEW d \in Slot, MoveConstruct(d, s) PROVE IInv'
  <2>1. TypeInv' /\ FrameOK' /\ OnlyWrappersHold'
    BY <1>4, ~AllowSelfMove, HandleConstants DEF MoveConstruct, IInv, TypeInv, OperandsExist, TypeOK, FrameOK, OnlyWrappersHold,
         UnderConstruction, Idle, Frame, Allocate, OrtRelease
  <2>2. CASE p[s] = NULL
    <3>1. faults' = faults /\ \A q \in Ptr : Untouched(q)
      BY <1>4, <2>2, HandleConstants DEF MoveConstruct, IInv, TypeInv, TypeOK, FrameOK, OperandsExist, OnlyWrappersHold,
         UnderConstruction, Untouched, GivenBack, HeldOnlyBy, Owns, Holder, Idle, Frame, Allocate, OrtRelease
    <3> QED
      BY <2>1, <3>1, NothingTouched DEF IInv
  <2>3. CASE p[s] # NULL
    <3>1. PICK r \in Ptr : /\ r = p[s] /\ heap[r] = "live"
                        /\ \A h \in Holder : Owns(h, r) <=> h = s
      BY <1>4, <2>3, WrapperOwns DEF MoveConstruct, Idle
    <3>2. faults' = faults /\ \A q \in Ptr \ {r} : Untouched(q)
      BY <1>4, <3>1, HandleConstants DEF MoveConstruct, IInv, TypeInv, TypeOK, FrameOK, OperandsExist, OnlyWrappersHold,
         UnderConstruction, Untouched, GivenBack, HeldOnlyBy, Owns, Holder, Idle, Frame, Allocate, OrtRelease
    <3>3. d \in Holder /\ HeldOnlyBy(d, r)'
      BY <1>4, <3>1, HandleConstants DEF MoveConstruct, IInv, TypeInv, TypeOK, FrameOK, OperandsExist, OnlyWrappersHold,
         UnderConstruction, Untouched, GivenBack, HeldOnlyBy, Owns, Holder, Idle, Frame, Allocate, OrtRelease
    <3> QED
      BY <2>1, <3>1, <3>2, <3>3, OneTouched DEF IInv
  <2> QED
    BY <2>2, <2>3
<1>5. ASSUME NEW s \in Slot, NEW d \in Slot, MoveAssign(d, s) PROVE IInv'
  <2>1. TypeInv' /\ FrameOK' /\ OnlyWrappersHold'
    BY <1>5, ~AllowSelfMove, HandleConstants DEF MoveAssign, IInv, TypeInv, OperandsExist, TypeOK, FrameOK, OnlyWrappersHold,
         UnderConstruction, Idle, Frame, Allocate, OrtRelease
  <2>2. CASE p[d] = NULL
    <3>1. faults' = faults /\ \A q \in Ptr : Untouched(q)
      BY <2>2, <1>5, HandleConstants DEF MoveAssign, IInv, TypeInv, TypeOK, FrameOK, OperandsExist, OnlyWrappersHold,
         UnderConstruction, Untouched, GivenBack, HeldOnlyBy, Owns, Holder, Idle, Frame, Allocate, OrtRelease
    <3> QED
      BY <2>1, <3>1, NothingTouched DEF IInv
  <2>3. CASE p[d] # NULL
    <3>1. PICK r \in Ptr : /\ r = p[d] /\ heap[r] = "live"
                        /\ \A h \in Holder : Owns(h, r) <=> h = d
      BY <1>5, <2>3, WrapperOwns DEF MoveAssign, Idle
    <3>2. faults' = faults /\ \A q \in Ptr \ {r} : Untouched(q)
      BY <2>3, <3>1, <1>5, HandleConstants DEF MoveAssign, IInv, TypeInv, TypeOK, FrameOK, OperandsExist, OnlyWrappersHold,
         UnderConstruction, Untouched, GivenBack, HeldOnlyBy, Owns, Holder, Idle, Frame, Allocate, OrtRelease
    <3>3. GivenBack(r)'
      BY <2>3, <3>1, <1>5, HandleConstants DEF MoveAssign, IInv, TypeInv, TypeOK, FrameOK, OperandsExist, OnlyWrappersHold,
         UnderConstruction, Untouched, GivenBack, HeldOnlyBy, Owns, Holder, Idle, Frame, Allocate, OrtRelease
    <3> QED
      BY <2>1, <3>1, <3>2, <3>3, OneTouched DEF IInv
  <2> QED
    BY <2>2, <2>3
<1>6. ASSUME NEW s \in Slot, NEW q \in Ptr, Adopt(s, q) PROVE IInv'
  <2>1. TypeInv' /\ FrameOK' /\ OnlyWrappersHold'
    BY <1>6, ~AllowSelfMove, HandleConstants DEF Adopt, IInv, TypeInv, OperandsExist, TypeOK, FrameOK, OnlyWrappersHold,
         UnderConstruction, Idle, Frame, Allocate, OrtRelease
  <2>2. Owns(App, q) /\ App \in Holder
    BY <1>6 DEF Adopt, Owns, Holder
  <2>3. heap[q] = "live" /\ \A h \in Holder : Owns(h, q) <=> h = App
    BY <2>2 DEF IInv, Ownership, UniqueHolder, HeldIsLive
  <2>4. faults' = faults /\ \A r \in Ptr \ {q} : Untouched(r)
    BY <1>6, <2>3, HandleConstants DEF Adopt, IInv, TypeInv, TypeOK, FrameOK, OperandsExist, OnlyWrappersHold,
         UnderConstruction, Untouched, GivenBack, HeldOnlyBy, Owns, Holder, Idle, Frame, Allocate, OrtRelease
  <2>5. s \in Holder /\ HeldOnlyBy(s, q)'
    BY <1>6, <2>3, HandleConstants DEF Adopt, IInv, TypeInv, TypeOK, FrameOK, OperandsExist, OnlyWrappersHold,
         UnderConstruction, Untouched, GivenBack, HeldOnlyBy, Owns, Holder, Idle, Frame, Allocate, OrtRelease
  <2> QED
    BY <2>1, <2>4, <2>5, OneTouched DEF IInv
<1>7. ASSUME NEW s \in Slot, NEW q \in Ptr, NEW more \in BOOLEAN, Create(s, q, more) PROVE IInv'
  <2>1. TypeInv' /\ FrameOK' /\ OnlyWrappersHold'
    BY <1>7, ~AllowSelfMove, HandleConstants DEF Create, IInv, TypeInv, OperandsExist, TypeOK, FrameOK, OnlyWrappersHold,
         UnderConstruction, Idle, Frame, Allocate, OrtRelease
  <2>2. \A h \in Holder : ~Owns(h, q)
    BY <1>7, UnbornIsFree DEF Create, Allocate
  <2>3. faults' = faults /\ \A r \in Ptr \ {q} : Untouched(r)
    BY <1>7, HandleConstants DEF Create, IInv, TypeInv, TypeOK, FrameOK, OperandsExist, OnlyWrappersHold,
         UnderConstruction, Untouched, GivenBack, HeldOnlyBy, Owns, Holder, Idle, Frame, Allocate, OrtRelease
  <2>4. s \in Holder /\ HeldOnlyBy(s, q)'
    BY <2>2, <1>7, HandleConstants DEF Create, IInv, TypeInv, TypeOK, FrameOK, OperandsExist, OnlyWrappersHold,
         UnderConstruction, Untouched, GivenBack, HeldOnlyBy, Owns, Holder, Idle, Frame, Allocate, OrtRelease
  <2> QED
    BY <2>1, <2>3, <2>4, OneTouched DEF IInv
<1>8. ASSUME NEW s \in Slot, NEW q \in Ptr, CreateFails(s, q) PROVE IInv'
  <2>1. TypeInv' /\ FrameOK' /\ OnlyWrappersHold'
    BY <1>8, ~AllowSelfMove, HandleConstants DEF CreateFails, IInv, TypeInv, OperandsExist, TypeOK, FrameOK, OnlyWrappersHold,
         UnderConstruction, Idle, Frame, Allocate, OrtRelease
  <2>2. \A h \in Holder : ~Owns(h, q)
    BY <1>8, UnbornIsFree DEF CreateFails, Allocate
  <2>3. faults' = faults /\ \A r \in Ptr \ {q} : Untouched(r)
    BY <1>8, HandleConstants DEF CreateFails, IInv, TypeInv, TypeOK, FrameOK, OperandsExist, OnlyWrappersHold,
         UnderConstruction, Untouched, GivenBack, HeldOnlyBy, Owns, Holder, Idle, Frame, Allocate, OrtRelease
  <2>4. Thrower \in Holder /\ HeldOnlyBy(Thrower, q)'
    BY <2>2, <1>8, HandleConstants DEF CreateFails, IInv, TypeInv, TypeOK, FrameOK, OperandsExist, OnlyWrappersHold,
         UnderConstruction, Untouched, GivenBack, HeldOnlyBy, Owns, Holder, Idle, Frame, Allocate, OrtRelease
  <2> QED
    BY <2>1, <2>3, <2>4, OneTouched DEF IInv
<1>9. ASSUME NEW s \in Slot, NEW q \in Ptr, MemberFails(s, q) PROVE IInv'
  <2>1. TypeInv' /\ FrameOK' /\ OnlyWrappersHold'
    BY <1>9, ~AllowSelfMove, HandleConstants DEF MemberFails, IInv, TypeInv, OperandsExist, TypeOK, FrameOK, OnlyWrappersHold,
         UnderConstruction, Idle, Frame, Allocate, OrtRelease
  <2>2. \A h \in Holder : ~Owns(h, q)
    BY <1>9, UnbornIsFree DEF MemberFails, Allocate
  <2>3. faults' = faults /\ \A r \in Ptr \ {q} : Untouched(r)
    BY <1>9, HandleConstants DEF MemberFails, IInv, TypeInv, TypeOK, FrameOK, OperandsExist, OnlyWrappersHold,
         UnderConstruction, Untouched, GivenBack, HeldOnlyBy, Owns, Holder, Idle, Frame, Allocate, OrtRelease
  <2>4. Thrower \in Holder /\ HeldOnlyBy(Thrower, q)'
    BY <2>2, <1>9, HandleConstants DEF MemberFails, IInv, TypeInv, TypeOK, FrameOK, OperandsExist, OnlyWrappersHold,
         UnderConstruction, Untouched, GivenBack, HeldOnlyBy, Owns, Holder, Idle, Frame, Allocate, OrtRelease
  <2> QED
    BY <2>1, <2>3, <2>4, OneTouched DEF IInv
<1>10. ASSUME NEW q \in Ptr, CCreate(q) PROVE IInv'
  <2>1. TypeInv' /\ FrameOK' /\ OnlyWrappersHold'
    BY <1>10, ~AllowSelfMove, HandleConstants DEF CCreate, IInv, TypeInv, OperandsExist, TypeOK, FrameOK, OnlyWrappersHold,
         UnderConstruction, Idle, Frame, Allocate, OrtRelease
  <2>2. \A h \in Holder : ~Owns(h, q)
    BY <1>10, UnbornIsFree DEF CCreate, Allocate
  <2>3. faults' = faults /\ \A r \in Ptr \ {q} : Untouched(r)
    BY <1>10, HandleConstants DEF CCreate, IInv, TypeInv, TypeOK, FrameOK, OperandsExist, OnlyWrappersHold,
         UnderConstruction, Untouched, GivenBack, HeldOnlyBy, Owns, Holder, Idle, Frame, Allocate, OrtRelease
  <2>4. App \in Holder /\ HeldOnlyBy(App, q)'
    BY <2>2, <1>10, HandleConstants DEF CCreate, IInv, TypeInv, TypeOK, FrameOK, OperandsExist, OnlyWrappersHold,
         UnderConstruction, Untouched, GivenBack, HeldOnlyBy, Owns, Holder, Idle, Frame, Allocate, OrtRelease
  <2> QED
    BY <2>1, <2>3, <2>4, OneTouched DEF IInv
<1>11. ASSUME NEW q \in Ptr, CRelease(q) PROVE IInv'
  <2>1. TypeInv' /\ FrameOK' /\ OnlyWrappersHold'
    BY <1>11, ~AllowSelfMove, HandleConstants DEF CRelease, IInv, TypeInv, OperandsExist, TypeOK, FrameOK, OnlyWrappersHold,
         UnderConstruction, Idle, Frame, Allocate, OrtRelease
  <2>2. Owns(App, q) /\ App \in Holder
    BY <1>11 DEF CRelease, Owns, Holder
  <2>3. heap[q] = "live" /\ \A h \in Holder : Owns(h, q) <=> h = App
    BY <2>2 DEF IInv, Ownership, UniqueHolder, HeldIsLive
  <2>4. faults' = faults /\ \A x \in Ptr \ {q} : Untouched(x)
    BY <1>11, <2>2, <2>3, HandleConstants DEF CRelease, IInv, TypeInv, TypeOK, FrameOK, OperandsExist, OnlyWrappersHold,
         UnderConstruction, Untouched, GivenBack, HeldOnlyBy, Owns, Holder, Idle, Frame, Allocate, OrtRelease
  <2>5. GivenBack(q)'
    BY <1>11, <2>2, <2>3, HandleConstants DEF CRelease, IInv, TypeInv, TypeOK, FrameOK, OperandsExist, OnlyWrappersHold,
         UnderConstruction, Untouched, GivenBack, HeldOnlyBy, Owns, Holder, Idle, Frame, Allocate, OrtRelease
  <2> QED
    BY <2>1, <2>2, <2>4, <2>5, OneTouched DEF IInv
<1>12. ASSUME NEW q \in Ptr, ConfigureFails(q) PROVE IInv'
  <2>1. TypeInv' /\ FrameOK' /\ OnlyWrappersHold'
    BY <1>12, ~AllowSelfMove, HandleConstants DEF ConfigureFails, IInv, TypeInv, OperandsExist, TypeOK, FrameOK, OnlyWrappersHold,
         UnderConstruction, Idle, Frame, Allocate, OrtRelease
  <2>2. \A h \in Holder : ~Owns(h, q)
    BY <1>12, UnbornIsFree DEF ConfigureFails, Allocate
  <2>3. faults' = faults /\ \A r \in Ptr \ {q} : Untouched(r)
    BY <1>12, HandleConstants DEF ConfigureFails, IInv, TypeInv, TypeOK, FrameOK, OperandsExist, OnlyWrappersHold,
         UnderConstruction, Untouched, GivenBack, HeldOnlyBy, Owns, Holder, Idle, Frame, Allocate, OrtRelease
  <2>4. Thrower \in Holder /\ HeldOnlyBy(Thrower, q)'
    BY <2>2, <1>12, HandleConstants DEF ConfigureFails, IInv, TypeInv, TypeOK, FrameOK, OperandsExist, OnlyWrappersHold,
         UnderConstruction, Untouched, GivenBack, HeldOnlyBy, Owns, Holder, Idle, Frame, Allocate, OrtRelease
  <2> QED
    BY <2>1, <2>3, <2>4, OneTouched DEF IInv
<1>13. ASSUME Configure PROVE IInv'
  <2>1. TypeInv' /\ FrameOK' /\ OnlyWrappersHold'
    BY <1>13, ~AllowSelfMove, HandleConstants DEF Configure, IInv, TypeInv, OperandsExist, TypeOK, FrameOK, OnlyWrappersHold,
         UnderConstruction, Idle, Frame, Allocate, OrtRelease
  <2>2. faults' = faults /\ \A q \in Ptr : Untouched(q)
    BY <1>13, HandleConstants DEF Configure, IInv, TypeInv, TypeOK, FrameOK, OperandsExist, OnlyWrappersHold,
         UnderConstruction, Untouched, GivenBack, HeldOnlyBy, Owns, Holder, Idle, Frame, Allocate, OrtRelease
  <2> QED
    BY <2>1, <2>2, NothingTouched DEF IInv
<1>14. ASSUME UnwindStatus PROVE IInv'
  <2>1. TypeInv' /\ FrameOK' /\ OnlyWrappersHold'
    BY <1>14, ~AllowSelfMove, HandleConstants DEF UnwindStatus, IInv, TypeInv, OperandsExist, TypeOK, FrameOK, OnlyWrappersHold,
         UnderConstruction, Idle, Frame, Allocate, OrtRelease
  <2>2. PICK r \in Ptr : r = call.st /\ Owns(Thrower, r) /\ Thrower \in Holder
    BY <1>14 DEF UnwindStatus, Owns, Holder, IInv, TypeInv, TypeOK, FrameOK
  <2>3. heap[r] = "live" /\ \A h \in Holder : Owns(h, r) <=> h = Thrower
    BY <2>2 DEF IInv, Ownership, UniqueHolder, HeldIsLive
  <2>4. faults' = faults /\ \A x \in Ptr \ {r} : Untouched(x)
    BY <1>14, <2>2, <2>3, HandleConstants DEF UnwindStatus, IInv, TypeInv, TypeOK, FrameOK, OperandsExist, OnlyWrappersHold,
         UnderConstruction, Untouched, GivenBack, HeldOnlyBy, Owns, Holder, Idle, Frame, Allocate, OrtRelease
  <2>5. GivenBack(r)'
    BY <1>14, <2>2, <2>3, HandleConstants DEF UnwindStatus, IInv, TypeInv, TypeOK, FrameOK, OperandsExist, OnlyWrappersHold,
         UnderConstruction, Untouched, GivenBack, HeldOnlyBy, Owns, Holder, Idle, Frame, Allocate, OrtRelease
  <2> QED
    BY <2>1, <2>2, <2>4, <2>5, OneTouched DEF IInv
<1>15. ASSUME UnwindObject PROVE IInv'
  <2>1. TypeInv' /\ FrameOK' /\ OnlyWrappersHold'
    BY <1>15, ~AllowSelfMove, HandleConstants DEF UnwindObject, IInv, TypeInv, OperandsExist, TypeOK, FrameOK, OnlyWrappersHold,
         UnderConstruction, Idle, Frame, Allocate, OrtRelease
  <2>2. CASE call.obj = NULL \/ p[call.obj] = NULL
    <3>1. faults' = faults /\ \A q \in Ptr : Untouched(q)
      BY <1>15, <2>2, HandleConstants DEF UnwindObject, IInv, TypeInv, TypeOK, FrameOK, OperandsExist, OnlyWrappersHold,
         UnderConstruction, Untouched, GivenBack, HeldOnlyBy, Owns, Holder, Idle, Frame, Allocate, OrtRelease
    <3> QED
      BY <2>1, <3>1, NothingTouched DEF IInv
  <2>3. CASE call.obj # NULL /\ p[call.obj] # NULL
    <3>1. call.obj \in Slot
      BY <2>3 DEF IInv, TypeInv, TypeOK
    <3>2. PICK r \in Ptr : /\ r = p[call.obj] /\ heap[r] = "live"
                        /\ \A h \in Holder : Owns(h, r) <=> h = call.obj
      BY <1>15, <2>3, <3>1, WrapperOwns DEF UnwindObject
    <3>3. faults' = faults /\ \A q \in Ptr \ {r} : Untouched(q)
      BY <1>15, <2>3, <3>1, <3>2, HandleConstants DEF UnwindObject, IInv, TypeInv, TypeOK, FrameOK, OperandsExist, OnlyWrappersHold,
         UnderConstruction, Untouched, GivenBack, HeldOnlyBy, Owns, Holder, Idle, Frame, Allocate, OrtRelease
    <3>4. GivenBack(r)'
      BY <1>15, <2>3, <3>1, <3>2, HandleConstants DEF UnwindObject, IInv, TypeInv, TypeOK, FrameOK, OperandsExist, OnlyWrappersHold,
         UnderConstruction, Untouched, GivenBack, HeldOnlyBy, Owns, Holder, Idle, Frame, Allocate, OrtRelease
    <3> QED
      BY <2>1, <3>2, <3>3, <3>4, OneTouched DEF IInv
  <2> QED
    BY <2>2, <2>3
<1>16. ASSUME MoveAssignTake PROVE IInv'
  <2>1. TypeInv' /\ FrameOK' /\ OnlyWrappersHold'
    BY <1>16, ~AllowSelfMove, HandleConstants DEF MoveAssignTake, IInv, TypeInv, OperandsExist, TypeOK, FrameOK, OnlyWrappersHold,
         UnderConstruction, Idle, Frame, Allocate, OrtRelease
  <2>2. call.obj \in Slot /\ call.src \in Slot /\ call.obj # call.src
    BY <1>16 DEF MoveAssignTake, IInv, TypeInv, OperandsExist, FrameOK
  <2>3. CASE p[call.src] = NULL
    <3>1. faults' = faults /\ \A q \in Ptr : Untouched(q)
      BY <1>16, <2>2, <2>3, HandleConstants DEF MoveAssignTake, IInv, TypeInv, TypeOK, FrameOK, OperandsExist, OnlyWrappersHold,
         UnderConstruction, Untouched, GivenBack, HeldOnlyBy, Owns, Holder, Idle, Frame, Allocate, OrtRelease
    <3> QED
      BY <2>1, <3>1, NothingTouched DEF IInv
  <2>4. CASE p[call.src] # NULL
    <3>1. PICK r \in Ptr : /\ r = p[call.src] /\ heap[r] = "live"
                        /\ \A h \in Holder : Owns(h, r) <=> h = call.src
      BY <2>2, <2>4, WrapperOwns
    <3>2. faults' = faults /\ \A q \in Ptr \ {r} : Untouched(q)
      BY <1>16, <2>2, <3>1, HandleConstants DEF MoveAssignTake, IInv, TypeInv, TypeOK, FrameOK, OperandsExist, OnlyWrappersHold,
         UnderConstruction, Untouched, GivenBack, HeldOnlyBy, Owns, Holder, Idle, Frame, Allocate, OrtRelease
    <3>3. PICK d \in Slot : d = call.obj
      BY <2>2
    <3>4. d \in Holder /\ HeldOnlyBy(d, r)'
      BY <1>16, <2>2, <3>1, <3>3, HandleConstants DEF MoveAssignTake, IInv, TypeInv, TypeOK, FrameOK, OperandsExist, OnlyWrappersHold,
         UnderConstruction, Untouched, GivenBack, HeldOnlyBy, Owns, Holder, Idle, Frame, Allocate, OrtRelease
    <3> QED
      BY <2>1, <3>2, <3>3, <3>4, OneTouched DEF IInv
  <2> QED
    BY <2>3, <2>4
<1>17. CASE UNCHANGED vars
  <2>1. TypeInv' /\ FrameOK' /\ OnlyWrappersHold'
    BY <1>17 DEF vars, IInv, TypeInv, OperandsExist, TypeOK, FrameOK, OnlyWrappersHold,
         UnderConstruction, Idle, Frame, Allocate, OrtRelease
  <2>2. faults' = faults /\ \A q \in Ptr : Untouched(q)
    BY <1>17 DEF vars, Untouched, Owns
  <2> QED
    BY <2>1, <2>2, NothingTouched DEF IInv
<1> QED
  BY <1>1, <1>2, <1>3, <1>4, <1>5, <1>6, <1>7, <1>8, <1>9, <1>10, <1>11, <1>12,
     <1>13, <1>14, <1>15, <1>16, <1>17 DEF Next, SlotStep, Resume

(* The inductive invariant holds when nothing has been handed out. *)
LEMMA OwnershipInitially == Init => IInv
  BY HandleConstants
     DEF Init, Idle, IInv, TypeInv, OperandsExist, TypeOK, FrameOK, OnlyWrappersHold,
         UnderConstruction, Ownership, NoDoubleRelease, UniqueHolder, HeldIsLive,
         LiveIsHeld, Owns, Holder

(* The inductive invariant holds in every state, without self-moves. *)
LEMMA InvariantHolds == ASSUME ~AllowSelfMove PROVE Spec => []IInv
<1>1. IInv /\ [Next]_vars => IInv'
  BY ~AllowSelfMove, OwnershipInductive
<1> QED
  BY <1>1, OwnershipInitially, PTL DEF Spec

(* The wrappers never release an object twice, share one, dangle or leak one, *)
(* as long as no wrapper is move-assigned to itself.                          *)
THEOREM OwnershipSafe == ASSUME ~AllowSelfMove PROVE Spec => []Ownership
<1>1. IInv => Ownership
  BY DEF IInv
<1> QED
  BY <1>1, InvariantHolds, PTL

-----------------------------------------------------------------------------
(* A failing C call leaves complete wrappers as they were: the two unwinding *)
(* steps release the status and the half-built object, which no complete     *)
(* wrapper owns.                                                             *)
LEMMA UnwindingIsContained ==
  ASSUME ~AllowSelfMove, IInv, [Next]_vars, call.pc \in {"throw", "unwind"}
  PROVE  /\ alive' = alive
         /\ \A s \in alive : /\ p'[s] = p[s]
                             /\ p[s] # NULL => heap'[p[s]] = "live"
<1>1. CASE UNCHANGED vars
  <2>1. \A s \in alive : p[s] # NULL => heap[p[s]] = "live"
    BY WrapperOwns DEF IInv, TypeInv, TypeOK
  <2> QED
    BY <1>1, <2>1 DEF vars
<1>2. CASE UnwindStatus
  <2>1. PICK r \in Ptr : r = call.st /\ Owns(Thrower, r) /\ Thrower \in Holder
    BY <1>2 DEF UnwindStatus, Owns, Holder, IInv, TypeInv, TypeOK, FrameOK
  <2>2. \A s \in alive : p[s] # NULL => heap[p[s]] = "live" /\ p[s] # r
    BY <1>2, <2>1, WrapperOwns, HandleConstants DEF UnwindStatus, IInv, TypeInv, TypeOK
  <2> QED
    BY <1>2, <2>1, <2>2 DEF UnwindStatus, OrtRelease, IInv, TypeInv, TypeOK
<1>3. CASE UnwindObject
  <2>1. \A s \in alive : p[s] # NULL => heap[p[s]] = "live"
    BY <1>3, WrapperOwns DEF UnwindObject, IInv, TypeInv, TypeOK
  <2>2. CASE call.obj = NULL
    BY <1>3, <2>1, <2>2 DEF UnwindObject
  <2>3. CASE call.obj # NULL
    <3>1. call.obj \in Slot \ alive
      BY <1>3, <2>3 DEF UnwindObject, IInv, FrameOK, TypeInv, TypeOK
    <3>2. \A s \in alive : p[s] # NULL => p[s] # p[call.obj]
      BY <1>3, <3>1, WrapperOwns DEF UnwindObject, IInv, TypeInv, TypeOK, Holder
    <3>3. \A s \in alive : p'[s] = p[s]
      BY <1>3, <2>3, <3>1 DEF UnwindObject, IInv, TypeInv, TypeOK
    <3>4. \A s \in alive : p[s] # NULL => heap'[p[s]] = heap[p[s]]
      BY <1>3, <2>3, <3>2 DEF UnwindObject, OrtRelease, IInv, TypeInv, TypeOK
    <3> QED
      BY <1>3, <2>1, <3>3, <3>4 DEF UnwindObject
  <2> QED
    BY <2>2, <2>3
<1>4. \A s \in Slot : ~SlotStep(s)
  BY DEF SlotStep, Idle, DefaultConstruct, Adopt, Create, CreateFails, MemberFails,
         MoveConstruct, MoveAssign, Release, Destroy
<1>5. \A q \in Ptr : ~CCreate(q) /\ ~CRelease(q) /\ ~ConfigureFails(q)
  BY DEF Idle, CCreate, CRelease, ConfigureFails
<1>6. ~Configure /\ ~MoveAssignTake
  BY DEF Configure, MoveAssignTake
<1> QED
  BY <1>1, <1>2, <1>3, <1>4, <1>5, <1>6 DEF Next, Resume

(* The action property FailureIsContained: an exception thrown by ThrowOnError *)
(* changes no complete wrapper on its way out.                                *)
THEOREM FailureContained == ASSUME ~AllowSelfMove PROVE Spec => FailureIsContained
<1>1. IInv /\ [Next]_vars =>
        [call.pc \in {"throw", "unwind"} =>
           /\ alive' = alive
           /\ \A s \in alive : /\ p'[s] = p[s]
                               /\ p[s] # NULL => heap'[p[s]] = "live"]_vars
  BY ~AllowSelfMove, UnwindingIsContained
<1> QED
  BY <1>1, InvariantHolds, PTL DEF Spec, FailureIsContained

-----------------------------------------------------------------------------
(* Refinement. *)

(* Under the invariant the mapping yields a state of the abstract life. *)
MappedOK ==
  \A q \in Ptr : /\ heap[q] = "unborn" => AbstractHolder(q) = Abstract!Unborn
                 /\ heap[q] = "live" => AbstractHolder(q) \in Abstract!Held
                 /\ heap[q] = "freed" => AbstractHolder(q) = Abstract!Gone

(* The refinement mapping sends every state of IInv to a state of the abstract *)
(* life, and says in which of its stages an object is.                         *)
LEMMA MappedState == IInv => MappedOK
<1> SUFFICES ASSUME IInv, NEW q \in Ptr
             PROVE  /\ heap[q] = "unborn" => AbstractHolder(q) = Abstract!Unborn
                    /\ heap[q] = "live" => AbstractHolder(q) \in Abstract!Held
                    /\ heap[q] = "freed" => AbstractHolder(q) = Abstract!Gone
  BY DEF MappedOK
<1>1. q \notin faults
  BY DEF IInv, Ownership, NoDoubleRelease
<1>2. CASE heap[q] = "unborn"
  BY <1>1, <1>2 DEF AbstractHolder, Abstract!Unborn
<1>3. CASE heap[q] = "freed"
  <2>1. \A h \in Holder : ~Owns(h, q)
    BY <1>3 DEF IInv, Ownership, HeldIsLive
  <2> QED
    BY <1>1, <1>3, <2>1 DEF AbstractHolder, Abstract!Gone
<1>4. CASE heap[q] = "live"
  <2>1. PICK h \in Holder : Owns(h, q)
    BY <1>4 DEF IInv, Ownership, LiveIsHeld
  <2>2. \A k \in Holder : Owns(k, q) <=> k = h
    BY <2>1 DEF IInv, Ownership, UniqueHolder
  <2>3. AbstractHolder(q) = <<"held", CHOOSE k \in Holder : Owns(k, q)>>
    BY <1>1, <1>4, <2>2 DEF AbstractHolder
  <2>4. PICK k \in Holder : k = CHOOSE j \in Holder : Owns(j, q)
    BY <2>1
  <2>5. <<"held", k>> \in Abstract!Held
    BY DEF Abstract!Held
  <2> QED
    BY <1>4, <2>3, <2>4, <2>5
<1> QED
  BY <1>2, <1>3, <1>4 DEF IInv, TypeInv, TypeOK

(* An object is born and given back, each at most once, and in that order. *)
HeapStep(q) ==
  \/ heap'[q] = heap[q]
  \/ heap[q] = "unborn" /\ heap'[q] = "live"
  \/ heap[q] = "live" /\ heap'[q] = "freed"

(* The C API's view of an object goes from unborn to live to freed, no other *)
(* way.                                                                      *)
LEMMA HeapLife ==
  ASSUME IInv, IInv', [Next]_vars
  PROVE  \A q \in Ptr : HeapStep(q)
<1>1. ASSUME NEW r \in Ptr, Allocate(r) PROVE \A q \in Ptr : HeapStep(q)
  BY <1>1 DEF Allocate, HeapStep, IInv, TypeInv, TypeOK
<1>2. ASSUME NEW r \in Ptr \cup {NULL}, OrtRelease(r) PROVE \A q \in Ptr : HeapStep(q)
  <2>1. r = NULL \/ heap[r] = "live"
    BY <1>2 DEF OrtRelease, IInv, Ownership, NoDoubleRelease
  <2> QED
    BY <1>2, <2>1 DEF OrtRelease, HeapStep, IInv, TypeInv, TypeOK
<1>3. ASSUME heap' = heap PROVE \A q \in Ptr : HeapStep(q)
  BY <1>3 DEF HeapStep
<1>4. ASSUME NEW s \in Slot, SlotStep(s) PROVE \A q \in Ptr : HeapStep(q)
  <2>1. ASSUME NEW d \in Slot, MoveAssign(d, s) PROVE \A q \in Ptr : HeapStep(q)
    BY <1>2, <2>1 DEF MoveAssign, IInv, TypeInv, TypeOK
  <2>2. ASSUME Destroy(s) PROVE \A q \in Ptr : HeapStep(q)
    BY <1>2, <2>2 DEF Destroy, IInv, TypeInv, TypeOK
  <2>3. ASSUME NEW r \in Ptr, NEW more \in BOOLEAN, 
               Create(s, r, more) \/ CreateFails(s, r) \/ MemberFails(s, r)
        PROVE  \A q \in Ptr : HeapStep(q)
    BY <1>1, <2>3 DEF Create, CreateFails, MemberFails
  <2>4. ASSUME NEW r \in Ptr, NEW d \in Slot,
               DefaultConstruct(s) \/ Release(s) \/ MoveConstruct(d, s) \/ Adopt(s, r)
        PROVE  \A q \in Ptr : HeapStep(q)
    BY <1>3, <2>4 DEF DefaultConstruct, Release, MoveConstruct, Adopt
  <2> QED
    BY <1>4, <2>1, <2>2, <2>3, <2>4 DEF SlotStep
<1>5. ASSUME NEW r \in Ptr, CCreate(r) \/ ConfigureFails(r)
      PROVE  \A q \in Ptr : HeapStep(q)
  BY <1>1, <1>5 DEF CCreate, ConfigureFails
<1>6. ASSUME NEW r \in Ptr, CRelease(r) PROVE \A q \in Ptr : HeapStep(q)
  BY <1>2, <1>6 DEF CRelease
<1>7. ASSUME UnwindStatus PROVE \A q \in Ptr : HeapStep(q)
  BY <1>2, <1>7 DEF UnwindStatus, IInv, TypeInv, TypeOK
<1>8. ASSUME UnwindObject PROVE \A q \in Ptr : HeapStep(q)
  BY <1>2, <1>3, <1>8 DEF UnwindObject, IInv, TypeInv, TypeOK
<1>9. ASSUME Configure \/ MoveAssignTake \/ UNCHANGED vars
      PROVE  \A q \in Ptr : HeapStep(q)
  BY <1>3, <1>9 DEF Configure, MoveAssignTake, vars
<1> QED
  BY <1>4, <1>5, <1>6, <1>7, <1>8, <1>9 DEF Next, Resume

(* The wrappers implement the exclusive ownership of resources: initial      *)
(* states map to initial states and every step to a lawful change of hands.  *)
THEOREM Refinement == ASSUME ~AllowSelfMove PROVE Spec => ImplementsOwnership
<1> DEFINE holder == [q \in Ptr |-> AbstractHolder(q)]
<1>1. Init => Abstract!Init
  BY DEF Init, Abstract!Init, Abstract!Unborn, AbstractHolder
<1>2. IInv /\ IInv' /\ [Next]_vars => [Abstract!Next]_holder
  <2> SUFFICES ASSUME IInv, IInv', [Next]_vars PROVE Abstract!Next
    OBVIOUS
  <2>1. MappedOK /\ MappedOK'
    BY MappedState, PTL
  <2>2. ASSUME NEW q \in Ptr
        PROVE  /\ AbstractHolder(q)' \in Abstract!Held \cup {Abstract!Unborn, Abstract!Gone}
               /\ Abstract!Lawful(AbstractHolder(q), AbstractHolder(q)')
    <3>1. HeapStep(q)
      BY HeapLife
    <3>2. heap[q] \in {"unborn", "live", "freed"} /\ heap'[q] \in {"unborn", "live", "freed"}
      BY DEF IInv, TypeInv, TypeOK
    <3> QED
      BY <2>1, <3>1, <3>2 DEF HeapStep, MappedOK, Abstract!Lawful
  <2> QED
    BY <2>2 DEF Abstract!Next
<1> QED
  BY <1>1, <1>2, InvariantHolds, PTL DEF Spec, ImplementsOwnership, Abstract!Spec
=============================================================================
