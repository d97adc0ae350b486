-------------------------- MODULE MemoryAllocations --------------------------
(***************************************************************************)
(* Ort::MemoryAllocation: a block of memory, the allocator it came from    *)
(* and its size, freed through that allocator by the destructor, and the   *)
(* functions of Ort::detail::AllocatorImpl that hand blocks out.  The      *)
(* allocators are objects of OrtHandles, owned by its wrappers: a block    *)
(* keeps a plain pointer to one, and the two lives are checked together.   *)
(* operator=(MemoryAllocation&&) swaps members three times and leaves the  *)
(* old block to a local's destructor.                                      *)
(***************************************************************************)
EXTENDS OrtHandles

CONSTANTS Block,       \* blocks of memory, each handed out at most once
          Var,         \* C++ variables of type MemoryAllocation
          Nobody       \* holder of a block whose destructor could not free it

ASSUME AllocationConstants ==
  NULL \notin Block /\ App \notin Var /\ Nobody \notin Var /\ App # Nobody

VARIABLES
  home,    \* the allocator each block came from, NULL if none yet
  freed,   \* for each block, the allocators it has been freed through
  taken,   \* blocks the application holds by a raw pointer
  lost,    \* blocks whose AllocatorFree failed in a destructor
  born,    \* MemoryAllocation variables that exist
  var      \* their members allocator_ and p_ (size_ travels with p_)

blocks == <<home, freed, taken, lost, born, var>>

Members(a, b) == [allocator_ |-> a, p_ |-> b]
Empty == Members(NULL, NULL)

MemoryInit ==
  /\ Init
  /\ home = [b \in Block |-> NULL]
  /\ freed = [b \in Block |-> {}]
  /\ taken = {} /\ lost = {} /\ born = {}
  /\ var = [x \in Var |-> Empty]

Unborn(b) == home[b] = NULL

(* The allocators that complete wrappers own. *)
Allocators == {p[s] : s \in alive} \ {NULL}

(* ~MemoryAllocation on the members m: AllocatorFree, whose status it drops. *)
Destruct(m) ==
  \/ /\ m.p_ = NULL
     /\ UNCHANGED <<freed, lost>>
  \/ /\ m.p_ # NULL
     /\ freed' = [freed EXCEPT ![m.p_] = @ \cup {m.allocator_}]
     /\ UNCHANGED lost
  \/ /\ m.p_ # NULL
     /\ lost' = lost \cup {m.p_}
     /\ UNCHANGED freed

-----------------------------------------------------------------------------
(* AllocatorImpl::Alloc; a failing AllocatorAlloc is a MemberFails. *)
Alloc(a, b) ==
  /\ Unborn(b) /\ a \in Allocators
  /\ home' = [home EXCEPT ![b] = a]
  /\ taken' = taken \cup {b}
  /\ UNCHANGED <<freed, lost, born, var>>

(* AllocatorImpl::Free; when AllocatorFree fails the block stays. *)
Free(b) ==
  /\ b \in taken /\ home[b] \in Allocators
  /\ freed' = [freed EXCEPT ![b] = @ \cup {home[b]}]
  /\ taken' = taken \ {b}
  /\ UNCHANGED <<home, lost, born, var>>

(* AllocatorImpl::GetAllocation *)
GetAllocation(x, a, b) ==
  /\ Unborn(b) /\ x \notin born /\ a \in Allocators
  /\ home' = [home EXCEPT ![b] = a]
  /\ born' = born \cup {x}
  /\ var' = [var EXCEPT ![x] = Members(a, b)]
  /\ UNCHANGED <<freed, taken, lost>>

(* Slip: the constructor's arguments are taken in the wrong order. *)
WrapBlockSwapped(x, b) ==
  /\ x \notin born /\ b \in taken
  /\ born' = born \cup {x}
  /\ var' = [var EXCEPT ![x] = Members(b, home[b])]
  /\ taken' = taken \ {b}
  /\ UNCHANGED <<home, freed, lost>>

(* MemoryAllocation(allocator, p, size) on a block the application has. *)
WrapBlock(x, b) ==
  /\ x \notin born /\ b \in taken
  /\ born' = born \cup {x}
  /\ var' = [var EXCEPT ![x] = Members(home[b], b)]
  /\ taken' = taken \ {b}
  /\ UNCHANGED <<home, freed, lost>>

(* Slip: the moved-from variable keeps its pointer. *)
MoveBlockCopies(x, o) ==
  /\ x \notin born /\ o \in born
  /\ born' = born \cup {x}
  /\ var' = [var EXCEPT ![x] = var[o]]
  /\ UNCHANGED <<home, freed, taken, lost>>

(* MemoryAllocation(MemoryAllocation&& o): empty, then move-assigned. *)
MoveBlock(x, o) ==
  /\ x \notin born /\ o \in born
  /\ born' = born \cup {x}
  /\ var' = [var EXCEPT ![x] = var[o], ![o] = Empty]
  /\ UNCHANGED <<home, freed, taken, lost>>

(* Slip: the pointers are exchanged and the allocators are not. *)
AssignBlockKeepsAllocator(x, o) ==
  LET out == [var EXCEPT ![x] = Empty]
  IN /\ x \in born /\ o \in born
     /\ var' = [out EXCEPT ![x] = Members(var[x].allocator_, out[o].p_),
                           ![o] = Members(out[o].allocator_, out[x].p_)]
     /\ Destruct(var[x])
     /\ UNCHANGED <<home, taken, born>>

(* operator=: this is swapped out into locals, then swapped with o, which may *)
(* be this, and the locals' block is destroyed.                               *)
AssignBlock(x, o) ==
  LET out == [var EXCEPT ![x] = Empty]
  IN /\ x \in born /\ o \in born
     /\ var' = [out EXCEPT ![x] = out[o], ![o] = out[x]]
     /\ Destruct(var[x])
     /\ UNCHANGED <<home, taken, born>>

(* ~MemoryAllocation *)
DestroyBlock(x) ==
  /\ x \in born
  /\ Destruct(var[x])
  /\ born' = born \ {x}
  /\ var' = [var EXCEPT ![x] = Empty]
  /\ UNCHANGED <<home, taken>>

MemoryStep ==
  \/ \E a \in Ptr, b \in Block : Alloc(a, b)
  \/ \E b \in Block : Free(b)
  \/ \E x \in Var, a \in Ptr, b \in Block : GetAllocation(x, a, b)
  \/ \E x \in Var, b \in Block : WrapBlock(x, b)
  \/ \E x, o \in Var : MoveBlock(x, o) \/ AssignBlock(x, o)
  \/ \E x \in Var : DestroyBlock(x)

Outstanding(b) == b \in taken \/ \E x \in born : var[x].p_ = b

(* What AllocatedStringPtr and MemoryAllocation ask of their user: an       *)
(* allocator is kept until the blocks that came from it are back.           *)
KeepsAllocators == \A b \in Block : Outstanding(b) => heap'[home[b]] = "live"

(* A program that uses the wrappers of OrtHandles and blocks of memory. *)
MemoryNext ==
  \/ Next /\ UNCHANGED blocks /\ KeepsAllocators
  \/ call = Idle /\ MemoryStep /\ UNCHANGED vars

MemorySpec == MemoryInit /\ [][MemoryNext]_<<vars, blocks>>

-----------------------------------------------------------------------------
MemoryTypeOK ==
  /\ home \in [Block -> Ptr \cup {NULL}]
  /\ freed \in [Block -> SUBSET Ptr]
  /\ taken \subseteq Block /\ lost \subseteq Block /\ born \subseteq Var
  /\ var \in [Var -> [allocator_ : Ptr \cup {NULL}, p_ : Block \cup {NULL}]]

(* A block goes back only to the allocator that it came from, however often  *)
(* it has been moved, and a variable that holds it still knows which.        *)
FreedAtHome ==
  /\ \A b \in Block : freed[b] \subseteq {home[b]}
  /\ \A x \in born : var[x].p_ # NULL => var[x].allocator_ = home[var[x].p_]

(* A variable of type MemoryAllocation never calls a released allocator, as  *)
(* long as the application keeps the ones its blocks came from.              *)
FreesThroughLive ==
  [][\A b \in Block :
        freed'[b] \ freed[b] \subseteq {q \in Ptr : heap[q] = "live"}]_<<vars, blocks>>

(* Refinement mapping: a block freed and yet held is held by too many.       *)
Responsible(b) ==
  {x \in born : var[x].p_ = b} \cup (IF b \in taken THEN {App} ELSE {})
    \cup (IF b \in lost THEN {Nobody} ELSE {})

BlockHolder(b) ==
  IF Unborn(b) THEN <<"unborn">>
  ELSE IF freed[b] # {} /\ Responsible(b) = {} THEN <<"gone">>
  ELSE IF freed[b] = {} /\ \E h \in Var \cup {App, Nobody} : Responsible(b) = {h}
       THEN <<"held", CHOOSE h \in Responsible(b) : TRUE>>
  ELSE <<"torn">>

Blocks == INSTANCE ExclusiveOwnership
  WITH Res <- Block, Holder <- Var \cup {App, Nobody},
       holder <- [b \in Block |-> BlockHolder(b)]

(* MemoryAllocation is an exclusive owner: whatever is constructed, moved    *)
(* (onto itself, too) and destroyed, a block has one holder until it is      *)
(* freed, and is freed once.                                                 *)
BlocksImplementOwnership == Blocks!Spec
=============================================================================
