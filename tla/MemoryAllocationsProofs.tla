---------------------- MODULE MemoryAllocationsProofs ----------------------
(***************************************************************************)
(* MemoryAllocation for every number of blocks, of allocators and of C++   *)
(* variables: a block goes back once, to the allocator that it came from,  *)
(* and that allocator is still there.                                      *)
(***************************************************************************)
EXTENDS MemoryAllocations, OrtHandlesProofs

(* Where a block is in its life, and who has it: nobody before it is handed *)
(* out and after it is freed, exactly one holder in between.                *)
BlockOK(b) ==
  /\ Unborn(b) => Responsible(b) = {} /\ freed[b] = {}
  /\ freed[b] # {} => Responsible(b) = {}
  /\ ~Unborn(b) /\ freed[b] = {} => Responsible(b) # {}
  /\ \A h, k \in Responsible(b) : h = k

(* The inductive invariant.  That a destructor frees a block at home needs   *)
(* the variable to know its allocator, and that it frees it for the first    *)
(* time needs the variable to be the block's only holder.                    *)
BlockInv ==
  /\ MemoryTypeOK
  /\ \A x \in Var : x \notin born => var[x].p_ = NULL
  /\ FreedAtHome
  /\ \A b \in Block : BlockOK(b)

(* In words of who holds a block: a variable, the application, or nobody. *)
Has(h, b) ==
  \/ h \in born /\ var[h].p_ = b
  \/ h = App /\ b \in taken
  \/ h = Nobody /\ b \in lost

HasAlone(g, b) == \A h : Has(h, b) <=> h = g

(* A block keeps its place in life if what is recorded of it does not change. *)
LEMMA SameBlock ==
  ASSUME NEW b \in Block, BlockOK(b),
         home'[b] = home[b], freed'[b] = freed[b],
         \A h : Has(h, b)' <=> Has(h, b)
  PROVE  BlockOK(b)'
<1>1. \A h : h \in Responsible(b)' <=> h \in Responsible(b)
  BY DEF Responsible, Has
<1> QED
  BY <1>1 DEF BlockOK, Unborn

(* It changes hands, ... *)
LEMMA Handover ==
  ASSUME NEW b \in Block, NEW g, home'[b] # NULL, freed'[b] = {},
         \A h : Has(h, b)' <=> h = g
  PROVE  BlockOK(b)'
<1>1. \A h : h \in Responsible(b)' <=> h = g
  BY DEF Responsible, Has
<1> QED
  BY <1>1 DEF BlockOK, Unborn

(* ... or is freed. *)
LEMMA GoneForGood ==
  ASSUME NEW b \in Block, home'[b] # NULL, freed'[b] # {}, \A h : ~Has(h, b)'
  PROVE  BlockOK(b)'
<1>1. \A h : h \notin Responsible(b)'
  BY DEF Responsible, Has
<1> QED
  BY <1>1 DEF BlockOK, Unborn

-----------------------------------------------------------------------------
(* A variable that has a block is its only holder, and the block is not freed. *)
LEMMA OnlyHolder ==
  ASSUME BlockInv, NEW x \in born, NEW b \in Block, var[x].p_ = b
  PROVE  /\ home[b] \in Ptr /\ home[b] # NULL /\ freed[b] = {}
         /\ b \notin taken /\ b \notin lost /\ HasAlone(x, b)
<1>1. Has(x, b) /\ x \in Responsible(b)
  BY DEF Has, HasAlone, Responsible, BlockInv, MemoryTypeOK
<1>2. freed[b] = {} /\ home[b] # NULL /\ \A h \in Responsible(b) : h = x
  BY <1>1 DEF BlockInv, BlockOK, Unborn
<1>3. \A h : Has(h, b) => h \in Responsible(b)
  BY DEF Has, Responsible
<1>4. HasAlone(x, b)
  BY <1>1, <1>2, <1>3 DEF HasAlone
<1>5. x \in Var
  BY DEF BlockInv, MemoryTypeOK
<1> QED
  BY <1>2, <1>4, <1>5, AllocationConstants DEF HasAlone, Has, BlockInv, MemoryTypeOK

(* What a variable does with the members it gives up: nothing if it is empty, *)
(* and else its block is freed at home, or lost.                              *)
LEMMA DestructBlock ==
  ASSUME BlockInv, NEW x \in born, Destruct(var[x])
  PROVE  \/ var[x].p_ = NULL /\ UNCHANGED <<freed, lost>>
         \/ \E b \in Block :
              /\ var[x].p_ = b /\ home[b] \in Ptr /\ freed[b] = {}
              /\ HasAlone(x, b)
              /\ \/ freed' = [freed EXCEPT ![b] = {home[b]}] /\ UNCHANGED lost
                 \/ lost' = lost \cup {b} /\ UNCHANGED freed
<1>1. CASE var[x].p_ = NULL
  BY <1>1 DEF Destruct
<1>2. CASE var[x].p_ # NULL
  <2> DEFINE b == var[x].p_
  <2>1. b \in Block
    BY <1>2 DEF BlockInv, MemoryTypeOK
  <2>2. home[b] \in Ptr /\ freed[b] = {} /\ HasAlone(x, b)
    BY <2>1, OnlyHolder
  <2>3. var[x].allocator_ = home[b]
    BY <1>2 DEF BlockInv, FreedAtHome
  <2> QED
    BY <1>2, <2>1, <2>2, <2>3 DEF Destruct
<1> QED
  BY <1>1, <1>2

(* The block it gave up is then at home, or lost, ... *)
LEMMA GivenUp ==
  ASSUME BlockInv, NEW x \in born, Destruct(var[x]), UNCHANGED <<home, taken>>,
         NEW c \in Block, var[x].p_ = c, \A y \in born' : var'[y].p_ # c
  PROVE  BlockOK(c)'
<1> USE AllocationConstants
<1>1. /\ home[c] # NULL /\ freed[c] = {}
      /\ HasAlone(x, c)
  BY OnlyHolder
<1>2. c \notin taken /\ c \notin lost
  BY OnlyHolder
<1>3. CASE freed' = [freed EXCEPT ![c] = {home[c]}] /\ UNCHANGED lost
  <2>1. home'[c] # NULL /\ freed'[c] # {}
    BY <1>1, <1>3 DEF BlockInv, MemoryTypeOK
  <2>2. \A h : ~Has(h, c)'
    BY <1>2, <1>3 DEF Has, HasAlone
  <2> QED
    BY <2>1, <2>2, GoneForGood
<1>4. CASE lost' = lost \cup {c} /\ UNCHANGED freed
  <2>1. home'[c] # NULL /\ freed'[c] = {}
    BY <1>1, <1>4
  <2>2. \A h : Has(h, c)' <=> h = Nobody
    BY <1>2, <1>4 DEF Has, HasAlone
  <2> QED
    BY <2>1, <2>2, Handover DEF Has, HasAlone
<1> QED
  BY <1>3, <1>4, DestructBlock

(* ... and no other block notices. *)
LEMMA Bystander ==
  ASSUME BlockInv, NEW x \in born, Destruct(var[x]),
         NEW c \in Block, var[x].p_ # c
  PROVE  freed'[c] = freed[c] /\ (c \in lost' <=> c \in lost)
BY DEF Destruct, BlockInv, MemoryTypeOK

(* The destructor keeps the types. *)
LEMMA DestructTypes ==
  ASSUME BlockInv, NEW x \in born, Destruct(var[x]), UNCHANGED home
  PROVE  /\ freed' \in [Block -> SUBSET Ptr] /\ lost' \subseteq Block
         /\ \A c \in Block : freed'[c] \subseteq {home[c]}
<1>1. CASE var[x].p_ = NULL
  BY <1>1 DEF Destruct, BlockInv, MemoryTypeOK, FreedAtHome
<1>2. CASE var[x].p_ # NULL
  <2>1. PICK b \in Block :
          /\ home[b] \in Ptr
          /\ \/ freed' = [freed EXCEPT ![b] = {home[b]}] /\ UNCHANGED lost
             \/ lost' = lost \cup {b} /\ UNCHANGED freed
    BY <1>2, DestructBlock
  <2> QED
    BY <2>1 DEF BlockInv, MemoryTypeOK, FreedAtHome
<1> QED
  BY <1>1, <1>2

(* Every step of a program that uses wrappers and blocks keeps the invariant. *)
LEMMA BlockInvInductive == BlockInv /\ [MemoryNext]_<<vars, blocks>> => BlockInv'
<1> SUFFICES ASSUME BlockInv, [MemoryNext]_<<vars, blocks>> PROVE BlockInv'
  OBVIOUS
<1> USE AllocationConstants, HandleConstants
<1>1. ASSUME UNCHANGED blocks PROVE BlockInv'
  <2>1. ASSUME NEW b \in Block PROVE BlockOK(b)'
    BY <1>1, <2>1 DEF BlockInv, BlockOK, Unborn, Responsible, blocks
  <2> QED
    BY <1>1, <2>1 DEF BlockInv, MemoryTypeOK, FreedAtHome, blocks
<1>2. ASSUME NEW a \in Ptr, NEW b \in Block, Alloc(a, b) PROVE BlockInv'
  <2>1. \A h : ~Has(h, b)
    BY <1>2 DEF Alloc, BlockInv, BlockOK, Responsible, Has, HasAlone
  <2>2. ASSUME NEW c \in Block PROVE BlockOK(c)'
    <3>1. CASE c = b
      <4>1. home'[c] # NULL /\ freed'[c] = {}
        BY <1>2, <3>1 DEF Alloc, BlockInv, BlockOK, MemoryTypeOK
      <4>2. \A h : Has(h, c)' <=> h = App
        BY <1>2, <2>1, <3>1 DEF Alloc, Has, HasAlone
      <4> QED
        BY <4>1, <4>2, Handover
    <3>2. CASE c # b
      <4>1. \A h : Has(h, c)' <=> Has(h, c)
        BY <1>2, <3>2 DEF Alloc, Has, HasAlone
      <4>2. home'[c] = home[c] /\ freed'[c] = freed[c]
        BY <1>2, <3>2 DEF Alloc, BlockInv, MemoryTypeOK
      <4> QED
        BY <4>1, <4>2, SameBlock DEF BlockInv
    <3> QED
      BY <3>1, <3>2
  <2>3. MemoryTypeOK'
    BY <1>2 DEF Alloc, BlockInv, MemoryTypeOK
  <2>4. FreedAtHome'
    <3>1. \A x \in born : var[x].p_ # b
      BY <2>1 DEF Has, HasAlone
    <3>2. freed[b] = {}
      BY <1>2 DEF Alloc, BlockInv, BlockOK
    <3> QED
      BY <1>2, <3>1, <3>2 DEF Alloc, BlockInv, MemoryTypeOK, FreedAtHome
  <2> QED
    BY <1>2, <2>2, <2>3, <2>4 DEF Alloc, BlockInv
<1>3. ASSUME NEW b \in Block, Free(b) PROVE BlockInv'
  <2>1. home[b] # NULL /\ freed[b] = {} /\ HasAlone(App, b)
    <3>1. App \in Responsible(b)
      BY <1>3 DEF Free, Responsible
    <3> QED
      BY <3>1 DEF BlockInv, BlockOK, Unborn, Responsible, Has, HasAlone
  <2>2. home[b] \in Ptr
    BY <2>1 DEF BlockInv, MemoryTypeOK
  <2>3. ASSUME NEW c \in Block PROVE BlockOK(c)'
    <3>1. CASE c = b
      <4>1. home'[c] # NULL /\ freed'[c] # {}
        BY <1>3, <2>1, <3>1 DEF Free, BlockInv, MemoryTypeOK
      <4>2. \A h : ~Has(h, c)'
        BY <1>3, <2>1, <3>1 DEF Free, Has, HasAlone, BlockInv, MemoryTypeOK
      <4> QED
        BY <4>1, <4>2, GoneForGood
    <3>2. CASE c # b
      <4>1. \A h : Has(h, c)' <=> Has(h, c)
        BY <1>3, <3>2 DEF Free, Has, HasAlone
      <4>2. home'[c] = home[c] /\ freed'[c] = freed[c]
        BY <1>3, <3>2 DEF Free, BlockInv, MemoryTypeOK
      <4> QED
        BY <4>1, <4>2, SameBlock DEF BlockInv
    <3> QED
      BY <3>1, <3>2
  <2>4. MemoryTypeOK' /\ FreedAtHome'
    BY <1>3, <2>1, <2>2 DEF Free, BlockInv, MemoryTypeOK, FreedAtHome
  <2> QED
    BY <1>3, <2>3, <2>4 DEF Free, BlockInv
<1>4. ASSUME NEW x \in Var, NEW a \in Ptr, NEW b \in Block, GetAllocation(x, a, b)
      PROVE  BlockInv'
  <2>1. freed[b] = {} /\ \A h : ~Has(h, b)
    BY <1>4 DEF GetAllocation, BlockInv, BlockOK, Responsible, Has, HasAlone
  <2>2. MemoryTypeOK'
    BY <1>4 DEF GetAllocation, BlockInv, MemoryTypeOK, Members
  <2>3. /\ var'[x] = Members(a, b) /\ x \in born'
        /\ \A y \in Var \ {x} : var'[y] = var[y] /\ (y \in born' <=> y \in born)
    BY <1>4 DEF GetAllocation, BlockInv, MemoryTypeOK
  <2>4. FreedAtHome'
    <3>1. ASSUME NEW y \in born', var'[y].p_ # NULL
          PROVE  var'[y].allocator_ = home'[var'[y].p_]
      <4>1. CASE y = x
        BY <1>4, <2>3, <4>1 DEF GetAllocation, BlockInv, MemoryTypeOK, Members
      <4>2. CASE y # x
        <5>1. y \in born /\ var'[y] = var[y] /\ var[y].p_ # b
          BY <2>1, <2>2, <2>3, <4>2 DEF Has, HasAlone, MemoryTypeOK
        <5> QED
          BY <1>4, <3>1, <5>1 DEF GetAllocation, BlockInv, MemoryTypeOK, FreedAtHome
      <4> QED
        BY <4>1, <4>2
    <3> QED
      BY <1>4, <2>1, <3>1 DEF GetAllocation, BlockInv, MemoryTypeOK, FreedAtHome
  <2>5. ASSUME NEW c \in Block PROVE BlockOK(c)'
    <3>1. CASE c = b
      <4>1. home'[c] # NULL /\ freed'[c] = {}
        BY <1>4, <2>1, <3>1 DEF GetAllocation, BlockInv, MemoryTypeOK
      <4>2. \A h : Has(h, c)' <=> h = x
        BY <1>4, <2>1, <2>3, <3>1 DEF GetAllocation, Has, HasAlone, Members, BlockInv, MemoryTypeOK
      <4> QED
        BY <4>1, <4>2, Handover
    <3>2. CASE c # b
      <4>1. \A h : Has(h, c)' <=> Has(h, c)
        BY <1>4, <2>3, <3>2 DEF GetAllocation, Has, HasAlone, Members, BlockInv, MemoryTypeOK
      <4>2. home'[c] = home[c] /\ freed'[c] = freed[c]
        BY <1>4, <3>2 DEF GetAllocation, BlockInv, MemoryTypeOK
      <4> QED
        BY <4>1, <4>2, SameBlock DEF BlockInv
    <3> QED
      BY <3>1, <3>2
  <2> QED
    BY <1>4, <2>2, <2>3, <2>4, <2>5 DEF GetAllocation, BlockInv
<1>5. ASSUME NEW x \in Var, NEW b \in Block, WrapBlock(x, b) PROVE BlockInv'
  <2>1. home[b] \in Ptr /\ freed[b] = {} /\ HasAlone(App, b)
    <3>1. App \in Responsible(b)
      BY <1>5 DEF WrapBlock, Responsible
    <3> QED
      BY <3>1 DEF BlockInv, BlockOK, Unborn, Responsible, Has, HasAlone, MemoryTypeOK
  <2>2. MemoryTypeOK'
    BY <1>5, <2>1 DEF WrapBlock, BlockInv, MemoryTypeOK, Members
  <2>3. /\ var'[x] = Members(home[b], b) /\ x \in born' /\ x \notin born
        /\ \A y \in Var \ {x} : var'[y] = var[y] /\ (y \in born' <=> y \in born)
    BY <1>5 DEF WrapBlock, BlockInv, MemoryTypeOK
  <2>4. FreedAtHome'
    <3>1. ASSUME NEW y \in born', var'[y].p_ # NULL
          PROVE  var'[y].allocator_ = home'[var'[y].p_]
      BY <1>5, <2>2, <2>3, <3>1 DEF WrapBlock, BlockInv, MemoryTypeOK, FreedAtHome, Members
    <3> QED
      BY <1>5, <3>1 DEF WrapBlock, BlockInv, FreedAtHome
  <2>5. ASSUME NEW c \in Block PROVE BlockOK(c)'
    <3>1. home'[c] = home[c] /\ freed'[c] = freed[c]
      BY <1>5 DEF WrapBlock
    <3>2. CASE c = b
      <4>1. \A h : Has(h, c)' <=> h = x
        BY <1>5, <2>1, <2>3, <3>2 DEF WrapBlock, Has, HasAlone, Members, BlockInv, MemoryTypeOK
      <4> QED
        BY <2>1, <3>1, <3>2, <4>1, Handover, HandleConstants
    <3>3. CASE c # b
      <4>1. \A h : Has(h, c)' <=> Has(h, c)
        BY <1>5, <2>3, <3>3 DEF WrapBlock, Has, HasAlone, Members, BlockInv, MemoryTypeOK
      <4> QED
        BY <3>1, <4>1, SameBlock DEF BlockInv
    <3> QED
      BY <3>2, <3>3
  <2> QED
    BY <1>5, <2>2, <2>3, <2>4, <2>5 DEF WrapBlock, BlockInv
<1>6. ASSUME NEW x \in Var, NEW o \in Var, MoveBlock(x, o) PROVE BlockInv'
  <2>1. /\ x # o /\ var'[x] = var[o] /\ var'[o] = Empty /\ born' = born \cup {x}
        /\ x \notin born /\ o \in born
        /\ \A y \in Var \ {x, o} : var'[y] = var[y]
    BY <1>6 DEF MoveBlock, BlockInv, MemoryTypeOK
  <2>2. MemoryTypeOK'
    BY <1>6 DEF MoveBlock, BlockInv, MemoryTypeOK, Members, Empty
  <2>3. FreedAtHome'
    BY <1>6, <2>1, <2>2 DEF MoveBlock, BlockInv, MemoryTypeOK, FreedAtHome, Members, Empty
  <2>4. ASSUME NEW c \in Block PROVE BlockOK(c)'
    <3>1. home'[c] = home[c] /\ freed'[c] = freed[c]
      BY <1>6 DEF MoveBlock
    <3>2. CASE var[o].p_ = c
      <4>1. /\ home[c] # NULL /\ freed[c] = {}
            /\ c \notin taken /\ c \notin lost /\ HasAlone(o, c)
        BY <2>1, <3>2, OnlyHolder
      <4>2. \A h : Has(h, c)' <=> h = x
        <5>1. ASSUME NEW y \in born', y # x PROVE var'[y].p_ # c
          <6>1. CASE y = o
            BY <2>1, <6>1 DEF Empty, Members
          <6>2. CASE y # o
            BY <2>1, <4>1, <5>1, <6>2 DEF HasAlone, Has, BlockInv, MemoryTypeOK
          <6> QED
            BY <6>1, <6>2
        <5> QED
          BY <1>6, <2>1, <3>2, <4>1, <5>1 DEF MoveBlock, Has
      <4>3. home'[c] # NULL /\ freed'[c] = {}
        BY <3>1, <4>1
      <4> QED
        BY <4>2, <4>3, Handover DEF Has
    <3>3. CASE var[o].p_ # c
      <4>1. \A h : Has(h, c)' <=> Has(h, c)
        BY <1>6, <2>1, <3>3 DEF MoveBlock, Has, HasAlone, Members, Empty, BlockInv, MemoryTypeOK
      <4> QED
        BY <3>1, <4>1, SameBlock DEF BlockInv
    <3> QED
      BY <3>2, <3>3
  <2> QED
    BY <1>6, <2>1, <2>2, <2>3, <2>4 DEF BlockInv, Empty, Members
<1>7. ASSUME NEW x \in Var, NEW o \in Var, AssignBlock(x, o) PROVE BlockInv'
  <2>1. /\ x \in born /\ o \in born /\ Destruct(var[x])
        /\ UNCHANGED <<home, taken, born>>
    BY <1>7 DEF AssignBlock
  <2>2. /\ var' \in [Var -> [allocator_ : Ptr \cup {NULL}, p_ : Block \cup {NULL}]]
        /\ var'[x] = IF x = o THEN Empty ELSE var[o]
        /\ var'[o] = Empty
        /\ \A y \in Var \ {x, o} : var'[y] = var[y]
    BY <1>7 DEF AssignBlock, BlockInv, MemoryTypeOK, Members, Empty
  <2>3. MemoryTypeOK'
    BY <2>1, <2>2, DestructTypes DEF BlockInv, MemoryTypeOK
  <2>4. FreedAtHome'
    BY <2>1, <2>2, DestructTypes DEF BlockInv, MemoryTypeOK, FreedAtHome, Members, Empty
  <2>5. ASSUME NEW c \in Block PROVE BlockOK(c)'
    <3>1. CASE var[x].p_ = c
      <4>1. HasAlone(x, c)
        BY <2>1, <3>1, OnlyHolder
      <4>2. \A y \in born' : var'[y].p_ # c
        BY <2>1, <2>2, <4>1 DEF Has, HasAlone, Members, Empty, BlockInv, MemoryTypeOK
      <4> QED
        BY <2>1, <3>1, <4>2, GivenUp
    <3>2. CASE var[x].p_ # c
      <4>1. home'[c] = home[c] /\ freed'[c] = freed[c] /\ (c \in lost' <=> c \in lost)
        BY <2>1, <3>2, Bystander
      <4>2. CASE var[o].p_ = c
        <5>1. home[c] # NULL /\ freed[c] = {} /\ HasAlone(o, c)
          BY <2>1, <4>2, OnlyHolder
        <5>2. \A h : Has(h, c)' <=> h = x
          BY <2>1, <2>2, <3>2, <4>1, <4>2, <5>1
             DEF Has, HasAlone, Members, Empty, BlockInv, MemoryTypeOK
        <5> QED
          BY <4>1, <5>1, <5>2, Handover
      <4>3. CASE var[o].p_ # c
        <5>1. \A h : Has(h, c)' <=> Has(h, c)
          BY <2>1, <2>2, <3>2, <4>1, <4>3 DEF Has, HasAlone, Members, Empty, BlockInv, MemoryTypeOK
        <5> QED
          BY <4>1, <5>1, SameBlock DEF BlockInv
      <4> QED
        BY <4>2, <4>3
    <3> QED
      BY <3>1, <3>2
  <2> QED
    BY <2>1, <2>2, <2>3, <2>4, <2>5 DEF BlockInv
<1>8. ASSUME NEW x \in Var, DestroyBlock(x) PROVE BlockInv'
  <2>1. /\ x \in born /\ Destruct(var[x]) /\ UNCHANGED <<home, taken>>
        /\ born' = born \ {x}
    BY <1>8 DEF DestroyBlock
  <2>2. /\ var' \in [Var -> [allocator_ : Ptr \cup {NULL}, p_ : Block \cup {NULL}]]
        /\ var'[x] = Empty /\ \A y \in Var \ {x} : var'[y] = var[y]
    BY <1>8 DEF DestroyBlock, BlockInv, MemoryTypeOK, Members, Empty
  <2>3. MemoryTypeOK'
    BY <2>1, <2>2, DestructTypes DEF BlockInv, MemoryTypeOK
  <2>4. FreedAtHome'
    BY <2>1, <2>2, DestructTypes DEF BlockInv, MemoryTypeOK, FreedAtHome
  <2>5. ASSUME NEW c \in Block PROVE BlockOK(c)'
    <3>1. CASE var[x].p_ = c
      <4>1. HasAlone(x, c)
        BY <2>1, <3>1, OnlyHolder
      <4>2. \A y \in born' : var'[y].p_ # c
        BY <2>1, <2>2, <4>1 DEF Has, HasAlone, BlockInv, MemoryTypeOK
      <4> QED
        BY <2>1, <3>1, <4>2, GivenUp
    <3>2. CASE var[x].p_ # c
      <4>1. home'[c] = home[c] /\ freed'[c] = freed[c] /\ (c \in lost' <=> c \in lost)
        BY <2>1, <3>2, Bystander
      <4>2. \A h : Has(h, c)' <=> Has(h, c)
        BY <2>1, <2>2, <3>2, <4>1 DEF Has, HasAlone, BlockInv, MemoryTypeOK
      <4> QED
        BY <4>1, <4>2, SameBlock DEF BlockInv
    <3> QED
      BY <3>1, <3>2
  <2> QED
    BY <2>1, <2>2, <2>3, <2>4, <2>5 DEF BlockInv, Empty, Members
<1> QED
  BY <1>1, <1>2, <1>3, <1>4, <1>5, <1>6, <1>7, <1>8 DEF MemoryNext, MemoryStep, blocks

(* Nothing has been handed out at first. *)
LEMMA BlockInvInitially == MemoryInit => BlockInv
BY AllocationConstants, HandleConstants
   DEF MemoryInit, BlockInv, MemoryTypeOK, FreedAtHome, BlockOK, Unborn, Responsible,
       Empty, Members

(* The inductive invariant holds in every state. *)
LEMMA BlocksKept == MemorySpec => []BlockInv
BY BlockInvInitially, BlockInvInductive, PTL DEF MemorySpec

(* MemoryTypeOK holds in every reachable state. *)
THEOREM MemoryTypeCorrect == MemorySpec => []MemoryTypeOK
<1>1. BlockInv => MemoryTypeOK
  BY DEF BlockInv
<1> QED
  BY <1>1, BlocksKept, PTL

(* A block is freed through no allocator but its own, however often the       *)
(* MemoryAllocation that holds it is moved, assigned (to itself, too) and     *)
(* whatever order the application destroys them in.                           *)
THEOREM BlocksFreedAtHome == MemorySpec => []FreedAtHome
<1>1. BlockInv => FreedAtHome
  BY DEF BlockInv
<1> QED
  BY <1>1, BlocksKept, PTL

-----------------------------------------------------------------------------
(* Refinement. *)

(* What a step does to one block: its allocator never changes, a block that   *)
(* is freed stays so, and one that is handed out is not freed by the same step. *)
BlockStep(b) ==
  /\ home[b] # NULL => home'[b] = home[b]
  /\ freed[b] \subseteq freed'[b]
  /\ freed'[b] = freed[b] \/ home[b] # NULL

(* A block is handed out once and freed after that. *)
LEMMA BlockLife ==
  ASSUME BlockInv, [MemoryNext]_<<vars, blocks>>, NEW b \in Block
  PROVE  BlockStep(b)
<1> USE DEF BlockInv, MemoryTypeOK, BlockStep
<1>1. ASSUME UNCHANGED <<home, freed>> PROVE BlockStep(b)
  BY <1>1
<1>2. ASSUME NEW a \in Ptr, NEW c \in Block, Alloc(a, c) PROVE BlockStep(b)
  BY <1>2 DEF Alloc, Unborn
<1>3. ASSUME NEW x \in Var, NEW a \in Ptr, NEW c \in Block, GetAllocation(x, a, c)
      PROVE  BlockStep(b)
  BY <1>3 DEF GetAllocation, Unborn
<1>4. ASSUME NEW c \in Block, Free(c) PROVE BlockStep(b)
  <2>1. App \in Responsible(c)
    BY <1>4 DEF Free, Responsible
  <2>2. home[c] # NULL
    BY <2>1 DEF BlockOK, Unborn
  <2>3. /\ home'[b] = home[b] /\ freed[b] \subseteq freed'[b]
        /\ c # b => freed'[b] = freed[b]
    BY <1>4 DEF Free
  <2> QED
    BY <2>2, <2>3
<1>5. ASSUME NEW x \in born, Destruct(var[x]), UNCHANGED home PROVE BlockStep(b)
  <2>1. CASE var[x].p_ = b
    <3>1. home[b] # NULL /\ freed[b] = {}
      BY <1>5, <2>1, OnlyHolder
    <3> QED
      BY <1>5, <3>1
  <2>2. CASE var[x].p_ # b
    BY <1>5, <2>2, Bystander
  <2> QED
    BY <2>1, <2>2
<1>6. ASSUME NEW x \in Var, NEW o \in Var, AssignBlock(x, o) \/ DestroyBlock(x)
      PROVE  BlockStep(b)
  BY <1>5, <1>6 DEF AssignBlock, DestroyBlock
<1>7. ASSUME NEW x \in Var, NEW o \in Var, NEW c \in Block,
             WrapBlock(x, c) \/ MoveBlock(x, o)
      PROVE  BlockStep(b)
  BY <1>1, <1>7 DEF WrapBlock, MoveBlock
<1> QED
  BY <1>1, <1>2, <1>3, <1>4, <1>6, <1>7 DEF MemoryNext, MemoryStep, blocks

(* Under the invariant the mapping yields a state of the abstract life. *)
MappedBlocks ==
  \A b \in Block :
    /\ home[b] = NULL => BlockHolder(b) = Blocks!Unborn
    /\ home[b] # NULL /\ freed[b] = {} => BlockHolder(b) \in Blocks!Held
    /\ home[b] # NULL /\ freed[b] # {} => BlockHolder(b) = Blocks!Gone

(* The refinement mapping sends every state of the invariant to a state of    *)
(* the abstract life.                                                         *)
LEMMA MappedBlock == BlockInv => MappedBlocks
<1> SUFFICES ASSUME BlockInv, NEW b \in Block
             PROVE  /\ home[b] = NULL => BlockHolder(b) = Blocks!Unborn
                    /\ home[b] # NULL /\ freed[b] = {} => BlockHolder(b) \in Blocks!Held
                    /\ home[b] # NULL /\ freed[b] # {} => BlockHolder(b) = Blocks!Gone
  BY DEF MappedBlocks
<1>1. BlockOK(b)
  BY DEF BlockInv
<1>2. CASE home[b] = NULL
  BY <1>2 DEF BlockHolder, Blocks!Unborn, Unborn
<1>3. CASE home[b] # NULL /\ freed[b] # {}
  BY <1>1, <1>3 DEF BlockHolder, BlockOK, Blocks!Gone, Unborn
<1>4. CASE home[b] # NULL /\ freed[b] = {}
  <2>1. PICK h \in Responsible(b) : TRUE
    BY <1>1, <1>4 DEF BlockOK, Unborn
  <2>2. h \in Var \cup {App, Nobody}
    BY <2>1 DEF Responsible, BlockInv, MemoryTypeOK
  <2>3. Responsible(b) = {h}
    BY <1>1, <2>1 DEF BlockOK
  <2>4. BlockHolder(b) = <<"held", h>>
    <3>1. (CHOOSE k \in Responsible(b) : TRUE) = h
      BY <2>3
    <3> QED
      BY <1>4, <2>2, <2>3, <3>1 DEF BlockHolder, Unborn
  <2> QED
    BY <1>4, <2>2, <2>4 DEF Blocks!Held
<1> QED
  BY <1>2, <1>3, <1>4

(* MemoryAllocation implements the exclusive ownership of resources: a block  *)
(* has one holder until it is freed and is freed once, also when a variable   *)
(* is assigned to itself.                                                     *)
THEOREM BlocksRefinement == MemorySpec => BlocksImplementOwnership
<1> DEFINE holder == [b \in Block |-> BlockHolder(b)]
<1>1. MemoryInit => Blocks!Init
  BY DEF MemoryInit, Blocks!Init, Blocks!Unborn, BlockHolder, Unborn
<1>2. BlockInv /\ BlockInv' /\ [MemoryNext]_<<vars, blocks>> => [Blocks!Next]_holder
  <2> SUFFICES ASSUME BlockInv, BlockInv', [MemoryNext]_<<vars, blocks>>
               PROVE  Blocks!Next
    OBVIOUS
  <2>1. MappedBlocks /\ MappedBlocks'
    BY MappedBlock, PTL
  <2>2. ASSUME NEW b \in Block
        PROVE  /\ BlockHolder(b)' \in Blocks!Held \cup {Blocks!Unborn, Blocks!Gone}
               /\ Blocks!Lawful(BlockHolder(b), BlockHolder(b)')
    <3>1. BlockStep(b)
      BY BlockLife
    <3>2. home'[b] = NULL => freed'[b] = {}
      BY DEF BlockInv, BlockOK, Unborn
    <3>3. freed[b] # {} => home[b] # NULL
      BY DEF BlockInv, BlockOK, Unborn
    <3> QED
      BY <2>1, <3>1, <3>2, <3>3 DEF BlockStep, MappedBlocks, Blocks!Lawful
  <2> QED
    BY <2>2 DEF Blocks!Next
<1> QED
  BY <1>1, <1>2, BlocksKept, PTL DEF MemorySpec, BlocksImplementOwnership, Blocks!Spec

-----------------------------------------------------------------------------
(* Allocators and blocks together. *)

(* A program that uses both is a program that uses wrappers. *)
LEMMA WrappersRun == MemorySpec => Spec
<1>1. MemoryInit => Init
  BY DEF MemoryInit
<1>2. [MemoryNext]_<<vars, blocks>> => [Next]_vars
  BY DEF MemoryNext
<1> QED
  BY <1>1, <1>2, PTL DEF MemorySpec, Spec

(* What the application's promise KeepsAllocators comes to. *)
AllocatorsLive == \A b \in Block : Outstanding(b) => heap[home[b]] = "live"

(* When no wrapper function is in progress a complete wrapper's object is live. *)
LEMMA AllocatorIsLive ==
  ASSUME IInv, call = Idle, NEW a \in Allocators PROVE heap[a] = "live"
<1>1. PICK s \in Slot : p[s] = a /\ p[s] # NULL
  BY DEF Allocators, IInv, TypeInv, TypeOK
<1> QED
  BY <1>1, WrapperOwns DEF Idle

(* Only Alloc and GetAllocation put a block out, and they know its allocator. *)
LEMMA StillOut ==
  ASSUME BlockInv, MemoryStep, NEW b \in Block, Outstanding(b)'
  PROVE  (Outstanding(b) /\ home'[b] = home[b]) \/ home'[b] \in Allocators
<1> USE DEF Outstanding, BlockInv, MemoryTypeOK
<1>1. ASSUME NEW a \in Ptr, NEW c \in Block, Alloc(a, c)
      PROVE  (Outstanding(b) /\ home'[b] = home[b]) \/ home'[b] \in Allocators
  BY <1>1 DEF Alloc
<1>2. ASSUME NEW c \in Block, Free(c) PROVE Outstanding(b) /\ home'[b] = home[b]
  BY <1>2 DEF Free
<1>3. ASSUME NEW x \in Var, NEW a \in Ptr, NEW c \in Block, GetAllocation(x, a, c)
      PROVE  (Outstanding(b) /\ home'[b] = home[b]) \/ home'[b] \in Allocators
  <2>1. CASE b = c
    BY <1>3, <2>1 DEF GetAllocation
  <2>2. CASE b # c
    BY <1>3, <2>2 DEF GetAllocation, Members
  <2> QED
    BY <2>1, <2>2
<1>4. ASSUME NEW x \in Var, NEW c \in Block, WrapBlock(x, c)
      PROVE  Outstanding(b) /\ home'[b] = home[b]
  BY <1>4 DEF WrapBlock, Members
<1>5. ASSUME NEW x \in Var, NEW o \in Var, MoveBlock(x, o)
      PROVE  Outstanding(b) /\ home'[b] = home[b]
  BY <1>5, AllocationConstants DEF MoveBlock, Members, Empty
<1>6. ASSUME NEW x \in Var, NEW o \in Var, AssignBlock(x, o)
      PROVE  Outstanding(b) /\ home'[b] = home[b]
  BY <1>6, AllocationConstants DEF AssignBlock, Members, Empty
<1>7. ASSUME NEW x \in Var, DestroyBlock(x)
      PROVE  Outstanding(b) /\ home'[b] = home[b]
  BY <1>7 DEF DestroyBlock
<1> QED
  BY <1>1, <1>2, <1>3, <1>4, <1>5, <1>6, <1>7 DEF MemoryStep

(* A block is freed by whoever had it. *)
LEMMA FreedWasOut ==
  ASSUME BlockInv, MemoryStep, NEW b \in Block, freed'[b] # freed[b]
  PROVE  Outstanding(b) /\ freed'[b] \ freed[b] \subseteq {home[b]}
<1>1. ASSUME NEW c \in Block, Free(c)
      PROVE  Outstanding(b) /\ freed'[b] \ freed[b] \subseteq {home[b]}
  BY <1>1 DEF Free, Outstanding, BlockInv, MemoryTypeOK
<1>2. ASSUME NEW x \in born, Destruct(var[x])
      PROVE  Outstanding(b) /\ freed'[b] \ freed[b] \subseteq {home[b]}
  <2>1. var[x].p_ = b
    BY <1>2, Bystander
  <2> QED
    BY <1>2, <2>1 DEF Destruct, Outstanding, BlockInv, MemoryTypeOK, FreedAtHome
<1>3. UNCHANGED freed \/ (\E c \in Block : Free(c)) \/ \E x \in born : Destruct(var[x])
  BY DEF MemoryStep, Alloc, GetAllocation, WrapBlock, MoveBlock, AssignBlock, DestroyBlock
<1> QED
  BY <1>1, <1>2, <1>3

(* Every step keeps the allocators of the blocks that are out. *)
LEMMA AllocatorsKept ==
  ASSUME IInv, BlockInv, AllocatorsLive, [MemoryNext]_<<vars, blocks>>
  PROVE  AllocatorsLive'
<1>1. CASE Next /\ UNCHANGED blocks /\ KeepsAllocators
  BY <1>1 DEF AllocatorsLive, Outstanding, KeepsAllocators, blocks
<1>2. CASE call = Idle /\ MemoryStep /\ UNCHANGED vars
  <2>1. ASSUME NEW b \in Block, Outstanding(b)' PROVE heap'[home'[b]] = "live"
    <3>1. heap' = heap
      BY <1>2 DEF vars
    <3>2. CASE Outstanding(b) /\ home'[b] = home[b]
      BY <3>1, <3>2 DEF AllocatorsLive
    <3>3. CASE home'[b] \in Allocators
      BY <1>2, <3>1, <3>3, AllocatorIsLive
    <3> QED
      BY <1>2, <2>1, <3>2, <3>3, StillOut
  <2> QED
    BY <2>1 DEF AllocatorsLive
<1>3. CASE UNCHANGED <<vars, blocks>>
  BY <1>3 DEF AllocatorsLive, Outstanding, vars, blocks
<1> QED
  BY <1>1, <1>2, <1>3 DEF MemoryNext

(* No block is freed through an allocator that has been released, provided    *)
(* that the application keeps allocators until their blocks are back and moves *)
(* no wrapper onto itself.                                                    *)
THEOREM AllocatorsOutlive ==
  ASSUME ~AllowSelfMove PROVE MemorySpec => FreesThroughLive
<1>1. MemoryInit => AllocatorsLive
  BY DEF MemoryInit, AllocatorsLive, Outstanding
<1>2. IInv /\ BlockInv /\ AllocatorsLive /\ [MemoryNext]_<<vars, blocks>>
        => AllocatorsLive'
  BY AllocatorsKept
<1>3. BlockInv /\ AllocatorsLive /\ [MemoryNext]_<<vars, blocks>>
        => [\A b \in Block :
              freed'[b] \ freed[b] \subseteq {q \in Ptr : heap[q] = "live"}]_<<vars, blocks>>
  <2> SUFFICES ASSUME BlockInv, AllocatorsLive, [MemoryNext]_<<vars, blocks>>,
                      NEW b \in Block, freed'[b] # freed[b]
               PROVE  freed'[b] \ freed[b] \subseteq {q \in Ptr : heap[q] = "live"}
    OBVIOUS
  <2>1. MemoryStep
    BY DEF MemoryNext, blocks
  <2>2. Outstanding(b) /\ freed'[b] \ freed[b] \subseteq {home[b]}
    BY <2>1, FreedWasOut
  <2>3. freed'[b] \ freed[b] \subseteq Ptr
    BY <2>1, BlockInvInductive DEF BlockInv, MemoryTypeOK
  <2> QED
    BY <2>2, <2>3 DEF AllocatorsLive
<1>4. Spec => []IInv
  BY ~AllowSelfMove, InvariantHolds
<1>5. MemorySpec => [](IInv /\ BlockInv)
  BY <1>4, WrappersRun, BlocksKept, PTL
<1> QED
  BY <1>1, <1>2, <1>3, <1>5, PTL DEF MemorySpec, FreesThroughLive
=============================================================================
