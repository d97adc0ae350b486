--------------------------- MODULE AttributeReads ---------------------------
(***************************************************************************)
(* What the constructor of a kernel reads about its node, each with two    *)
(* calls to the runtime, one for the size and one for the contents:        *)
(*   "name"    KernelInfo::GetInputName, GetOutputName, GetNodeName        *)
(*   "string"  KernelInfo::GetAttribute of a string                        *)
(*   "array"   KernelInfo::GetAttributes, of floats or integers            *)
(*   "element" Value::GetStringTensorElement, of a constant input          *)
(* Names and strings are read with a terminating NUL that is cut off.  A   *)
(* value of length n is <<1, ..., n>>; the NUL, and what resize() puts     *)
(* into new room, is 0.                                                    *)
(***************************************************************************)
EXTENDS Naturals, Sequences

CONSTANTS MaxLength   \* bound on the length of a value

ASSUME ReadConstants == MaxLength \in Nat

Kind == {"name", "string", "array", "element"}
Old == <<MaxLength + 1>>   \* what the caller's variable holds before

VARIABLE read   \* the read in progress: its pc, kind, the value's length, size,
                \* the local string or vector, the caller's variable, and whether
                \* the runtime wrote outside the local
Nothing == [pc |-> "idle", kind |-> "name", length |-> 0, size |-> 0,
            out |-> <<>>, result |-> Old, overrun |-> FALSE]

ReadInit == read = Nothing

Zeros(n) == [i \in 1..n |-> 0]
Whole(n) == [i \in 1..n |-> i]
WithNul(kind) == kind \in {"name", "string"}

(* What the runtime writes, and the size that it asks for. *)
Contents(kind, n) == IF WithNul(kind) THEN Append(Whole(n), 0) ELSE Whole(n)
TrueSize(kind, n) == Len(Contents(kind, n))

-----------------------------------------------------------------------------
BeginRead(kind, n) ==
  /\ read.pc = "idle"
  /\ read' = [Nothing EXCEPT !.pc = "query", !.kind = kind, !.length = n]

(* The call with a null buffer. *)
Query ==
  /\ read.pc = "query"
  /\ read' = [read EXCEPT !.pc = "resize", !.size = TrueSize(read.kind, read.length)]

(* Slip: no room for the NUL. *)
ResizeNoNul ==
  /\ read.pc = "resize"
  /\ read' = [read EXCEPT !.pc = "fill",
                !.out = Zeros(IF WithNul(read.kind) THEN read.size - 1 ELSE read.size)]

Resize ==
  /\ read.pc = "resize"
  /\ read' = [read EXCEPT !.pc = "fill", !.out = Zeros(read.size)]

(* The call with the buffer.  The data() of an empty vector may be null, and *)
(* the call then asks for the size again: it is still 0.                     *)
FillOut ==
  /\ read.pc = "fill" /\ read.size >= TrueSize(read.kind, read.length)
  /\ LET c == Contents(read.kind, read.length)
     IN read' = [read EXCEPT !.pc = "cut", !.size = Len(c),
                   !.out = [i \in DOMAIN @ |-> IF i <= Len(c) THEN c[i] ELSE @[i]],
                   !.overrun = Len(c) > Len(read.out)]

(* Either call returns a status, or resize() throws std::bad_alloc. *)
ReadFails ==
  /\ read.pc \in {"query", "resize", "fill"}
  /\ read' = [read EXCEPT !.pc = "threw"]

(* The NUL goes, and the caller's variable gets the local. *)
CutAndReturn ==
  /\ read.pc = "cut"
  /\ read' = [read EXCEPT !.pc = "returned",
                !.result = IF WithNul(read.kind) THEN SubSeq(read.out, 1, read.size - 1)
                           ELSE read.out]

(* The caller has seen the value or the exception. *)
EndRead == read' = Nothing

ReadStep ==
  \/ \E kind \in Kind, n \in 0..MaxLength : BeginRead(kind, n)
  \/ Query \/ Resize \/ FillOut \/ ReadFails \/ CutAndReturn

-----------------------------------------------------------------------------
ReadTypeOK ==
  /\ read.pc \in {"idle", "query", "resize", "fill", "cut", "returned", "threw"}
  /\ read.kind \in Kind /\ read.length \in 0..MaxLength
  /\ read.size \in 0..(MaxLength + 1)
  /\ read.out \in Seq(0..MaxLength) /\ read.result \in Seq(0..(MaxLength + 1))
  /\ read.overrun \in BOOLEAN

(* A read gives its caller the whole value and nothing more, or leaves the   *)
(* caller's variable alone; the runtime writes only into the local.          *)
ReadsAllOrNothing ==
  /\ read.result = IF read.pc = "returned" THEN Whole(read.length) ELSE Old
  /\ ~read.overrun
=============================================================================
