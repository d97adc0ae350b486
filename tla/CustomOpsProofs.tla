-------------------------- MODULE CustomOpsProofs --------------------------
(***************************************************************************)
(* Custom operators for every number of nodes and threads, every set of    *)
(* severity levels and messages of any length: the function table is used  *)
(* where it is set, messages are sent as they were formatted or their      *)
(* failure shows, and attributes are read whole or not at all.             *)
(***************************************************************************)
EXTENDS CustomOps, SequenceTheorems, TLAPS

-----------------------------------------------------------------------------
(* Reading attributes. *)

(* The runtime writes values of the right kind, as many as it said. *)
LEMMA ContentsAre ==
  ASSUME NEW kind \in Kind, NEW n \in 0..MaxLength
  PROVE  /\ Contents(kind, n) \in Seq(0..MaxLength)
         /\ Len(Contents(kind, n)) = IF WithNul(kind) THEN n + 1 ELSE n
         /\ Len(Contents(kind, n)) \in 0..(MaxLength + 1)
         /\ \A i \in 1..n : Contents(kind, n)[i] = i
<1>1. Whole(n) \in Seq(0..MaxLength) /\ Len(Whole(n)) = n
  BY ReadConstants DEF Whole
<1>2. \A i \in 1..n : Whole(n)[i] = i
  BY DEF Whole
<1>3. CASE WithNul(kind)
  <2> USE ReadConstants
  <2>1. Contents(kind, n) = Append(Whole(n), 0) /\ 0 \in 0..MaxLength
    BY <1>3, ReadConstants DEF Contents
  <2>2. \A i \in 1..n : Append(Whole(n), 0)[i] = Whole(n)[i]
    BY <1>1, ReadConstants
  <2> QED
    BY <1>1, <1>2, <1>3, <2>1, <2>2
<1>4. CASE ~WithNul(kind)
  BY <1>1, <1>2, <1>4, ReadConstants DEF Contents
<1> QED
  BY <1>3, <1>4

(* Without its NUL, what was written is the value. *)
LEMMA NulIsCut ==
  ASSUME NEW kind \in Kind, NEW n \in 0..MaxLength, WithNul(kind)
  PROVE  SubSeq(Contents(kind, n), 1, Len(Contents(kind, n)) - 1) = Whole(n)
<1> DEFINE c == Contents(kind, n)
<1>1. c \in Seq(0..MaxLength) /\ Len(c) = n + 1 /\ \A i \in 1..n : c[i] = i
  BY ContentsAre
<1>2. SubSeq(c, 1, n) = [i \in 1..n |-> c[i]]
  BY <1>1
<1> QED
  BY <1>1, <1>2 DEF Whole

(* How far a read has come. *)
ReadOK ==
  /\ read \in [pc : {"idle", "query", "resize", "fill", "cut", "returned", "threw"},
              kind : Kind, length : 0..MaxLength, size : 0..(MaxLength + 1),
              out : Seq(0..MaxLength), result : Seq(0..(MaxLength + 1)),
              overrun : BOOLEAN]
  /\ ReadsAllOrNothing
  /\ read.pc \in {"resize", "fill"} => read.size = TrueSize(read.kind, read.length)
  /\ read.pc = "fill" => read.out = Zeros(read.size)
  /\ read.pc = "cut" => /\ read.out = Contents(read.kind, read.length)
                        /\ read.size = Len(read.out)

(* No read is in progress at first, or when the last one is over. *)
LEMMA NothingRead == ReadOK' \/ read' # Nothing
<1> SUFFICES ASSUME read' = Nothing PROVE ReadOK'
  OBVIOUS
<1>1. /\ <<>> \in Seq(0..MaxLength) /\ Old \in Seq(0..(MaxLength + 1))
      /\ 0 \in 0..MaxLength /\ 0 \in 0..(MaxLength + 1)
  BY ReadConstants DEF Old
<1> QED
  BY <1>1 DEF ReadOK, ReadsAllOrNothing, Nothing, Kind

(* A step of a read keeps what is known of it. *)
LEMMA ReadStepOK == ReadOK /\ ReadStep => ReadOK'
<1> SUFFICES ASSUME ReadOK, ReadStep PROVE ReadOK'
  OBVIOUS
<1> USE ReadConstants
<1> read.kind \in Kind /\ read.length \in 0..MaxLength
  BY DEF ReadOK
<1>1. ASSUME NEW kind \in Kind, NEW n \in 0..MaxLength, BeginRead(kind, n)
      PROVE  ReadOK'
  <2>1. /\ <<>> \in Seq(0..MaxLength) /\ Old \in Seq(0..(MaxLength + 1))
        /\ 0 \in 0..(MaxLength + 1)
    BY DEF Old
  <2> QED
    BY <1>1, <2>1 DEF BeginRead, ReadOK, ReadsAllOrNothing, Nothing
<1>2. ASSUME Query PROVE ReadOK'
  <2>1. TrueSize(read.kind, read.length) \in 0..(MaxLength + 1)
    BY ContentsAre DEF TrueSize
  <2> QED
    BY <1>2, <2>1 DEF Query, ReadOK, ReadsAllOrNothing
<1>3. ASSUME Resize PROVE ReadOK'
  <2>1. Zeros(read.size) \in Seq(0..MaxLength)
    BY DEF ReadOK, Zeros
  <2> QED
    BY <1>3, <2>1 DEF Resize, ReadOK, ReadsAllOrNothing
<1>4. ASSUME FillOut PROVE ReadOK'
  <2> DEFINE c == Contents(read.kind, read.length)
  <2>1. c \in Seq(0..MaxLength) /\ Len(c) \in 0..(MaxLength + 1)
    BY ContentsAre
  <2>2. read.out = [i \in 1..Len(c) |-> 0] /\ Len(read.out) = Len(c)
    BY <1>4, <2>1 DEF FillOut, ReadOK, TrueSize, Zeros
  <2>3. [i \in DOMAIN read.out |-> IF i <= Len(c) THEN c[i] ELSE read.out[i]] = c
    <3>1. DOMAIN read.out = 1..Len(c) /\ \A i \in 1..Len(c) : i <= Len(c)
      BY <2>1, <2>2
    <3>2. c = [i \in 1..Len(c) |-> c[i]]
      BY <2>1
    <3> HIDE DEF c
    <3> QED
      BY <3>1, <3>2
  <2>4. (Len(c) > Len(read.out)) = FALSE
    BY <2>1, <2>2
  <2>5. read' = [read EXCEPT !.pc = "cut", !.size = Len(c), !.out = c, !.overrun = FALSE]
    BY <1>4, <2>3, <2>4 DEF FillOut
  <2> QED
    BY <1>4, <2>1, <2>5 DEF FillOut, ReadOK, ReadsAllOrNothing
<1>5. ASSUME ReadFails PROVE ReadOK'
  BY <1>5 DEF ReadFails, ReadOK, ReadsAllOrNothing
<1>6. ASSUME CutAndReturn PROVE ReadOK'
  <2> DEFINE c == Contents(read.kind, read.length)
             v == IF WithNul(read.kind) THEN SubSeq(read.out, 1, read.size - 1) ELSE read.out
  <2>1. read.out = c /\ read.size = Len(c)
    BY <1>6 DEF CutAndReturn, ReadOK
  <2>2. v = Whole(read.length)
    <3>1. CASE WithNul(read.kind)
      BY <2>1, <3>1, NulIsCut DEF ReadOK
    <3>2. CASE ~WithNul(read.kind)
      BY <2>1, <3>2 DEF Contents
    <3> QED
      BY <3>1, <3>2
  <2>3. Whole(read.length) \in Seq(0..(MaxLength + 1))
    BY DEF Whole, ReadOK
  <2>4. read' = [read EXCEPT !.pc = "returned", !.result = Whole(read.length)]
    BY <1>6, <2>2 DEF CutAndReturn
  <2> QED
    BY <1>6, <2>3, <2>4 DEF CutAndReturn, ReadOK, ReadsAllOrNothing
<1> QED
  BY <1>1, <1>2, <1>3, <1>4, <1>5, <1>6 DEF ReadStep

-----------------------------------------------------------------------------
(* Logging. *)

(* What a macro's record can be. *)
LogRecords ==
  [macro : Macro, sev : Level \cup {0}, len : Length \cup {0}, room : Nat, written : BOOLEAN,
   sent : Nat \cup {Unwritten}, pc : {"done", "format", "send", "return"},
   outcome : {"none", "suppressed", "logged", "threw", "ignored"}]

LoggerTypes ==
  /\ level \in Level
  /\ cached \in [Thread -> Level \cup {Uncached}]
  /\ log \in [Thread -> LogRecords]
  /\ statuses \subseteq Thread
  /\ ended \in BOOLEAN

(* A macro that is under way has passed the filter and has not said how it    *)
(* ended; the buffer has room for the message; what was sent is the message.  *)
MacroOK(t) ==
  /\ log[t].pc # "done" => log[t].outcome = "none"
  /\ log[t].pc # "return" => t \notin statuses
  /\ log[t].pc = "send" => log[t].len \in Nat /\ log[t].room >= log[t].len + 1
  /\ log[t].pc = "return" /\ t \notin statuses /\ log[t].written => log[t].sent = log[t].len
  /\ log[t].outcome = "logged" /\ log[t].written => log[t].sent = log[t].len
  /\ log[t].outcome = "threw" => Throws(log[t].macro)
  /\ log[t].outcome = "ignored" => ~Throws(log[t].macro)

LoggerInv == LoggerTypes /\ \A t \in Thread : MacroOK(t)

LogAction(t) ==
  \/ MakeLogger(t) \/ MakeLoggerFails(t) \/ DropLogger(t)
  \/ \E m \in Macro, sev \in Level, len \in Length : Log(t, m, sev, len)
  \/ Format(t) \/ AllocationFails(t) \/ Send(t) \/ SendFails(t) \/ Return(t)

(* Levels are numbers, and so are lengths, but for the mark of an error. *)
LEMMA Numbers ==
  /\ \A l \in Level : l \in Nat
  /\ \A len \in Length \cup {0} : len # FormattingError => len \in Nat
BY LoggerConstants

(* A step of one thread leaves the macros of the others alone. *)
LEMMA OtherThreads ==
  ASSUME LoggerInv, NEW t \in Thread, LogAction(t), NEW u \in Thread, u # t
  PROVE  /\ log'[u] = log[u] /\ cached'[u] = cached[u] /\ level' = level
         /\ u \in statuses' <=> u \in statuses
BY DEF LogAction, MakeLogger, MakeLoggerFails, DropLogger, Log, Format, AllocationFails, Send,
       SendFails, Return, LoggerInv, LoggerTypes

(* Every step of a thread keeps the invariant. *)
LEMMA LogActionOK ==
  ASSUME LoggerInv, NEW t \in Thread, LogAction(t) PROVE LoggerInv'
<1>1. ASSUME LoggerTypes', MacroOK(t)' PROVE LoggerInv'
  <2>1. ASSUME NEW u \in Thread, u # t PROVE MacroOK(u)'
    BY <2>1, OtherThreads DEF LoggerInv, MacroOK
  <2> QED
    BY <1>1, <2>1 DEF LoggerInv
<1>2. LoggerTypes /\ MacroOK(t)
  BY DEF LoggerInv
<1> USE DEF LoggerTypes, LogRecords, At
<1>11. /\ log[t].len # FormattingError => log[t].len \in Nat
       /\ log[t].room \in Nat
       /\ cached[t] # Uncached => cached[t] \in Nat
  <2>1. /\ log[t].len \in Length \cup {0} /\ log[t].room \in Nat
        /\ cached[t] \in Level \cup {Uncached}
    BY <1>2
  <2> QED
    BY <2>1, Numbers
<1>3. CASE MakeLogger(t)
  BY <1>1, <1>2, <1>3 DEF MakeLogger, MacroOK, NoMacro, Macro, Uncached
<1>12. CASE MakeLoggerFails(t)
  BY <1>1, <1>2, <1>12 DEF MakeLoggerFails, MacroOK, NoMacro, Macro, Uncached
<1>4. CASE DropLogger(t)
  BY <1>1, <1>2, <1>4 DEF DropLogger, MacroOK, NoMacro, Macro, Uncached
<1>5. ASSUME NEW m \in Macro, NEW sev \in Level, NEW len \in Length, Log(t, m, sev, len)
      PROVE  LoggerInv'
  <2>1. /\ UNCHANGED <<level, cached, statuses, ended>>
        /\ log[t].pc = "done" /\ cached[t] # Uncached /\ t \notin statuses
        /\ ~Formats(m) => len # FormattingError
        /\ len \in Length \cup {0} /\ sev \in Level \cup {0}
    BY <1>2, <1>5 DEF Log, MacroOK
  <2>2. CASE Passes(t, sev)
    <3> DEFINE new == [NoMacro EXCEPT !.macro = m, !.sev = sev, !.len = len,
                         !.pc = IF Formats(m) THEN "format" ELSE "send",
                         !.room = IF Formats(m) THEN 0 ELSE len + 1]
    <3>1. log' = [log EXCEPT ![t] = new]
      BY <1>5, <2>2 DEF Log
    <3>2. ~Formats(m) => len \in Nat /\ len + 1 \in Nat
      BY <2>1, Numbers
    <3>3. /\ new.macro = m /\ new.sev = sev /\ new.len = len /\ new.outcome = "none"
          /\ new.pc = IF Formats(m) THEN "format" ELSE "send"
          /\ new.room = IF Formats(m) THEN 0 ELSE len + 1
          /\ new \in LogRecords
      BY <2>1, <3>2 DEF NoMacro
    <3> HIDE DEF new
    <3>5. log'[t] = new
      BY <1>2, <3>1
    <3>6. LoggerTypes'
      BY <1>2, <2>1, <3>1, <3>3
    <3>7. MacroOK(t)'
      BY <2>1, <3>2, <3>3, <3>5 DEF MacroOK
    <3> QED
      BY <1>1, <3>6, <3>7
  <2>3. CASE ~Passes(t, sev)
    <3> DEFINE new == [NoMacro EXCEPT !.sev = sev, !.outcome = "suppressed"]
    <3>1. log' = [log EXCEPT ![t] = new]
      BY <1>5, <2>3 DEF Log
    <3>2. /\ new.sev = sev /\ new.outcome = "suppressed" /\ new.pc = "done"
          /\ new \in LogRecords
      BY <2>1 DEF NoMacro, Macro
    <3> HIDE DEF new
    <3>4. log'[t] = new
      BY <1>2, <3>1
    <3>5. LoggerTypes'
      BY <1>2, <2>1, <3>1, <3>2
    <3>6. MacroOK(t)'
      BY <2>1, <3>2, <3>4 DEF MacroOK
    <3> QED
      BY <1>1, <3>5, <3>6
  <2> QED
    BY <2>2, <2>3
<1>6. CASE Format(t)
  <2>1. CASE log[t].len = FormattingError
    BY <1>1, <1>2, <1>6, <2>1 DEF Format, MacroOK
  <2>2. CASE log[t].len # FormattingError
    <3> DEFINE size == BufferSize(log[t].len)
    <3>1. log[t].len \in Nat /\ size = log[t].len + 1
      BY <2>2, <1>11 DEF BufferSize
    <3> DEFINE larger == IF size < kStackBufferSize THEN kStackBufferSize ELSE size
    <3>2. PICK room, written :
            /\ room \in Nat /\ room >= log[t].len + 1 /\ written \in BOOLEAN
            /\ log' = [log EXCEPT ![t].pc = "send", ![t].room = room, ![t].written = written]
      <4>1. larger \in Nat /\ larger >= log[t].len + 1
        BY <3>1 DEF kStackBufferSize
      <4>2. \E w \in BOOLEAN :
              log' = [log EXCEPT ![t].pc = "send", ![t].room = larger, ![t].written = w]
        BY <1>6, <2>2, Zenon DEF Format
      <4> HIDE DEF larger
      <4> QED
        BY <4>1, <4>2, Zenon
    <3>3. UNCHANGED <<level, cached, statuses, ended>>
      BY <1>6, <2>2 DEF Format
    <3> DEFINE new == [log[t] EXCEPT !.pc = "send", !.room = room, !.written = written]
    <3>4. log' = [log EXCEPT ![t] = new] /\ log'[t] = new
      BY <1>2, <3>2
    <3>5. /\ new \in LogRecords /\ new.pc = "send" /\ new.room = room /\ new.len = log[t].len
          /\ new.outcome = log[t].outcome /\ new.written = written /\ new.sent = log[t].sent
          /\ new.macro = log[t].macro
      BY <1>2, <3>2
    <3>6. log[t].outcome = "none" /\ t \notin statuses
      BY <1>2, <1>6 DEF Format, MacroOK
    <3> HIDE DEF new
    <3>7. LoggerTypes'
      BY <1>2, <3>3, <3>4, <3>5
    <3>8. MacroOK(t)'
      BY <3>1, <3>2, <3>3, <3>4, <3>5, <3>6 DEF MacroOK
    <3> QED
      BY <1>1, <3>7, <3>8
  <2> QED
    BY <2>1, <2>2
<1>7. CASE AllocationFails(t)
  BY <1>1, <1>2, <1>7 DEF AllocationFails, MacroOK
<1>8. CASE Send(t)
  <2>1. log[t].pc = "send" /\ UNCHANGED <<level, cached, statuses, ended>>
    BY <1>8 DEF Send
  <2>2. log[t].len \in Nat /\ log[t].room >= log[t].len + 1 /\ log[t].room \in Nat
    BY <1>2, <1>11, <2>1 DEF MacroOK
  <2>3. PICK sent \in Nat \cup {Unwritten} :
          /\ sent = IF log[t].written THEN log[t].len ELSE Unwritten
          /\ log' = [log EXCEPT ![t].pc = "return", ![t].sent = sent]
    <3>1. \A a, r \in Nat : r >= a + 1 => Shorter(a, r - 1) = a
      BY DEF Shorter
    <3>2. Shorter(log[t].len, log[t].room - 1) = log[t].len
      BY <2>2, <3>1
    <3> QED
      BY <1>8, <2>2, <3>2 DEF Send
  <2>4. LoggerTypes'
    <3> DEFINE new == [log[t] EXCEPT !.pc = "return", !.sent = sent]
    <3>1. log' = [log EXCEPT ![t] = new]
      BY <1>2, <2>3
    <3>2. new \in LogRecords
      BY <1>2, <2>3
    <3> HIDE DEF new
    <3> QED
      BY <1>2, <2>1, <3>1, <3>2
  <2>5. log'[t] = [log[t] EXCEPT !.pc = "return", !.sent = sent]
    BY <1>2, <2>3
  <2>6. MacroOK(t)'
    BY <1>2, <2>1, <2>3, <2>5 DEF MacroOK
  <2> QED
    BY <1>1, <2>4, <2>6
<1>9. CASE SendFails(t)
  BY <1>1, <1>2, <1>9 DEF SendFails, MacroOK
<1>10. CASE Return(t)
  BY <1>1, <1>2, <1>10 DEF Return, MacroOK
<1> QED
  BY <1>3, <1>4, <1>5, <1>6, <1>7, <1>8, <1>9, <1>10, <1>12 DEF LogAction

(* When the level changes, no macro does. *)
LEMMA ChangeLevelOK ==
  ASSUME LoggerInv, NEW l \in Level, ChangeLevel(l) PROVE LoggerInv'
BY DEF ChangeLevel, LoggerInv, LoggerTypes, MacroOK

-----------------------------------------------------------------------------
(* The operator. *)

(* Before a session there are no kernels; with one, the entries of the        *)
(* operator's flavour are set and the others cannot be preferred to them.     *)
OpsInv ==
  /\ WithStatus \in BOOLEAN
  /\ table \in [Entry -> {"garbage", "null", "set"}]
  /\ session \in {"none", "creating", "ready", "failing", "over"}
  /\ kernel \in [Node -> {"none", "constructing", "ready", "destroyed"}]
  /\ working \in [Thread -> Node \cup {NONE}]
  /\ session = "none" => /\ \A n \in Node : kernel[n] = "none"
                         /\ \A t \in Thread : working[t] = NONE
  /\ session # "none" =>
       /\ table["KernelDestroy"] = "set"
       /\ WithStatus => table["CreateKernelV2"] = "set" /\ table["KernelComputeV2"] = "set"
       /\ ~WithStatus => /\ table["CreateKernelV2"] = "null"
                         /\ table["KernelComputeV2"] = "null"
                         /\ table["CreateKernel"] = "set" /\ table["KernelCompute"] = "set"

(* The inductive invariant. *)
Inv == OpsInv /\ LoggerInv /\ ReadOK

(* The entry for the operator's flavour is the one used. *)
LEMMA RightEntries ==
  ASSUME OpsInv, session # "none"
  PROVE  /\ CreateEntry = IF WithStatus THEN "CreateKernelV2" ELSE "CreateKernel"
         /\ ComputeEntry = IF WithStatus THEN "KernelComputeV2" ELSE "KernelCompute"
         /\ table[CreateEntry] = "set" /\ table[ComputeEntry] = "set"
BY DEF OpsInv, CreateEntry, ComputeEntry

(* What the definitions of the parts read besides their variables: nothing. *)
LEMMA ReadUnchanged == ReadOK /\ UNCHANGED read => ReadOK'
BY DEF ReadOK, ReadsAllOrNothing

LEMMA LogUnchanged == LoggerInv /\ UNCHANGED logVars => LoggerInv'
BY DEF LoggerInv, LoggerTypes, MacroOK, logVars

LEMMA OpsUnchanged == OpsInv /\ UNCHANGED opVars => OpsInv'
BY DEF OpsInv, opVars

-----------------------------------------------------------------------------
LEMMA Initially == Init => Inv
<1> SUFFICES ASSUME Init PROVE Inv
  OBVIOUS
<1>1. OpsInv
  BY DEF Init, OpsInv, Entry
<1>2. LoggerInv
  BY DEF Init, LoggerInit, LoggerInv, LoggerTypes, LogRecords, MacroOK, NoMacro,
         Macro
<1>3. ReadOK
  <2>1. /\ <<>> \in Seq(0..MaxLength) /\ Old \in Seq(0..(MaxLength + 1))
        /\ 0 \in 0..MaxLength /\ 0 \in 0..(MaxLength + 1)
    BY ReadConstants DEF Old
  <2> QED
    BY <2>1 DEF Init, ReadInit, ReadOK, ReadsAllOrNothing, Nothing, Kind
<1> QED
  BY <1>1, <1>2, <1>3 DEF Inv

(* One step of the operator, its session, kernels and threads. *)
LEMMA StepOK == Inv /\ [Next]_vars => Inv'
<1> SUFFICES ASSUME Inv, [Next]_vars PROVE Inv'
  OBVIOUS
<1>1. OpsInv /\ LoggerInv /\ ReadOK
  BY DEF Inv
<1>2. CASE CustomOpBase
  <2>1. UNCHANGED read /\ UNCHANGED logVars
    BY <1>2 DEF CustomOpBase
  <2>2. OpsInv'
    BY <1>1, <1>2 DEF CustomOpBase, OpsInv, Filled, Set, Entry
  <2> QED
    BY <1>1, <2>1, <2>2, ReadUnchanged, LogUnchanged DEF Inv
<1>3. CASE ReadAttribute
  BY <1>1, <1>3, ReadStepOK, LogUnchanged, OpsUnchanged DEF ReadAttribute, Inv
<1>4. CASE UseAttribute
  BY <1>1, <1>4, NothingRead, LogUnchanged, OpsUnchanged DEF UseAttribute, EndRead, Inv
<1>5. CASE SetLevel
  BY <1>1, <1>5, ChangeLevelOK, ReadUnchanged, OpsUnchanged DEF SetLevel, Inv
<1>6. CASE SessionEnds
  <2>1. UNCHANGED read /\ UNCHANGED logVars
    BY <1>6 DEF SessionEnds
  <2>2. OpsInv'
    BY <1>1, <1>6 DEF SessionEnds, OpsInv
  <2> QED
    BY <1>1, <2>1, <2>2, ReadUnchanged, LogUnchanged DEF Inv
<1>7. CASE UNCHANGED vars
  BY <1>1, <1>7, ReadUnchanged, LogUnchanged, OpsUnchanged DEF vars, Inv
<1>8. ASSUME NEW n \in Node, CreateKernel(n) PROVE Inv'
  <2>1. UNCHANGED read /\ UNCHANGED logVars
    BY <1>8 DEF CreateKernel
  <2>2. OpsInv'
    BY <1>1, <1>8 DEF CreateKernel, OpsInv
  <2> QED
    BY <1>1, <2>1, <2>2, ReadUnchanged, LogUnchanged DEF Inv
<1>9. ASSUME NEW n \in Node, KernelCreated(n) PROVE Inv'
  <2>1. UNCHANGED read /\ UNCHANGED logVars
    BY <1>9 DEF KernelCreated
  <2>2. session # "none"
    BY <1>1, <1>9 DEF KernelCreated, OpsInv
  <2>3. OpsInv'
    BY <1>1, <1>9, <2>2 DEF KernelCreated, OpsInv
  <2> QED
    BY <1>1, <2>1, <2>3, ReadUnchanged, LogUnchanged DEF Inv
<1>10. ASSUME NEW n \in Node, KernelFails(n) PROVE Inv'
  <2>1. UNCHANGED logVars /\ ReadOK'
    BY <1>10, NothingRead DEF KernelFails, EndRead
  <2>2. session # "none"
    BY <1>1, <1>10 DEF KernelFails, OpsInv
  <2>3. OpsInv'
    BY <1>1, <1>10, <2>2 DEF KernelFails, OpsInv
  <2> QED
    BY <1>1, <2>1, <2>3, LogUnchanged DEF Inv
<1>11. ASSUME NEW t \in Thread, LogInKernel(t) PROVE Inv'
  <2>1. LogAction(t) /\ UNCHANGED opVars /\ UNCHANGED read
    BY <1>11 DEF LogInKernel, LogAction
  <2> QED
    BY <1>1, <2>1, LogActionOK, ReadUnchanged, OpsUnchanged DEF Inv
<1>12. ASSUME NEW t \in Thread, ComputeEnds(t) PROVE Inv'
  <2>1. LogAction(t) /\ UNCHANGED read
    BY <1>12 DEF ComputeEnds, LogAction
  <2>2. OpsInv'
    BY <1>1, <1>12 DEF ComputeEnds, OpsInv
  <2> QED
    BY <1>1, <2>1, <2>2, LogActionOK, ReadUnchanged DEF Inv
<1>13. ASSUME NEW t \in Thread, NEW n \in Node, Compute(t, n) PROVE Inv'
  <2>1. LogAction(t) /\ UNCHANGED read
    BY <1>13 DEF Compute, LogAction
  <2>2. OpsInv'
    BY <1>1, <1>13 DEF Compute, OpsInv
  <2> QED
    BY <1>1, <2>1, <2>2, LogActionOK, ReadUnchanged DEF Inv
<1>14. CASE ExceptionInC
  <2>1. LoggerInv'
    BY <1>1, <1>14 DEF ExceptionInC, LoggerInv, LoggerTypes, MacroOK
  <2> QED
    BY <1>1, <1>14, <2>1, ReadUnchanged, OpsUnchanged DEF ExceptionInC, Inv
<1> QED
  BY <1>2, <1>3, <1>4, <1>5, <1>6, <1>7, <1>8, <1>9, <1>10, <1>11, <1>12, <1>13, <1>14
  DEF Next, Over

(* In every state. *)
LEMMA Always == Spec => []Inv
<1> QED
  BY Initially, StepOK, PTL DEF Spec

-----------------------------------------------------------------------------
(* Every variable keeps its type, for all operators, kernels and threads. *)
THEOREM CustomOpsTypeCorrect == Spec => []TypeOK
<1>1. Inv => TypeOK
  BY DEF Inv, OpsInv, LoggerInv, LoggerTypes, LogRecords, LoggerTypeOK, ReadOK, ReadTypeOK, TypeOK
<1> QED
  BY <1>1, Always, PTL

(* The entry that the runtime chooses from the table is one that the          *)
(* constructor of CustomOpBase has set, whatever memory the operator was made *)
(* in.                                                                        *)
THEOREM DispatchAlwaysDefined == Spec => []DispatchDefined
<1>1. Inv => DispatchDefined
  BY RightEntries DEF Inv, OpsInv, DispatchDefined
<1> QED
  BY <1>1, Always, PTL

(* A kernel's reads give all of a value or nothing, for values of any length. *)
THEOREM ReadsWhole == Spec => []ReadsAllOrNothing
<1>1. Inv => ReadsAllOrNothing
  BY DEF Inv, ReadOK
<1> QED
  BY <1>1, Always, PTL

(* A message is sent whole or its failure shows, for messages of any length,  *)
(* unless the second snprintf failed; and its status is released.             *)
THEOREM MessagesAccounted == Spec => []MessagesAccountedFor
<1>1. Inv => MessagesAccountedFor
  BY DEF Inv, LoggerInv, MacroOK, MessagesAccountedFor
<1> QED
  BY <1>1, Always, PTL
=============================================================================
