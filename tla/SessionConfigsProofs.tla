------------------------ MODULE SessionConfigsProofs ------------------------
(***************************************************************************)
(* Configuration entries, for any operators, entries, values and readers.  *)
(* The one condition is that flattening keeps different entries apart,     *)
(* which it need not where names or keys contain dots.                     *)
(***************************************************************************)
EXTENDS SessionConfigs, SequenceTheorems, TLAPS

FlatKeysApart ==
  \A n1, n2 \in OpName, k1, k2 \in Key :
    MakeCustomOpConfigEntryKey(n1, k1) = MakeCustomOpConfigEntryKey(n2, k2)
      => n1 = n2 /\ k1 = k2

-----------------------------------------------------------------------------
(* The inductive invariants. *)

(* Where a reader is, the key that it asks for, and what it knows of it: an *)
(* entry that was there is still there.                                     *)
ReaderOK(s) ==
  /\ s.pc # "idle" => s.name \in OpName /\ s.next # 0
  /\ s.pc \in {"has", "size", "fill", "store", "threw"} => s.next <= Len(ConfigKeys)
  /\ s.pc = "loop" => \E k \in Key \cup {<<>>} :
                        s.config_entry_key = MakeCustomOpConfigEntryKey(s.name, k)
  /\ s.pc \in {"has", "size", "fill", "store"} =>
       s.config_entry_key = MakeCustomOpConfigEntryKey(s.name, ConfigKeys[s.next])
  /\ s.pc \in {"size", "fill"} => entries[s.config_entry_key] # NONE
  /\ s.pc = "store" => s.answer \in Answers

Collected == \A f \in todo : flat_configs[f] # NONE

ReadInv == TypeOK /\ Collected /\ \A r \in Reader : ReaderOK(reader[r])

(* What has been collected, and how much of it registering has passed on. *)
Passed(n, k) ==
  LET f == MakeCustomOpConfigEntryKey(n, k)
  IN /\ flat_configs[f] = asked[<<n, k>>]
     /\ main = "adding" /\ asked[<<n, k>>] # NONE => f \in todo \/ entries[f] = asked[<<n, k>>]
     /\ main = "loading" /\ asked[<<n, k>>] # NONE => entries[f] = asked[<<n, k>>]
     /\ asked[<<n, k>>] = NONE => f \in direct \/ entries[f] = NONE

ConfigInv == \A n \in OpName, k \in Key : Passed(n, k)

-----------------------------------------------------------------------------
(* The pieces that strings are made of, literals included. *)
Piece == STRING \cup {"custom_op", ".", "NUL"}

LEMMA Strings ==
  /\ ConfigKeys \in Seq(Seq(STRING)) /\ Len(ConfigKeys) \in Nat
  /\ \A i \in 1..Len(ConfigKeys) : ConfigKeys[i] \in Key
  /\ \A k \in Key : k \in Seq(Piece)
  /\ \A n \in OpName : n \in Seq(Piece)
  /\ \A v \in Value : v \in Seq(Piece) /\ v # NONE
<1>1. STRING \subseteq Piece
  BY DEF Piece
<1>2. \A x \in Seq(STRING) : x \in Seq(Piece)
  BY <1>1, SeqMonotonic
<1> QED
  BY <1>2, ConfigConstants DEF Key

LEMMA Flattened ==
  ASSUME NEW n \in OpName, NEW k \in Key
  PROVE  MakeCustomOpConfigEntryKey(n, k) \in FlatKey
BY DEF FlatKey

(* The prefix with a key appended is the flat key. *)
LEMMA PrefixAndKey ==
  ASSUME NEW n \in Seq(Piece), NEW k \in Seq(Piece)
  PROVE  LET prefix == MakeCustomOpConfigEntryKey(n, <<>>)
         IN /\ prefix \in Seq(Piece)
            /\ prefix \o k = MakeCustomOpConfigEntryKey(n, k)
            /\ SubSeq(prefix, 1, Len(prefix)) = prefix
            /\ SubSeq(prefix \o k, 1, Len(prefix)) = prefix
<1> DEFINE head == (<<"custom_op", ".">> \o n) \o <<".">>
           prefix == MakeCustomOpConfigEntryKey(n, <<>>)
<1>1. <<"custom_op", ".">> \in Seq(Piece) /\ <<".">> \in Seq(Piece)
  <2>1. "custom_op" \in Piece /\ "." \in Piece
    BY DEF Piece
  <2> QED
    BY <2>1
<1>2. head \in Seq(Piece)
  BY <1>1
<1>3. prefix = head
  BY <1>2, ConcatEmptySeq DEF MakeCustomOpConfigEntryKey
<1>4. head \o k = MakeCustomOpConfigEntryKey(n, k)
  BY DEF MakeCustomOpConfigEntryKey
<1>5. SubSeq(head, 1, Len(head)) = head
  BY <1>2, SubSeqFull
<1> HIDE DEF head
<1>6. SubSeq(head \o k, 1, Len(head)) = head
  <2>1. head \o k \in Seq(Piece) /\ Len(head \o k) = Len(head) + Len(k) /\ Len(head) \in Nat
    BY <1>2
  <2>2. \A i \in 1..Len(head) : (head \o k)[i] = head[i]
    BY <1>2
  <2> DEFINE cut == SubSeq(head \o k, 1, Len(head))
  <2>3. cut \in Seq(Piece) /\ Len(cut) = Len(head) /\ \A i \in 1..Len(head) : cut[i] = head[i]
    BY <1>2, <2>1, <2>2
  <2> HIDE DEF cut
  <2>4. cut = head
    BY <1>2, <2>3, SeqEqual
  <2> QED
    BY <2>4 DEF cut
<1> QED
  BY <1>2, <1>3, <1>4, <1>5, <1>6

(* The buffer, cut to what the runtime wrote without the NUL, is the value. *)
LEMMA BufferCut ==
  ASSUME NEW v \in Seq(Piece), NEW n \in Nat, Len(v) + 1 <= n
  PROVE  SubSeq(Buffer(v, n), 1, Len(v) + 1 - 1) = v
<1> DEFINE cut == SubSeq(Buffer(v, n), 1, Len(v))
<1>1. Buffer(v, n) \in Seq(Piece) /\ Len(Buffer(v, n)) = n
  <2>1. \A i \in 1..n : (IF i <= Len(v) THEN v[i] ELSE "NUL") \in Piece
    <3>1. "NUL" \in Piece
      BY DEF Piece
    <3>2. \A i \in 1..n : i <= Len(v) => i \in 1..Len(v)
      OBVIOUS
    <3>3. \A i \in 1..Len(v) : v[i] \in Piece
      OBVIOUS
    <3> QED
      BY <3>1, <3>2, <3>3
  <2>2. Buffer(v, n) \in [1..n -> Piece]
    BY <2>1 DEF Buffer
  <2> QED
    BY <2>2
<1>2. \A i \in 1..Len(v) : Buffer(v, n)[i] = v[i]
  BY DEF Buffer
<1>3. cut \in Seq(Piece) /\ Len(cut) = Len(v) /\ \A i \in 1..Len(v) : cut[i] = v[i]
  BY <1>1, <1>2
<1> HIDE DEF cut
<1>4. cut = v
  BY <1>3, SeqEqual
<1>5. Len(v) + 1 - 1 = Len(v)
  OBVIOUS
<1> QED
  BY <1>4, <1>5 DEF cut

-----------------------------------------------------------------------------
(* Readers. *)

(* A step of one reader, described by what it makes of its record. *)
LEMMA OneReader ==
  ASSUME ReadInv, UNCHANGED app, NEW r \in Reader, NEW s \in Readers, ReaderOK(s),
         reader' = [reader EXCEPT ![r] = s]
  PROVE  ReadInv'
<1>1. UNCHANGED <<flat_configs, asked, entries, direct, todo, main, loaded, changes>>
  BY DEF app
<1>2. reader' \in [Reader -> Readers]
  BY DEF ReadInv, TypeOK
<1>3. TypeOK'
  BY <1>1, <1>2 DEF ReadInv, TypeOK, Readers
<1>4. Collected'
  BY <1>1 DEF ReadInv, Collected
<1>5. \A q \in Reader : ReaderOK(reader'[q])
  BY DEF ReadInv, TypeOK
<1>6. \A q \in Reader : ReaderOK(reader[q])'
  BY <1>1, <1>5 DEF ReaderOK
<1> QED
  BY <1>3, <1>4, <1>6 DEF ReadInv

(* What the runtime says of the entry that a reader asks for. *)
LEMMA AskedEntry ==
  ASSUME ReadInv, NEW r \in Reader, reader[r].pc \in {"has", "size", "fill"}
  PROVE  LET s == reader[r]
             k == ConfigKeys[s.next]
         IN /\ s.next \in 1..Len(ConfigKeys) /\ s.name \in OpName /\ k \in Key
            /\ s.config_entry_key = MakeCustomOpConfigEntryKey(s.name, k)
            /\ Asked(r) = entries[MakeCustomOpConfigEntryKey(s.name, k)]
            /\ Asked(r) \in Value \cup {NONE}
            /\ s.pc \in {"size", "fill"} => Asked(r) \in Value /\ Asked(r) # NONE
<1>1. reader[r] \in Readers /\ ReaderOK(reader[r])
  BY DEF ReadInv, TypeOK
<1>2. reader[r].next \in 1..Len(ConfigKeys) /\ reader[r].name \in OpName
  BY <1>1, Strings DEF Readers, ReaderOK
<1>3. ConfigKeys[reader[r].next] \in Key
  BY <1>2, Strings
<1>4. reader[r].config_entry_key = MakeCustomOpConfigEntryKey(reader[r].name, ConfigKeys[reader[r].next])
  BY <1>1 DEF ReaderOK
<1>5. reader[r].config_entry_key \in FlatKey
  BY <1>2, <1>3, <1>4, Flattened
<1>6. Asked(r) = entries[reader[r].config_entry_key] /\ Asked(r) \in Value \cup {NONE}
  BY <1>5 DEF Asked, EntryOf, ReadInv, TypeOK
<1>7. reader[r].pc \in {"size", "fill"} => Asked(r) # NONE
  BY <1>1, <1>6 DEF ReaderOK
<1> QED
  BY <1>2, <1>3, <1>4, <1>6, <1>7

LEMMA GetSessionConfigsOK ==
  ASSUME ReadInv, NEW r \in Reader, NEW name \in OpName, GetSessionConfigs(r, name)
  PROVE  ReadInv'
<1> DEFINE s == [Idle EXCEPT !.pc = "loop", !.name = name, !.next = 1,
                             !.config_entry_key = MakeCustomOpConfigEntryKey(name, <<>>)]
<1>1. s \in Readers
  <2>1. Idle \in Readers
    BY Strings DEF Idle, Readers
  <2>2. 1 \in 0..(Len(ConfigKeys) + 1)
    BY Strings
  <2> QED
    BY <2>1, <2>2 DEF Readers
<1>2. ReaderOK(s)
  BY DEF ReaderOK, Idle
<1>3. UNCHANGED app /\ reader' = [reader EXCEPT ![r] = s]
  BY DEF GetSessionConfigs
<1> QED
  BY <1>1, <1>2, <1>3, OneReader

LEMMA NextKeyOK ==
  ASSUME ReadInv, NEW r \in Reader, NextKey(r)
  PROVE  /\ ReadInv'
         /\ reader[r].next \in 1..Len(ConfigKeys) /\ reader[r].name \in OpName
         /\ reader' = [reader EXCEPT ![r] = [reader[r] EXCEPT !.pc = "has",
              !.config_entry_key = MakeCustomOpConfigEntryKey(reader[r].name, ConfigKeys[reader[r].next])]]
<1> DEFINE o == reader[r]
           key == ConfigKeys[o.next]
           prefix == MakeCustomOpConfigEntryKey(o.name, <<>>)
           s == [o EXCEPT !.pc = "has", !.config_entry_key = MakeCustomOpConfigEntryKey(o.name, key)]
<1>1. o \in Readers /\ ReaderOK(o) /\ o.pc = "loop" /\ o.next <= Len(ConfigKeys)
  BY DEF ReadInv, TypeOK, NextKey
<1>2. o.next \in 1..Len(ConfigKeys) /\ o.name \in OpName
  BY <1>1, Strings DEF Readers, ReaderOK
<1>3. key \in Key /\ key \in Seq(Piece) /\ o.name \in Seq(Piece)
  BY <1>2, Strings
<1>4. SubSeq(o.config_entry_key, 1, Len(prefix)) = prefix
  <2>1. PICK k \in Key \cup {<<>>} : o.config_entry_key = MakeCustomOpConfigEntryKey(o.name, k)
    BY <1>1 DEF ReaderOK
  <2>2. CASE k \in Key
    <3>1. k \in Seq(Piece)
      BY <2>2, Strings
    <3> QED
      BY <1>3, <2>1, <3>1, PrefixAndKey
  <2>3. CASE k = <<>>
    BY <1>3, <2>1, <2>3, PrefixAndKey
  <2> QED
    BY <2>1, <2>2, <2>3
<1>5. SubSeq(o.config_entry_key, 1, Len(prefix)) \o key = MakeCustomOpConfigEntryKey(o.name, key)
  BY <1>3, <1>4, PrefixAndKey
<1>6. UNCHANGED app /\ reader' = [reader EXCEPT ![r] = s]
  BY <1>5 DEF NextKey, ReadInv, TypeOK
<1>7. MakeCustomOpConfigEntryKey(o.name, key) \in FlatKey
  BY <1>2, <1>3, Flattened
<1>8. s \in Readers
  BY <1>1, <1>7 DEF Readers
<1>9. ReaderOK(s)
  BY <1>1, <1>2 DEF ReaderOK, Readers
<1>10. ReadInv'
  BY <1>6, <1>8, <1>9, OneReader
<1> QED
  BY <1>2, <1>6, <1>10

LEMMA HasConfigEntryOK ==
  ASSUME ReadInv, NEW r \in Reader, HasConfigEntry(r)
  PROVE  /\ ReadInv' /\ reader[r].pc = "has"
         /\ reader' = [reader EXCEPT ![r] = IF Asked(r) = NONE
                                            THEN [reader[r] EXCEPT !.pc = "store", !.answer = <<>>]
                                            ELSE [reader[r] EXCEPT !.pc = "size"]]
<1> DEFINE o == reader[r]
           s == IF Asked(r) = NONE THEN [o EXCEPT !.pc = "store", !.answer = <<>>]
                ELSE [o EXCEPT !.pc = "size"]
<1>1. o \in Readers /\ ReaderOK(o) /\ o.pc = "has"
  BY DEF ReadInv, TypeOK, HasConfigEntry
<1>2. UNCHANGED app /\ reader' = [reader EXCEPT ![r] = s]
  BY DEF HasConfigEntry, ReadInv, TypeOK
<1>3. s \in Readers
  BY <1>1 DEF Readers, Answers
<1>4. ReaderOK(s)
  <2>1. Asked(r) = entries[o.config_entry_key]
    BY <1>1, AskedEntry
  <2> QED
    BY <1>1, <2>1 DEF ReaderOK, Readers, Answers
<1> QED
  BY <1>1, <1>2, <1>3, <1>4, OneReader

LEMMA QuerySizeOK ==
  ASSUME ReadInv, NEW r \in Reader, QuerySize(r)
  PROVE  /\ ReadInv' /\ reader[r].pc = "size"
         /\ reader' = [reader EXCEPT ![r] = [reader[r] EXCEPT !.pc = "fill", !.size = Len(Asked(r)) + 1]]
<1> DEFINE o == reader[r]
           s == [o EXCEPT !.pc = "fill", !.size = Len(Asked(r)) + 1]
<1>1. o \in Readers /\ ReaderOK(o) /\ o.pc = "size"
  BY DEF ReadInv, TypeOK, QuerySize
<1>2. UNCHANGED app /\ reader' = [reader EXCEPT ![r] = s]
  BY DEF QuerySize, ReadInv, TypeOK
<1>3. Asked(r) \in Seq(Piece)
  BY <1>1, AskedEntry, Strings
<1>4. s \in Readers
  <2>1. Len(Asked(r)) + 1 \in Nat
    BY <1>3
  <2> QED
    BY <1>1, <2>1 DEF Readers
<1>5. ReaderOK(s)
  BY <1>1 DEF ReaderOK, Readers
<1> QED
  BY <1>1, <1>2, <1>4, <1>5, OneReader

(* The answer is the value that the entry has now. *)
LEMMA FillBufferOK ==
  ASSUME ReadInv, NEW r \in Reader, FillBuffer(r)
  PROVE  /\ ReadInv' /\ reader[r].pc = "fill"
         /\ reader' = [reader EXCEPT ![r] = [reader[r] EXCEPT !.pc = "store", !.size = Len(Asked(r)) + 1,
                                                             !.answer = Asked(r)]]
<1> DEFINE o == reader[r]
           s == [o EXCEPT !.pc = "store", !.size = Len(Asked(r)) + 1, !.answer = Asked(r)]
<1>1. o \in Readers /\ ReaderOK(o) /\ o.pc = "fill" /\ Len(Asked(r)) + 1 <= o.size
  BY DEF ReadInv, TypeOK, FillBuffer
<1>2. Asked(r) \in Value /\ Asked(r) \in Seq(Piece) /\ o.size \in Nat
  BY <1>1, AskedEntry, Strings DEF Readers
<1>3. SubSeq(Buffer(Asked(r), o.size), 1, Len(Asked(r)) + 1 - 1) = Asked(r)
  BY <1>1, <1>2, BufferCut
<1>4. UNCHANGED app /\ reader' = [reader EXCEPT ![r] = s]
  <2> DEFINE cut == SubSeq(Buffer(Asked(r), o.size), 1, Len(Asked(r)) + 1 - 1)
  <2>1. UNCHANGED app /\ reader' = [reader EXCEPT ![r].pc = "store", ![r].size = Len(Asked(r)) + 1,
                                                 ![r].answer = cut]
    BY DEF FillBuffer
  <2>2. cut = Asked(r)
    BY <1>3
  <2>3. reader \in [Reader -> Readers]
    BY DEF ReadInv, TypeOK
  <2> HIDE DEF cut
  <2> QED
    BY <2>1, <2>2, <2>3
<1>5. s \in Readers
  <2>1. Len(Asked(r)) + 1 \in Nat
    BY <1>2
  <2> QED
    BY <1>1, <1>2, <2>1 DEF Readers, Answers
<1>6. ReaderOK(s)
  BY <1>1, <1>2 DEF ReaderOK, Readers, Answers
<1> QED
  BY <1>1, <1>4, <1>5, <1>6, OneReader

LEMMA LookupFailsOK ==
  ASSUME ReadInv, NEW r \in Reader, LookupFails(r)
  PROVE  /\ ReadInv' /\ reader[r].pc \in {"has", "size", "fill"}
         /\ reader' = [reader EXCEPT ![r] = [reader[r] EXCEPT !.pc = "threw"]]
<1> DEFINE o == reader[r]
           s == [o EXCEPT !.pc = "threw"]
<1>1. o \in Readers /\ ReaderOK(o) /\ o.pc \in {"has", "size", "fill"}
  BY DEF ReadInv, TypeOK, LookupFails
<1>2. UNCHANGED app /\ reader' = [reader EXCEPT ![r] = s]
  BY DEF LookupFails, ReadInv, TypeOK
<1>3. s \in Readers /\ ReaderOK(s)
  BY <1>1 DEF Readers, ReaderOK
<1> QED
  BY <1>1, <1>2, <1>3, OneReader

LEMMA StoreAnswerOK ==
  ASSUME ReadInv, NEW r \in Reader, StoreAnswer(r)
  PROVE  /\ ReadInv' /\ reader[r].pc = "store"
         /\ \E s \in Readers : s.pc = "loop" /\ reader' = [reader EXCEPT ![r] = s]
<1> DEFINE o == reader[r]
           s == [o EXCEPT !.pc = "loop", !.next = o.next + 1, !.answer = NONE,
                          !.out[ConfigKeys[o.next]] = o.answer]
<1>1. o \in Readers /\ ReaderOK(o) /\ o.pc = "store"
  BY DEF ReadInv, TypeOK, StoreAnswer
<1>2. o.next \in 1..Len(ConfigKeys) /\ o.name \in OpName /\ Len(ConfigKeys) \in Nat
  BY <1>1, Strings DEF Readers, ReaderOK
<1>3. ConfigKeys[o.next] \in Key /\ o.answer \in Answers
  BY <1>1, <1>2, Strings DEF ReaderOK
<1>4. UNCHANGED app /\ reader' = [reader EXCEPT ![r] = s]
  <2>1. UNCHANGED app
    BY DEF StoreAnswer
  <2>2. reader \in [Reader -> Readers]
    BY DEF ReadInv, TypeOK
  <2>3. reader' = [reader EXCEPT ![r].pc = "loop", ![r].next = o.next + 1, ![r].answer = NONE,
                                 ![r].out[ConfigKeys[o.next]] = o.answer]
    BY DEF StoreAnswer
  <2> QED
    BY <2>1, <2>2, <2>3
<1>5. s \in Readers
  <2>1. o.next + 1 \in 0..(Len(ConfigKeys) + 1)
    BY <1>2
  <2>2. [o.out EXCEPT ![ConfigKeys[o.next]] = o.answer] \in [Key -> Answers \cup {NONE}]
    BY <1>1, <1>3 DEF Readers
  <2> QED
    BY <1>1, <2>1, <2>2 DEF Readers
<1>6. ReaderOK(s)
  <2>1. o.config_entry_key = MakeCustomOpConfigEntryKey(o.name, ConfigKeys[o.next])
    BY <1>1 DEF ReaderOK
  <2>2. /\ s.pc = "loop" /\ s.name = o.name /\ s.next = o.next + 1
        /\ s.config_entry_key = o.config_entry_key
    BY <1>1 DEF Readers
  <2>3. o.next + 1 # 0
    BY <1>2
  <2> QED
    BY <1>2, <1>3, <2>1, <2>2, <2>3 DEF ReaderOK
<1>7. s.pc = "loop"
  BY <1>1 DEF Readers
<1> QED
  BY <1>1, <1>4, <1>5, <1>6, <1>7, OneReader

LEMMA ReturnOK ==
  ASSUME ReadInv, NEW r \in Reader, Return(r)
  PROVE  /\ ReadInv' /\ reader[r].pc = "loop"
         /\ \E s \in Readers : s.pc = "returned" /\ reader' = [reader EXCEPT ![r] = s]
<1> DEFINE o == reader[r]
           s == [o EXCEPT !.pc = "returned"]
<1>1. o \in Readers /\ ReaderOK(o) /\ o.pc = "loop"
  BY DEF ReadInv, TypeOK, Return
<1>2. UNCHANGED app /\ reader' = [reader EXCEPT ![r] = s]
  BY DEF Return, ReadInv, TypeOK
<1>3. s \in Readers /\ ReaderOK(s) /\ s.pc = "returned"
  BY <1>1 DEF Readers, ReaderOK
<1> QED
  BY <1>1, <1>2, <1>3, OneReader

LEMMA FinishOK ==
  ASSUME ReadInv, NEW r \in Reader, Finish(r) PROVE ReadInv'
<1>1. Idle \in Readers /\ ReaderOK(Idle)
  BY Strings DEF Idle, Readers, ReaderOK
<1>2. UNCHANGED app /\ reader' = [reader EXCEPT ![r] = Idle]
  BY DEF Finish
<1> QED
  BY <1>1, <1>2, OneReader

-----------------------------------------------------------------------------
(* The application. *)

(* Readers do not care what it does, as long as no entry disappears. *)
LEMMA ReadersUndisturbed ==
  ASSUME ReadInv, UNCHANGED reader, \A f \in FlatKey : entries[f] # NONE => entries'[f] # NONE
  PROVE  \A r \in Reader : ReaderOK(reader[r])'
<1> SUFFICES ASSUME NEW r \in Reader PROVE ReaderOK(reader[r])'
  OBVIOUS
<1>1. ReaderOK(reader[r])
  BY DEF ReadInv
<1>2. reader[r].pc \in {"size", "fill"} => reader[r].config_entry_key \in FlatKey
  BY AskedEntry, Flattened
<1>3. reader[r].pc \in {"size", "fill"} => entries'[reader[r].config_entry_key] # NONE
  BY <1>1, <1>2 DEF ReaderOK
<1> QED
  BY <1>1, <1>3 DEF ReaderOK

LEMMA AddConfigOK ==
  ASSUME ReadInv, NEW n \in OpName, NEW k \in Key, NEW v \in Value, AddConfig(n, k, v)
  PROVE  ReadInv'
<1>1. /\ flat_configs' = [flat_configs EXCEPT ![MakeCustomOpConfigEntryKey(n, k)] = v]
      /\ asked' = [asked EXCEPT ![<<n, k>>] = v]
      /\ changes < MaxChanges /\ changes' = changes + 1
      /\ UNCHANGED <<entries, direct, todo, main, loaded, reader>>
  BY DEF AddConfig
<1>2. changes' \in 0..MaxChanges
  BY <1>1, ConfigConstants DEF ReadInv, TypeOK
<1>3. TypeOK'
  BY <1>1, <1>2, Flattened DEF ReadInv, TypeOK
<1>4. Collected'
  BY <1>1, Strings DEF ReadInv, TypeOK, Collected
<1> QED
  BY <1>1, <1>3, <1>4, ReadersUndisturbed DEF ReadInv

LEMMA AddConfigEntryOK ==
  ASSUME ReadInv, NEW f \in FlatKey, NEW v \in Value, AddConfigEntry(f, v)
  PROVE  ReadInv'
<1>1. /\ entries' = [entries EXCEPT ![f] = v] /\ direct' = direct \cup {f}
      /\ changes < MaxChanges /\ changes' = changes + 1
      /\ UNCHANGED <<flat_configs, asked, todo, main, loaded, reader>>
  BY DEF AddConfigEntry
<1>2. changes' \in 0..MaxChanges
  BY <1>1, ConfigConstants DEF ReadInv, TypeOK
<1>3. TypeOK'
  BY <1>1, <1>2 DEF ReadInv, TypeOK
<1>4. Collected'
  BY <1>1 DEF ReadInv, Collected
<1>5. \A g \in FlatKey : entries[g] # NONE => entries'[g] # NONE
  BY <1>1, Strings DEF ReadInv, TypeOK
<1> QED
  BY <1>1, <1>3, <1>4, <1>5, ReadersUndisturbed DEF ReadInv

LEMMA RegisterAddOK ==
  ASSUME ReadInv, NEW f \in FlatKey, RegisterAdd(f)
  PROVE  ReadInv' /\ flat_configs[f] \in Value
<1>1. /\ f \in todo /\ entries' = [entries EXCEPT ![f] = flat_configs[f]]
      /\ todo' = todo \ {f}
      /\ UNCHANGED <<flat_configs, asked, direct, main, loaded, changes, reader>>
  BY DEF RegisterAdd
<1>2. flat_configs[f] # NONE /\ flat_configs[f] \in Value
  BY <1>1 DEF ReadInv, TypeOK, Collected
<1>3. TypeOK'
  BY <1>1, <1>2 DEF ReadInv, TypeOK
<1>4. Collected'
  BY <1>1 DEF ReadInv, Collected
<1>5. \A g \in FlatKey : entries[g] # NONE => entries'[g] # NONE
  BY <1>1, <1>2 DEF ReadInv, TypeOK
<1> QED
  BY <1>1, <1>2, <1>3, <1>4, <1>5, ReadersUndisturbed DEF ReadInv

LEMMA RegisteringOK ==
  ASSUME ReadInv, RegisterCustomOpsLibrary \/ RegisterLoad \/ RegisterReturns \/ RegisterFails
  PROVE  ReadInv'
<1>1. UNCHANGED <<flat_configs, asked, entries, direct, changes, reader>>
  BY DEF RegisterCustomOpsLibrary, RegisterLoad, RegisterReturns, RegisterFails
<1>2. /\ todo' \in {todo, {}, {f \in FlatKey : flat_configs[f] # NONE}}
      /\ main' \in {"idle", "adding", "loading"} /\ loaded' \in BOOLEAN
  BY DEF RegisterCustomOpsLibrary, RegisterLoad, RegisterReturns, RegisterFails, ReadInv, TypeOK
<1>3. TypeOK'
  BY <1>1, <1>2 DEF ReadInv, TypeOK
<1>4. Collected'
  BY <1>1, <1>2 DEF ReadInv, Collected
<1> QED
  BY <1>1, <1>3, <1>4, ReadersUndisturbed DEF ReadInv

LEMMA UnchangedOK == ASSUME ReadInv, UNCHANGED vars PROVE ReadInv'
<1>1. UNCHANGED <<flat_configs, asked, entries, direct, todo, main, loaded, changes, reader>>
  BY DEF vars
<1> QED
  BY <1>1, ReadersUndisturbed DEF ReadInv, TypeOK, Collected

LEMMA ReadInit == Init => ReadInv
<1> SUFFICES ASSUME Init PROVE ReadInv
  OBVIOUS
<1>1. Idle \in Readers /\ ReaderOK(Idle)
  BY Strings DEF Idle, Readers, ReaderOK
<1>2. TypeOK
  <2>1. changes \in 0..MaxChanges
    BY ConfigConstants DEF Init
  <2>2. reader \in [Reader -> Readers]
    BY <1>1 DEF Init
  <2> HIDE DEF Readers
  <2> QED
    BY <2>1, <2>2 DEF Init, TypeOK
<1> QED
  BY <1>1, <1>2 DEF Init, ReadInv, Collected

LEMMA ReadNext == ReadInv /\ [Next]_vars => ReadInv'
<1> SUFFICES ASSUME ReadInv, [Next]_vars PROVE ReadInv'
  OBVIOUS
<1>1. ASSUME NEW r \in Reader, Read(r) PROVE ReadInv'
  BY <1>1, GetSessionConfigsOK, NextKeyOK, HasConfigEntryOK, QuerySizeOK, FillBufferOK, LookupFailsOK,
     StoreAnswerOK, ReturnOK, FinishOK DEF Read
<1> QED
  BY <1>1, AddConfigOK, AddConfigEntryOK, RegisterAddOK, RegisteringOK, UnchangedOK DEF Next

LEMMA ReadAlways == Spec => []ReadInv
BY ReadInit, ReadNext, PTL DEF Spec

(* Every answer is a whole value and every key asked for exists, for any *)
(* values, keys, readers and changes while they read.                    *)
THEOREM ConfigsTypeCorrect == Spec => []TypeOK
<1>1. ReadInv => TypeOK
  BY DEF ReadInv
<1> QED
  BY <1>1, ReadAlways, PTL

-----------------------------------------------------------------------------
(* What the library finds. *)
LEMMA ConfigInit == Init => ConfigInv
BY Flattened DEF Init, ConfigInv, Passed

LEMMA ConfigNext ==
  ASSUME FlatKeysApart, ReadInv, ConfigInv, [Next]_vars PROVE ConfigInv'
<1> SUFFICES ASSUME NEW n \in OpName, NEW k \in Key PROVE Passed(n, k)'
  BY DEF ConfigInv
<1> DEFINE f == MakeCustomOpConfigEntryKey(n, k)
<1>1. Passed(n, k) /\ f \in FlatKey /\ <<n, k>> \in OpName \X Key
  BY Flattened DEF ConfigInv
<1>2. /\ flat_configs \in [FlatKey -> Value \cup {NONE}]
      /\ asked \in [OpName \X Key -> Value \cup {NONE}]
      /\ entries \in [FlatKey -> Value \cup {NONE}]
      /\ \A v \in Value : v # NONE
  BY Strings DEF ReadInv, TypeOK
<1>3. ASSUME NEW n1 \in OpName, NEW k1 \in Key, NEW v \in Value, AddConfig(n1, k1, v)
      PROVE  Passed(n, k)'
  <2> DEFINE f1 == MakeCustomOpConfigEntryKey(n1, k1)
  <2>1. /\ main = "idle" /\ flat_configs' = [flat_configs EXCEPT ![f1] = v]
        /\ asked' = [asked EXCEPT ![<<n1, k1>>] = v]
        /\ UNCHANGED <<entries, direct, todo, main>>
    BY <1>3 DEF AddConfig
  <2>2. f = f1 <=> <<n, k>> = <<n1, k1>>
    BY DEF FlatKeysApart
  <2>3. f1 \in FlatKey /\ <<n1, k1>> \in OpName \X Key
    BY Flattened
  <2> HIDE DEF f, f1
  <2> QED
    BY <1>1, <1>2, <2>1, <2>2, <2>3 DEF Passed, f
<1>4. ASSUME NEW g \in FlatKey, NEW v \in Value, AddConfigEntry(g, v) PROVE Passed(n, k)'
  BY <1>1, <1>2, <1>4 DEF AddConfigEntry, Passed
<1>5. ASSUME RegisterCustomOpsLibrary PROVE Passed(n, k)'
  BY <1>1, <1>2, <1>5 DEF RegisterCustomOpsLibrary, Passed
<1>6. ASSUME NEW g \in FlatKey, RegisterAdd(g) PROVE Passed(n, k)'
  <2>1. g = f => flat_configs[g] # NONE
    BY <1>2, <1>6, RegisterAddOK
  <2> QED
    BY <1>1, <1>2, <1>6, <2>1 DEF RegisterAdd, Passed
<1>7. ASSUME RegisterLoad \/ RegisterReturns \/ RegisterFails PROVE Passed(n, k)'
  BY <1>1, <1>7 DEF RegisterLoad, RegisterReturns, RegisterFails, Passed
<1>8. ASSUME UNCHANGED app PROVE Passed(n, k)'
  BY <1>1, <1>8 DEF app, Passed
<1>9. (\E r \in Reader : Read(r)) \/ UNCHANGED vars => UNCHANGED app
  BY DEF Read, GetSessionConfigs, NextKey, HasConfigEntry, QuerySize, FillBuffer, LookupFails,
         StoreAnswer, Return, Finish, vars, app
<1> QED
  BY <1>3, <1>4, <1>5, <1>6, <1>7, <1>8, <1>9 DEF Next

(* A library that is loaded finds the configuration it was given, whatever *)
(* failed and was tried again before.                                      *)
THEOREM ConfigsReach == ASSUME FlatKeysApart PROVE Spec => []ConfigReachesItsOp
<1>1. ConfigInv => ConfigReachesItsOp
  BY DEF ConfigInv, Passed, ConfigReachesItsOp
<1>2. ReadInv /\ ConfigInv /\ [Next]_vars => ConfigInv'
  BY ConfigNext
<1> QED
  BY <1>1, <1>2, ConfigInit, ReadAlways, PTL DEF Spec

-----------------------------------------------------------------------------
(* Lookups in three calls, and in one. *)

(* The entry that a reader's record is about, and what it maps to. *)
EntryIn(s) == <<s.name, ConfigKeys[s.next]>>
Mapped(s) ==
  CASE s.pc \in {"has", "size", "fill"} -> <<"asked", EntryIn(s)>>
    [] s.pc = "store" -> <<"answered", EntryIn(s), s.answer>>
    [] s.pc = "threw" -> <<"failed", EntryIn(s)>>
    [] OTHER -> <<"idle">>

MappedStore == [p \in OpName \X Key |-> entries[MakeCustomOpConfigEntryKey(p[1], p[2])]]
MappedLookups == [r \in Reader |-> LookupOf(r)]

LEMMA MappedRecord == \A r : LookupOf(r) = Mapped(reader[r])
BY DEF LookupOf, Mapped, EntryIn

(* A reader's step changes its own lookup and no entry. *)
LEMMA OneLookup ==
  ASSUME ReadInv, UNCHANGED app, NEW r \in Reader, NEW s, reader' = [reader EXCEPT ![r] = s]
  PROVE  /\ MappedStore' = MappedStore
         /\ MappedLookups' = [MappedLookups EXCEPT ![r] = Mapped(s)]
<1>1. MappedStore' = MappedStore
  BY DEF app, MappedStore
<1>2. reader'[r] = s /\ \A q \in Reader : q # r => reader'[q] = reader[q]
  BY DEF ReadInv, TypeOK
<1>3. \A q \in Reader : LookupOf(q)' = Mapped(reader'[q])
  BY DEF LookupOf, Mapped, EntryIn
<1> QED
  BY <1>1, <1>2, <1>3, MappedRecord DEF MappedLookups

(* The application writes one entry, or none; no lookup moves. *)
LEMMA OneWrite ==
  ASSUME FlatKeysApart, ReadInv, UNCHANGED reader, NEW f \in FlatKey, NEW v \in Value,
         entries' = [entries EXCEPT ![f] = v]
  PROVE  Store!Next
<1>1. PICK n \in OpName, k \in Key : f = MakeCustomOpConfigEntryKey(n, k)
  BY DEF FlatKey
<1>2. <<n, k>> \in OpName \X Key
  OBVIOUS
<1>3. ASSUME NEW p \in OpName \X Key
      PROVE  MappedStore'[p] = IF p = <<n, k>> THEN v ELSE MappedStore[p]
  <2>1. p[1] \in OpName /\ p[2] \in Key /\ p = <<p[1], p[2]>>
    OBVIOUS
  <2>2. MakeCustomOpConfigEntryKey(p[1], p[2]) = f <=> p = <<n, k>>
    BY <1>1, <2>1 DEF FlatKeysApart
  <2>3. MakeCustomOpConfigEntryKey(p[1], p[2]) \in FlatKey
    BY <2>1, Flattened
  <2> QED
    BY <2>2, <2>3 DEF MappedStore, ReadInv, TypeOK
<1>4. MappedStore' = [MappedStore EXCEPT ![<<n, k>>] = v]
  BY <1>2, <1>3 DEF MappedStore
<1>5. MappedLookups' = MappedLookups
  BY DEF MappedLookups, LookupOf
<1>6. Store!Write(<<n, k>>, v)
  BY <1>4, <1>5 DEF Store!Write, MappedStore, MappedLookups
<1> QED
  BY <1>2, <1>6 DEF Store!Next

LEMMA ReaderSteps ==
  ASSUME ReadInv, NEW r \in Reader, Read(r)
  PROVE  Store!Next \/ (MappedStore' = MappedStore /\ MappedLookups' = MappedLookups)
<1> DEFINE o == reader[r]
<1>1. UNCHANGED app
  BY DEF Read, GetSessionConfigs, NextKey, HasConfigEntry, QuerySize, FillBuffer, LookupFails,
         StoreAnswer, Return, Finish
<1>2. o \in Readers /\ MappedLookups[r] = Mapped(o)
  BY MappedRecord DEF ReadInv, TypeOK, MappedLookups
<1>3. ASSUME NEW s, reader' = [reader EXCEPT ![r] = s]
      PROVE  /\ MappedStore' = MappedStore
             /\ MappedLookups' = [MappedLookups EXCEPT ![r] = Mapped(s)]
  BY <1>1, <1>3, OneLookup
(* The lookup stays as it is, is put aside, is asked. *)
<1>4. ASSUME NEW s, reader' = [reader EXCEPT ![r] = s], Mapped(s) = Mapped(o)
      PROVE  MappedStore' = MappedStore /\ MappedLookups' = MappedLookups
  BY <1>2, <1>3, <1>4 DEF MappedLookups
<1>5. ASSUME NEW s, reader' = [reader EXCEPT ![r] = s], o.pc \in {"store", "threw"},
             Mapped(s) = <<"idle">>
      PROVE  Store!Next
  <2>1. MappedLookups[r][1] \in {"answered", "failed"}
    BY <1>2, <1>5 DEF Mapped
  <2>2. Store!Rest(r)
    BY <1>3, <1>5, <2>1 DEF Store!Rest, MappedStore, MappedLookups
  <2> QED
    BY <2>2 DEF Store!Next
<1>6. CASE \E n \in OpName : GetSessionConfigs(r, n)
  <2>1. PICK s : reader' = [reader EXCEPT ![r] = s] /\ s.pc = "loop" /\ o.pc = "idle"
    BY <1>6 DEF GetSessionConfigs, Idle
  <2> QED
    BY <1>4, <2>1 DEF Mapped
<1>7. CASE NextKey(r)
  <2> DEFINE s == [o EXCEPT !.pc = "has",
                            !.config_entry_key = MakeCustomOpConfigEntryKey(o.name, ConfigKeys[o.next])]
  <2>1. /\ reader' = [reader EXCEPT ![r] = s] /\ o.pc = "loop"
        /\ o.next \in 1..Len(ConfigKeys) /\ o.name \in OpName
    BY <1>7, NextKeyOK DEF NextKey
  <2>2. Mapped(s) = <<"asked", EntryIn(o)>> /\ Mapped(o) = <<"idle">>
    BY <1>2, <2>1 DEF Mapped, EntryIn, Readers
  <2>3. EntryIn(o) \in OpName \X Key
    BY <2>1, Strings DEF EntryIn
  <2>4. Store!Ask(r, EntryIn(o))
    <3>1. MappedLookups[r][1] # "asked"
      BY <1>2, <2>2
    <3>2. MappedStore' = MappedStore
          /\ MappedLookups' = [MappedLookups EXCEPT ![r] = <<"asked", EntryIn(o)>>]
      BY <1>3, <2>1, <2>2
    <3> QED
      BY <3>1, <3>2 DEF Store!Ask, MappedStore, MappedLookups
  <2> QED
    BY <2>3, <2>4 DEF Store!Next
(* What the entry has now is what the abstract store has. *)
<1>8. ASSUME o.pc \in {"has", "size", "fill"}
      PROVE  /\ Mapped(o) = <<"asked", EntryIn(o)>> /\ MappedStore[EntryIn(o)] = Asked(r)
  BY <1>8, AskedEntry DEF Mapped, EntryIn, MappedStore
<1>9. ASSUME NEW s, reader' = [reader EXCEPT ![r] = s], o.pc \in {"has", "fill"},
             Mapped(s) = <<"answered", EntryIn(o), IF Asked(r) = NONE THEN <<>> ELSE Asked(r)>>
      PROVE  Store!Next
  <2>1. MappedLookups[r][1] = "asked" /\ MappedLookups[r][2] = EntryIn(o)
    BY <1>2, <1>8, <1>9
  <2>2. /\ MappedStore' = MappedStore
        /\ MappedLookups' = [MappedLookups EXCEPT ![r] =
             <<"answered", MappedLookups[r][2],
               IF MappedStore[MappedLookups[r][2]] = NONE THEN <<>>
               ELSE MappedStore[MappedLookups[r][2]]>>]
    BY <1>3, <1>8, <1>9, <2>1
  <2>3. Store!Answer(r)
    BY <2>1, <2>2 DEF Store!Answer, MappedStore, MappedLookups
  <2> QED
    BY <2>3 DEF Store!Next
<1>10. CASE HasConfigEntry(r)
  <2>1. CASE Asked(r) = NONE
    <3> DEFINE s == [o EXCEPT !.pc = "store", !.answer = <<>>]
    <3>1. reader' = [reader EXCEPT ![r] = s] /\ o.pc = "has"
      BY <1>10, <2>1, HasConfigEntryOK
    <3>2. Mapped(s) = <<"answered", EntryIn(o), <<>>>>
      BY <1>2 DEF Mapped, EntryIn, Readers
    <3> QED
      BY <1>9, <2>1, <3>1, <3>2
  <2>2. CASE Asked(r) # NONE
    <3> DEFINE s == [o EXCEPT !.pc = "size"]
    <3>1. reader' = [reader EXCEPT ![r] = s] /\ o.pc = "has"
      BY <1>10, <2>2, HasConfigEntryOK
    <3>2. Mapped(s) = Mapped(o)
      BY <1>2, <3>1 DEF Mapped, EntryIn, Readers
    <3> QED
      BY <1>4, <3>1, <3>2
  <2> QED
    BY <2>1, <2>2
<1>11. CASE QuerySize(r)
  <2> DEFINE s == [o EXCEPT !.pc = "fill", !.size = Len(Asked(r)) + 1]
  <2>1. reader' = [reader EXCEPT ![r] = s] /\ o.pc = "size"
    BY <1>11, QuerySizeOK
  <2>2. Mapped(s) = Mapped(o)
    BY <1>2, <2>1 DEF Mapped, EntryIn, Readers
  <2> QED
    BY <1>4, <2>1, <2>2
<1>12. CASE FillBuffer(r)
  <2> DEFINE s == [o EXCEPT !.pc = "store", !.size = Len(Asked(r)) + 1, !.answer = Asked(r)]
  <2>1. reader' = [reader EXCEPT ![r] = s] /\ o.pc = "fill"
    BY <1>12, FillBufferOK
  <2>2. Mapped(s) = <<"answered", EntryIn(o), Asked(r)>>
    BY <1>2 DEF Mapped, EntryIn, Readers
  <2>3. Asked(r) # NONE
    BY <2>1, AskedEntry
  <2> QED
    BY <1>9, <2>1, <2>2, <2>3
<1>13. CASE LookupFails(r)
  <2> DEFINE s == [o EXCEPT !.pc = "threw"]
  <2>1. reader' = [reader EXCEPT ![r] = s] /\ o.pc \in {"has", "size", "fill"}
    BY <1>13, LookupFailsOK
  <2>2. Mapped(s) = <<"failed", EntryIn(o)>>
    BY <1>2 DEF Mapped, EntryIn, Readers
  <2>3. Store!Fail(r)
    <3>1. MappedLookups[r][1] = "asked" /\ MappedLookups[r][2] = EntryIn(o)
      BY <1>2, <1>8, <2>1
    <3>2. /\ MappedStore' = MappedStore
          /\ MappedLookups' = [MappedLookups EXCEPT ![r] = <<"failed", MappedLookups[r][2]>>]
      BY <1>3, <2>1, <2>2, <3>1
    <3> QED
      BY <3>1, <3>2 DEF Store!Fail, MappedStore, MappedLookups
  <2> QED
    BY <2>3 DEF Store!Next
<1>14. CASE StoreAnswer(r)
  <2>1. PICK s \in Readers : s.pc = "loop" /\ reader' = [reader EXCEPT ![r] = s]
    BY <1>14, StoreAnswerOK
  <2>2. Mapped(s) = <<"idle">> /\ o.pc = "store"
    BY <1>14, <2>1 DEF Mapped, StoreAnswer
  <2> QED
    BY <1>5, <2>1, <2>2
<1>15. CASE Return(r)
  <2>1. PICK s \in Readers : s.pc = "returned" /\ reader' = [reader EXCEPT ![r] = s]
    BY <1>15, ReturnOK
  <2>2. Mapped(s) = Mapped(o)
    BY <1>15, <2>1 DEF Mapped, Return
  <2> QED
    BY <1>4, <2>1, <2>2
<1>16. CASE Finish(r)
  <2>1. reader' = [reader EXCEPT ![r] = Idle] /\ o.pc \in {"returned", "threw"}
    BY <1>16 DEF Finish
  <2>2. Mapped(Idle) = <<"idle">>
    BY DEF Mapped, Idle
  <2>3. o.pc = "returned" => Mapped(o) = <<"idle">>
    BY DEF Mapped
  <2> QED
    BY <1>4, <1>5, <2>1, <2>2, <2>3
<1> QED
  BY <1>6, <1>7, <1>10, <1>11, <1>12, <1>13, <1>14, <1>15, <1>16 DEF Read

(* Three calls with changes between them answer like one. *)
THEOREM LookupsAtomic == ASSUME FlatKeysApart PROVE Spec => ImplementsConfigStore
<1>1. Init => Store!Init
  BY Flattened DEF Init, Idle, Store!Init, LookupOf
<1>2. ReadInv /\ [Next]_vars => [Store!Next]_<<MappedStore, MappedLookups>>
  <2> SUFFICES ASSUME ReadInv, [Next]_vars
               PROVE  Store!Next \/ (MappedStore' = MappedStore /\ MappedLookups' = MappedLookups)
    OBVIOUS
  <2>1. ASSUME NEW r \in Reader, Read(r)
        PROVE  Store!Next \/ (MappedStore' = MappedStore /\ MappedLookups' = MappedLookups)
    BY <2>1, ReaderSteps
  <2>2. ASSUME UNCHANGED <<entries, reader>>
        PROVE  MappedStore' = MappedStore /\ MappedLookups' = MappedLookups
    BY <2>2 DEF MappedStore, MappedLookups, LookupOf
  <2>3. ASSUME NEW n \in OpName, NEW k \in Key, NEW v \in Value, AddConfig(n, k, v)
        PROVE  MappedStore' = MappedStore /\ MappedLookups' = MappedLookups
    BY <2>2, <2>3 DEF AddConfig
  <2>4. ASSUME NEW f \in FlatKey, NEW v \in Value, AddConfigEntry(f, v) PROVE Store!Next
    BY <2>4, OneWrite DEF AddConfigEntry
  <2>5. ASSUME NEW f \in FlatKey, RegisterAdd(f) PROVE Store!Next
    <3>1. flat_configs[f] \in Value
      BY <2>5, RegisterAddOK
    <3> QED
      BY <2>5, <3>1, OneWrite DEF RegisterAdd
  <2>6. ASSUME RegisterCustomOpsLibrary \/ RegisterLoad \/ RegisterReturns \/ RegisterFails
        PROVE  MappedStore' = MappedStore /\ MappedLookups' = MappedLookups
    BY <2>2, <2>6 DEF RegisterCustomOpsLibrary, RegisterLoad, RegisterReturns, RegisterFails
  <2>7. ASSUME UNCHANGED vars PROVE MappedStore' = MappedStore /\ MappedLookups' = MappedLookups
    BY <2>2, <2>7 DEF vars
  <2> QED
    BY <2>1, <2>3, <2>4, <2>5, <2>6, <2>7 DEF Next
<1>3. [Store!Next]_<<MappedStore, MappedLookups>> => [Store!Next]_Store!csvars
  BY DEF Store!csvars, MappedStore, MappedLookups
<1> QED
  BY <1>1, <1>2, <1>3, ReadAlways, PTL DEF Spec, ImplementsConfigStore, Store!Spec
=============================================================================
