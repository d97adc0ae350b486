--------------------------- MODULE SessionConfigs ---------------------------
(***************************************************************************)
(* Configuration entries on their way to a custom operator.                *)
(*   - the application collects them in a CustomOpConfigs, under a key that *)
(*     is flattened from the operator's name and the entry's                *)
(*   - SessionOptions::RegisterCustomOpsLibrary copies them, one call to    *)
(*     the runtime per entry, and then has the library loaded               *)
(*   - the operator reads its entries with CustomOpBase::GetSessionConfigs, *)
(*     three calls to the runtime per entry: is it there, how long is it,   *)
(*     what is it.                                                          *)
(* An application that has the options in several hands (GetUnowned,        *)
(* ConstSessionOptions) can change them between any two calls; every call   *)
(* into the runtime is atomic, as its declaration in onnxruntime_c_api.h    *)
(* describes it.  A string is a sequence of pieces.                         *)
(***************************************************************************)
EXTENDS Naturals, Sequences

CONSTANTS
  OpName,       \* names of custom operators
  ConfigKeys,   \* GetSessionConfigKeys(): the entries an operator reads, in order
  Value,        \* values of entries
  Reader,       \* threads in which an operator is being constructed
  MaxChanges,   \* bound on the calls of AddConfig and AddConfigEntry
  NONE

Key == {ConfigKeys[i] : i \in DOMAIN ConfigKeys}

ASSUME ConfigConstants ==
  /\ MaxChanges \in Nat /\ NONE \notin Value
  /\ OpName \subseteq Seq(STRING) /\ Value \subseteq Seq(STRING)
  /\ ConfigKeys \in Seq(Seq(STRING))

(* detail::MakeCustomOpConfigEntryKey *)
MakeCustomOpConfigEntryKey(name, config) ==
  <<"custom_op", ".">> \o name \o <<".">> \o config

FlatKey == {MakeCustomOpConfigEntryKey(n, k) : n \in OpName, k \in Key}

VARIABLES
  flat_configs,   \* CustomOpConfigs::flat_configs_
  asked,          \* history: the last value AddConfig was given for a name and a key
  entries,        \* the configuration entries of the session options
  direct,         \* history: entries the application has set itself
  todo,           \* entries RegisterCustomOpsLibrary has still to add
  main,           \* where the application's thread is: "idle", or "adding" or
                  \* "loading" in RegisterCustomOpsLibrary
  loaded,         \* whether the library has been loaded
  changes,        \* AddConfig and AddConfigEntry calls so far
  reader          \* GetSessionConfigs in each thread

vars == <<flat_configs, asked, entries, direct, todo, main, loaded, changes, reader>>
app == <<flat_configs, asked, entries, direct, todo, main, loaded, changes>>

(* A reader that is in no call; out is the map that it fills. *)
Idle == [pc |-> "idle", name |-> NONE, next |-> 0, config_entry_key |-> <<>>, size |-> 0,
         answer |-> NONE, out |-> [k \in Key |-> NONE]]

Init ==
  /\ flat_configs = [f \in FlatKey |-> NONE]
  /\ asked = [p \in OpName \X Key |-> NONE]
  /\ entries = [f \in FlatKey |-> NONE]
  /\ direct = {}
  /\ todo = {} /\ main = "idle" /\ loaded = FALSE /\ changes = 0
  /\ reader = [r \in Reader |-> Idle]

-----------------------------------------------------------------------------
(* CustomOpConfigs::AddConfig *)
AddConfig(name, key, v) ==
  /\ main = "idle" /\ changes < MaxChanges
  /\ flat_configs' = [flat_configs EXCEPT ![MakeCustomOpConfigEntryKey(name, key)] = v]
  /\ asked' = [asked EXCEPT ![<<name, key>>] = v]
  /\ changes' = changes + 1
  /\ UNCHANGED <<entries, direct, todo, main, loaded, reader>>

(* SessionOptions::AddConfigEntry called by the application. *)
AddConfigEntry(f, v) ==
  /\ main = "idle" /\ changes < MaxChanges
  /\ entries' = [entries EXCEPT ![f] = v]
  /\ direct' = direct \cup {f}
  /\ changes' = changes + 1
  /\ UNCHANGED <<flat_configs, asked, todo, main, loaded, reader>>

(* RegisterCustomOpsLibrary: first the entries, in the map's own order... *)
RegisterCustomOpsLibrary ==
  /\ main = "idle"
  /\ todo' = {f \in FlatKey : flat_configs[f] # NONE}
  /\ main' = "adding"
  /\ UNCHANGED <<flat_configs, asked, entries, direct, loaded, changes, reader>>

RegisterAdd(f) ==
  /\ main = "adding" /\ f \in todo
  /\ entries' = [entries EXCEPT ![f] = flat_configs[f]]
  /\ todo' = todo \ {f}
  /\ UNCHANGED <<flat_configs, asked, direct, main, loaded, changes, reader>>

(* Slip: the library is loaded without waiting for the entries. *)
RegisterLoadEarly ==
  /\ main = "adding"
  /\ loaded' = TRUE
  /\ main' = "loading"
  /\ UNCHANGED <<flat_configs, asked, entries, direct, todo, changes, reader>>

(* ... then the library, whose RegisterCustomOps may read them. *)
RegisterLoad ==
  /\ main = "adding" /\ todo = {}
  /\ loaded' = TRUE
  /\ main' = "loading"
  /\ UNCHANGED <<flat_configs, asked, entries, direct, todo, changes, reader>>

RegisterReturns ==
  /\ main = "loading"
  /\ main' = "idle"
  /\ UNCHANGED <<flat_configs, asked, entries, direct, todo, loaded, changes, reader>>

(* Either call fails and ThrowOnError throws; the entries added stay. *)
RegisterFails ==
  /\ main = "adding"
  /\ todo' = {} /\ main' = "idle"
  /\ UNCHANGED <<flat_configs, asked, entries, direct, loaded, changes, reader>>

-----------------------------------------------------------------------------
(* A step of a reader changes none of the application's variables. *)

(* GetSessionConfigs begins; the operator exists once its library is loaded. *)
GetSessionConfigs(r, name) ==
  /\ reader[r].pc = "idle" /\ loaded
  /\ reader' = [reader EXCEPT ![r] =
                  [Idle EXCEPT !.pc = "loop", !.name = name, !.next = 1,
                               !.config_entry_key = MakeCustomOpConfigEntryKey(name, <<>>)]]
  /\ UNCHANGED app

(* Slip: the key is extended without being cut back to the prefix. *)
NextKeyAppends(r) ==
  /\ reader[r].pc = "loop" /\ reader[r].next <= Len(ConfigKeys)
  /\ reader' = [reader EXCEPT ![r].pc = "has",
                              ![r].config_entry_key = @ \o ConfigKeys[reader[r].next]]
  /\ UNCHANGED app

(* One turn of its loop: the key is cut back to the prefix, then extended. *)
NextKey(r) ==
  LET prefix_size == Len(MakeCustomOpConfigEntryKey(reader[r].name, <<>>))
  IN /\ reader[r].pc = "loop" /\ reader[r].next <= Len(ConfigKeys)
     /\ reader' = [reader EXCEPT ![r].pc = "has",
                                 ![r].config_entry_key = SubSeq(@, 1, prefix_size)
                                                           \o ConfigKeys[reader[r].next]]
     /\ UNCHANGED app

EntryOf(f) == IF f \in FlatKey THEN entries[f] ELSE NONE
Asked(r) == EntryOf(reader[r].config_entry_key)

(* GetConfigEntryOrDefault asks HasConfigEntry and may answer the default, "". *)
HasConfigEntry(r) ==
  /\ reader[r].pc = "has"
  /\ reader' = IF Asked(r) = NONE
                 THEN [reader EXCEPT ![r].pc = "store", ![r].answer = <<>>]
                 ELSE [reader EXCEPT ![r].pc = "size"]
  /\ UNCHANGED app

(* GetConfigEntry: the first call of GetSessionConfigEntry asks for the size, *)
(* which counts the terminating NUL.                                          *)
QuerySize(r) ==
  /\ reader[r].pc = "size"
  /\ reader' = [reader EXCEPT ![r].pc = "fill", ![r].size = Len(Asked(r)) + 1]
  /\ UNCHANGED app

(* A buffer of n characters into which the runtime wrote v and its NUL. *)
Buffer(v, n) == [i \in 1..n |-> IF i <= Len(v) THEN v[i] ELSE "NUL"]

(* Slip: the string keeps the size that the first call asked for. *)
FillBufferUncut(r) ==
  /\ reader[r].pc = "fill" /\ Len(Asked(r)) < reader[r].size
  /\ reader' = [reader EXCEPT ![r].pc = "store",
                              ![r].answer = SubSeq(Buffer(Asked(r), reader[r].size),
                                                   1, reader[r].size - 1)]
  /\ UNCHANGED app

(* The second call fills the buffer and sets size to what it wrote, if the *)
(* value still fits.  The string is cut to size - 1.                       *)
FillBuffer(r) ==
  LET size == Len(Asked(r)) + 1
  IN /\ reader[r].pc = "fill" /\ size <= reader[r].size
     /\ reader' = [reader EXCEPT ![r].pc = "store", ![r].size = size,
                                 ![r].answer = SubSeq(Buffer(Asked(r), reader[r].size),
                                                      1, size - 1)]
     /\ UNCHANGED app

(* Any of the three calls fails, the last one for certain where the value has *)
(* outgrown the buffer, or std::string cannot get the buffer: ThrowOnError or  *)
(* resize throws out of GetSessionConfigs.                                     *)
LookupFails(r) ==
  /\ reader[r].pc \in {"has", "size", "fill"}
  /\ reader' = [reader EXCEPT ![r].pc = "threw"]
  /\ UNCHANGED app

(* out[key] = the answer *)
StoreAnswer(r) ==
  /\ reader[r].pc = "store"
  /\ reader' = [reader EXCEPT ![r].pc = "loop", ![r].next = @ + 1, ![r].answer = NONE,
                              ![r].out[ConfigKeys[reader[r].next]] = reader[r].answer]
  /\ UNCHANGED app

Return(r) ==
  /\ reader[r].pc = "loop" /\ reader[r].next > Len(ConfigKeys)
  /\ reader' = [reader EXCEPT ![r].pc = "returned"]
  /\ UNCHANGED app

(* The operator is done with the map. *)
Finish(r) ==
  /\ reader[r].pc \in {"returned", "threw"}
  /\ reader' = [reader EXCEPT ![r] = Idle]
  /\ UNCHANGED app

Read(r) ==
  \/ \E n \in OpName : GetSessionConfigs(r, n)
  \/ NextKey(r) \/ HasConfigEntry(r) \/ QuerySize(r) \/ FillBuffer(r) \/ LookupFails(r)
  \/ StoreAnswer(r) \/ Return(r) \/ Finish(r)

Next ==
  \/ \E n \in OpName, k \in Key, v \in Value : AddConfig(n, k, v)
  \/ \E f \in FlatKey, v \in Value : AddConfigEntry(f, v)
  \/ RegisterCustomOpsLibrary \/ RegisterLoad \/ RegisterReturns
  \/ RegisterFails
  \/ \E f \in FlatKey : RegisterAdd(f)
  \/ \E r \in Reader : Read(r)

Spec == Init /\ [][Next]_vars
-----------------------------------------------------------------------------
Answers == Value \cup {<<>>}

Readers ==
  [pc : {"idle", "loop", "has", "size", "fill", "store", "returned", "threw"},
   name : OpName \cup {NONE}, next : 0..(Len(ConfigKeys) + 1),
   config_entry_key : {MakeCustomOpConfigEntryKey(n, <<>>) : n \in OpName}
                        \cup FlatKey \cup {<<>>},
   size : Nat, answer : Answers \cup {NONE}, out : [Key -> Answers \cup {NONE}]]

(* Every answer an operator gets is a whole value, never a buffer with the   *)
(* rest of a longer one, and every key it asks for is one that exists.       *)
TypeOK ==
  /\ flat_configs \in [FlatKey -> Value \cup {NONE}]
  /\ asked \in [OpName \X Key -> Value \cup {NONE}]
  /\ entries \in [FlatKey -> Value \cup {NONE}]
  /\ direct \subseteq FlatKey /\ todo \subseteq FlatKey
  /\ main \in {"idle", "adding", "loading"} /\ loaded \in BOOLEAN
  /\ changes \in 0..MaxChanges
  /\ reader \in [Reader -> Readers]

(* When the library is loaded, its operators find exactly what AddConfig was *)
(* last given for their own name, whatever failed and was tried again before *)
(* ("Add custom op config entries before registering the custom op library", *)
(* RegisterCustomOpsLibrary; "a specific custom operator", AddConfig).       *)
ConfigReachesItsOp ==
  main = "loading" =>
    \A n \in OpName, k \in Key :
      LET f == MakeCustomOpConfigEntryKey(n, k)
      IN IF asked[<<n, k>>] # NONE THEN entries[f] = asked[<<n, k>>]
         ELSE f \in direct \/ entries[f] = NONE

(* GetFlattenedConfigs has the entry AddConfig("my_op", "key") made under    *)
(* "my_op.key", as its documentation says.                                   *)
FlattenedAsDocumented ==
  \A n \in OpName, k \in Key :
    asked[<<n, k>>] # NONE =>
      \E f \in FlatKey : f = n \o <<".">> \o k /\ flat_configs[f] # NONE

(* Refinement mapping: a lookup is open from the first of its three calls to *)
(* the one that settles it.                                                  *)
LookupOf(r) ==
  LET e == <<reader[r].name, ConfigKeys[reader[r].next]>>
  IN CASE reader[r].pc \in {"has", "size", "fill"} -> <<"asked", e>>
       [] reader[r].pc = "store" -> <<"answered", e, reader[r].answer>>
       [] reader[r].pc = "threw" -> <<"failed", e>>
       [] OTHER -> <<"idle">>

Store == INSTANCE ConfigStore
  WITH Entry <- OpName \X Key, Default <- <<>>,
       store <- [p \in OpName \X Key |-> entries[MakeCustomOpConfigEntryKey(p[1], p[2])]],
       lookup <- [r \in Reader |-> LookupOf(r)]

(* The three calls of a lookup, with the options changing between them,      *)
(* answer like one: with the value that the operator's own entry had at one  *)
(* instant, with "" if it had none, or with an exception.                    *)
ImplementsConfigStore == Store!Spec
=============================================================================
