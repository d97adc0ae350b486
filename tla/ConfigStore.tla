----------------------------- MODULE ConfigStore -----------------------------
(***************************************************************************)
(* What a reader of configuration entries may count on: a store whose      *)
(* entries are written whole, and lookups that are answered, at one        *)
(* instant between the question and the answer, with the value the entry   *)
(* has at that instant, or with the default if there is none then.  A      *)
(* lookup may fail instead; it never answers anything else.                *)
(***************************************************************************)
CONSTANTS Entry,     \* names of entries
          Value,
          Default,   \* the answer for an entry that is not there
          NONE,
          Reader

VARIABLES store,     \* Entry -> Value or NONE
          lookup     \* of each reader: <<"idle">>, <<"asked", e>>,
                     \* <<"answered", e, v>> or <<"failed", e>>

csvars == <<store, lookup>>

Init ==
  /\ store = [e \in Entry |-> NONE]
  /\ lookup = [r \in Reader |-> <<"idle">>]

Write(e, v) ==
  /\ store' = [store EXCEPT ![e] = v]
  /\ UNCHANGED lookup

(* A reader asks whenever it is not waiting for an answer. *)
Ask(r, e) ==
  /\ lookup[r][1] # "asked"
  /\ lookup' = [lookup EXCEPT ![r] = <<"asked", e>>]
  /\ UNCHANGED store

Answer(r) ==
  /\ lookup[r][1] = "asked"
  /\ LET e == lookup[r][2]
     IN lookup' = [lookup EXCEPT ![r] =
                     <<"answered", e, IF store[e] = NONE THEN Default ELSE store[e]>>]
  /\ UNCHANGED store

Fail(r) ==
  /\ lookup[r][1] = "asked"
  /\ lookup' = [lookup EXCEPT ![r] = <<"failed", lookup[r][2]>>]
  /\ UNCHANGED store

Rest(r) ==
  /\ lookup[r][1] \in {"answered", "failed"}
  /\ lookup' = [lookup EXCEPT ![r] = <<"idle">>]
  /\ UNCHANGED store

Next ==
  \/ \E e \in Entry, v \in Value : Write(e, v)
  \/ \E r \in Reader : \/ \E e \in Entry : Ask(r, e)
                       \/ Answer(r) \/ Fail(r) \/ Rest(r)

Spec == Init /\ [][Next]_csvars
=============================================================================
