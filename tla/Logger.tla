------------------------------- MODULE Logger -------------------------------
(***************************************************************************)
(* Ort::Logger and the four ORT_CXX_LOG macros.  A Logger caches the       *)
(* severity level that the runtime's logger has when it is made; a macro   *)
(* compares with the cache, formats into a buffer if it has arguments,     *)
(* calls the runtime, and throws or ignores the status that comes back.    *)
(* A message is its severity and its length; -2 as the length of what was  *)
(* sent stands for a buffer that nothing has been written to.              *)
(***************************************************************************)
EXTENDS Integers

CONSTANTS Thread,   \* threads that log, each with a Logger
          Level,    \* severity levels
          Length    \* lengths of messages, FormattingError among them

FormattingError == -1   \* what snprintf returns

ASSUME LoggerConstants ==
  /\ Level \subseteq Nat
  /\ Length \subseteq Nat \cup {FormattingError}

kStackBufferSize == 1024
Uncached == -1
Unwritten == -2            \* as the length of what is sent
Macro == {"LOG", "LOG_NOEXCEPT", "LOGF", "LOGF_NOEXCEPT"}

VARIABLES level,     \* severity level of the runtime's logger
          cached,    \* cached_severity_level_ of each thread's Logger
          log,       \* the macro each thread executes, or the last one it did
          statuses,  \* threads whose call has an OrtStatus to release
          ended      \* whether the process was terminated

logVars == <<level, cached, log, statuses, ended>>

NoMacro == [macro |-> "LOG", sev |-> 0, len |-> 0, room |-> 0, written |-> TRUE,
            sent |-> 0, pc |-> "done", outcome |-> "none"]

LoggerInit ==
  /\ level \in Level
  /\ cached = [t \in Thread |-> Uncached]
  /\ log = [t \in Thread |-> NoMacro]
  /\ statuses = {}
  /\ ended = FALSE

Formats(m) == m \in {"LOGF", "LOGF_NOEXCEPT"}
Throws(m) == m \in {"LOG", "LOGF"}
At(t, pc) == ~ended /\ log[t].pc = pc

-----------------------------------------------------------------------------
(* Env::UpdateEnvWithCustomLogLevel, while loggers are in use. *)
ChangeLevel(l) ==
  /\ ~ended /\ l # level
  /\ level' = l
  /\ UNCHANGED <<cached, log, statuses, ended>>

(* KernelContext::GetLogger and the constructor of Logger: the level is cached. *)
MakeLogger(t) ==
  /\ At(t, "done")
  /\ cached' = [cached EXCEPT ![t] = level]
  /\ log' = [log EXCEPT ![t] = NoMacro]
  /\ UNCHANGED <<level, statuses, ended>>

(* Either of their two calls fails: ThrowOnError throws, and there is no Logger. *)
MakeLoggerFails(t) ==
  /\ At(t, "done")
  /\ log' = [log EXCEPT ![t] = NoMacro]
  /\ UNCHANGED <<level, cached, statuses, ended>>

(* The Logger goes out of scope. *)
DropLogger(t) ==
  /\ At(t, "done")
  /\ cached' = [cached EXCEPT ![t] = Uncached]
  /\ log' = [log EXCEPT ![t] = NoMacro]
  /\ UNCHANGED <<level, statuses, ended>>

(* Slip: a message of exactly the logger's level is suppressed. *)
PassesAbove(t, sev) == sev > cached[t]

(* message_severity >= logger.GetLoggingSeverityLevel() *)
Passes(t, sev) == sev >= cached[t]

(* A macro that the cached level suppresses does nothing else. *)
Log(t, m, sev, len) ==
  /\ At(t, "done") /\ cached[t] # Uncached
  /\ ~Formats(m) => len # FormattingError
  /\ log' = [log EXCEPT ![t] =
       IF ~Passes(t, sev)
         THEN [NoMacro EXCEPT !.sev = sev, !.outcome = "suppressed"]
         ELSE [NoMacro EXCEPT !.macro = m, !.sev = sev, !.len = len,
                 !.pc = IF Formats(m) THEN "format" ELSE "send",
                 !.room = IF Formats(m) THEN 0 ELSE len + 1]]
  /\ UNCHANGED <<level, cached, statuses, ended>>

(* Slip: no room for the NUL. *)
BufferSizeNoNul(len) == len

(* buffer_size *)
BufferSize(len) == len + 1

(* Slip: a formatting error is not looked for. *)
FormatUnchecked(t) ==
  /\ At(t, "format")
  /\ LET size == BufferSize(log[t].len)
     IN log' = [log EXCEPT ![t].pc = "send",
                  ![t].room = IF size < kStackBufferSize THEN kStackBufferSize ELSE size]
  /\ UNCHANGED <<level, cached, statuses, ended>>

(* LogFormattedMessage: the first snprintf tells the length or fails, and     *)
(* decides on which buffer the second one writes.  Nobody looks at the result *)
(* of the second, which may fail as well.                                     *)
Format(t) ==
  /\ At(t, "format")
  /\ LET len == log[t].len
         size == BufferSize(len)
         room == IF size < kStackBufferSize THEN kStackBufferSize ELSE size
     IN IF len = FormattingError
          THEN /\ statuses' = statuses \cup {t}
               /\ log' = [log EXCEPT ![t].pc = "return"]
          ELSE /\ \E written \in BOOLEAN :
                    log' = [log EXCEPT ![t].pc = "send", ![t].room = room, ![t].written = written]
               /\ UNCHANGED statuses
  /\ UNCHANGED <<level, cached, ended>>

(* make_unique throws std::bad_alloc in a noexcept function. *)
AllocationFails(t) ==
  /\ At(t, "format")
  /\ BufferSize(log[t].len) >= kStackBufferSize
  /\ ended' = TRUE
  /\ UNCHANGED <<level, cached, log, statuses>>

Shorter(a, b) == IF a < b THEN a ELSE b

(* Logger_LogMessage: the runtime gets what is in the buffer, which on the *)
(* stack was not initialised.                                              *)
Send(t) ==
  /\ At(t, "send")
  /\ log' = [log EXCEPT ![t].pc = "return",
               ![t].sent = IF log[t].written THEN Shorter(log[t].len, log[t].room - 1)
                           ELSE Unwritten]
  /\ UNCHANGED <<level, cached, statuses, ended>>

SendFails(t) ==
  /\ At(t, "send")
  /\ statuses' = statuses \cup {t}
  /\ log' = [log EXCEPT ![t].pc = "return"]
  /\ UNCHANGED <<level, cached, ended>>

(* Slip: the macro for noexcept code drops a raw OrtStatus*. *)
ReturnDropsStatus(t) ==
  /\ At(t, "return")
  /\ log' = [log EXCEPT ![t].pc = "done", ![t].room = 0,
               ![t].outcome = IF t \notin statuses THEN "logged"
                              ELSE IF Throws(log[t].macro) THEN "threw" ELSE "ignored"]
  /\ statuses' = IF Throws(log[t].macro) THEN statuses \ {t} ELSE statuses
  /\ UNCHANGED <<level, cached, ended>>

(* The Status that the call returns is a temporary of the macro's statement: *)
(* ThrowOnError throws if it holds an error, a cast to void ignores it, and  *)
(* its destructor runs either way.                                           *)
Return(t) ==
  /\ At(t, "return")
  /\ log' = [log EXCEPT ![t].pc = "done", ![t].room = 0,
               ![t].outcome = IF t \notin statuses THEN "logged"
                              ELSE IF Throws(log[t].macro) THEN "threw" ELSE "ignored"]
  /\ statuses' = statuses \ {t}
  /\ UNCHANGED <<level, cached, ended>>

-----------------------------------------------------------------------------
LoggerTypeOK ==
  /\ level \in Level
  /\ cached \in [Thread -> Level \cup {Uncached}]
  /\ \A t \in Thread :
       /\ log[t].macro \in Macro /\ log[t].sev \in Level \cup {0}
       /\ log[t].len \in Length \cup {0} /\ log[t].room \in Nat
       /\ log[t].written \in BOOLEAN /\ log[t].sent \in Nat \cup {Unwritten}
       /\ log[t].pc \in {"done", "format", "send", "return"}
       /\ log[t].outcome \in {"none", "suppressed", "logged", "threw", "ignored"}
  /\ statuses \subseteq Thread
  /\ ended \in BOOLEAN

(* However long it is, a message is sent to the runtime whole, unless the    *)
(* second snprintf of its macro failed; or the macro has not hidden its      *)
(* failure: it threw, or it is one of those that ignore errors               *)
(* (ORT_CXX_LOGF, LogFormattedMessage).  No error status survives its macro. *)
MessagesAccountedFor ==
  \A t \in Thread : log[t].pc = "done" =>
    /\ t \notin statuses
    /\ log[t].outcome = "logged" /\ log[t].written => log[t].sent = log[t].len
    /\ log[t].outcome = "threw" => Throws(log[t].macro)
    /\ log[t].outcome = "ignored" => ~Throws(log[t].macro)
=============================================================================
