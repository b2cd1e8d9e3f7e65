------------------------------- MODULE Logger -------------------------------
(***************************************************************************)
(* logger (logger.h, logger.cpp, logging_helper.h): one thread configures  *)
(* the logger and adds destinations, any thread writes messages.  There is *)
(* no lock: _logs_on is atomic, _appenders and _level_filter are not.      *)
(*                                                                         *)
(* Destinations: "cli" and "file" go through boost.log, whose core has one *)
(* sink at a time (remove_all_sinks, add_sink); "sys" is syslog; "custom"  *)
(* is a handler of the user's, which may throw.  A filter is the set of    *)
(* the levels that are masked out (the bits of _level_filter).  What a     *)
(* sink does with a record is left to SinkTakes of the specification that  *)
(* composes this one with the files.                                       *)
(***************************************************************************)
EXTENDS Naturals, Sequences, FiniteSets

CONSTANTS
    Writers,      \* threads that log
    LogLevels,    \* levels they log with
    Environment,  \* values of the environment's variable of the level
    MaxMessages,  \* bound: messages created
    MaxAppenders, \* bound: destinations added
    MaxSettings   \* bound: calls of the setters

Levels == {"fatal", "error", "warning", "info", "debug", "trace"}
Messages == 1 .. MaxMessages
BoostDestinations == {"cli", "file"}
Destinations == BoostDestinations \cup {"sys", "custom"}
OptionNames == {"details", "autoflush", "timeFormat"}

\* The options that a destination's sink is made with: init_file_log leaves the
\* flushing to its backend.
OptionsOf(d) == IF d = "file" THEN {"details", "timeFormat"} ELSE OptionNames

ASSUME LoggerAssumption ==
    /\ LogLevels \subseteq Levels /\ LogLevels # {}
    /\ MaxMessages \in Nat /\ MaxAppenders \in Nat /\ MaxSettings \in Nat

VARIABLES
    logsOn,    \* _logs_on
    filter,    \* _level_filter: the masked levels
    option,    \* _details_filter, _autoflush, _time_format: have they been changed
    boostImpl, \* the number of the object _boost_impl points to; 0: null
    appenders, \* _appenders: destination and the boost logger it has captured
    sink,      \* the core's sink: destination, async, the OptionsOf it was made with
    writer,    \* per thread: what it is at in write()
    created,   \* s_id_counter
    records,   \* records in the sink's queue, <<id, appender>>
    out,       \* how often a message has reached a destination
    settings,  \* calls of the setters so far
    ledger,    \* per message: the appenders a finished write() owed it to
    flushing,  \* the configuring thread is in flush()
    fault      \* undefined behaviour that has been met, or "terminated"

configVars == <<logsOn, filter, option, boostImpl, appenders, sink, settings>>
writeVars == <<writer, created, ledger, flushing>>
loggerVars == <<logsOn, filter, option, boostImpl, appenders, sink, writer,
                created, records, out, settings, ledger, flushing, fault>>

Faults == {"none", "appenders", "dangling", "terminated"}
Idle == [at |-> "idle"]
NoSink == [dest |-> "none"]

\* level_trace .. level_error: every level below the named one is masked.
LevelMask(name) ==
    CASE name = "TRACE" -> {}
      [] name = "DEBUG" -> {"trace"}
      [] name = "INF" -> {"trace", "debug"}
      [] name = "WARN" -> {"trace", "debug", "info"}
      [] name = "ERR" -> {"trace", "debug", "info", "warning"}

Named == {"TRACE", "DEBUG", "INF", "WARN", "ERR"}

\* !level_ || ~_level_filter & level_: "fatal" is no bit and passes.
is_not_filtered(lv) == lv = "fatal" \/ lv \notin filter

(***************************************************************************)
(* Plausible faults of the operations below, one small change each.  No    *)
(* specification uses them; each shows that some property notices it.      *)
(***************************************************************************)

\* write() that may give an appender the message again.
WriteRepeated(w) ==
    /\ fault = "none" /\ writer[w].at = "write" /\ writer[w].i <= writer[w].n
    /\ LET a == appenders[writer[w].i] IN
       IF a.dest \in BoostDestinations /\ sink.async
       THEN records' = Append(records, writer[w].id) /\ UNCHANGED out
       ELSE out' = [out EXCEPT ![writer[w].id][a.dest] = @ + 1] /\ UNCHANGED records
    /\ \E step \in {0, 1} : writer' = [writer EXCEPT ![w].i = @ + step]
    /\ UNCHANGED <<configVars, created, ledger, flushing, fault>>

(***************************************************************************)
(* Configuration                                                           *)
(***************************************************************************)
\* The sink's formatter is put together from the options as they are now.
NewSink(d, async) == [dest |-> d, async |-> async, option |-> [o \in OptionsOf(d) |-> option[o]]]

\* The destinations ds have been configured: none, or a log file.
LoggerInit(ds) ==
    /\ filter = {} /\ option = [o \in OptionNames |-> FALSE]
    /\ \/ /\ ds = {} /\ logsOn = FALSE
          /\ boostImpl = 0 /\ appenders = <<>> /\ sink = NoSink
       \/ /\ ds = {"file"} /\ logsOn = TRUE
          /\ boostImpl = 1 /\ appenders = <<[dest |-> "file", impl |-> 1]>>
          /\ sink = NewSink("file", TRUE)
    /\ writer = [w \in Writers |-> Idle] /\ created = 0
    /\ records = <<>> /\ out = [m \in Messages |-> [d \in Destinations |-> 0]]
    /\ settings = 0 /\ ledger = [m \in Messages |-> {}]
    /\ flushing = FALSE /\ fault = "none"

\* The configuring thread is free.
Free == fault = "none" /\ ~flushing

Setting == Free /\ settings < MaxSettings /\ settings' = settings + 1

set_level(mask) ==
    /\ filter' = mask
    /\ UNCHANGED <<logsOn, option, boostImpl, appenders, sink, records, out, writeVars, fault>>

\* A number is the mask itself; a name is one of five prefixes; with anything
\* else ("invalid") the call throws and nothing has changed.
set_level_from_environment ==
    /\ Setting
    /\ \E v \in Environment :
          set_level(IF v \in Named THEN LevelMask(v)
                    ELSE IF v = "invalid" THEN filter ELSE v)

\* set_details, set_autoflush, set_time_format assert !_boost_impl: the sink
\* has been given its format.
set_option(o) ==
    /\ Setting
    /\ boostImpl = 0
    /\ option' = [option EXCEPT ![o] = ~@]
    /\ UNCHANGED <<logsOn, filter, boostImpl, appenders, sink, records, out, writeVars, fault>>

\* push_back may move the elements another thread's write() is walking along.
add_destination(d, impl) ==
    /\ appenders' = Append(appenders, [dest |-> d, impl |-> impl])
    /\ fault' = IF \E w \in Writers : writer[w].at = "write" THEN "appenders" ELSE fault

\* init_cli_log, init_file_log: add_boost_log_destination replaces the sink
\* (what the old one has not written is lost) and _boost_impl; unlock().
\* init_file_log's sink is always asynchronous.
init_boost_log(d, async) ==
    /\ Free /\ Len(appenders) < MaxAppenders
    /\ d = "file" => async
    /\ sink' = NewSink(d, async)
    /\ records' = <<>>
    /\ boostImpl' = boostImpl + 1
    /\ add_destination(d, boostImpl')
    /\ logsOn' = TRUE
    /\ UNCHANGED <<filter, option, settings, out, writeVars>>

\* init_sys_log: openlog(), the destination, unlock().
init_sys_log ==
    /\ Free /\ Len(appenders) < MaxAppenders
    /\ add_destination("sys", 0)
    /\ logsOn' = TRUE
    /\ UNCHANGED <<filter, option, boostImpl, sink, settings, records, out, writeVars>>

\* A handler of the user's; logging is not switched on by it.
add_custom_destination ==
    /\ Free /\ Len(appenders) < MaxAppenders
    /\ add_destination("custom", 0)
    /\ UNCHANGED <<logsOn, filter, option, boostImpl, sink, settings, records, out, writeVars>>

\* lock() and unlock(), for one from process_atexit and process_fail.
lock == /\ Setting /\ logsOn /\ logsOn' = FALSE
        /\ UNCHANGED <<filter, option, boostImpl, appenders, sink, records, out, writeVars, fault>>

unlock == /\ Setting /\ ~logsOn /\ logsOn' = TRUE
          /\ UNCHANGED <<filter, option, boostImpl, appenders, sink, records, out, writeVars, fault>>

\* flush() returns at once while logging is off; otherwise it waits until the
\* core's sink has nothing left to write.
flush ==
    /\ Setting /\ logsOn /\ appenders # <<>>
    /\ flushing' = TRUE
    /\ UNCHANGED <<logsOn, filter, option, boostImpl, appenders, sink, writer, created,
                   records, out, ledger, fault>>

FlushReturns ==
    /\ fault = "none" /\ flushing /\ records = <<>>
    /\ flushing' = FALSE
    /\ UNCHANGED <<configVars, writer, created, records, out, ledger, fault>>

(***************************************************************************)
(* Messages                                                                *)
(***************************************************************************)
\* The message gets its number; source and thread by the details.
create_message(w, lv) ==
    /\ fault = "none" /\ writer[w].at = "idle" /\ created < MaxMessages
    /\ created' = created + 1
    /\ writer' = [writer EXCEPT ![w] = [at |-> "created", lv |-> lv, id |-> created + 1]]
    /\ UNCHANGED <<configVars, records, out, ledger, fault, flushing>>

\* LOG_LOG: the filter is looked at before the message is made ...
LogMessage(w, lv) == is_not_filtered(lv) /\ create_message(w, lv)

\* ... LOG(lv) looks at it for TRACE, whatever the level; the message is
\* written by ~log_stream_message.
LogStream(w, lv) == is_not_filtered("trace") /\ create_message(w, lv)

\* write(): _logs_on, then the filter again.
write(w) ==
    /\ fault = "none" /\ writer[w].at = "created"
    /\ IF logsOn /\ is_not_filtered(writer[w].lv)
       THEN /\ writer' = [writer EXCEPT ![w] = [at |-> "write", id |-> @.id, i |-> 1,
                                                n |-> Len(appenders)]]
            /\ ledger' = [ledger EXCEPT ![writer[w].id] = DOMAIN appenders]
       ELSE writer' = [writer EXCEPT ![w] = Idle] /\ UNCHANGED ledger
    /\ UNCHANGED <<configVars, created, records, out, fault, flushing>>

\* boost_write: the record goes to the core's sink, whichever destination the
\* appender was made for; *pl is gone if _boost_impl has been replaced.
boost_write(id, a) ==
    \/ /\ a.impl # boostImpl /\ fault' = "dangling"
       /\ UNCHANGED <<records, out>>
    \/ /\ sink.async /\ records' = Append(records, id)
       /\ UNCHANGED <<out, fault>>
    \/ /\ ~sink.async /\ out' = [out EXCEPT ![id][sink.dest] = @ + 1]
       /\ UNCHANGED <<records, fault>>

\* syslog_write, or the user's handler.
direct_write(id, a) ==
    /\ out' = [out EXCEPT ![id][a.dest] = @ + 1]
    /\ UNCHANGED <<records, fault>>

\* The next appender gets the message.
WriteAppender(w) ==
    /\ fault = "none" /\ writer[w].at = "write" /\ writer[w].i <= writer[w].n
    /\ LET a == appenders[writer[w].i] IN
       IF a.dest \in BoostDestinations THEN boost_write(writer[w].id, a)
       ELSE direct_write(writer[w].id, a)
    /\ writer' = [writer EXCEPT ![w].i = @ + 1]
    /\ UNCHANGED <<configVars, created, ledger, flushing>>

\* An appender throws: the exception is traced and the rest of the
\* destinations does not get the message.
AppenderThrows(w) ==
    /\ fault = "none" /\ writer[w].at = "write" /\ writer[w].i <= writer[w].n
    /\ appenders[writer[w].i].dest = "custom"
    /\ writer' = [writer EXCEPT ![w] = Idle]
    /\ ledger' = [ledger EXCEPT ![writer[w].id] = 1 .. writer[w].i - 1]
    /\ UNCHANGED <<configVars, created, records, out, fault, flushing>>

WriteEnd(w) ==
    /\ fault = "none" /\ writer[w].at = "write" /\ writer[w].i > writer[w].n
    /\ writer' = [writer EXCEPT ![w] = Idle]
    /\ UNCHANGED <<configVars, created, records, out, ledger, fault, flushing>>
=============================================================================
