--------------------------- MODULE LogFilesWatchdog ---------------------------
(***************************************************************************)
(* log_files_watchdog together with the logger whose files it looks after. *)
(* The logger's file sink (boost's text_file_backend, external) writes the *)
(* records of the queue and opens the next file of the pattern when one is *)
(* full.  A pass of the watchdog (remove_excess_logs, pack_excess_logs)    *)
(* lists the directory, asks each matching file for its modification time  *)
(* and then acts on the oldest ones; passes run in the watchdog's loop or, *)
(* with synch_watch, in a thread of the caller's.                          *)
(*                                                                         *)
(* A file name is the part after the log's name as a sequence of tokens:   *)
(* "num" and "time" for a number and a time, any other token for itself.   *)
(* In a pattern "%N", "%T" (a run of time directives) and "%%" stand for   *)
(* the directives.  Time stamps have the resolution of the clock: files of *)
(* one tick are ordered by inode, that is arbitrarily.                     *)
(***************************************************************************)
EXTENDS Logger, Integers, SequencesExt

CONSTANTS
    Patterns,        \* patterns of the log's files
    Foreign,         \* other entries of the directory, a sequence of [named, ext,
                     \* regular, rest, time]; the entry i is file -i
    MaxFiles,        \* config.max_files
    MaxLogged,       \* bound: messages of the program that is not watched
    MaxClock,        \* bound: ticks of the clock
    MaxWatches,      \* bound: calls of the watch functions
    MaxPackFailures  \* bound: failures of the pack command

ASSUME WatchdogAssumption ==
    /\ MaxFiles \in Nat \ {0}
    /\ Len(Foreign) \in Nat /\ DOMAIN Foreign = 1 .. Len(Foreign)
    /\ \A i \in 1 .. Len(Foreign) : Foreign[i].time \in 0 .. MaxClock
    /\ MaxClock \in Nat /\ MaxLogged \in Nat /\ MaxWatches \in Nat /\ MaxPackFailures \in Nat
    /\ \A p \in Patterns : \E i \in DOMAIN p : p[i] \in {"%N", "%T"}
    /\ \E p \in Patterns : \E i \in DOMAIN p : p[i] = "%N"

Own == 1 .. MaxMessages + MaxClock + 1
Watches == {"periodic", "once"}
Threads == {"loop", "caller"}
Gone == MaxClock + 1

VARIABLES
    program,   \* "logs": configures the logger and logs; "watched": has a log file
               \* configured and a watchdog over its files
    pattern,   \* config.log_variable_pattern
    strategy,  \* "remove" or "pack"
    clock,     \* the time
    mtime,     \* modification time of each of the log's files, or Gone
    foreign,   \* the other entries that are still there
    opened,    \* the file counter of the sink's backend
    open,      \* the file it writes, 0: none
    asked,     \* watches asked for
    pending,   \* watches in the loop's queue or its timers
    pass,      \* per thread: the pass it is in
    failures,  \* failures of the pack command
    tied,      \* a pass has seen two files with one modification time
    overlapped \* two passes have been under way at a time

configWatchVars == <<program, pattern, strategy>>
sinkVars == <<opened, open>>
passVars == <<asked, pending, pass, failures, tied, overlapped>>
vars == <<loggerVars, configWatchVars, clock, mtime, foreign, sinkVars, passVars>>

Present == {f \in Own : mtime[f] # Gone}
NoPass == [at |-> "idle"]

(***************************************************************************)
(* match_file                                                              *)
(***************************************************************************)
Directives == {"%N", "%T", "%%"}

\* scroll_to_separator: the literals a pattern begins with.
Literals(p) == LET d == {i \in DOMAIN p : p[i] \in Directives}
                   n == IF d = {} THEN Len(p) ELSE Min(d) - 1
               IN SubSeq(p, 1, n)

Drop(s, n) == SubSeq(s, n + 1, Len(s))

\* scroll_number: no digits at all are accepted too.
SkipNumber(f) == IF f # <<>> /\ Head(f) = "num" THEN Tail(f) ELSE f

\* case 'N': what follows %N up to the next
\* directive must be in the name.  Where nothing follows, the next directive
\* has been read and is skipped.
MatchNumber(p, f) ==
    LET g == SkipNumber(f)
        rest == Literals(Tail(p))
    IN IF rest = <<>> THEN {[p |-> Drop(p, 2), f |-> g]}
       ELSE IF IsPrefix(rest, g) THEN {[p |-> Tail(p), f |-> Drop(g, Len(rest))]}
       ELSE {}

\* case '%': the name has the symbol itself.
MatchPercent(p, f) ==
    IF f # <<>> /\ Head(f) = "%" THEN {[p |-> Tail(p), f |-> Tail(f)]} ELSE {}

\* The time pattern goes on to the next %N, or to the end if that %N is the
\* last of the pattern; its literals are not compared with the name's.
MatchTime(p, f) ==
    LET n == {i \in DOMAIN p : p[i] = "%N" /\ i < Len(p)}
        len == IF n = {} THEN Len(p) ELSE Min(n) - 1
    IN IF f # <<>> /\ Head(f) = "time"
       THEN {[p |-> Drop(p, len), f |-> Drop(f, len)]} ELSE {}

\* The loop of match_file: it ends well as soon as either is used up.  A second
\* run of time directives ends it badly.
MatchRest(pat, name) ==
    LET match[p \in Suffixes(pat), f \in Suffixes(name), timed \in BOOLEAN] ==
            LET q == Drop(p, Len(Literals(p)))
                steps == CASE q[1] = "%N" -> MatchNumber(q, f)
                           [] q[1] = "%%" -> MatchPercent(q, f)
                           [] q[1] = "%T" -> IF timed THEN {} ELSE MatchTime(q, f)
            IN \/ q = <<>>
               \/ \E s \in steps : \/ s.p = <<>> \/ s.f = <<>>
                                   \/ match[s.p, s.f, timed \/ q[1] = "%T"]
    IN match[pat, name, FALSE]

\* A plausible fault: the extension and the pattern are not looked at.
match_name_only(p, e) == e.regular /\ e.named

\* A regular file that begins with log_name, has log_extension and follows the
\* pattern.
match_file(p, e) == e.regular /\ e.named /\ e.ext = ".log" /\ MatchRest(p, e.rest)

\* The name the backend makes of the pattern.
LogName(p) == [regular |-> TRUE, named |-> TRUE, ext |-> ".log",
               rest |-> [i \in DOMAIN p |-> CASE p[i] = "%N" -> "num" [] p[i] = "%T" -> "time"
                                               [] p[i] = "%%" -> "%" [] OTHER -> p[i]]]

\* Which of the log's files the next one is: the counter tells, or the time.
NextFile == IF \E i \in DOMAIN pattern : pattern[i] = "%N"
            THEN opened + 1 ELSE MaxMessages + clock + 1

(***************************************************************************)
(* Plausible faults of the operations below, one small change each.  No    *)
(* specification uses them; each shows that some property notices it.      *)
(***************************************************************************)

\* The newest files are taken for the oldest.
ExcessNewest(seen) ==
    {x \in SUBSET DOMAIN seen :
        /\ Cardinality(x) + MaxFiles = Cardinality(DOMAIN seen)
        /\ \A f \in x, g \in DOMAIN seen \ x : seen[f] >= seen[g]}

\* One file too many is taken.
ExcessOneMore(seen) ==
    {x \in SUBSET DOMAIN seen :
        /\ Cardinality(x) + MaxFiles = Cardinality(DOMAIN seen) + 1
        /\ \A f \in x, g \in DOMAIN seen \ x : seen[f] <= seen[g]}

\* A periodic watch that is not posted again.
PassEndOnce(t) ==
    /\ fault = "none" /\ pass[t].at = "act" /\ pass[t].todo = {}
    /\ pass' = [pass EXCEPT ![t] = NoPass]
    /\ UNCHANGED <<loggerVars, configWatchVars, clock, mtime, foreign, sinkVars,
                   asked, pending, failures, tied, overlapped>>

(***************************************************************************)
(* The logger's side                                                       *)
(***************************************************************************)
\* Names matter to what is deleted; for packing and for the logger one pattern does.
OnePattern == CHOOSE p \in Patterns : \E i \in DOMAIN p : p[i] = "%N"

Init == /\ \/ program = "logs" /\ LoggerInit({})
           \/ program = "watched" /\ LoggerInit({"file"})
        /\ pattern \in IF program = "logs" THEN {OnePattern} ELSE Patterns
        /\ strategy \in IF program = "watched" /\ pattern = OnePattern
                       THEN {"remove", "pack"} ELSE {"remove"}
        /\ clock = 0 /\ mtime = [f \in Own |-> Gone] /\ foreign = {-i : i \in DOMAIN Foreign}
        /\ opened = 0 /\ open = 0
        /\ asked = {} /\ pending = {} /\ pass = [t \in Threads |-> NoPass]
        /\ failures = 0 /\ tied = FALSE /\ overlapped = FALSE

\* Only a watchdog looks at the time.
Tick == /\ fault = "none" /\ program = "watched" /\ clock < MaxClock /\ clock' = clock + 1
        /\ UNCHANGED <<loggerVars, configWatchVars, mtime, foreign, sinkVars, passVars>>

\* A new sink has a new backend, whose counter begins anew.
InitBoost(d, async) ==
    /\ program = "logs" /\ init_boost_log(d, async)
    /\ opened' = 0 /\ open' = 0
    /\ UNCHANGED <<configWatchVars, clock, mtime, foreign, passVars>>

ConfigureStep ==
    /\ program = "logs"
    /\ \/ set_level_from_environment
       \/ \E o \in OptionNames : set_option(o)
       \/ init_sys_log \/ add_custom_destination \/ lock \/ unlock
       \/ flush \/ FlushReturns
    /\ UNCHANGED <<configWatchVars, clock, mtime, foreign, sinkVars, passVars>>

\* Who logs what: for the watchdog the records of one thread and level do.
Loggers == IF program = "logs" THEN Writers ELSE {CHOOSE w \in Writers : TRUE}
LoggedLevels == IF program = "logs" THEN LogLevels ELSE {CHOOSE lv \in LogLevels : TRUE}

LogStep(w) ==
    /\ w \in Loggers /\ (program = "logs" => created < MaxLogged)
    /\ \E lv \in LoggedLevels : LogMessage(w, lv) \/ LogStream(w, lv)
    /\ UNCHANGED <<configWatchVars, clock, mtime, foreign, sinkVars, passVars>>

WriterStep(w) ==
    /\ write(w) \/ WriteAppender(w) \/ AppenderThrows(w) \/ WriteEnd(w)
    /\ UNCHANGED <<configWatchVars, clock, mtime, foreign, sinkVars, passVars>>

TakeRecord ==
    /\ fault = "none" /\ records # <<>>
    /\ records' = Tail(records)
    /\ out' = [out EXCEPT ![Head(records)][sink.dest] = @ + 1]
    /\ UNCHANGED <<configVars, writeVars, fault, configWatchVars, clock, foreign, passVars>>

\* The asynchronous cli sink's thread writes a record.
SinkPrints == TakeRecord /\ sink.dest = "cli" /\ UNCHANGED <<mtime, sinkVars>>

\* Writing to a file changes its time when the stream's buffer is written; a
\* file that was unlinked while it was open stays unlinked.
Touched(f) == {mtime[f]} \cup (IF mtime[f] = Gone THEN {} ELSE {clock})

\* The file sink's thread: the record, which may have any length, fits in the open
\* file (rotation_size).
SinkWrites ==
    /\ TakeRecord /\ sink.dest = "file" /\ open # 0
    /\ \E t \in Touched(open) : mtime' = [mtime EXCEPT ![open] = t]
    /\ UNCHANGED <<opened, open>>

\* It does not: the file is closed and the next one opened, which empties a file
\* that has its name.
SinkRotates ==
    /\ TakeRecord /\ sink.dest = "file"
    /\ \/ open = 0 /\ mtime' = [mtime EXCEPT ![NextFile] = clock]
       \/ /\ open # 0
          /\ \E t \in Touched(open) :
                mtime' = [mtime EXCEPT ![open] = t, ![NextFile] = clock]
    /\ open' = NextFile /\ opened' = opened + 1

(***************************************************************************)
(* The watchdog's side                                                     *)
(***************************************************************************)
\* watch(seconds, s), and watch_once(seconds, s) or watch(s), which end after one
\* pass.
Watch(k) ==
    /\ fault = "none" /\ program = "watched" /\ k \notin asked /\ Cardinality(asked) < MaxWatches
    /\ asked' = asked \cup {k} /\ pending' = pending \cup {k}
    /\ UNCHANGED <<loggerVars, configWatchVars, clock, mtime, foreign, sinkVars,
                   pass, failures, tied, overlapped>>

\* For each pattern: does it match the log's own names (0), the other entry i.
MatchingName == [p \in Patterns |-> [i \in 0 .. Len(Foreign) |->
                    match_file(p, IF i = 0 THEN LogName(p) ELSE Foreign[i])]]

\* The entries of the directory that match.
Matched(f) == MatchingName[pattern][IF f < 0 THEN -f ELSE 0]
Matching == {f \in Present \cup foreign : Matched(f)}

\* base_max_files_strategy: the directory is listed.
PassBegin(t, k) ==
    /\ fault = "none" /\ pass[t].at = "idle"
    /\ pass' = [pass EXCEPT ![t] = [at |-> "scan", watch |-> k, seen |-> <<>>,
                                          left |-> Matching]]
    /\ overlapped' = (overlapped \/ \E u \in Threads \ {t} : pass[u].at # "idle")
    /\ UNCHANGED <<loggerVars, configWatchVars, clock, mtime, foreign, sinkVars, failures, tied>>

LoopBegins(k) == /\ k \in pending /\ pending' = pending \ {k} /\ UNCHANGED asked
                 /\ PassBegin("loop", k)

\* synch_watch(s)
CallerBegins == /\ program = "watched" /\ "caller" \notin asked /\ Cardinality(asked) < MaxWatches
                /\ asked' = asked \cup {"caller"} /\ UNCHANGED pending
                /\ PassBegin("caller", "once")

SetPass(t, p) ==
    /\ pass' = [pass EXCEPT ![t] = p]
    /\ UNCHANGED <<loggerVars, configWatchVars, clock, sinkVars, asked, pending, overlapped>>

\* get_file_sequence_id: the time the file was written last.
WriteTime(f) == IF f < 0 THEN Foreign[-f].time ELSE mtime[f]
Noted(seen, f) == [g \in DOMAIN seen \cup {f} |-> IF g = f THEN WriteTime(f) ELSE seen[g]]

\* The next entry is asked for its time; a file that came after the listing
\* began may be listed too, one that went meanwhile is no regular file.
ScanFile(t) ==
    /\ fault = "none" /\ pass[t].at = "scan"
    /\ \E f \in pass[t].left \cup Matching :
          /\ f \notin DOMAIN pass[t].seen
          /\ SetPass(t, [pass[t] EXCEPT
                !.left = @ \ {f},
                !.seen = IF f \in Present \cup foreign THEN Noted(@, f) ELSE @])
    /\ UNCHANGED <<mtime, foreign, failures, tied>>

\* Sets of the oldest files that are more than max_files.
Excess(seen) ==
    {x \in SUBSET DOMAIN seen :
        /\ Cardinality(x) + MaxFiles = Cardinality(DOMAIN seen)
        /\ \A f \in x, g \in DOMAIN seen \ x : seen[f] <= seen[g]}

ScanEnd(t) ==
    /\ fault = "none" /\ pass[t].at = "scan" /\ pass[t].left = {}
    /\ LET seen == pass[t].seen IN
       /\ \E x \in IF Cardinality(DOMAIN seen) > MaxFiles THEN Excess(seen) ELSE {{}} :
             SetPass(t, [at |-> "act", watch |-> pass[t].watch, seen |-> seen, todo |-> x])
       /\ tied' = (tied \/ \E f, g \in DOMAIN seen : f # g /\ seen[f] = seen[g])
    /\ UNCHANGED <<mtime, foreign, failures>>

\* The files are taken in the order of the multimap.
Oldest(p) == {f \in p.todo : \A g \in p.todo : p.seen[f] <= p.seen[g]}

\* bfs::remove, or the pack command, which leaves the packed file under another
\* extension.  A file that is gone already is no error for either.
Act(t) ==
    /\ fault = "none" /\ pass[t].at = "act"
    /\ \E f \in Oldest(pass[t]) :
          /\ SetPass(t, [pass[t] EXCEPT !.todo = @ \ {f}])
          /\ mtime' = IF f \in Own THEN [mtime EXCEPT ![f] = Gone] ELSE mtime
          /\ foreign' = foreign \ {f}
    /\ UNCHANGED <<failures, tied>>

\* The command returns an error: a warning, and the file stays.
PackFails(t) ==
    /\ fault = "none" /\ pass[t].at = "act" /\ strategy = "pack"
    /\ failures < MaxPackFailures /\ failures' = failures + 1
    /\ \E f \in Oldest(pass[t]) : SetPass(t, [pass[t] EXCEPT !.todo = @ \ {f}])
    /\ UNCHANGED <<mtime, foreign, tied>>

PassEnd(t) ==
    /\ fault = "none" /\ pass[t].at = "act" /\ pass[t].todo = {}
    /\ pass' = [pass EXCEPT ![t] = NoPass]
    /\ pending' = IF pass[t].watch = "periodic" THEN pending \cup {"periodic"} ELSE pending
    /\ UNCHANGED <<loggerVars, configWatchVars, clock, mtime, foreign, sinkVars,
                   asked, failures, tied, overlapped>>

\* last_write_time of a file that has gone since is_regular_file, or remove
\* without permission, throws: synch_watch's caller gets the exception; in the
\* loop nobody catches it and the process is terminated.
PassThrows(t) ==
    /\ fault = "none"
    /\ \/ pass[t].at = "scan" /\ \E f \in pass[t].left : f \notin Present \cup foreign
       \/ pass[t].at = "act" /\ pass[t].todo # {} /\ strategy = "remove"
    /\ pass' = [pass EXCEPT ![t] = NoPass]
    /\ fault' = IF t = "loop" THEN "terminated" ELSE fault
    /\ UNCHANGED <<configVars, writeVars, records, out, configWatchVars, clock, mtime,
                   foreign, sinkVars, asked, pending, failures, tied, overlapped>>

WatchdogStep(t) == \/ ScanFile(t) \/ ScanEnd(t) \/ Act(t) \/ PackFails(t) \/ PassEnd(t)

SinkStep == SinkPrints \/ SinkWrites \/ SinkRotates
LoopStep == (\E k \in Watches : LoopBegins(k)) \/ WatchdogStep("loop")

Next == \/ Tick \/ ConfigureStep \/ SinkStep
        \/ \E d \in BoostDestinations, async \in BOOLEAN : InitBoost(d, async)
        \/ \E w \in Writers : LogStep(w) \/ WriterStep(w)
        \/ \E k \in Watches : Watch(k)
        \/ LoopStep \/ CallerBegins \/ WatchdogStep("caller")
        \/ \E t \in Threads : PassThrows(t)

\* The watchdog's loop runs what is posted to it.
Fairness == WF_vars(LoopStep)

Spec == Init /\ [][Next]_vars
FairSpec == Spec /\ Fairness

(***************************************************************************)
(* Properties                                                              *)
(***************************************************************************)
\* At most one init_cli_log or init_file_log has been called.
OneBoost == Cardinality({i \in DOMAIN appenders : appenders[i].dest \in BoostDestinations}) <= 1

Owed(m, d) == Cardinality({i \in ledger[m] : appenders[i].dest = d})
Reached(m, d) == out[m][d] + (IF sink.dest # d THEN 0
                              ELSE Cardinality({i \in DOMAIN records : records[i] = m}))
InWrite(m) == \E w \in Writers : writer[w].at = "write" /\ writer[w].id = m

\* A message that write() let through reaches every destination there was,
\* exactly once, also when several threads write, an asynchronous sink is behind,
\* or a later destination throws; a destination never gets one twice, and the
\* sink uses the options that the logger has, but for a log file's autoflush.
\* (With two boost destinations both appenders feed the second one's sink.)
WrittenOnce == OneBoost /\ fault = "none" =>
    /\ \A m \in Messages, d \in Destinations :
          /\ Reached(m, d) <= Owed(m, d)
          /\ ~InWrite(m) => Reached(m, d) = Owed(m, d)
    /\ sink # NoSink => \A o \in OptionsOf(sink.dest) : sink.option[o] = option[o]

\* Where a name has to be like the log's: its time, and the literals behind a
\* number.
Compared(p) == {i \in DOMAIN p :
    \/ p[i] = "%T"
    \/ /\ p[i] \notin Directives
       /\ \E j \in 1 .. i - 1 : p[j] = "%N" /\ \A k \in j + 1 .. i : p[k] \notin Directives}

\* A name that is like the log's there, as far as it goes; numbers may be missing.
HalfMatches(p, name) ==
    \E missing \in SUBSET {i \in DOMAIN p : p[i] = "%N"} : \A i \in Compared(p) :
       LET k == i - Cardinality({m \in missing : m < i})
       IN  k <= Len(name) => name[k] = LogName(p).rest[i]

\* The watchdog knows each of the log's files by its name.  It takes other entries
\* for them, and removes those too, but only regular files with the log's name and
\* extension that half match: with the time where the log's files have it and what
\* they have behind a number.
OnlyLogFiles ==
    /\ MatchingName[pattern][0]
    /\ \A i \in DOMAIN Foreign : -i \notin foreign =>
          LET e == Foreign[i]
          IN  e.regular /\ e.named /\ e.ext = ".log" /\ HalfMatches(pattern, e.rest)

\* The other entries that are taken for the log's files.
Mistaken == {i \in DOMAIN Foreign : MatchingName[pattern][i]}

\* Deleting files, the watchdog never leaves fewer than max_files of those that
\* match: not when the logger opens new ones during the pass, and not when passes
\* of two threads overlap, provided no two files had the same time stamp and all
\* that match are the log's.
KeepsMaxFiles == [][
    (Matching' \subseteq Matching /\ Matching' # Matching /\ (~overlapped \/ (~tied /\ Mistaken = {})))
        => Cardinality(Matching') >= MaxFiles]_vars

\* The file that the logger is writing is only deleted by a pass that found
\* another file with the same time stamp, or a half-matching entry that is newer.
OpenFileKept == [][
    open # 0 /\ open' = open /\ open \in Present \ Present'
        => \E t \in Threads :
              /\ pass[t].at = "act" /\ open \in pass[t].todo
              /\ \E g \in DOMAIN pass[t].seen \ {open} :
                    \/ pass[t].seen[g] = pass[t].seen[open]
                    \/ g \notin Own /\ pass[t].seen[g] > pass[t].seen[open]]_vars

\* A periodic watch brings the number of files down to max_files again and again,
\* whatever the pack command returned before, unless the process has ended.
FilesBounded == ("periodic" \in asked /\ Cardinality(Present) > MaxFiles)
                    ~> (Cardinality(Present) <= MaxFiles \/ fault # "none")
=============================================================================
