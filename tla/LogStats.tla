------------------------------ MODULE LogStats ------------------------------
(***************************************************************************)
(* The log server (app2.rs): one task per link follows the log file of an  *)
(* iperf server and keeps the newest line of figures behind a mutex; every *)
(* request locks the mutexes of all links, in order, and answers.          *)
(*                                                                         *)
(* iperf writes its log through a buffer, so a file may end in the middle  *)
(* of a line. A panic with a mutex held poisons it, and lock().unwrap() of *)
(* a poisoned mutex panics in turn.                                        *)
(***************************************************************************)
EXTENDS Integers, Sequences, FiniteSets, FiniteSetsExt

CONSTANTS
    NbLinks,        \* 4 in the code
    Requests,       \* requests that may be served at the same time
    MaxLines,       \* bound: lines of a log file, one less after each removal
    MaxClears       \* bound: runs of clear-logs.sh

ASSUME LinksAssumption == NbLinks \in Nat \ {0}
ASSUME LinesAssumption == MaxLines \in Nat /\ MaxClears \in Nat

VARIABLES
    torn,       \* whether iperf's buffer may end in the middle of a line
    file,       \* the lines of each log
    missing,    \* logs that were removed
    clears,     \* removals so far (bound)
    rpc,        \* where the task of each link is
    snapshot,   \* file_string
    res,        \* what read_stats() returned
    stat,       \* link_stat: the number of the line it came from, negative
                \* when the line was cut short, 0 before the first
    poisoned_links, \* links whose mutex is poisoned
    held,       \* how many mutexes, from the first on, each request holds
    misread     \* links whose own task panicked on a line (history)

fvars == <<torn, file, missing, clears>>
rvars == <<rpc, snapshot, res, misread>>
lvars == <<fvars, rvars, stat, poisoned_links, held>>

Links == 1 .. NbLinks

\* A line is its number and what can be seen of it: "full" is a line of
\* figures; "other" is any line from_str() passes over (no bracket, "local",
\* "receiver", "Interval"), a heading here; the rest are lines of figures not yet complete,
\* ending before the figures, in the middle of "dropped/received" or in the
\* middle of the last number.
Cuts == {"early", "bad", "short"}
Line == [nr : 1 .. MaxLines, kind : {"full", "other"} \cup Cuts]

LTypeOK ==
    /\ torn \in BOOLEAN
    /\ file \in [Links -> Seq(Line)]
    /\ missing \subseteq Links
    /\ clears \in 0 .. MaxClears
    /\ rpc \in [Links -> {"sleep", "parse", "publish", "dead"}]
    /\ snapshot \in [Links -> Seq(Line)]
    /\ res \in [Links -> Int]
    /\ stat \in [Links -> Int]
    /\ poisoned_links \subseteq Links
    /\ held \in [Requests -> 0 .. NbLinks]
    /\ misread \subseteq Links

LInit ==
    /\ torn \in BOOLEAN
    /\ file = [l \in Links |-> <<>>]
    /\ missing = {}
    /\ clears = 0
    /\ rpc = [l \in Links |-> "sleep"]
    /\ snapshot = [l \in Links |-> <<>>]
    /\ res = [l \in Links |-> 0]
    /\ stat = [l \in Links |-> 0]
    /\ poisoned_links = {}
    /\ held = [h \in Requests |-> 0]
    /\ misread = {}

-----------------------------------------------------------------------------
\* The iperf server and the operator (external). A log starts with its heading.
Complete(l) == \A k \in DOMAIN file[l] : file[l][k].kind \notin Cuts

WriteLine(l) ==
    /\ l \notin missing
    /\ Complete(l)
    /\ Len(file[l]) + clears < MaxLines
    /\ \E k \in {"full", "other"} \cup (IF torn THEN Cuts ELSE {}) :
          /\ (file[l] = <<>>) = (k = "other")
          /\ file' = [file EXCEPT ![l] = Append(@, [nr |-> Len(@) + 1, kind |-> k])]
    /\ UNCHANGED <<torn, missing, clears, rvars, stat, poisoned_links, held>>

WriteRest(l) ==
    /\ l \notin missing
    /\ ~Complete(l)
    /\ file' = [file EXCEPT ![l][Len(file[l])].kind = "full"]
    /\ UNCHANGED <<torn, missing, clears, rvars, stat, poisoned_links, held>>

\* clear-logs.sh removes the files of all links; an iperf server that is
\* started again creates its own.
ClearLogs ==
    /\ clears < MaxClears
    /\ clears' = clears + 1
    /\ missing' = Links
    /\ file' = [l \in Links |-> <<>>]
    /\ UNCHANGED <<torn, rvars, stat, poisoned_links, held>>

RestartServer(l) ==
    /\ l \in missing
    /\ missing' = missing \ {l}
    /\ UNCHANGED <<torn, file, clears, rvars, stat, poisoned_links, held>>

-----------------------------------------------------------------------------
\* A mutex is free when no request is past it.
Free(l) == \A h \in Requests : held[h] < l

\* keep_reading(): read_to_string(), which expects the file to be there.
\* Seeded fault: a file that is empty ends the task as well.
ReadFile_Empty(l) ==
    /\ rpc[l] = "sleep"
    /\ IF l \in missing \/ file[l] = <<>>
         THEN rpc' = [rpc EXCEPT ![l] = "dead"] /\ UNCHANGED snapshot
         ELSE /\ rpc' = [rpc EXCEPT ![l] = "parse"]
              /\ snapshot' = [snapshot EXCEPT ![l] = file[l]]
    /\ UNCHANGED <<fvars, res, misread, stat, poisoned_links, held>>

ReadFile(l) ==
    /\ rpc[l] = "sleep"
    /\ IF l \in missing
         THEN rpc' = [rpc EXCEPT ![l] = "dead"] /\ UNCHANGED snapshot
         ELSE /\ rpc' = [rpc EXCEPT ![l] = "parse"]
              /\ snapshot' = [snapshot EXCEPT ![l] = file[l]]
    /\ UNCHANGED <<fvars, res, misread, stat, poisoned_links, held>>

\* from_str() on the lines read_stats() looks at: all but the first, because
\* last_line_idx is returned as it came and stays 0.
Panics(lines) == \E k \in 2 .. Len(lines) : lines[k].kind = "bad"

\* read_stats(): the last line of figures, or the value there was.
\* Seeded fault: the first one.
LastFigures(lines) == {k \in 2 .. Len(lines) : lines[k].kind \in {"full", "short"}}
FiguresOf(line) == IF line.kind = "full" THEN line.nr ELSE 0 - line.nr
read_stats_First(lines, before) ==
    IF LastFigures(lines) = {} THEN before ELSE FiguresOf(lines[Min(LastFigures(lines))])
read_stats(lines, before) ==
    IF LastFigures(lines) = {} THEN before ELSE FiguresOf(lines[Max(LastFigures(lines))])

\* read_stats(.., shared_stat.lock().unwrap().clone()): the guard is a temporary
\* that lives to the end of the statement, so the mutex is held while the lines
\* are parsed and a line that does not parse poisons it.
Parse(l) ==
    /\ rpc[l] = "parse"
    /\ Free(l)
    /\ \/ /\ l \in poisoned_links
          /\ rpc' = [rpc EXCEPT ![l] = "dead"]
          /\ UNCHANGED <<res, misread, poisoned_links>>
       \/ /\ l \notin poisoned_links
          /\ Panics(snapshot[l])
          /\ rpc' = [rpc EXCEPT ![l] = "dead"]
          /\ poisoned_links' = poisoned_links \cup {l}
          /\ misread' = misread \cup {l}
          /\ UNCHANGED res
       \/ /\ l \notin poisoned_links
          /\ ~Panics(snapshot[l])
          /\ rpc' = [rpc EXCEPT ![l] = "publish"]
          /\ res' = [res EXCEPT ![l] = read_stats(snapshot[l], stat[l])]
          /\ UNCHANGED <<misread, poisoned_links>>
    /\ snapshot' = [snapshot EXCEPT ![l] = <<>>]
    /\ UNCHANGED <<fvars, stat, held>>

Publish(l) ==
    /\ rpc[l] = "publish"
    /\ Free(l)
    /\ IF l \in poisoned_links
         THEN rpc' = [rpc EXCEPT ![l] = "dead"] /\ UNCHANGED stat
         ELSE /\ rpc' = [rpc EXCEPT ![l] = "sleep"]
              /\ stat' = [stat EXCEPT ![l] = res[l]]
    /\ res' = [res EXCEPT ![l] = 0]
    /\ UNCHANGED <<fvars, snapshot, misread, poisoned_links, held>>

-----------------------------------------------------------------------------
\* warp_handle() takes the mutexes one after the other. When the next one is
\* poisoned the request panics, and the guards it drops poison theirs.
\* Seeded fault: the mutexes that were held stay as they were, but the next
\* one in order is poisoned.
Spread_Next(h) == {held[h] + 1, held[h] + 2} \cap Links
Spread(h) == 1 .. held[h]

LockNext(h) ==
    LET l == held[h] + 1
    IN  /\ l \in Links
        /\ Free(l)
        /\ IF l \in poisoned_links
             THEN /\ held' = [held EXCEPT ![h] = 0]
                  /\ poisoned_links' = poisoned_links \cup Spread(h)
             ELSE /\ held' = [held EXCEPT ![h] = l]
                  /\ UNCHANGED poisoned_links
    /\ UNCHANGED <<fvars, rvars, stat>>

\* The answer is built with every mutex held; the guards are dropped with it.
Answer(h) ==
    /\ held[h] = NbLinks
    /\ held' = [held EXCEPT ![h] = 0]
    /\ UNCHANGED <<fvars, rvars, stat, poisoned_links>>

Log(l) == \/ WriteLine(l)
          \/ WriteRest(l)
          \/ RestartServer(l)

keep_reading(l) == \/ ReadFile(l)
                   \/ Parse(l)
                   \/ Publish(l)

warp_handle(h) == \/ LockNext(h)
                  \/ Answer(h)

LNext == \/ \E l \in Links : Log(l)
         \/ ClearLogs
         \/ \E l \in Links : keep_reading(l)
         \/ \E h \in Requests : warp_handle(h)

LSpec == LInit /\ [][LNext]_lvars

\* tokio polls every task again and again, a std::sync::Mutex is handed on in
\* time, and a request that has a mutex goes on to the next.
LFairSpec ==
    /\ LSpec
    /\ \A l \in Links : WF_lvars(ReadFile(l)) /\ SF_lvars(Parse(l)) /\ SF_lvars(Publish(l))
    /\ \A h \in Requests : WF_lvars(held[h] # 0 /\ warp_handle(h))

-----------------------------------------------------------------------------
\* How far a line that does not parse reaches: behind every link with a poisoned mutex, or
\* at it, is a link whose own task misread a line, so requests carry the failure to the
\* links before it in locking order and to no link after it. Logs that are written line by
\* line harm nobody.
PoisonSpreadsDown == \A l \in poisoned_links : torn /\ \E m \in misread : m >= l

\* A task ends only for its own mutex or for its own file: whatever happens to
\* the other links, a link whose log exists and whose mutex is sound is followed.
TasksDieForCause ==
    [][\A l \in Links : rpc'[l] = "dead" /\ rpc[l] # "dead"
          => l \in poisoned_links' \/ l \in missing]_lvars

\* The newest complete line of figures is shown in the end, when every line is
\* written at once and until the logs are removed.
ShownCatchesUp ==
    ~torn => \A l \in Links, n \in 2 .. MaxLines :
        (Len(file[l]) >= n /\ file[l][n].kind = "full") ~> (stat[l] >= n \/ clears # 0)
=============================================================================
