-------------------------------- MODULE Logs --------------------------------
(***************************************************************************)
(* GET .../pods/{name}/log (api::logs, api::log_filter, ssh): where the    *)
(* lines come from, live over SSH or from the copy cached when the         *)
(* container was done, and how the two streams of a followed log, whose    *)
(* chunks arrive apart, cut anywhere, and late, become one log again.      *)
(*                                                                         *)
(* A line is a record: the stream it was written to, podman's timestamp (0 *)
(* if it has none) and a number.  It crosses the wire in three pieces, of  *)
(* which the first ends within its timestamp and the last with its newline *)
(* so that a chunk, or a connection, may end anywhere in a line.           *)
(* limitBytes counts lines.  Formats and wording are left out.             *)
(***************************************************************************)
EXTENDS Integers, Sequences, SequencesExt

CONSTANTS
    ContainerLogs,  \* what the container has written, in order
    Requests,       \* query parameters, None where absent
    None

VARIABLES
    log,        \* what podman logs has
    job,        \* the row: whether it is in ContainerRunning, and cached_logs
    request,    \* the query parameters of the request
    pc,         \* where get_pod_log is
    row,        \* the row as find_job read it
    arrived,    \* how many pieces of each stream came over SSH
    written,    \* follow: how many lines of each stream were written
    aged,       \* follow: how many lines waiting are past MERGE_WINDOW
    ended,      \* the SSH command has ended
    out,        \* the body of the response
    forced      \* history: a line was written because of its age

vars == <<log, job, request, pc, row, arrived, written, aged, ended, out, forced>>

Streams == {1, 2}   \* OutputStream: stdout, stderr

-----------------------------------------------------------------------------
(***************************************************************************)
(* log_filter.                                                             *)
(***************************************************************************)

\* A line without a timestamp goes with the line before it in its stream; None,
\* before any timestamped line, sorts first.
Timed(lines) ==
    LET time(before, l) == IF l.time # 0 THEN l.time
                           ELSE IF before = << >> THEN 0 ELSE Last(before).at
    IN  FoldLeft(LAMBDA before, l : Append(before, [line |-> l, at |-> time(before, l)]),
                 << >>, lines)

\* A stable sort of the streams, one after the other, by time.
merge_by_timestamp(streams) ==
    LET timed == [k \in DOMAIN streams |-> Timed(streams[k])]
        places == UNION {{<<k, i>> : i \in DOMAIN timed[k]} : k \in DOMAIN timed}
        key(p) == <<timed[p[1]][p[2]].at, p[1], p[2]>>
        before(p, q) == \E n \in 1 .. 3 : /\ key(p)[n] < key(q)[n]
                                          /\ \A m \in 1 .. (n - 1) : key(p)[m] = key(q)[m]
        order == SetToSortSeq(places, before)
    IN  [i \in DOMAIN order |-> timed[order[i][1]][order[i][2]].line]

\* LogFilter.line: dropped if it is timestamped and too old.
Keeps(options, line) == line.time = 0 \/ options.since = None \/ line.time >= options.since

Truncated(options, lines) ==
    IF options.limit = None \/ options.limit >= Len(lines) THEN lines
    ELSE SubSeq(lines, 1, options.limit)

LastLines(n, lines) ==
    IF n = None \/ n >= Len(lines) THEN lines ELSE SubSeq(lines, Len(lines) - n + 1, Len(lines))

\* A complete log: sorted, its tail taken, filtered, cut off.  One without timestamps
\* is neither sorted nor filtered.
apply(options, lines, timestamped, tail) ==
    LET sorted == IF timestamped THEN merge_by_timestamp(<<lines>>) ELSE lines
    IN  Truncated(options, SelectSeq(LastLines(tail, sorted),
                                     LAMBDA l : timestamped => Keeps(options, l)))

\* Mutant of NextStream: stderr wins ties.
NextStream_stderr(lines, old, end) ==
    LET waits(k) == lines[k] # << >>
        expired(k) == waits(k) /\ (end \/ old[k] > 0)
    IN  IF waits(1) /\ waits(2) THEN IF Head(lines[2]).at <= Head(lines[1]).at THEN 2 ELSE 1
        ELSE IF expired(1) THEN 1 ELSE IF expired(2) THEN 2 ELSE 0

\* Where the next line comes from.  While both streams have one waiting, the earlier,
\* stdout on a tie; with one stream silent, only a line that is old enough, or any
\* once the streams have ended; 0 if there is none.
NextStream(lines, old, end) ==
    LET waits(k) == lines[k] # << >>
        expired(k) == waits(k) /\ (end \/ old[k] > 0)
    IN  IF waits(1) /\ waits(2) THEN IF Head(lines[2]).at < Head(lines[1]).at THEN 2 ELSE 1
        ELSE IF expired(1) THEN 1 ELSE IF expired(2) THEN 2 ELSE 0

\* StreamMerger.ready: the lines that can be written now.
ready(lines, old, end) ==
    LET pop(s, n) ==
            LET k == NextStream(s.lines, s.old, end)
            IN  IF k = 0 THEN s
                ELSE [lines |-> [s.lines EXCEPT ![k] = Tail(@)],
                      old |-> [s.old EXCEPT ![k] = IF @ > 0 THEN @ - 1 ELSE 0],
                      out |-> Append(s.out, Head(s.lines[k]).line)]
        turns == [n \in 1 .. (Len(lines[1]) + Len(lines[2])) |-> n]
    IN  FoldLeft(pop, [lines |-> lines, old |-> old, out |-> << >>], turns).out

-----------------------------------------------------------------------------
(***************************************************************************)
(* State.                                                                  *)
(***************************************************************************)

OfStream(lines, k) == SelectSeq(lines, LAMBDA l : l.stream = k)

\* The SSH channel carries what podman logs prints; it applies --tail itself.
Sent(tail, k) == OfStream(LastLines(tail, log), k)

\* What is left of a line that is cut: in its first piece, not even a timestamp.
Cut(line, pieces) == IF pieces = 1 THEN [line EXCEPT !.time = 0] ELSE line

\* push, finish: complete lines, and at the end an unterminated one as well.
Lines(sent, pieces, end) ==
    LET whole == SubSeq(sent, 1, pieces \div 3)
    IN  IF end /\ pieces % 3 # 0
        THEN Append(whole, Cut(sent[pieces \div 3 + 1], pieces % 3)) ELSE whole

\* How far the streams of a command come: to their end, or a connection breaks before.
Arrivals(tail) == {got \in [Streams -> 0 .. 3 * Len(log)] :
                      \A k \in Streams : got[k] <= 3 * Len(Sent(tail, k))}

Received(k) == Lines(Sent(request.tail, k), arrived[k], ended)

Waiting(k) == Len(Received(k)) - written[k]

\* Lines of the log, of a cut line what is left of it, or the start error.
StartError == [stream |-> 1, time |-> 0, no |-> 0]
Texts == {StartError} \union UNION {{log[i], Cut(log[i], 1)} : i \in DOMAIN log}
CachedLogs(c) == c # None => c.timestamped \in BOOLEAN /\ Range(c.lines) \subseteq Texts

TypeOK ==
    /\ log \in ContainerLogs /\ request \in Requests
    /\ job.running \in BOOLEAN /\ CachedLogs(job.cached)
    /\ pc \in {"validate", "find", "id", "exec", "cached", "follow", "done", "error"}
    /\ row.running \in BOOLEAN /\ CachedLogs(row.cached)
    /\ \A k \in Streams : /\ arrived[k] \in 0 .. 3 * Len(log)
                          /\ written[k] \in 0 .. Len(log)
                          /\ aged[k] \in 0 .. Len(log)
    /\ ended \in BOOLEAN /\ forced \in BOOLEAN
    /\ Range(out) \subseteq Texts

Zero == [k \in Streams |-> 0]

Init ==
    /\ log \in ContainerLogs /\ request \in Requests
    /\ job = [running |-> TRUE, cached |-> None]
    /\ pc = "validate" /\ row = job
    /\ arrived = Zero /\ written = Zero /\ aged = Zero
    /\ ended = FALSE /\ out = << >> /\ forced = FALSE

stream == <<arrived, written, aged, ended, forced>>

-----------------------------------------------------------------------------
(***************************************************************************)
(* get_pod_log.                                                            *)
(***************************************************************************)

\* LogOptions::validate.
Valid(r) ==
    /\ ~r.previous /\ r.stream \in {None, "All"}
    /\ r.sinceSeconds = None \/ r.since = None
    /\ r.tail # None => r.tail >= 0
    /\ r.limit # None => r.limit >= 1

validate ==
    /\ pc = "validate"
    /\ pc' = IF Valid(request) THEN "find" ELSE "error"
    /\ UNCHANGED <<log, job, request, row, out, stream>>

\* find_job; what is read here is used from here on.  SSH is tried only for a job
\* that was in ContainerRunning.
find_job ==
    /\ pc = "find"
    /\ row' = job
    /\ pc' = IF job.running THEN "id" ELSE "cached"
    /\ UNCHANGED <<log, job, request, out, stream>>

\* A worker that is gone, or unreachable, or has no container yet: the cached logs.
live_container_id(works) ==
    /\ pc = "id"
    /\ pc' = IF works THEN "exec" ELSE "cached"
    /\ UNCHANGED <<log, job, request, row, out, stream>>

\* The command cannot be run.
exec_fails ==
    /\ pc = "exec"
    /\ pc' = "cached"
    /\ UNCHANGED <<log, job, request, row, out, stream>>

exec_stream ==
    /\ pc = "exec" /\ request.follow
    /\ pc' = "follow"
    /\ UNCHANGED <<log, job, request, row, out, stream>>

\* exec_once collects both streams for as long as the channel is open, and says Ok
\* of what it has; the exit status is not looked at.
exec_once(got) ==
    /\ pc = "exec" /\ ~request.follow
    /\ got \in Arrivals(request.tail)
    /\ pc' = "done"
    /\ arrived' = got /\ ended' = TRUE
    /\ LET streams == [k \in Streams |-> Lines(Sent(request.tail, k), got[k], TRUE)]
       IN  out' = apply(request, merge_by_timestamp(streams), TRUE, None)
    /\ UNCHANGED <<log, job, request, row, written, aged, forced>>

\* The logs as the row had them; "no logs available for this pod yet" without.
serve_cached ==
    /\ pc = "cached"
    /\ IF row.cached # None
       THEN /\ pc' = "done"
            /\ out' = apply(request, row.cached.lines, row.cached.timestamped, request.tail)
       ELSE pc' = "error" /\ UNCHANGED out
    /\ UNCHANGED <<log, job, request, row, stream>>

\* A request reads the row once.  What becomes of the job after that reaches it only as
\* an SSH command that fails, which it may at any time: a bound on what is explored.
Unread == pc \in {"validate", "find"}

\* handle_container_running has an exit code, and fetches the logs by an exec_once of
\* its own.  A failed fetch leaves an empty text, a container that was not started the
\* start error, both without timestamps.  If a later step of the tick fails, or the
\* process does, the next tick does it all again, over the text that is there.
record_completion(cached) ==
    /\ job.running /\ Unread
    /\ job' = [job EXCEPT !.cached = cached]
    /\ UNCHANGED <<log, request, pc, row, out, stream>>

logs_fetched(got) ==
    LET streams == [k \in Streams |-> Lines(Sent(None, k), got[k], TRUE)]
    IN  record_completion([lines |-> merge_by_timestamp(streams), timestamped |-> TRUE])

logs_fetch_error == record_completion([lines |-> << >>, timestamped |-> FALSE])

start_error ==
    /\ log = << >>
    /\ record_completion([lines |-> <<StartError>>, timestamped |-> FALSE])

\* The status moves on after record_completion; or force_failed moves it, at the deadline
\* or when no container is started, whatever is cached.
job_over ==
    /\ job.running /\ Unread
    /\ job' = [job EXCEPT !.running = FALSE]
    /\ UNCHANGED <<log, request, pc, row, out, stream>>

-----------------------------------------------------------------------------
(***************************************************************************)
(* apply_stream.                                                           *)
(***************************************************************************)

\* One turn of the loop after an event: write what is ready, stop at the limit.
Turn(received, old, end) ==
    LET lines == [k \in Streams |->
                     SubSeq(Timed(received[k]), written[k] + 1, Len(received[k]))]
        now == ready(lines, old, end)
        kept == SelectSeq(now, LAMBDA l : Keeps(request, l))
        body == Truncated(request, out \o kept)
        full == request.limit # None /\ Len(out \o kept) >= request.limit
        count(k) == Len(OfStream(now, k))
    IN  /\ out' = body
        /\ written' = [k \in Streams |-> written[k] + count(k)]
        /\ aged' = [k \in Streams |-> IF old[k] > count(k) THEN old[k] - count(k) ELSE 0]
        /\ pc' = IF end \/ full THEN "done" ELSE "follow"

\* A chunk of one stream: any number of pieces.
chunk_arrives(k, n) ==
    /\ pc = "follow"
    /\ arrived[k] + n <= 3 * Len(Sent(request.tail, k))
    /\ arrived' = [arrived EXCEPT ![k] = @ + n]
    /\ Turn([h \in Streams |-> Lines(Sent(request.tail, h), arrived'[h], FALSE)], aged, FALSE)
    /\ UNCHANGED <<log, job, request, row, ended, forced>>

\* deadline: the oldest line of a stream has waited for MERGE_WINDOW.
window_elapses(k) ==
    /\ pc = "follow"
    /\ aged[k] < Waiting(k)
    /\ Turn([h \in Streams |-> Received(h)], [aged EXCEPT ![k] = @ + 1], FALSE)
    /\ forced' = TRUE
    /\ UNCHANGED <<log, job, request, row, arrived, ended>>

\* The container is done, INACTIVITY_TIMEOUT without a byte, or the connection broke.
stream_ends ==
    /\ pc = "follow"
    /\ ended' = TRUE
    /\ Turn([h \in Streams |-> Lines(Sent(request.tail, h), arrived[h], TRUE)], aged, TRUE)
    /\ UNCHANGED <<log, job, request, row, arrived, forced>>

\* The client goes away: the next send fails.
client_leaves ==
    /\ pc = "follow"
    /\ pc' = "error"
    /\ UNCHANGED <<log, job, request, row, out, stream>>

Next ==
    \/ validate \/ find_job \/ exec_fails \/ exec_stream \/ serve_cached
    \/ \E works \in BOOLEAN : live_container_id(works)
    \/ \E got \in Arrivals(request.tail) : exec_once(got)
    \/ \E got \in Arrivals(None) : logs_fetched(got)
    \/ logs_fetch_error \/ start_error \/ job_over
    \/ \E k \in Streams : window_elapses(k) \/ \E n \in 1 .. 4 : chunk_arrives(k, n)
    \/ stream_ends \/ client_leaves

Spec == Init /\ [][Next]_vars

-----------------------------------------------------------------------------
(***************************************************************************)
(* Properties.                                                             *)
(***************************************************************************)

FromWorker == ended \/ arrived # Zero

\* Each stream's lines come in their order, none lost or doubled, up to the limit,
\* also when the window forces them out.
EachInOrder ==
    pc \in {"follow", "done"} /\ FromWorker =>
    \A k \in Streams :
        LET sent == SelectSeq(Received(k), LAMBDA l : Keeps(request, l))
        IN  /\ IsPrefix(OfStream(out, k), sent)
            /\ ended /\ request.limit = None => OfStream(out, k) = sent

\* The log as one, in time order, stdout first on a tie.
Whole == merge_by_timestamp([k \in Streams |-> OfStream(log, k)])

\* Nothing was lost on the way to the client: the SSH command came to its end, or the one
\* that filled the cache did.
Unbroken ==
    IF FromWorker THEN arrived = [k \in Streams |-> 3 * Len(Sent(request.tail, k))]
    ELSE row.cached = [lines |-> Whole, timestamped |-> TRUE]

\* Whichever way the lines come, the answer is the same log: in time order, stdout
\* first on a tie, filtered alike.  A followed log that ended, and that the window
\* never forced, is what a fetch of the lines received gives; and if no connection
\* broke, a log followed, one fetched live and one served from the cache are the same
\* (but for podman's own --tail, which cuts before the merge).  What the window forces
\* out early is still EachInOrder; what a broken connection leaves is so, too, and a
\* cached text has no line twice.
OneLog ==
    /\ EachInOrder
    /\ pc = "done" /\ ~forced /\ FromWorker =>
        out = apply(request, merge_by_timestamp([k \in Streams |-> Received(k)]), TRUE, None)
    /\ pc = "done" /\ ~forced /\ Unbroken =>
        out = IF FromWorker
              THEN apply(request, SelectSeq(Whole, LAMBDA l :
                                     l \in Range(LastLines(request.tail, log))), TRUE, None)
              ELSE apply(request, Whole, TRUE, request.tail)
    /\ pc = "done" /\ ~FromWorker =>
        \A i, j \in DOMAIN out : i < j => out[i].no # out[j].no

=============================================================================
