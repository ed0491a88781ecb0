----------------------------- MODULE RunEvents -----------------------------
(***************************************************************************)
(* A run's timeline, from the runner to an open page: EventFlusher of      *)
(* runner/client.ts and where executeJob flushes it, POST /:id/events,     *)
(* GET /:id and GET /:id/stream of server/routes/runs.ts, the in-process   *)
(* bus of events-bus.ts, and the page of web/pages/RunDetail.tsx.  An      *)
(* event is its seq.                                                       *)
(***************************************************************************)
EXTENDS Naturals, FiniteSets

CONSTANTS
  MaxEvent,    \* bound: events of the run
  MaxFailure   \* bound: requests that fail, streams that break

ASSUME EventsAssumption == MaxEvent \in Nat /\ MaxFailure \in Nat

VARIABLES
  job,      \* executeJob: working, ended (the report is in), over (its finally is done)
  pushed,   \* how many events it has pushed
  buffer,   \* EventFlusher's buffer
  timer,    \* whether a flush is scheduled
  posts,    \* the batches of the POSTs in flight
  last,     \* the batch the final flush is waiting for
  lateLoss, \* a POST failed that nothing retries any more
  stored,   \* run_events
  endedAt,  \* whether runs.ended_at is set, and what was stored then
  stream,   \* the page's EventSource
  page,     \* the page: what GET /:id told it, what it shows
  failures

eventsVars == <<job, pushed, buffer, timer, posts, last, lateLoss, stored, endedAt, stream, page,
                failures>>

Events == 1 .. MaxEvent
NotEnded == [set |-> FALSE, had |-> {}]
Closed == [state |-> "closed", queue |-> {}]

EventsTypeOK ==
  /\ job \in {"working", "ended", "closing", "over"}
  /\ pushed \in 0 .. MaxEvent
  /\ buffer \subseteq Events /\ posts \subseteq SUBSET Events /\ last \subseteq Events
  /\ timer \in BOOLEAN /\ lateLoss \in BOOLEAN
  /\ stored \subseteq Events
  /\ endedAt \in [set : BOOLEAN, had : SUBSET Events]
  /\ stream \in [state : {"closed", "backfilling", "live"}, queue : SUBSET Events]
  /\ page \in [fetch : {"idle", "read"}, saw : BOOLEAN, ended : BOOLEAN, shows : SUBSET Events]
  /\ failures \in 0 .. MaxFailure

EventsInit ==
  /\ job = "working" /\ pushed = 0
  /\ buffer = {} /\ timer = FALSE /\ posts = {} /\ last = {} /\ lateLoss = FALSE
  /\ stored = {} /\ endedAt = NotEnded
  /\ stream = Closed
  /\ page = [fetch |-> "idle", saw |-> FALSE, ended |-> FALSE, shows |-> {}]
  /\ failures = 0

-----------------------------------------------------------------------------
\* push(): a full buffer is flushed at once, and otherwise a timer is set.
PushEvent ==
  /\ job \in {"working", "ended"} /\ pushed < MaxEvent
  /\ pushed' = pushed + 1
  /\ buffer' = buffer \cup {pushed'}
  /\ timer' = TRUE
  /\ UNCHANGED <<job, posts, last, lateLoss, stored, endedAt, stream, page, failures>>

\* flush(): what fails meanwhile comes back to a buffer that has gone on filling.
Flush ==
  /\ timer' = FALSE
  /\ buffer' = {}
  /\ posts' = IF buffer = {} THEN posts ELSE posts \cup {buffer}

FlushNow ==
  /\ timer /\ Flush
  /\ UNCHANGED <<job, pushed, last, lateLoss, stored, endedAt, stream, page, failures>>

\* cp.report, after which come the notes of the publisher.
ReportRun ==
  /\ job = "working"
  /\ job' = "ended"
  /\ endedAt' = [set |-> TRUE, had |-> stored]
  /\ UNCHANGED <<pushed, buffer, timer, posts, last, lateLoss, stored, stream, page, failures>>

\* The flush in executeJob's finally is awaited; one the timer began may still be out.
FinalFlush ==
  /\ job = "ended"
  /\ job' = "closing"
  /\ Flush
  /\ last' = buffer
  /\ UNCHANGED <<pushed, lateLoss, stored, endedAt, stream, page, failures>>

JobOver ==
  /\ job = "closing" /\ last \notin posts
  /\ job' = "over"
  /\ UNCHANGED <<pushed, buffer, timer, posts, last, lateLoss, stored, endedAt, stream, page,
                 failures>>

\* POST /:id/events: the insert ignores what it has, the bus hears the whole batch.
Ingest(batch) ==
  /\ stored' = stored \cup batch
  /\ stream' = IF stream.state = "live" THEN [stream EXCEPT !.queue = @ \cup batch] ELSE stream

EventsAccepted(batch) ==
  /\ batch \in posts
  /\ posts' = posts \ {batch}
  /\ Ingest(batch)
  /\ UNCHANGED <<job, pushed, buffer, timer, last, lateLoss, endedAt, page, failures>>

\* Mutant: the batch takes the place of what was pushed meanwhile.
RestoredAlone(batch) == batch

\* The request, or only its answer, is lost: the batch goes back in front of the buffer.
Restored(batch) == buffer \cup batch

EventsPostFails(batch) ==
  /\ failures < MaxFailure /\ failures' = failures + 1
  /\ batch \in posts
  /\ posts' = posts \ {batch}
  /\ buffer' = Restored(batch)
  /\ lateLoss' = (lateLoss \/ job \in {"closing", "over"})
  /\ Ingest(batch) \/ UNCHANGED <<stored, stream>>
  /\ UNCHANGED <<job, pushed, timer, last, endedAt, page>>

-----------------------------------------------------------------------------
\* The page holds a stream open, and polls, while the run it last read has not ended.
OpenStream ==
  /\ ~page.ended /\ stream.state = "closed"
  /\ stream' = [state |-> "backfilling", queue |-> {}]
  /\ page' = [page EXCEPT !.shows = @ \cup stored]
  /\ UNCHANGED <<job, pushed, buffer, timer, posts, last, lateLoss, stored, endedAt, failures>>

\* Subscribing comes after the backfill was read and written.
Subscribe ==
  /\ stream.state = "backfilling"
  /\ stream' = [state |-> "live", queue |-> {}]
  /\ UNCHANGED <<job, pushed, buffer, timer, posts, last, lateLoss, stored, endedAt, page,
                 failures>>

SendQueue ==
  /\ stream.queue # {}
  /\ stream' = [stream EXCEPT !.queue = {}]
  /\ page' = [page EXCEPT !.shows = @ \cup stream.queue]
  /\ UNCHANGED <<job, pushed, buffer, timer, posts, last, lateLoss, stored, endedAt, failures>>

\* EventSource comes back by itself, and asks for everything again.
StreamBreaks ==
  /\ failures < MaxFailure /\ failures' = failures + 1
  /\ stream.state # "closed" /\ stream' = Closed
  /\ UNCHANGED <<job, pushed, buffer, timer, posts, last, lateLoss, stored, endedAt, page>>

\* GET /:id: the run first, its events second.
ReadRun(p) == [p EXCEPT !.fetch = "read", !.saw = endedAt.set]
\* Mutant: the page trusts what was streamed.
ReadTimelineStreamed(p) == [p EXCEPT !.fetch = "idle", !.ended = p.saw]

ReadTimeline(p) == [p EXCEPT !.fetch = "idle", !.ended = p.saw, !.shows = @ \cup stored]

FetchRun ==
  /\ page.fetch = "idle" /\ ~page.ended
  /\ page' = ReadRun(page)
  /\ UNCHANGED <<job, pushed, buffer, timer, posts, last, lateLoss, stored, endedAt, stream,
                 failures>>

FetchTimeline ==
  /\ page.fetch = "read"
  /\ page' = ReadTimeline(page)
  /\ stream' = IF page'.ended THEN Closed ELSE stream
  /\ UNCHANGED <<job, pushed, buffer, timer, posts, last, lateLoss, stored, endedAt, failures>>

EventsNext ==
  \/ PushEvent \/ FlushNow \/ ReportRun \/ FinalFlush \/ JobOver
  \/ \E batch \in posts : EventsAccepted(batch) \/ EventsPostFails(batch)
  \/ OpenStream \/ Subscribe \/ SendQueue \/ StreamBreaks
  \/ FetchRun \/ FetchTimeline

\* The run ends; requests are answered or fail; the page, while it watches, polls and streams.
EventsFairness ==
  /\ WF_eventsVars(FlushNow) /\ WF_eventsVars(ReportRun) /\ WF_eventsVars(FinalFlush)
  /\ WF_eventsVars(JobOver) /\ WF_eventsVars(\E batch \in posts : EventsAccepted(batch))
  /\ WF_eventsVars(OpenStream) /\ WF_eventsVars(Subscribe) /\ WF_eventsVars(SendQueue)
  /\ WF_eventsVars(FetchRun) /\ WF_eventsVars(FetchTimeline)

EventsSpec == EventsInit /\ [][EventsNext]_eventsVars /\ EventsFairness

-----------------------------------------------------------------------------
\* A failed flush is retried by the next: whatever failed before the last one, however the
\* flushes overlapped, an event is missing from the database only if a POST failed after it.
OnlyTheLastFlushLoses ==
  job = "over" /\ posts = {} /\ ~lateLoss => stored = 1 .. pushed

\* A page that is open comes to show all that was stored when the run ended, whatever the
\* stream dropped between its backfill and its subscription.
TimelineUpToTheEndIsShown ==
  \A e \in Events : (e \in endedAt.had ~> e \in page.shows)

\* "Postgres is authoritative; live events fill the gap until the next refetch"
\* (RunDetail.tsx).  It fails: the last refetch is the one that saw the run ended, and what the
\* publisher notes after the report may be stored later.
TimelineIsShown ==
  \A e \in Events : (e \in stored ~> e \in page.shows)
=============================================================================
