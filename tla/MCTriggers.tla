------------------------------ MODULE MCTriggers ------------------------------
(***************************************************************************)
(* Instances for TLC of what starts work from outside and of the            *)
(* connection it uses: Scheduler, Sources and LinearConnection, side by     *)
(* side.  One behaviour is about one of them, the one in focus; Sources     *)
(* and LinearConnection have several foci, each with some of the actions.   *)
(***************************************************************************)
EXTENDS Scheduler, Sources, LinearConnection

CONSTANTS v1, v2, s1, s2

VARIABLE focus

\* race: two control planes and two sources list the same tickets.
\* health: one source is polled, refused, switched off and on as time passes.
\* backlog: tickets are edited while one source is polled for ever.
SourceFoci == {"race", "health", "backlog"}
\* polls: two polls share a grant that has to be renewed.
\* flow: a person connects, reconnects and disconnects beside one poll.
\* keys: the same person stores and removes a personal key as well, and nobody polls.
LinearFoci == {"polls", "flow", "keys"}

NightlyFires == [c \in Cron |-> {1, 2}]
EveryTicket == [s \in Source |-> Ticket]

\* Bound of the focus "clock": the instant from which config.yaml is not synced again.
LastSync == 2

\* Bound of the foci "flow" and "keys": tokens issued.
FlowTokens == 2

otherThanClock == <<focus, sourcesVars, linearVars>>
otherThanSources == <<focus, schedulerVars, linearVars>>
otherThanLinear == <<focus, schedulerVars, sourcesVars>>
allVars == <<focus, schedulerVars, sourcesVars, linearVars>>

MCInit ==
  /\ focus \in {"clock"} \cup SourceFoci \cup LinearFoci
  /\ SchedulerInit
  /\ SourcesInit
  /\ \A s \in Source :
       source[s].enabled = (focus = "race" \/ (focus \in SourceFoci /\ s = s1))
  /\ LinearInit
  /\ focus # "polls" => store.app = None

SourcesFocusNext ==
  CASE focus = "race" -> \E v \in Plane : PassStep(v) \/ PassFault(v)
    [] focus = "health" -> PassStep(v1) \/ PassFault(v1) \/ ToggleSource(s1) \/ MinutePasses
    [] OTHER -> \/ PassStep(v1)
                \/ \E t \in Ticket : EditTicket(t)
                \/ ~loop[v1].busy /\ MinutePasses

LinearFocusNext ==
  \/ \E p \in Polls : (focus = "polls" \/ (focus = "flow" /\ p = "p")) /\ PollingStep(p)
  \/ \E t \in 1 .. Len(issued) : AccessTokenAges(t)
  \/ /\ focus = "polls"
     /\ \/ \E p \in Polls : CallFails(p) \/ StoreFails(p)
        \/ LinearRestart
        \/ \E t \in 1 .. Len(issued) : ReplayLapses(t)
  \/ /\ focus \in {"flow", "keys"}
     /\ \E f \in Flow : ConnectStep(f) \/ (focus = "keys" /\ KeyStep(f))
     /\ Len(issued') <= FlowTokens

ClockFocusNext ==
  \/ \E v \in Server : TickStep(v) \/ ServerCrash(v)
  \/ \E y \in Sync : (sync[y].busy \/ now < LastSync) /\ SyncStep(y)
  \/ Advance

MCNext ==
  \/ focus = "clock" /\ ClockFocusNext /\ UNCHANGED otherThanClock
  \/ focus \in SourceFoci /\ SourcesFocusNext /\ UNCHANGED otherThanSources
  \/ focus \in LinearFoci /\ LinearFocusNext /\ UNCHANGED otherThanLinear

\* Liveness is asked of three foci, each under its module's fairness; the others
\* leave out the time it would need.  TLC checks safety in all of them.
MCSpec ==
  /\ MCInit /\ [][MCNext]_allVars
  /\ <>(focus \in {"clock", "backlog", "polls"})
  /\ \A s \in Server : WF_schedulerVars(focus = "clock" /\ TickStep(s))
  /\ WF_sourcesVars(focus = "backlog" /\ PassStep(v1))
  /\ WF_sourcesVars(focus = "backlog" /\ MinutePasses)
  /\ \A p \in Polls : WF_linearVars(focus = "polls" /\ PollingStep(p))

\* Every state of every component has the shape its module declares.
TypesOK == SchedulerTypeOK /\ SourcesTypeOK /\ LinearTypeOK
=============================================================================
