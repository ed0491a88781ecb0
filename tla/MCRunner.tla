------------------------------- MODULE MCRunner -------------------------------
(***************************************************************************)
(* Instances of the runner's modules for TLC, and of the gateway's          *)
(* certificate authority, side by side: one behaviour is about one of them, *)
(* the one in focus, and the others stand still.                            *)
(***************************************************************************)
EXTENDS Rounds, Publish, RunEvents, Host, ConnectionReader, Authority

CONSTANTS j1, j2, j3, p3

VARIABLE focus

Focus == {"rounds", "publish", "events", "host", "reader", "authority"}

Job(permissions, sandbox, bootstrap, suite, defaults, expectation, review) ==
  [permissions |-> permissions, sandbox |-> sandbox, downgradable |-> FALSE,
   bootstrap |-> bootstrap, testCommand |-> suite, defaults |-> defaults,
   expectation |-> expectation, review |-> review]

\* A modifier with the whole gate, and one with a worker's own expectation.
Plain == Job("modifier", "container", FALSE, TRUE, TRUE, FALSE, TRUE)
Expected == Job("modifier", "container", FALSE, TRUE, TRUE, TRUE, TRUE)

Orders ==
  {Plain, Expected,
   Job("modifier", "container", TRUE, FALSE, TRUE, FALSE, TRUE),     \* bootstrap
   Job("modifier", "worktree", FALSE, TRUE, TRUE, FALSE, FALSE),     \* refused
   Job("reviewer", "container", FALSE, FALSE, TRUE, TRUE, FALSE),
   Job("reviewer", "container", FALSE, FALSE, FALSE, FALSE, FALSE)}

\* A command of the gate leaves the workspace as it was, edits a file, or leaves one of
\* everything the sweep has no complaint about.
TidyOrNot == {{}, {"tracked"}, Kinds \ {"tracked"}}

\* The third job's container is not behind the gateway.
WalledJobs == {j1, j2}

otherThanRounds == <<focus, publishVars, eventsVars, hostVars, readerVars, authorityVars>>
otherThanPublish == <<focus, roundsVars, eventsVars, hostVars, readerVars, authorityVars>>
otherThanEvents == <<focus, roundsVars, publishVars, hostVars, readerVars, authorityVars>>
otherThanHost == <<focus, roundsVars, publishVars, eventsVars, readerVars, authorityVars>>
otherThanReader == <<focus, roundsVars, publishVars, eventsVars, hostVars, authorityVars>>
otherThanAuthority == <<focus, roundsVars, publishVars, eventsVars, hostVars, readerVars>>
allVars ==
  <<focus, roundsVars, publishVars, eventsVars, hostVars, readerVars, authorityVars>>

MCInit ==
  /\ focus \in Focus
  /\ RoundsInit /\ (focus # "rounds" => order = CHOOSE o \in Order : TRUE)
  /\ PublishInit /\ (focus # "publish" => \A r \in Run : tests[r] = "failed")
  /\ EventsInit
  /\ HostInit
  /\ ReaderInit /\ (focus # "reader" => secret.state = "absent")
  \* One of three processes was killed by an earlier start, with the lock or without.
  /\ AuthorityInit /\ p3 \in killed
  /\ focus # "authority" => keyFile = NoFile /\ caLock = Unlocked

MCNext ==
  \/ focus = "rounds" /\ RoundsNext /\ UNCHANGED otherThanRounds
  \/ focus = "publish" /\ PublishNext /\ UNCHANGED otherThanPublish
  \/ focus = "events" /\ EventsNext /\ UNCHANGED otherThanEvents
  \/ focus = "host" /\ HostNext /\ UNCHANGED otherThanHost
  \/ focus = "reader" /\ ReaderNext /\ UNCHANGED otherThanReader
  \/ focus = "authority" /\ AuthorityNext /\ UNCHANGED otherThanAuthority

MCSpec ==
  /\ MCInit /\ [][MCNext]_allVars
  /\ \/ focus = "events" /\ EventsFairness
     \/ focus = "reader" /\ ReaderFairness
     \/ focus \notin {"events", "reader"}

\* Every state of every component has the shape its module declares.
TypesOK ==
  /\ focus \in Focus
  /\ RoundsTypeOK /\ PublishTypeOK /\ EventsTypeOK /\ HostTypeOK /\ ReaderTypeOK
  /\ AuthorityTypeOK
=============================================================================
