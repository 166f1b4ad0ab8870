---------------------------- MODULE StoryPromises ----------------------------
(***************************************************************************)
(* What the delivery of a live story (StoryDelivery) promises whoever set  *)
(* it up: everyone is reached, nobody is reached twice, and in one way.    *)
(***************************************************************************)
CONSTANTS
    Targets,        \* the recipients, each on each of the delivery's channels
    Crons,          \* cron expressions of schedules
    Occurrences,    \* names for occurrences; bounds how many there are
    Editors,        \* concurrent requests that change settings
    MaxAttempts,    \* scheduled_job.max_attempts
    MaxEdits,       \* bound on the requests that change settings
    MaxFaults,      \* bound on the faults of one behaviour
    Bounds,         \* how many requests, faults and occurrences there may be together
    Null

VARIABLES
    story,     \* isLive and cacheSchedule
    delivery,  \* the story_delivery row
    rows,      \* scheduled_job: the recurring delivery and the one-off retries
    exec,      \* occurrence -> the handler that works on it, or Null
    origin,    \* occurrence -> Schedule or Refresh once it has begun
    sent,      \* occurrence -> target -> how often it was reached
    done,      \* occurrences whose delivery ended without an error
    editing,   \* editor -> its request, or Null
    edits,     \* requests to change settings so far
    overlap,   \* have requests overlapped? (history)
    faults     \* kind -> how many there were

D == INSTANCE StoryDelivery

ASSUME DeliveryAssumption == D!StoryAssumption

-----------------------------------------------------------------------------
(* Properties *)

\* Retries and refreshes reach everyone, and nobody twice: what they skip is what
\* was sent.
DeliveredOnce == D!ReachedOnce /\ D!RefreshReachesAll

\* The settings and the jobs are well typed and agree on the path of delivery,
\* whenever a request had the story to itself.
SettingsAgree == D!TypeOK /\ D!OnePath
=============================================================================
