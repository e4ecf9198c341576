------------------------------- MODULE StatusJob -------------------------------
(***************************************************************************)
(* The refresh of the delivery status: a job an administrator starts, the  *)
(* thread that runs it and the event stream that announces its end         *)
(* (routers/admin.py, services/event_stream.py, routers/events.py), and    *)
(* the page that waits for it (frontend/src/App.tsx), by polling and by    *)
(* listening to the stream.                                                *)
(*                                                                         *)
(* Jobs live in the memory of the process.  An event reaches who is        *)
(* subscribed when it is published and has room for it.                    *)
(*                                                                         *)
(* The standard names carry a "Job" here, so that a module can extend this *)
(* one beside another component of the process.                            *)
(***************************************************************************)
EXTENDS Naturals, FiniteSets

CONSTANTS
    Jobs,
    NoJob,
    MaxPolls,       \* bound on the answers a page waits for
    MaxRestarts     \* bound on the restarts of the process

ASSUME JobAssumption ==
    /\ NoJob \notin Jobs
    /\ MaxPolls \in Nat \ {0}
    /\ MaxRestarts \in Nat

VARIABLES
    status,         \* _delivery_auth_jobs
    thread,         \* what runs each of them
    request,        \* the request that starts a refresh
    page,           \* the refs and states of DeliveryMethodsPage
    polls,          \* requests for a job in flight, with the answer if there is one
    stream,         \* whether the page is subscribed
    events,         \* jobs whose end is announced in its queue
    restarts,
    (***********************************************************************)
    (* History, read by the properties only.                               *)
    (***********************************************************************)
    told,           \* jobs whose end the page has shown
    crossed         \* jobs the page has stopped watching for another's sake

server == <<status, thread>>
client == <<page, polls, stream, events, told, crossed>>
jobVars == <<server, client, request, restarts>>

JobOrNone == Jobs \cup {NoJob}
InProgress == {"queued", "running"}
Terminal == {"completed", "failed"}
Statuses == {"unused", "gone"} \cup InProgress \cup Terminal
Answers == {"sent", "missing"} \cup InProgress \cup Terminal

Page == [busy: BOOLEAN, active: JobOrNone, watching: BOOLEAN, finished: JobOrNone]
Request == [pc: {"none", "sent", "starting", "launched", "answered"}, job: JobOrNone, answer: Answers]
Poll == [job: Jobs, answer: Answers]

NoRequest == [pc |-> "none", job |-> NoJob, answer |-> "sent"]

JobTypeOK ==
    /\ status \in [Jobs -> Statuses]
    /\ thread \in [Jobs -> {"none", "ready", "works", "announces", "ended"}]
    /\ request \in Request
    /\ page \in Page
    /\ polls \subseteq Poll
    /\ stream \in BOOLEAN
    /\ events \subseteq Jobs
    /\ restarts \in 0 .. MaxRestarts
    /\ told \subseteq Jobs
    /\ crossed \subseteq Jobs

JobInit ==
    /\ status = [j \in Jobs |-> "unused"]
    /\ thread = [j \in Jobs |-> "none"]
    /\ request = NoRequest
    /\ page = [busy |-> FALSE, active |-> NoJob, watching |-> FALSE, finished |-> NoJob]
    /\ polls = {}
    /\ stream = FALSE
    /\ events = {}
    /\ restarts = 0
    /\ told = {}
    /\ crossed = {}

-----------------------------------------------------------------------------
(***************************************************************************)
(* The backend.                                                            *)
(***************************************************************************)
AnswerTo(j) == IF status[j] = "gone" THEN "missing" ELSE status[j]

Unfinished == {j \in Jobs : status[j] \in InProgress}

Answered(j, answer) == request' = [pc |-> "answered", job |-> j, answer |-> answer]

\* Slip: whoever asks gets a job of their own.
StartAnother ==
    /\ request.pc = "sent"
    /\ \E j \in Jobs :
          /\ status[j] = "unused"
          /\ status' = [status EXCEPT ![j] = "queued"]
          /\ request' = [request EXCEPT !.pc = "starting", !.job = j]
    /\ UNCHANGED <<thread, client, restarts>>

\* _start_delivery_auth_refresh_job under its lock: one job at a time
Start ==
    /\ request.pc = "sent"
    /\ IF Unfinished # {}
       THEN \E j \in Unfinished : Answered(j, status[j]) /\ UNCHANGED status
       ELSE \E j \in Jobs :
               /\ status[j] = "unused"
               /\ status' = [status EXCEPT ![j] = "queued"]
               /\ request' = [request EXCEPT !.pc = "starting", !.job = j]
    /\ UNCHANGED <<thread, client, restarts>>

\* worker.start(), which may raise; the job is left as it is.
Launch ==
    /\ request.pc = "starting"
    /\ \/ /\ thread' = [thread EXCEPT ![request.job] = "ready"]
          /\ request' = [request EXCEPT !.pc = "launched"]
       \/ /\ Answered(NoJob, "missing")
          /\ UNCHANGED thread
    /\ UNCHANGED <<status, client, restarts>>

\* The answer says how far the job is by then.
Accept ==
    /\ request.pc = "launched"
    /\ Answered(request.job, status[request.job])
    /\ UNCHANGED <<server, client, restarts>>

\* _run_delivery_auth_refresh_job
Begin(j) ==
    /\ thread[j] = "ready"
    /\ thread' = [thread EXCEPT ![j] = "works"]
    /\ status' = [status EXCEPT ![j] = "running"]
    /\ UNCHANGED <<client, request, restarts>>

\* Slip: an exception ends the thread and leaves the job running.
EndOrRaise(j) ==
    /\ thread[j] = "works"
    /\ \/ /\ status' = [status EXCEPT ![j] = "completed"]
          /\ thread' = [thread EXCEPT ![j] = "announces"]
       \/ /\ thread' = [thread EXCEPT ![j] = "ended"]
          /\ UNCHANGED status
    /\ UNCHANGED <<client, request, restarts>>

\* The components are refreshed, or an exception is caught.
End(j) ==
    /\ thread[j] = "works"
    /\ \E result \in Terminal : status' = [status EXCEPT ![j] = result]
    /\ thread' = [thread EXCEPT ![j] = "announces"]
    /\ UNCHANGED <<client, request, restarts>>

\* EventBus.publish; the queue may be full of other events.
Announce(j) ==
    /\ thread[j] = "announces"
    /\ thread' = [thread EXCEPT ![j] = "ended"]
    /\ events' \in {events} \cup (IF stream THEN {events \cup {j}} ELSE {})
    /\ UNCHANGED <<status, request, page, polls, stream, restarts, told, crossed>>

\* get_delivery_auth_refresh_job
Reply(poll) ==
    /\ poll.answer = "sent"
    /\ polls' = (polls \ {poll}) \cup {[poll EXCEPT !.answer = AnswerTo(poll.job)]}
    /\ UNCHANGED <<server, request, page, stream, events, restarts, told, crossed>>

\* The process dies and another one takes its place.
Restart ==
    /\ restarts < MaxRestarts
    /\ restarts' = restarts + 1
    /\ status' = [j \in Jobs |-> IF status[j] = "unused" THEN "unused" ELSE "gone"]
    /\ thread' = [j \in Jobs |-> "none"]
    /\ IF request.pc \in {"sent", "starting", "launched"} THEN Answered(NoJob, "missing") ELSE UNCHANGED request
    /\ polls' = {IF poll.answer = "sent" THEN [poll EXCEPT !.answer = "missing"] ELSE poll : poll \in polls}
    /\ stream' = FALSE
    /\ events' = {}
    /\ UNCHANGED <<page, told, crossed>>

-----------------------------------------------------------------------------
(***************************************************************************)
(* The page.                                                               *)
(***************************************************************************)
NotWatching == [busy |-> FALSE, active |-> NoJob, watching |-> FALSE, finished |-> page.finished]

\* Who was watching another job no longer does.
Crosses(j) == crossed' = crossed \cup (IF page.active \in {NoJob, j} THEN {} ELSE {page.active})

\* finishDeliveryAuthRefresh
Finish(j) ==
    IF page.finished = j THEN UNCHANGED <<page, stream, events, told, crossed>>
    ELSE /\ page' = [NotWatching EXCEPT !.finished = j]
         /\ told' = told \cup {j}
         /\ Crosses(j)
         /\ stream' = FALSE
         /\ events' = {}

\* A job must be left to start; a bound.
Sends ==
    /\ request.pc = "none"
    /\ \E j \in Jobs : status[j] = "unused"
    /\ request' = [NoRequest EXCEPT !.pc = "sent"]

\* refreshDeliveryAuth; the button is disabled while it is busy.
Click ==
    /\ ~page.busy
    /\ Sends
    /\ page' = [page EXCEPT !.busy = TRUE]
    /\ UNCHANGED <<server, polls, stream, events, restarts, told, crossed>>

\* maybeStartBackgroundRefresh, silently
RefreshInBackground ==
    /\ page.active = NoJob
    /\ Sends
    /\ UNCHANGED <<server, client, restarts>>

\* Its answer: an error, a job that has ended, or one to watch.
GetAnswer ==
    LET j == request.job
    IN  /\ request.pc = "answered"
        /\ request' = NoRequest
        /\ \/ /\ request.answer = "missing"
              /\ page' = [page EXCEPT !.busy = FALSE, !.active = NoJob]
              /\ Crosses(j)
              /\ UNCHANGED <<stream, events, told>>
           \/ /\ request.answer \in Terminal
              /\ Finish(j)
           \/ /\ request.answer \in InProgress
              /\ page' = [page EXCEPT !.active = j, !.watching = TRUE, !.finished = NoJob]
              /\ Crosses(j)
              /\ stream' = FALSE
              /\ events' = {}
              /\ UNCHANGED told
        /\ UNCHANGED <<server, polls, restarts>>

\* stream_events; the browser connects, and again when the stream breaks.
Subscribe ==
    /\ page.watching
    /\ ~stream
    /\ stream' = TRUE
    /\ UNCHANGED <<server, request, page, polls, events, restarts, told, crossed>>

Break ==
    /\ stream
    /\ stream' = FALSE
    /\ events' = {}
    /\ UNCHANGED <<server, request, page, polls, restarts, told, crossed>>

Asks(j) ==
    /\ Cardinality(polls) < MaxPolls
    /\ polls' = polls \cup {[job |-> j, answer |-> "sent"]}

\* Every 2.5 seconds
AskAgain ==
    /\ page.watching
    /\ page.active # NoJob
    /\ Asks(page.active)
    /\ UNCHANGED <<server, request, page, stream, events, restarts, told, crossed>>

\* handleTerminalEvent
Hear(j) ==
    /\ j \in events
    /\ events' = events \ {j}
    /\ IF j = page.active THEN Asks(j) ELSE UNCHANGED polls
    /\ UNCHANGED <<server, request, page, stream, restarts, told, crossed>>

\* pollDeliveryAuthRefreshJob when its answer arrives
GetReply(poll) ==
    /\ poll.answer # "sent"
    /\ polls' = polls \ {poll}
    /\ \/ /\ poll.answer = "missing"
          /\ page' = NotWatching
          /\ Crosses(poll.job)
          /\ stream' = FALSE
          /\ events' = {}
          /\ UNCHANGED told
       \/ /\ poll.answer \in Terminal
          /\ Finish(poll.job)
       \/ /\ poll.answer \in InProgress
          /\ UNCHANGED <<page, stream, events, told, crossed>>
    /\ UNCHANGED <<server, request, restarts>>

-----------------------------------------------------------------------------
JobNext ==
    \/ Start \/ Launch \/ Accept
    \/ \E j \in Jobs : Begin(j) \/ End(j) \/ Announce(j) \/ Hear(j)
    \/ \E poll \in polls : Reply(poll) \/ GetReply(poll)
    \/ Restart
    \/ Click \/ RefreshInBackground \/ GetAnswer \/ Subscribe \/ Break \/ AskAgain

JobSpec == JobInit /\ [][JobNext]_jobVars

\* Threads run, requests are answered and the page keeps polling; a stream need not
\* ever be connected or heard.
JobFairness ==
    /\ WF_jobVars(Start) /\ WF_jobVars(Launch) /\ WF_jobVars(Accept) /\ WF_jobVars(GetAnswer)
    /\ \A j \in Jobs : WF_jobVars(Begin(j)) /\ WF_jobVars(End(j)) /\ WF_jobVars(Announce(j))
    /\ WF_jobVars(AskAgain)
    /\ \A poll \in Poll : WF_jobVars(poll \in polls /\ Reply(poll)) /\ WF_jobVars(poll \in polls /\ GetReply(poll))

FairJobSpec == JobSpec /\ JobFairness

-----------------------------------------------------------------------------
(***************************************************************************)
(* Properties.                                                             *)
(***************************************************************************)
Ended == {j \in Jobs : status[j] \in Terminal \cup {"gone"}}

Used == {j \in Jobs : status[j] # "unused"}

\* One refresh is in progress at a time; a thread, and a request that is being
\* answered, are of the job they were started for.
ServerInv ==
    /\ \A j, k \in Unfinished : j = k
    /\ \A j \in Jobs :
          /\ thread[j] \in {"ready", "works"} => j \in Unfinished
          /\ thread[j] = "announces" => j \in Ended
          /\ j \notin Used => thread[j] = "none"
    /\ request.pc = "starting" => request.job \in Unfinished /\ thread[request.job] = "none"
    /\ request.pc = "launched" => request.job \in Used /\ status[request.job] # "gone"
    /\ request.pc = "answered" /\ request.answer # "missing" =>
          /\ request.job \in Used
          /\ request.answer \in Terminal => request.job \in Ended

\* What is announced, answered or shown as the end of a job is of one that has ended,
\* in this process or an earlier one; and a page that is busy watches a job or waits
\* for its request.
PageInv ==
    /\ told \cup events \subseteq Ended
    /\ \A poll \in polls :
          /\ poll.job \in Used
          /\ poll.answer \in Terminal \cup {"missing"} => poll.job \in Ended
    /\ page.active \in Used \cup {NoJob}
    /\ page.watching =>
          /\ page.finished = NoJob
          /\ page.active # NoJob \/ ~page.busy \/ request.pc # "none"

JobsInv == JobTypeOK /\ ServerInv /\ PageInv

\* A job whose thread could not be started stays queued.
Stuck == \E j \in Jobs : status[j] = "queued" /\ thread[j] = "none" /\ request.pc # "starting"

\* The page does not stay busy: it learns of the end of the job, or that it is gone,
\* although events are dropped and connections break; unless the job is stuck.
PageComesToRest == page.busy ~> (~page.busy \/ Stuck)

\* The page shows the end of the job it watches, unless the job was lost in a restart
\* or a late answer about an earlier one has ended the watch.
EndIsShown ==
    \A j \in Jobs : (page.active = j) ~> (j \in told \/ status[j] = "gone" \/ j \in crossed \/ Stuck)
=============================================================================
