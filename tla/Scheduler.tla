------------------------------- MODULE Scheduler -------------------------------
(***************************************************************************)
(* One job (scheduler/job.py) and the machinery that runs it: its worker   *)
(* thread with an event loop of its own (scheduler.py), its state and      *)
(* progress counters (context.py), the questions its tasks put to the user *)
(* on the event loop of the GUI, and the registry behind the Processes     *)
(* dialog.  What the tasks do is the module that extends this one.         *)
(*                                                                         *)
(* The worker's loop runs one task at a time and changes over only at an   *)
(* await: cur is the task that has not reached its next await.             *)
(*                                                                         *)
(* A definition named ...Forgotten, ...Never, ...Ignored stands beside the *)
(* one it precedes: the mistake that the properties have to notice.        *)
(***************************************************************************)
EXTENDS Integers, Sequences

CONSTANTS Tasks,   \* the nodes of the tree the job works on, each a task
          Titles,
          NoTask

ASSUME TasksAssumption == NoTask \notin Tasks

VARIABLES
  thread,    \* the root task: "idle", "spawn", "gather", "over", "returned"
  outcome,   \* how the root task ended: "", "ok", "canceled", "failed"
  cancel,    \* Job._cancel_event
  state,     \* Job._state
  completed, total, stepOpen, \* Progress; the step counters differ
  pc,        \* where each task stands
  cur,       \* the task the worker's loop is running
  holder,    \* the task inside _request_lock
  queue,     \* the tasks waiting for it, first come first served
  future,    \* gui_future of the holder: NoResponse while pending
  dialog,    \* request_callback: "none", "coming", "shown"
  toAll,     \* _responses_to_all
  answer,    \* what request_response() returned to each task
  registry   \* JobRegistry: the job is "absent", "running", "finished" or "gone"

progressVars == <<completed, total, stepOpen>>
lockVars == <<holder, queue, future, dialog, toAll>>
rootVars == <<thread, outcome>>
schedulerVars == <<rootVars, cancel, state, progressVars, pc, cur, lockVars, answer, registry>>

Responses == {"yes", "no", "all", "none"}
ToAll == {"all", "none"}
Rejections == {"no", "none"}
NoResponse == "pending"

SchedulerInit ==
  /\ thread = "idle" /\ outcome = ""
  /\ cancel = FALSE /\ state = "initialized"
  /\ completed = 0 /\ total = 0 /\ stepOpen = FALSE
  /\ pc = [t \in Tasks |-> "todo"] /\ cur = NoTask
  /\ holder = NoTask /\ queue = <<>>
  /\ future = NoResponse /\ dialog = "none"
  /\ toAll = [title \in Titles |-> NoResponse]
  /\ answer = [t \in Tasks |-> NoResponse]
  /\ registry = "absent"

-------------------------------------------------------------------------------
(* The progress counters and the state derived from them *)

\* TaskStatus.is_complete() in the progress callback: COMPLETED as soon as the
\* counters agree, and never taken back by it.
Counts(done, all, open) ==
  /\ completed' = completed + done
  /\ total' = total + all
  /\ stepOpen' = open
  /\ state' = IF completed' >= total' /\ ~open THEN "completed" ELSE state

NoProgress == UNCHANGED <<progressVars, state>>

\* Only the root and the tasks of a live loop run.
Alive == thread \in {"spawn", "gather"}
LoopFree == Alive /\ cur = NoTask
Runs(t) == Alive /\ cur = t

\* The task goes on, or awaits.
Goes(t, where) == pc' = [pc EXCEPT ![t] = where] /\ cur' = t
Rests(t, where) == pc' = [pc EXCEPT ![t] = where] /\ cur' = NoTask

-------------------------------------------------------------------------------
(* Questions: AsyncTaskScheduler._create_response_requester *)

\* The request: answered by what stands for its title, or queued for the lock.
Request(t, title) ==
  /\ Runs(t) /\ pc[t] = "ask"
  /\ IF toAll[title] # NoResponse
       THEN /\ answer' = [answer EXCEPT ![t] = toAll[title]]
            /\ Goes(t, "told")
            /\ UNCHANGED queue
       ELSE /\ queue' = Append(queue, t)
            /\ Rests(t, "queued")
            /\ UNCHANGED answer
  /\ UNCHANGED <<rootVars, cancel, state, progressVars, holder, future, dialog, toAll, registry>>

\* Inside the lock: a to-all answer may have come meanwhile.
RecheckForgotten(title) == FALSE
Recheck(title) == toAll[title] # NoResponse

LockIgnored == TRUE
LockFree == holder = NoTask

\* The first in the queue gets the lock and puts its question, unless it is
\* answered by now.
TakeLock(t, title) ==
  /\ LoopFree /\ LockFree /\ queue # <<>> /\ Head(queue) = t
  /\ queue' = Tail(queue)
  /\ IF Recheck(title)
       THEN /\ answer' = [answer EXCEPT ![t] = toAll[title]]
            /\ Goes(t, "told")
            /\ UNCHANGED <<holder, future, dialog>>
       ELSE /\ holder' = t /\ future' = NoResponse /\ dialog' = "coming"
            /\ Rests(t, "poll")
            /\ UNCHANGED answer
  /\ UNCHANGED <<rootVars, cancel, state, progressVars, toAll, registry>>

\* _wait_for_future() finds the answer; one to all is kept before the lock is
\* released.
Kept(title, r) == IF r \in ToAll THEN [toAll EXCEPT ![title] = r] ELSE toAll

Poll(t, title) ==
  /\ LoopFree /\ pc[t] = "poll" /\ holder = t /\ future # NoResponse
  /\ toAll' = Kept(title, future)
  /\ answer' = [answer EXCEPT ![t] = future]
  /\ holder' = NoTask
  /\ Goes(t, "told")
  /\ UNCHANGED <<rootVars, cancel, state, progressVars, queue, future, dialog, registry>>

\* request_callback() on the loop of the GUI: the dialog opens, or fails to.
ShowDialog ==
  /\ dialog = "coming"
  /\ dialog' \in {"shown", "none"}
  /\ UNCHANGED <<rootVars, cancel, state, progressVars, pc, cur, holder, queue, future, toAll,
                 answer, registry>>

\* The user answers, be the job alive or not.
Answer ==
  /\ dialog = "shown"
  /\ dialog' = "none"
  /\ future' \in Responses
  /\ UNCHANGED <<rootVars, cancel, state, progressVars, pc, cur, holder, queue, toAll, answer,
                 registry>>

-------------------------------------------------------------------------------
(* The job and the registry *)

\* start_job(): add_job() and Job.start(); the root task counts its items first.
StartJob(items) ==
  /\ thread = "idle"
  /\ thread' = "spawn"
  /\ total' = items
  /\ state' = "running"
  /\ registry' = "running"
  /\ UNCHANGED <<outcome, cancel, completed, stepOpen, pc, cur, lockVars, answer>>

\* The root task returns or raises: loop.close() drops whatever still waits.
EndsRoot(how) == thread' = "over" /\ outcome' = how

\* Job.start() on the loop of the GUI.
StartReturns ==
  /\ thread = "over"
  /\ thread' = "returned"
  /\ state' = IF outcome = "ok" THEN state ELSE outcome
  /\ UNCHANGED <<outcome, cancel, progressVars, pc, cur, lockVars, answer, registry>>

\* Job.cancel() by the Processes dialog, which offers it to a running job.
Cancel ==
  /\ registry = "running" /\ state = "running"
  /\ cancel' = TRUE
  /\ UNCHANGED <<rootVars, state, progressVars, pc, cur, lockVars, answer, registry>>

Terminal == {"completed", "canceled", "failed"}

\* JobRegistry.update(), every second.
Tick ==
  /\ registry = "running" /\ state \in Terminal
  /\ registry' = "finished"
  /\ UNCHANGED <<rootVars, cancel, state, progressVars, pc, cur, lockVars, answer>>

\* remove_job() or clear_finished().
Dismiss ==
  /\ registry = "finished" /\ state # "running"
  /\ registry' = "gone"
  /\ UNCHANGED <<rootVars, cancel, state, progressVars, pc, cur, lockVars, answer>>

-------------------------------------------------------------------------------
Pcs == {"todo", "born", "ask", "queued", "poll", "told", "done", "canceled", "failed"}

JobTypeOK ==
  /\ thread \in {"idle", "spawn", "gather", "over", "returned"}
  /\ outcome \in {"", "ok", "canceled", "failed"}
  /\ (outcome = "") <=> (thread \notin {"over", "returned"})
  /\ cancel \in BOOLEAN
  /\ state \in {"initialized", "running"} \union Terminal
  /\ completed \in Nat /\ total \in Nat /\ stepOpen \in BOOLEAN
  /\ registry \in {"absent", "running", "finished", "gone"}

QuestionTypeOK ==
  /\ holder \in Tasks \union {NoTask}
  /\ queue \in Seq(Tasks)
  /\ future \in Responses \union {NoResponse}
  /\ dialog \in {"none", "coming", "shown"}
  /\ toAll \in [Titles -> Responses \union {NoResponse}]
  /\ answer \in [Tasks -> Responses \union {NoResponse}]

SchedulerTypeOK(morePcs) ==
  /\ JobTypeOK /\ QuestionTypeOK
  /\ pc \in [Tasks -> Pcs \union morePcs]
  /\ cur \in Tasks \union {NoTask}

\* The lock, its queue, the loop and the places of the tasks agree.
Unanswered == {"todo", "born", "ask", "queued", "poll"}
OnLoop == {"ask", "told"}
LockTypeOK ==
  /\ \A t \in Tasks : pc[t] = "poll" <=> t = holder
  /\ \A t \in Tasks : pc[t] = "queued" <=> \E i \in 1..Len(queue) : queue[i] = t
  /\ \A i, j \in 1..Len(queue) : queue[i] = queue[j] => i = j
  /\ \A t \in Tasks : pc[t] \in Unanswered => answer[t] = NoResponse
  /\ \A t \in Tasks : pc[t] \in OnLoop => cur = t
================================================================================
