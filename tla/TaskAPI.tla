-------------------------------- MODULE TaskAPI --------------------------------
(***************************************************************************)
(* The task endpoints of the router (internal/router/tasks.go): createTask *)
(* starts one CodingTaskWorkflow, getTask and streamTask report what       *)
(* Temporal says of it.  Temporal is external: a workflow execution runs,  *)
(* then closes once, and any call to Temporal may fail.  The handlers of   *)
(* different tasks share nothing, so the module has one task.              *)
(*                                                                         *)
(* time.Duration is an int64 of nanoseconds; here it is a signed word from *)
(* -Half to Half - 1, in which a second is worth Second units.             *)
(***************************************************************************)
EXTENDS Integers

CONSTANTS
    Half, Second,          \* 2^63 and 10^9 in the code
    Default, Cap, Buffer,  \* 30 minutes, maxTaskTimeout and 10 minutes, in seconds
    Requests,              \* values of TaskRequest.Timeout
    Streams,               \* requests to /stream
    Flushable,             \* does the ResponseWriter implement http.Flusher?
    Faults                 \* calls to Temporal that can fail

Word == -Half .. Half - 1

ASSUME TaskAPIAssumption ==
    /\ Half \in Nat \ {0} /\ Second \in Nat \ {0}
    /\ Default \in Nat /\ Cap \in Nat /\ Buffer \in Nat
    /\ 0 < Default /\ Default < Cap /\ (Cap + Buffer) * Second \in Word
    /\ Requests \subseteq Word /\ Flushable \in BOOLEAN
    /\ Faults \subseteq {"start", "startLost", "describe", "result"}

VARIABLES
    given,    \* TaskInput.Timeout and StartWorkflowOptions.WorkflowExecutionTimeout
    created,  \* the answer to POST: "none" while there is none
    exec,     \* WorkflowExecutionInfo.Status; "none": no such workflow
    reply,    \* the last answer to GET: an HTTP code or a report
    conn,     \* each stream: "new", "open", "closed"
    event     \* the last event on each stream

vars == <<given, created, exec, reply, conn, event>>

Closed   == {"completed", "failed", "timedOut", "terminated", "canceled"}
Statuses == {"pending", "running", "completed", "failed", "timeout"}
Nothing  == [status |-> "pending", result |-> FALSE, terminal |-> FALSE]

Init ==
    /\ given = [timeout |-> 0, execution |-> 0]
    /\ created = "none" /\ exec = "none"
    /\ reply = [code |-> 0, report |-> Nothing]
    /\ conn = [s \in Streams |-> "new"]
    /\ event = [s \in Streams |-> Nothing]

-----------------------------------------------------------------------------
(* createTask *)

\* two's complement arithmetic of an int64
Wrap(x) == ((x + Half) % (2 * Half)) - Half

\* the requested seconds as a Duration, the default, then the cap
Duration(req) == IF req > 0 THEN Wrap(req * Second) ELSE Default * Second
Timeout_NoCap(req) == Duration(req)
Timeout(req) == IF Duration(req) > Cap * Second THEN Cap * Second ELSE Duration(req)

\* a body that is not JSON, or no prompt
CreateRejected ==
    /\ created = "none"
    /\ created' = "400"
    /\ UNCHANGED <<given, exec, reply, conn, event>>

Started(req) ==
    /\ given' = [timeout |-> Timeout(req),
                 execution |-> Wrap(Timeout(req) + Buffer * Second)]
    /\ exec' = "running"

CreateOk(req) ==
    /\ created = "none"
    /\ Started(req)
    /\ created' = "202"
    /\ UNCHANGED <<reply, conn, event>>

\* ExecuteWorkflow returned an error; the workflow may have started all the same
CreateFails(req) ==
    /\ created = "none"
    /\ \/ "start" \in Faults /\ UNCHANGED <<given, exec>>
       \/ "startLost" \in Faults /\ Started(req)
    /\ created' = "500"
    /\ UNCHANGED <<reply, conn, event>>

-----------------------------------------------------------------------------
(* Reports on the workflow *)

\* the switch over info.Status, the same in getTask and buildStreamEvent
StatusOf(x) ==
    CASE x = "running" -> "running"
      [] x = "completed" -> "completed"
      [] x \in {"failed", "terminated", "canceled"} -> "failed"
      [] x = "timedOut" -> "timeout"
      [] OTHER -> "pending"

\* buildStreamEvent's second result
Terminal_NotTimeout(x) == x \in Closed \ {"timedOut"}
Terminal(x) == x \in Closed

\* run.Get may fail after Describe said completed: the report has no result
Report(x) ==
    {[status |-> StatusOf(x), result |-> r, terminal |-> Terminal(x)] :
        r \in IF x = "completed"
              THEN {TRUE} \cup (IF "result" \in Faults THEN {FALSE} ELSE {})
              ELSE {FALSE}}

GetTask ==
    /\ \/ /\ exec # "none"
          /\ \E r \in Report(exec) : reply' = [code |-> 200, report |-> r]
       \/ /\ exec = "none"
          /\ reply' = [code |-> 404, report |-> Nothing]
       \/ /\ "describe" \in Faults
          /\ reply' = [code |-> 500, report |-> Nothing]
    /\ UNCHANGED <<given, created, exec, conn, event>>

\* streamTask up to its loop: Describe, then the Flusher check
StreamOpen(s) ==
    /\ conn[s] = "new"
    /\ \/ /\ exec # "none" /\ Flushable
          /\ conn' = [conn EXCEPT ![s] = "open"]
       \/ /\ exec = "none" \/ "describe" \in Faults \/ ~ Flushable
          /\ conn' = [conn EXCEPT ![s] = "closed"]
    /\ UNCHANGED <<given, created, exec, reply, event>>

\* one tick of the loop, when Describe answers
StreamEvent(s) ==
    /\ conn[s] = "open"
    /\ \E r \in Report(exec) :
         /\ event' = [event EXCEPT ![s] = r]
         /\ conn' = [conn EXCEPT ![s] = IF r.terminal THEN "closed" ELSE @]
    /\ UNCHANGED <<given, created, exec, reply>>

\* one tick, when Describe fails: "running", whatever the task does
Unknown_Failed == [status |-> "failed", result |-> FALSE, terminal |-> TRUE]
Unknown == [status |-> "running", result |-> FALSE, terminal |-> FALSE]
StreamBlind(s) ==
    /\ "describe" \in Faults
    /\ conn[s] = "open"
    /\ event' = [event EXCEPT ![s] = Unknown]
    /\ conn' = [conn EXCEPT ![s] = IF Unknown.terminal THEN "closed" ELSE @]
    /\ UNCHANGED <<given, created, exec, reply>>

ClientGone(s) ==
    /\ conn[s] = "open"
    /\ conn' = [conn EXCEPT ![s] = "closed"]
    /\ UNCHANGED <<given, created, exec, reply, event>>

\* Temporal closes the workflow
WorkflowCloses ==
    /\ exec = "running"
    /\ exec' \in Closed
    /\ UNCHANGED <<given, created, reply, conn, event>>

Next ==
    \/ CreateRejected \/ GetTask \/ WorkflowCloses
    \/ \E req \in Requests : CreateOk(req) \/ CreateFails(req)
    \/ \E s \in Streams :
         StreamOpen(s) \/ StreamEvent(s) \/ StreamBlind(s) \/ ClientGone(s)

Spec == Init /\ [][Next]_vars

\* The ticker keeps firing and a call to Temporal does not fail for ever.
FairSpec == Spec /\ \A s \in Streams : WF_vars(StreamEvent(s))

-----------------------------------------------------------------------------
(* Properties *)

\* Whatever number of seconds a request asks for, also one that overflows when it is
\* turned into a Duration, the task gets at most the cap, and its workflow the
\* buffer on top: that sum never overflows.  (That the task gets what was asked for
\* would be too much to say: a Duration that overflowed is short, or negative.)
BufferKept ==
    exec # "none" => /\ given.timeout <= Cap * Second
                     /\ given.execution = given.timeout + Buffer * Second

\* what a client is to be told of a workflow that closed
Outcome == [completed |-> "completed", failed |-> "failed", terminated |-> "failed",
            canceled |-> "failed", timedOut |-> "timeout"]

\* A client that was told of an outcome was told how the workflow closed, and so no two
\* clients of a task learn different ones: whatever a stream's result event or a GET
\* said, before, during or after failing calls to Temporal.
OutcomesAgree ==
    \A r \in {reply.report} \cup {event[s] : s \in Streams} :
        r.terminal => /\ exec \in Closed
                      /\ r.status = Outcome[exec]
                      /\ r.result => exec = "completed"

\* "The stream closes automatically when the task reaches a terminal state":
\* it does, although any single poll of Temporal may fail.
StreamsClose ==
    \A s \in Streams : (conn[s] = "open" /\ exec \in Closed) ~> conn[s] = "closed"
=============================================================================
