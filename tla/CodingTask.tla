------------------------------ MODULE CodingTask ------------------------------
(***************************************************************************)
(* CodingTaskWorkflow (internal/workflow/task.go) and its activities       *)
(* (activities.go), run by several worker replicas (cmd/worker), each with *)
(* an AllocationCache of its own and no GC loop.  Temporal is external: it *)
(* sends each attempt of an activity to any worker, retries it as the      *)
(* RetryPolicy says, and ends a workflow that outlives its execution       *)
(* timeout without running any more of its code.                           *)
(***************************************************************************)
EXTENDS Integers, FiniteSets

CONSTANTS
    Tasks, Workers, Sandboxes,
    Schemas,     \* the tasks that come with an OutputSchema
    MaxSize,     \* maxSize of each worker's PoolManager
    Faults,      \* which failures of the environment can happen
    None

MaxAttempts          == 3   \* RetryPolicy of allocate, create session, release
MaxValidationRetries == 3

ASSUME TaskAssumption ==
    /\ MaxSize \in Nat \ {0} /\ Schemas \subseteq Tasks /\ None \notin Sandboxes
    /\ Faults \subseteq {"lost", "deleteError", "executionTimeout", "crash"}

VARIABLES
    step,     \* the activity the workflow waits for
    tries,    \* failed attempts of that activity
    attempt,  \* the validation loop's counter
    sandbox,  \* sandboxName
    output,   \* "none", "valid" or "invalid": execResult.Output against the schema
    tokens,   \* output.TokensUsed, one per prompt
    prompts,  \* prompts that were answered (history)
    outcome,  \* "running", "ok", "failed" or "terminated"
    cleanup,  \* how the deferred release ended: "none", "done", "foreign", "gaveUp" (history)
    lost,     \* sandboxes made for the task whose names never reached it (history)
    live,     \* sandboxes that exist
    cached    \* each worker's AllocationCache

state == <<tries, attempt, sandbox, output, tokens, prompts, outcome, cleanup, lost>>
pools == <<live, cached>>
vars  == <<step, state, pools>>

Init ==
    /\ step = [t \in Tasks |-> "allocate"]
    /\ tries = [t \in Tasks |-> 0]
    /\ attempt = [t \in Tasks |-> 0]
    /\ sandbox = [t \in Tasks |-> None]
    /\ output = [t \in Tasks |-> "none"]
    /\ tokens = [t \in Tasks |-> 0]
    /\ prompts = [t \in Tasks |-> 0]
    /\ outcome = [t \in Tasks |-> "running"]
    /\ cleanup = [t \in Tasks |-> "none"]
    /\ lost = [t \in Tasks |-> {}]
    /\ live = {}
    /\ cached = [w \in Workers |-> {}]

Used == live \cup {sandbox[t] : t \in Tasks} \cup UNION {cached[w] : w \in Workers}
\* the name of a new sandbox: which of the unused ones it is makes no difference
NewSandbox == CHOOSE s \in Sandboxes \ Used : TRUE

Goto(t, s)    == /\ step' = [step EXCEPT ![t] = s]
                 /\ tries' = [tries EXCEPT ![t] = 0]
\* The workflow function returns: the deferred cleanup runs if there is a
\* sandbox to release.
Return_Unnamed(t, r) == /\ outcome' = [outcome EXCEPT ![t] = r]
                        /\ Goto(t, IF r = "ok" THEN "release" ELSE "done")
Return(t, r)  == /\ outcome' = [outcome EXCEPT ![t] = r]
                 /\ Goto(t, IF sandbox[t] # None THEN "release" ELSE "done")
\* An attempt failed: Temporal retries the activity or the workflow gives up.
Retry_Unlimited(t) == /\ tries' = [tries EXCEPT ![t] = (@ + 1) % MaxAttempts]
                      /\ UNCHANGED <<step, outcome>>
Retry_OffByOne(t) ==
    IF tries[t] < MaxAttempts
    THEN tries' = [tries EXCEPT ![t] = @ + 1] /\ UNCHANGED <<step, outcome>>
    ELSE Return(t, "failed")
Retry(t) ==
    IF tries[t] + 1 < MaxAttempts
    THEN tries' = [tries EXCEPT ![t] = @ + 1] /\ UNCHANGED <<step, outcome>>
    ELSE Return(t, "failed")

-----------------------------------------------------------------------------
(* Step 1: AllocateSandboxActivity on worker w *)

Full(w) == Cardinality(cached[w]) >= MaxSize
\* CreateSandbox makes a claim.  Allocate's test and insertion are one step: that
\* two allocations can pass the test together is SandboxPool's subject.
Make(w) == /\ ~Full(w)
           /\ Sandboxes \ Used # {}
           /\ live' = live \cup {NewSandbox}
Grab(w) == /\ Make(w)
           /\ cached' = [cached EXCEPT ![w] = @ \cup {NewSandbox}]

AllocateOk(t, w) ==
    /\ step[t] = "allocate"
    /\ Grab(w)
    /\ sandbox' = [sandbox EXCEPT ![t] = NewSandbox]
    /\ Goto(t, "session")
    /\ UNCHANGED <<attempt, output, tokens, prompts, outcome, cleanup, lost>>

\* The sandbox was created, but the answer came after StartToCloseTimeout, or
\* the worker died before it sent it; or CreateSandbox itself answered with an
\* error although the claim exists, and Allocate entered nothing.
AllocateLost(t, w) ==
    /\ "lost" \in Faults
    /\ step[t] = "allocate"
    /\ Grab(w) \/ (Make(w) /\ UNCHANGED cached)
    /\ lost' = [lost EXCEPT ![t] = @ \cup {NewSandbox}]
    /\ Retry(t)
    /\ UNCHANGED <<attempt, sandbox, output, tokens, prompts, cleanup>>

\* CreateSandbox failed and left nothing
AllocateError(t) ==
    /\ step[t] = "allocate"
    /\ Retry(t)
    /\ UNCHANGED <<attempt, sandbox, output, tokens, prompts, cleanup, lost, pools>>

\* ErrPoolExhausted.  It comes back wrapped by fmt.Errorf, so its type is not the
\* message that NonRetryableErrorTypes names, and it is retried like any other.
AllocateExhausted(t, w) ==
    /\ step[t] = "allocate"
    /\ Full(w)
    /\ Retry(t)
    /\ UNCHANGED <<attempt, sandbox, output, tokens, prompts, cleanup, lost, pools>>

(* Step 2: CreateSessionActivity *)

CreateSessionOk(t) ==
    /\ step[t] = "session"
    /\ Goto(t, "execute")
    /\ UNCHANGED <<attempt, sandbox, output, tokens, prompts, outcome, cleanup, lost, pools>>

\* no connection, an HTTP status other than 200 and 201, or a body that is no session
CreateSessionFails(t) ==
    /\ step[t] = "session"
    /\ Retry(t)
    /\ UNCHANGED <<attempt, sandbox, output, tokens, prompts, cleanup, lost, pools>>

(* Steps 3 and 4: ExecutePromptActivity, once, and the validation loop *)

Answered(t) == /\ \E o \in {"valid", "invalid"} : output' = [output EXCEPT ![t] = o]
               /\ prompts' = [prompts EXCEPT ![t] = @ + 1]

ExecuteOk(t) ==
    /\ step[t] = "execute"
    /\ Answered(t)
    /\ tokens' = [tokens EXCEPT ![t] = 1]
    /\ IF t \in Schemas
       THEN Goto(t, "validate") /\ attempt' = [attempt EXCEPT ![t] = 1] /\ UNCHANGED outcome
       ELSE Return(t, "ok") /\ UNCHANGED attempt
    /\ UNCHANGED <<sandbox, cleanup, lost, pools>>

ExecuteFails(t) ==
    /\ step[t] \in {"execute", "reprompt"}
    /\ Return(t, "failed")
    /\ UNCHANGED <<attempt, sandbox, output, tokens, prompts, cleanup, lost, pools>>

ValidateOk(t) ==
    /\ step[t] = "validate"
    /\ output[t] = "valid"
    /\ Return(t, "ok")
    /\ UNCHANGED <<attempt, sandbox, output, tokens, prompts, cleanup, lost, pools>>

\* A ValidationError, or the activity itself failed: the loop cannot tell, and
\* prompts again unless this was the last attempt.
LastAttempt_Late(t) == attempt[t] > MaxValidationRetries
LastAttempt(t) == attempt[t] >= MaxValidationRetries

ValidateFails(t) ==
    /\ step[t] = "validate"
    /\ output[t] = "invalid" \/ "lost" \in Faults
    /\ IF LastAttempt(t) THEN Return(t, "failed")
                         ELSE Goto(t, "reprompt") /\ UNCHANGED outcome
    /\ UNCHANGED <<attempt, sandbox, output, tokens, prompts, cleanup, lost, pools>>

MoreTokens_Overwrite(t) == tokens' = [tokens EXCEPT ![t] = 1]
MoreTokens(t) == tokens' = [tokens EXCEPT ![t] = @ + 1]

RepromptOk(t) ==
    /\ step[t] = "reprompt"
    /\ Answered(t)
    /\ MoreTokens(t)
    /\ attempt' = [attempt EXCEPT ![t] = @ + 1]
    /\ Goto(t, "validate")
    /\ UNCHANGED <<sandbox, outcome, cleanup, lost, pools>>

-----------------------------------------------------------------------------
(* The deferred ReleaseSandboxActivity, on whichever worker gets it *)

Ends(t, how) == /\ cleanup' = [cleanup EXCEPT ![t] = how]
                /\ Goto(t, "done")

\* Pool.Release on w: nothing to do for a sandbox it does not know
Released(t, w) ==
    /\ sandbox[t] \in cached[w] => sandbox[t] \in live
    /\ cached' = [cached EXCEPT ![w] = @ \ {sandbox[t]}]
    /\ live' = IF sandbox[t] \in cached[w] THEN live \ {sandbox[t]} ELSE live

ReleaseOk(t, w) ==
    /\ step[t] = "release"
    /\ Released(t, w)
    /\ Ends(t, IF sandbox[t] \in cached[w] THEN "done" ELSE "foreign")
    /\ UNCHANGED <<attempt, sandbox, output, tokens, prompts, outcome, lost>>

\* DeleteSandbox answers with an error, as it does once the claim is gone; the claim
\* may have been deleted all the same.  The cache keeps the entry.
DeleteFails(t, w) ==
    /\ sandbox[t] \in cached[w]
    /\ "deleteError" \in Faults \/ sandbox[t] \notin live
    /\ live' \in {live, live \ {sandbox[t]}}
    /\ UNCHANGED cached

\* A failed attempt: the delete failed, or Release did its work and the answer was
\* lost with the worker or came too late.  After the last one the error is dropped.
ReleaseFails(t, w) ==
    /\ step[t] = "release"
    /\ DeleteFails(t, w) \/ ("lost" \in Faults /\ Released(t, w))
    /\ IF tries[t] + 1 < MaxAttempts
       THEN tries' = [tries EXCEPT ![t] = @ + 1] /\ UNCHANGED <<step, cleanup>>
       ELSE Ends(t, "gaveUp")
    /\ UNCHANGED <<attempt, sandbox, output, tokens, prompts, outcome, lost>>

-----------------------------------------------------------------------------
(* Cancellation, timeout, and crashes *)

\* The workflow's context is cancelled: the activity it waits for returns
\* CanceledError.  The cleanup runs under a disconnected context.
Cancel(t) ==
    /\ step[t] \notin {"release", "done"}
    /\ Return(t, "failed")
    /\ UNCHANGED <<attempt, sandbox, output, tokens, prompts, cleanup, lost, pools>>

\* WorkflowExecutionTimeout (timeout + 10 minutes, while a task may take three
\* prompts of timeout each): Temporal closes the workflow
ExecutionTimeout(t) ==
    /\ "executionTimeout" \in Faults
    /\ step[t] # "done"
    /\ outcome' = [outcome EXCEPT ![t] = "terminated"]
    /\ Goto(t, "done")
    /\ UNCHANGED <<attempt, sandbox, output, tokens, prompts, cleanup, lost, pools>>

WorkerRestart(w) ==
    /\ "crash" \in Faults
    /\ cached[w] # {}
    /\ cached' = [cached EXCEPT ![w] = {}]
    /\ UNCHANGED <<step, state, live>>

Finished == (\A t \in Tasks : step[t] = "done") /\ UNCHANGED vars

Next ==
    \/ \E t \in Tasks :
         \/ \E w \in Workers :
              \/ AllocateOk(t, w) \/ AllocateLost(t, w) \/ AllocateExhausted(t, w)
              \/ ReleaseOk(t, w) \/ ReleaseFails(t, w)
         \/ AllocateError(t) \/ CreateSessionOk(t) \/ CreateSessionFails(t)
         \/ ExecuteOk(t) \/ ExecuteFails(t) \/ ValidateOk(t) \/ ValidateFails(t) \/ RepromptOk(t)
         \/ Cancel(t) \/ ExecutionTimeout(t)
    \/ \E w \in Workers : WorkerRestart(w)
    \/ Finished

Spec == Init /\ [][Next]_vars

-----------------------------------------------------------------------------
(* Properties *)

\* The workflow's variables and the workers' caches keep their types.
TypeOK ==
    /\ step \in [Tasks -> {"allocate", "session", "execute", "validate", "reprompt",
                           "release", "done"}]
    /\ tries \in [Tasks -> 0..MaxAttempts - 1]
    /\ attempt \in [Tasks -> 0..MaxValidationRetries]
    /\ sandbox \in [Tasks -> Sandboxes \cup {None}]
    /\ output \in [Tasks -> {"none", "valid", "invalid"}]
    /\ tokens \in [Tasks -> Nat] /\ prompts \in [Tasks -> Nat]
    /\ outcome \in [Tasks -> {"running", "ok", "failed", "terminated"}]
    /\ cleanup \in [Tasks -> {"none", "done", "foreign", "gaveUp"}]
    /\ lost \in [Tasks -> SUBSET Sandboxes]
    /\ live \subseteq Sandboxes
    /\ cached \in [Workers -> SUBSET Sandboxes]

\* Whatever mix of bad outputs and failing validations it meets, a task prompts
\* the model at most maxValidationRetries times; and a successful one reports the
\* tokens of all its prompts, re-prompts included, and, if it came with a schema, a
\* result that was validated.
HonestResult ==
    \A t \in Tasks :
        /\ prompts[t] <= MaxValidationRetries
        /\ outcome[t] = "ok" => /\ tokens[t] = prompts[t]
                                /\ t \in Schemas => output[t] = "valid"

\* However a task ends, at whatever step and under whatever failures, its sandbox
\* is left behind only if Temporal closed the workflow, or if the deferred release
\* ran and failed three times or met a worker without the entry.
LeaksExplained ==
    \A t \in Tasks :
        /\ step[t] = "done"
        /\ sandbox[t] \in live \cup UNION {cached[w] : w \in Workers}
        => outcome[t] = "terminated" \/ cleanup[t] \in {"foreign", "gaveUp"}

\* A sandbox that no workflow names, and that nothing will therefore release, was
\* made by an allocation whose answer was lost; and with all its retries, lost
\* answers, cancellations and the named sandbox together, a task has at most one
\* sandbox made for each attempt of its RetryPolicy.
UnnamedBounded ==
    /\ live \subseteq {sandbox[t] : t \in Tasks} \cup UNION {lost[t] : t \in Tasks}
    /\ \A t \in Tasks : Cardinality(lost[t] \cup ({sandbox[t]} \ {None})) <= MaxAttempts

\* What is left of a workflow: the activities that can still follow the one it waits
\* for, each with all its attempts.
Stage(t) ==
    LET left == 2 * (MaxValidationRetries - attempt[t])
    IN  CASE step[t] = "done"     -> 0
          [] step[t] = "release"  -> 1
          [] step[t] = "reprompt" -> 1 + left
          [] step[t] = "validate" -> 2 + left
          [] step[t] = "execute"  -> 2 * MaxValidationRetries + 1
          [] step[t] = "session"  -> 2 * MaxValidationRetries + 2
          [] step[t] = "allocate" -> 2 * MaxValidationRetries + 3
Budget(t) == MaxAttempts * Stage(t) - tries[t]
Workflow(t) == <<step[t], tries[t], attempt[t], sandbox[t], output[t], tokens[t], prompts[t],
                 outcome[t], cleanup[t], lost[t]>>

\* No mix of failed attempts, lost answers, a full pool, re-prompts, cancellation and
\* failing releases goes on forever: whatever happens to a task uses up some of a
\* budget that is fixed when it starts, and that the other tasks and the workers
\* cannot touch.
AttemptsBounded ==
    [][\A t \in Tasks : UNCHANGED Workflow(t) \/ Budget(t)' \in 0..(Budget(t) - 1)]_vars
=============================================================================
