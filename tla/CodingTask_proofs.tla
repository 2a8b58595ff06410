--------------------------- MODULE CodingTask_proofs ---------------------------
(* Theorems about CodingTask, for any number of tasks, workers and sandboxes,  *)
(* any pool size and any set of failures.                                      *)
EXTENDS CodingTask, FiniteSetTheorems, TLAPS

(***************************************************************************)
(* What the workflow's counters are at each activity.  The validation loop *)
(* only re-prompts below maxValidationRetries, which is what bounds both   *)
(* attempt (a part of the type invariant) and the prompts.                 *)
(***************************************************************************)
Count(t) ==
    /\ prompts[t] <= MaxValidationRetries
    /\ step[t] \in {"allocate", "session", "execute"} => prompts[t] = 0
    /\ step[t] \in {"validate", "reprompt"} =>
           prompts[t] = attempt[t] /\ tokens[t] = attempt[t]
    /\ step[t] = "reprompt" => ~ LastAttempt(t)
    /\ step[t] \notin {"release", "done"} => outcome[t] # "ok"
    /\ outcome[t] = "ok" => /\ tokens[t] = prompts[t]
                            /\ t \in Schemas => output[t] = "valid"

CountInv == \A t \in Tasks : Count(t)

LEMMA TypeInit == Init => TypeOK
  BY TaskAssumption DEF Init, TypeOK, MaxAttempts, MaxValidationRetries

LEMMA CountInit == Init => CountInv
  BY DEF Init, CountInv, Count, MaxValidationRetries, LastAttempt

\* A failing attempt is either counted or ends the workflow.
LEMMA RetryCases ==
  ASSUME NEW t \in Tasks, Retry(t)
  PROVE  \/ /\ tries[t] + 1 < MaxAttempts
            /\ tries' = [tries EXCEPT ![t] = @ + 1]
            /\ UNCHANGED <<step, outcome>>
         \/ Return(t, "failed")
  BY DEF Retry

LEMMA TypeNext == TypeOK /\ CountInv /\ [Next]_vars => TypeOK'
<1> SUFFICES ASSUME TypeOK, CountInv, [Next]_vars PROVE TypeOK'
  OBVIOUS
<1> USE TaskAssumption
    DEF TypeOK, MaxAttempts, MaxValidationRetries, Goto, Return, Ends, state, pools
<1>1. ASSUME NEW w \in Workers, Make(w), Grab(w) \/ UNCHANGED cached
      PROVE  live' \subseteq Sandboxes /\ cached' \in [Workers -> SUBSET Sandboxes]
             /\ NewSandbox \in Sandboxes
  BY <1>1 DEF Make, Grab, NewSandbox
<1>2. ASSUME NEW t \in Tasks, NEW w \in Workers, AllocateOk(t, w) PROVE TypeOK'
  <2>1. /\ live' \subseteq Sandboxes /\ cached' \in [Workers -> SUBSET Sandboxes]
        /\ NewSandbox \in Sandboxes
    BY <1>1, <1>2 DEF AllocateOk, Grab
  <2> QED BY <1>2, <2>1 DEF AllocateOk
<1>3. ASSUME NEW t \in Tasks, Retry(t)
      PROVE  /\ step' \in [Tasks -> {"allocate", "session", "execute", "validate", "reprompt",
                                     "release", "done"}]
             /\ tries' \in [Tasks -> 0..MaxAttempts - 1]
             /\ outcome' \in [Tasks -> {"running", "ok", "failed", "terminated"}]
  BY <1>3, RetryCases
<1>4. ASSUME NEW t \in Tasks, NEW w \in Workers, AllocateLost(t, w) PROVE TypeOK'
  <2>1. /\ live' \subseteq Sandboxes /\ cached' \in [Workers -> SUBSET Sandboxes]
        /\ NewSandbox \in Sandboxes
    BY <1>1, <1>4 DEF AllocateLost, Grab
  <2> QED BY <1>3, <1>4, <2>1 DEF AllocateLost
<1>5. ASSUME NEW t \in Tasks, AllocateError(t) PROVE TypeOK'
  BY <1>3, <1>5 DEF AllocateError
<1>6. ASSUME NEW t \in Tasks, NEW w \in Workers, AllocateExhausted(t, w) PROVE TypeOK'
  BY <1>3, <1>6 DEF AllocateExhausted
<1>7. ASSUME NEW t \in Tasks, CreateSessionOk(t) PROVE TypeOK'
  BY <1>7 DEF CreateSessionOk
<1>8. ASSUME NEW t \in Tasks, CreateSessionFails(t) PROVE TypeOK'
  BY <1>3, <1>8 DEF CreateSessionFails
<1>9. ASSUME NEW t \in Tasks, ExecuteOk(t) PROVE TypeOK'
  BY <1>9 DEF ExecuteOk, Answered
<1>10. ASSUME NEW t \in Tasks, ExecuteFails(t) PROVE TypeOK'
  BY <1>10 DEF ExecuteFails
<1>11. ASSUME NEW t \in Tasks, ValidateOk(t) PROVE TypeOK'
  BY <1>11 DEF ValidateOk
<1>12. ASSUME NEW t \in Tasks, ValidateFails(t) PROVE TypeOK'
  BY <1>12 DEF ValidateFails
<1>13. ASSUME NEW t \in Tasks, RepromptOk(t) PROVE TypeOK'
  BY <1>13 DEF RepromptOk, Answered, MoreTokens, CountInv, Count, LastAttempt
<1>14. ASSUME NEW t \in Tasks, NEW w \in Workers, ReleaseOk(t, w) PROVE TypeOK'
  BY <1>14 DEF ReleaseOk, Released
<1>15. ASSUME NEW t \in Tasks, NEW w \in Workers, ReleaseFails(t, w) PROVE TypeOK'
  <2>1. live' \subseteq Sandboxes /\ cached' \in [Workers -> SUBSET Sandboxes]
    BY <1>15 DEF ReleaseFails, DeleteFails, Released
  <2> QED BY <1>15, <2>1 DEF ReleaseFails
<1>16. ASSUME NEW t \in Tasks, Cancel(t) PROVE TypeOK'
  BY <1>16 DEF Cancel
<1>17. ASSUME NEW t \in Tasks, ExecutionTimeout(t) PROVE TypeOK'
  BY <1>17 DEF ExecutionTimeout
<1>18. ASSUME NEW w \in Workers, WorkerRestart(w) PROVE TypeOK'
  BY <1>18 DEF WorkerRestart
<1>19. CASE UNCHANGED vars BY <1>19 DEF vars
<1> QED BY <1>2, <1>4, <1>5, <1>7, <1>8, <1>9, <1>10, <1>11, <1>12, <1>13, <1>14, <1>15,
           <1>16, <1>17, <1>18, <1>19, <1>6 DEF Next, Finished

LEMMA CountNext == TypeOK /\ CountInv /\ [Next]_vars => CountInv'
<1> SUFFICES ASSUME TypeOK, CountInv, [Next]_vars, NEW u \in Tasks PROVE Count(u)'
  BY DEF CountInv
<1> USE DEF TypeOK, MaxAttempts, MaxValidationRetries, Goto, Ends, state
<1>1. Count(u)
  BY DEF CountInv
<1>2. ASSUME NEW t \in Tasks, step[t] \notin {"release", "done"}, Return(t, "failed"),
             UNCHANGED <<attempt, output, tokens, prompts>>
      PROVE  Count(u)'
  BY <1>1, <1>2 DEF Count, Return, LastAttempt
<1>3. ASSUME NEW t \in Tasks, step[t] \in {"allocate", "session"}, Retry(t),
             UNCHANGED <<attempt, output, tokens, prompts>>
      PROVE  Count(u)'
  <2>1. CASE UNCHANGED <<step, outcome>>
    BY <1>1, <1>3, <2>1 DEF Count, LastAttempt
  <2> QED BY <1>2, <1>3, <2>1, RetryCases
<1>4. ASSUME NEW t \in Tasks, NEW w \in Workers, AllocateOk(t, w) PROVE Count(u)'
  BY <1>1, <1>4 DEF AllocateOk, Count, LastAttempt
<1>5. ASSUME NEW t \in Tasks, NEW w \in Workers, AllocateLost(t, w) PROVE Count(u)'
  BY <1>3, <1>5 DEF AllocateLost
<1>6. ASSUME NEW t \in Tasks, AllocateError(t) PROVE Count(u)'
  BY <1>3, <1>6 DEF AllocateError
<1>7. ASSUME NEW t \in Tasks, NEW w \in Workers, AllocateExhausted(t, w) PROVE Count(u)'
  BY <1>3, <1>7 DEF AllocateExhausted
<1>8. ASSUME NEW t \in Tasks, CreateSessionOk(t) PROVE Count(u)'
  BY <1>1, <1>8 DEF CreateSessionOk, Count, LastAttempt
<1>9. ASSUME NEW t \in Tasks, CreateSessionFails(t) PROVE Count(u)'
  BY <1>3, <1>9 DEF CreateSessionFails
<1>10. ASSUME NEW t \in Tasks, ExecuteOk(t) PROVE Count(u)'
  BY <1>1, <1>10 DEF ExecuteOk, Answered, Count, Return, LastAttempt
<1>11. ASSUME NEW t \in Tasks, ExecuteFails(t) PROVE Count(u)'
  BY <1>2, <1>11 DEF ExecuteFails
<1>12. ASSUME NEW t \in Tasks, ValidateOk(t) PROVE Count(u)'
  BY <1>1, <1>12 DEF ValidateOk, Count, Return, LastAttempt
<1>13. ASSUME NEW t \in Tasks, ValidateFails(t) PROVE Count(u)'
  BY <1>1, <1>13 DEF ValidateFails, Count, Return, LastAttempt
<1>14. ASSUME NEW t \in Tasks, RepromptOk(t) PROVE Count(u)'
  BY <1>1, <1>14 DEF RepromptOk, Answered, MoreTokens, Count, LastAttempt
<1>15. ASSUME NEW t \in Tasks, NEW w \in Workers, ReleaseOk(t, w) PROVE Count(u)'
  BY <1>1, <1>15 DEF ReleaseOk, Count, LastAttempt
<1>16. ASSUME NEW t \in Tasks, NEW w \in Workers, ReleaseFails(t, w) PROVE Count(u)'
  BY <1>1, <1>16 DEF ReleaseFails, Count, LastAttempt
<1>17. ASSUME NEW t \in Tasks, Cancel(t) PROVE Count(u)'
  BY <1>2, <1>17 DEF Cancel
<1>18. ASSUME NEW t \in Tasks, ExecutionTimeout(t) PROVE Count(u)'
  BY <1>1, <1>18 DEF ExecutionTimeout, Count, LastAttempt
<1>19. ASSUME UNCHANGED <<step, state>> PROVE Count(u)'
  BY <1>1, <1>19 DEF Count, LastAttempt
<1> QED BY <1>4, <1>5, <1>6, <1>8, <1>9, <1>10, <1>11, <1>12, <1>13, <1>14, <1>15, <1>16,
           <1>17, <1>18, <1>19, <1>7 DEF Next, WorkerRestart, Finished, vars

LEMMA TaskInvariant == Spec => [](TypeOK /\ CountInv)
  BY TypeInit, CountInit, TypeNext, CountNext, PTL DEF Spec

\* CodingTaskWorkflow and its activities keep their variables in their types; in
\* particular the validation loop's counter never passes maxValidationRetries.
THEOREM TypeCorrect == Spec => []TypeOK
  BY TaskInvariant, PTL

\* A task never prompts more than maxValidationRetries times, and what it returns
\* as a success adds up: the tokens of every prompt, and a validated result.
THEOREM ResultHonest == Spec => []HonestResult
<1>1. CountInv => HonestResult
  BY DEF CountInv, Count, HonestResult
<1> QED BY <1>1, TaskInvariant, PTL

-----------------------------------------------------------------------------
(***************************************************************************)
(* Leaks.  Release works on one worker's cache, and answers "done" as soon *)
(* as that one held the entry: that the sandbox is then known to nobody    *)
(* rests on a sandbox being in one worker's cache at most, and that it     *)
(* stays so on its name not being made again.                              *)
(***************************************************************************)
CachesApart == \A v, w \in Workers : v # w => cached[v] \cap cached[w] = {}

\* what LeaksExplained says, task by task and cache by cache
Explained(t) ==
    /\ step[t] = "done"
    /\ sandbox[t] \in live \/ \E w \in Workers : sandbox[t] \in cached[w]
    => outcome[t] = "terminated" \/ cleanup[t] \in {"foreign", "gaveUp"}

LeakInv == CachesApart /\ \A t \in Tasks : Explained(t)

LEMMA LeakInit == Init => LeakInv
  BY DEF Init, LeakInv, CachesApart, Explained

\* A new sandbox has a name that no task and no worker knows.
LEMMA NewIsNew ==
  ASSUME Sandboxes \ Used # {}
  PROVE  /\ NewSandbox \in Sandboxes
         /\ NewSandbox \notin live
         /\ \A t \in Tasks : sandbox[t] # NewSandbox
         /\ \A w \in Workers : NewSandbox \notin cached[w]
<1>1. NewSandbox \in Sandboxes \ Used
  BY DEF NewSandbox
<1> QED BY <1>1 DEF Used

LEMMA CachesNext == TypeOK /\ CachesApart /\ [Next]_vars => CachesApart'
<1> SUFFICES ASSUME TypeOK, CachesApart, [Next]_vars,
                    NEW v1 \in Workers, NEW v2 \in Workers, v1 # v2
             PROVE  cached'[v1] \cap cached'[v2] = {}
  BY DEF CachesApart
<1>1. cached[v1] \cap cached[v2] = {}
  BY DEF CachesApart
<1>2. ASSUME NEW t \in Tasks, NEW w \in Workers, AllocateOk(t, w) \/ AllocateLost(t, w)
      PROVE  cached'[v1] \cap cached'[v2] = {}
  BY <1>1, <1>2, NewIsNew DEF AllocateOk, AllocateLost, Grab, Make, TypeOK
<1>3. ASSUME NEW t \in Tasks, NEW w \in Workers, Released(t, w)
      PROVE  cached'[v1] \cap cached'[v2] = {}
  BY <1>1, <1>3 DEF Released, TypeOK
<1>4. ASSUME NEW w \in Workers, WorkerRestart(w)
      PROVE  cached'[v1] \cap cached'[v2] = {}
  BY <1>1, <1>4 DEF WorkerRestart, TypeOK
<1>5. CASE UNCHANGED cached
  BY <1>1, <1>5
<1> QED BY <1>2, <1>3, <1>4, <1>5
        DEF Next, AllocateError, AllocateExhausted, CreateSessionOk, CreateSessionFails,
            ExecuteOk, ExecuteFails, ValidateOk, ValidateFails, RepromptOk, ReleaseOk,
            ReleaseFails, DeleteFails, Cancel, ExecutionTimeout, Finished, vars, pools

LEMMA ExplainedNext ==
  ASSUME TypeOK, LeakInv, [Next]_vars, NEW u \in Tasks PROVE Explained(u)'
<1> USE TaskAssumption DEF TypeOK, Goto, Ends, state, pools
<1>1. Explained(u)
  BY DEF LeakInv
<1>2. ASSUME NEW t \in Tasks, NEW r, step[t] # "done", Return(t, r),
             UNCHANGED <<sandbox, cleanup, live, cached>>
      PROVE  Explained(u)'
  BY <1>1, <1>2 DEF Explained, Return
<1>3. ASSUME NEW t \in Tasks, step[t] # "done", Goto(t, "session") \/ Goto(t, "execute")
                 \/ Goto(t, "validate") \/ Goto(t, "reprompt"),
             UNCHANGED <<sandbox, cleanup, outcome, live, cached>>
      PROVE  Explained(u)'
  BY <1>1, <1>3 DEF Explained
<1>4. ASSUME UNCHANGED <<step, outcome, sandbox, cleanup, live, cached>> PROVE Explained(u)'
  BY <1>1, <1>4 DEF Explained
<1>5. ASSUME NEW t \in Tasks, NEW w \in Workers, AllocateOk(t, w) PROVE Explained(u)'
  BY <1>1, <1>5, NewIsNew DEF AllocateOk, Grab, Make, Explained
<1>6. ASSUME NEW t \in Tasks, NEW w \in Workers, AllocateLost(t, w) PROVE Explained(u)'
  <2>1. sandbox[u] \in live' => sandbox[u] \in live
    BY <1>6, NewIsNew DEF AllocateLost, Grab, Make
  <2>2. ASSUME NEW x \in Workers, sandbox[u] \in cached'[x] PROVE sandbox[u] \in cached[x]
    BY <1>6, <2>2, NewIsNew DEF AllocateLost, Grab, Make
  <2>3. UNCHANGED <<sandbox, cleanup>> /\ step[t] = "allocate"
    BY <1>6 DEF AllocateLost
  <2>4. CASE UNCHANGED <<step, outcome>>
    BY <1>1, <2>1, <2>2, <2>3, <2>4 DEF Explained
  <2>5. CASE Return(t, "failed")
    BY <1>1, <2>1, <2>2, <2>3, <2>5 DEF Explained, Return
  <2> QED BY <1>6, <2>4, <2>5, RetryCases DEF AllocateLost
<1>7. ASSUME NEW t \in Tasks, NEW w \in Workers, ReleaseOk(t, w) PROVE Explained(u)'
  <2>1. live' \subseteq live /\ \A x \in Workers : cached'[x] \subseteq cached[x]
    BY <1>7 DEF ReleaseOk, Released
  <2>2. CASE u # t
    BY <1>1, <1>7, <2>1, <2>2 DEF ReleaseOk, Explained
  <2>3. CASE u = t /\ sandbox[t] \in cached[w]
    <3>1. sandbox[t] \notin live' /\ \A x \in Workers : sandbox[t] \notin cached'[x]
      BY <1>7, <2>3 DEF ReleaseOk, Released, LeakInv, CachesApart
    <3> QED BY <1>7, <2>3, <3>1 DEF ReleaseOk, Explained
  <2>4. CASE u = t /\ sandbox[t] \notin cached[w]
    BY <1>7, <2>4 DEF ReleaseOk, Explained
  <2> QED BY <2>2, <2>3, <2>4
<1>8. ASSUME NEW t \in Tasks, NEW w \in Workers, ReleaseFails(t, w) PROVE Explained(u)'
  <2>1. live' \subseteq live /\ \A x \in Workers : cached'[x] \subseteq cached[x]
    BY <1>8 DEF ReleaseFails, DeleteFails, Released
  <2> QED BY <1>1, <1>8, <2>1 DEF ReleaseFails, Explained
<1>9. ASSUME NEW t \in Tasks, step[t] # "done", Retry(t),
             UNCHANGED <<sandbox, cleanup, live, cached>>
      PROVE  Explained(u)'
  BY <1>2, <1>4, <1>9, RetryCases
<1>10. ASSUME NEW t \in Tasks, AllocateError(t) \/ CreateSessionFails(t)
                 \/ \E w \in Workers : AllocateExhausted(t, w)
       PROVE  Explained(u)'
  BY <1>9, <1>10 DEF AllocateError, AllocateExhausted, CreateSessionFails
<1>11. ASSUME NEW t \in Tasks, CreateSessionOk(t) \/ RepromptOk(t) PROVE Explained(u)'
  BY <1>3, <1>11 DEF CreateSessionOk, RepromptOk
<1>12. ASSUME NEW t \in Tasks, ExecuteOk(t) \/ ValidateFails(t) PROVE Explained(u)'
  BY <1>2, <1>3, <1>12 DEF ExecuteOk, ValidateFails
<1>13. ASSUME NEW t \in Tasks, ExecuteFails(t) \/ ValidateOk(t) \/ Cancel(t)
       PROVE  Explained(u)'
  BY <1>2, <1>13 DEF ExecuteFails, ValidateOk, Cancel
<1>14. ASSUME NEW t \in Tasks, ExecutionTimeout(t) PROVE Explained(u)'
  BY <1>1, <1>14 DEF ExecutionTimeout, Explained
<1>15. ASSUME NEW w \in Workers, WorkerRestart(w) PROVE Explained(u)'
  BY <1>1, <1>15 DEF WorkerRestart, Explained
<1> QED BY <1>4, <1>5, <1>6, <1>7, <1>8, <1>10, <1>11, <1>12, <1>13, <1>14, <1>15
        DEF Next, Finished, vars

LEMMA LeakNext == TypeOK /\ LeakInv /\ [Next]_vars => LeakInv'
  BY CachesNext, ExplainedNext DEF LeakInv

\* The deferred release leaves a sandbox behind for three reasons only: Temporal
\* closed the workflow first, every attempt failed, or the activity ran on a
\* worker whose cache does not have the entry.
THEOREM LeaksOnlyExplained == Spec => []LeaksExplained
<1>1. LeakInv => LeaksExplained
  BY DEF LeakInv, Explained, LeaksExplained
<1> QED BY <1>1, TaskInvariant, LeakInit, LeakNext, PTL DEF Spec

-----------------------------------------------------------------------------
(***************************************************************************)
(* Sandboxes made for one task.  While AllocateSandboxActivity is retried, *)
(* every lost one is paid for with a failed attempt; once an attempt       *)
(* answers there were at most two before it; and no later step makes one.  *)
(***************************************************************************)
Made(t) ==
    /\ IsFiniteSet(lost[t]) /\ Cardinality(lost[t]) <= MaxAttempts
    /\ step[t] = "allocate" => sandbox[t] = None /\ Cardinality(lost[t]) <= tries[t]
    /\ sandbox[t] # None => Cardinality(lost[t]) < MaxAttempts

NamedInv ==
    \A s \in live : (\E t \in Tasks : sandbox[t] = s) \/ (\E t \in Tasks : s \in lost[t])

MadeInv == NamedInv /\ \A t \in Tasks : Made(t)

LEMMA MadeInit == Init => MadeInv
<1> SUFFICES ASSUME Init PROVE NamedInv /\ \A t \in Tasks : Made(t)
  BY DEF MadeInv
<1>1. IsFiniteSet({}) /\ Cardinality({}) = 0
  BY FS_EmptySet
<1> QED BY <1>1 DEF Init, NamedInv, Made, MaxAttempts

\* One element more makes a finite set larger by at most one.
LEMMA OneMore ==
  ASSUME NEW S, IsFiniteSet(S), NEW x
  PROVE  /\ IsFiniteSet(S \cup {x}) /\ Cardinality(S) \in Nat
         /\ Cardinality(S \cup {x}) \in Nat
         /\ Cardinality(S \cup {x}) <= Cardinality(S) + 1
<1>1. /\ IsFiniteSet(S \cup {x})
      /\ Cardinality(S \cup {x}) = IF x \in S THEN Cardinality(S) ELSE Cardinality(S) + 1
  BY FS_AddElement
<1>2. Cardinality(S) \in Nat
  BY FS_CardinalityType
<1> QED BY <1>1, <1>2

LEMMA NamedNext == TypeOK /\ MadeInv /\ [Next]_vars => NamedInv'
<1> SUFFICES ASSUME TypeOK, MadeInv, [Next]_vars PROVE NamedInv'
  OBVIOUS
<1> USE TaskAssumption DEF TypeOK, MadeInv, NamedInv, pools, state
<1>1. ASSUME NEW t \in Tasks, NEW w \in Workers, AllocateOk(t, w) PROVE NamedInv'
  <2>1. sandbox[t] = None
    BY <1>1 DEF AllocateOk, Made
  <2>2. lost' = lost /\ live' = live \cup {NewSandbox}
        /\ sandbox' = [sandbox EXCEPT ![t] = NewSandbox]
    BY <1>1 DEF AllocateOk, Grab, Make
  <2>3. \A x \in Tasks : sandbox[x] # None => sandbox'[x] = sandbox[x]
    BY <2>1, <2>2
  <2> QED BY <2>2, <2>3
<1>2. ASSUME NEW t \in Tasks, NEW w \in Workers, AllocateLost(t, w) PROVE NamedInv'
  <2>1. sandbox' = sandbox /\ live' = live \cup {NewSandbox}
        /\ lost' = [lost EXCEPT ![t] = @ \cup {NewSandbox}]
    BY <1>2 DEF AllocateLost, Grab, Make
  <2>2. \A x \in Tasks : lost[x] \subseteq lost'[x] /\ NewSandbox \in lost'[t]
    BY <2>1
  <2> QED BY <2>1, <2>2
<1>3. ASSUME live' \subseteq live, UNCHANGED <<sandbox, lost>> PROVE NamedInv'
  BY <1>3
<1>4. ASSUME NEW t \in Tasks, NEW w \in Workers, ReleaseOk(t, w) \/ ReleaseFails(t, w)
      PROVE  NamedInv'
  <2>1. live' \subseteq live
    BY <1>4 DEF ReleaseOk, ReleaseFails, Released, DeleteFails
  <2> QED BY <1>3, <1>4, <2>1 DEF ReleaseOk, ReleaseFails
<1> HIDE DEF NamedInv
<1> QED BY <1>1, <1>2, <1>3, <1>4
        DEF Next, AllocateError, AllocateExhausted, CreateSessionOk, CreateSessionFails,
            ExecuteOk, ExecuteFails, ValidateOk, ValidateFails, RepromptOk, Cancel,
            ExecutionTimeout, WorkerRestart, Finished, vars

LEMMA MadeNext ==
  ASSUME TypeOK, MadeInv, [Next]_vars, NEW u \in Tasks PROVE Made(u)'
<1> USE TaskAssumption DEF TypeOK, MaxAttempts, Goto, Return, Ends
<1>1. Made(u) /\ Cardinality(lost[u]) \in Nat
  BY FS_CardinalityType DEF MadeInv, Made
<1>2. ASSUME NEW t \in Tasks, NEW w \in Workers, AllocateOk(t, w) PROVE Made(u)'
  BY <1>1, <1>2 DEF AllocateOk, Made
<1>3. ASSUME NEW t \in Tasks, NEW w \in Workers, AllocateLost(t, w) PROVE Made(u)'
  <2>1. UNCHANGED sandbox /\ lost' = [lost EXCEPT ![t] = @ \cup {NewSandbox}]
        /\ step[t] = "allocate"
    BY <1>3 DEF AllocateLost
  <2>2. \/ /\ tries[t] + 1 < MaxAttempts
           /\ tries' = [tries EXCEPT ![t] = @ + 1]
           /\ UNCHANGED step
        \/ Return(t, "failed")
    BY <1>3, RetryCases DEF AllocateLost
  <2>3. CASE u = t
    <3>1. /\ IsFiniteSet(lost'[u]) /\ Cardinality(lost'[u]) \in Nat
          /\ Cardinality(lost'[u]) <= Cardinality(lost[u]) + 1
      BY <1>1, <2>1, <2>3, OneMore DEF Made
    <3>2. Cardinality(lost[u]) <= tries[u] /\ sandbox[u] = None
      BY <1>1, <2>1, <2>3 DEF Made
    <3> QED BY <1>1, <2>1, <2>2, <2>3, <3>1, <3>2 DEF Made
  <2>4. CASE u # t
    BY <1>1, <2>1, <2>2, <2>4 DEF Made
  <2> QED BY <2>3, <2>4
<1>5. ASSUME NEW t \in Tasks, Retry(t), UNCHANGED <<sandbox, lost>> PROVE Made(u)'
  <2>1. \/ /\ tries[t] + 1 < MaxAttempts
           /\ tries' = [tries EXCEPT ![t] = @ + 1]
           /\ UNCHANGED step
        \/ Return(t, "failed")
    BY <1>5, RetryCases
  <2> QED BY <1>1, <1>5, <2>1 DEF Made
<1>6. ASSUME NEW t \in Tasks, AllocateError(t) \/ CreateSessionFails(t)
                 \/ \E w \in Workers : AllocateExhausted(t, w)
      PROVE  Made(u)'
  BY <1>5, <1>6 DEF AllocateError, AllocateExhausted, CreateSessionFails
<1>7. ASSUME NEW t \in Tasks, CreateSessionOk(t) \/ ExecuteFails(t) \/ ValidateOk(t)
                 \/ Cancel(t) \/ ExecutionTimeout(t)
      PROVE  Made(u)'
  BY <1>1, <1>7 DEF CreateSessionOk, ExecuteFails, ValidateOk, Cancel, ExecutionTimeout, Made
<1>8. ASSUME NEW t \in Tasks, ExecuteOk(t) PROVE Made(u)'
  BY <1>1, <1>8 DEF ExecuteOk, Made
<1>9. ASSUME NEW t \in Tasks, ValidateFails(t) \/ RepromptOk(t) PROVE Made(u)'
  BY <1>1, <1>9 DEF ValidateFails, RepromptOk, Made
<1>10. ASSUME NEW t \in Tasks, NEW w \in Workers, ReleaseOk(t, w) \/ ReleaseFails(t, w)
       PROVE  Made(u)'
  BY <1>1, <1>10 DEF ReleaseOk, ReleaseFails, Made
<1>11. ASSUME UNCHANGED <<step, state>> PROVE Made(u)'
  BY <1>1, <1>11 DEF Made, state
<1> QED BY <1>2, <1>3, <1>6, <1>7, <1>8, <1>9, <1>10, <1>11
        DEF Next, WorkerRestart, Finished, vars

\* Whatever is lost, retried or cancelled, the sandboxes no workflow names come from
\* lost answers, and a task has at most as many made for it as RetryPolicy has
\* attempts.
THEOREM UnnamedFew == Spec => []UnnamedBounded
<1>1. MadeInv => UnnamedBounded
  <2> SUFFICES ASSUME MadeInv PROVE UnnamedBounded
    OBVIOUS
  <2>1. live \subseteq {sandbox[t] : t \in Tasks} \cup UNION {lost[t] : t \in Tasks}
    BY DEF MadeInv, NamedInv
  <2>2. ASSUME NEW t \in Tasks
        PROVE  Cardinality(lost[t] \cup ({sandbox[t]} \ {None})) <= MaxAttempts
    <3>1. Made(t)
      BY DEF MadeInv
    <3>2. CASE sandbox[t] = None
      <4>1. lost[t] \cup ({sandbox[t]} \ {None}) = lost[t]
        BY <3>2
      <4> QED BY <3>1, <4>1 DEF Made
    <3>3. CASE sandbox[t] # None
      <4>1. lost[t] \cup ({sandbox[t]} \ {None}) = lost[t] \cup {sandbox[t]}
        BY <3>3
      <4>2. /\ Cardinality(lost[t]) \in Nat
            /\ Cardinality(lost[t] \cup {sandbox[t]}) \in Nat
            /\ Cardinality(lost[t] \cup {sandbox[t]}) <= Cardinality(lost[t]) + 1
        BY <3>1, OneMore DEF Made
      <4>3. Cardinality(lost[t]) < MaxAttempts
        BY <3>1, <3>3 DEF Made
      <4>4. Cardinality(lost[t] \cup {sandbox[t]}) <= MaxAttempts
        BY <4>2, <4>3 DEF MaxAttempts
      <4> QED BY <4>1, <4>4, Zenon
    <3> QED BY <3>2, <3>3
  <2> QED BY <2>1, <2>2 DEF UnnamedBounded
<1>2. TypeOK /\ MadeInv /\ [Next]_vars => MadeInv'
  BY NamedNext, MadeNext DEF MadeInv
<1> QED BY <1>1, <1>2, TaskInvariant, MadeInit, PTL DEF Spec

-----------------------------------------------------------------------------
(***************************************************************************)
(* Termination as a budget.  A failed attempt takes one from it; a step    *)
(* that moves the workflow on, or gives up, lowers Stage by one or more,   *)
(* which is worth MaxAttempts, while the attempts it gives back are fewer. *)
(***************************************************************************)
Fits(t) ==
    /\ Stage(t) \in Nat /\ tries[t] \in 0..2 /\ Budget(t) = 3 * Stage(t) - tries[t]
    /\ step[t] = "done" => tries[t] = 0
    /\ step[t] # "done" => Stage(t) > 0
    /\ step[t] \notin {"release", "done"} => Stage(t) > 1

FitsInv == \A t \in Tasks : Fits(t)
IdleInv == \A t \in Tasks : step[t] = "done" => tries[t] = 0

LEMMA IdleNext == TypeOK /\ IdleInv /\ [Next]_vars => IdleInv'
<1> SUFFICES ASSUME TypeOK, IdleInv, [Next]_vars, NEW u \in Tasks
             PROVE  step'[u] = "done" => tries'[u] = 0
  BY DEF IdleInv
<1> USE DEF TypeOK, IdleInv, Goto, Return, Ends
<1>1. ASSUME NEW t \in Tasks, Retry(t), step[t] # "done"
      PROVE  step'[u] = "done" => tries'[u] = 0
  BY <1>1, RetryCases
<1>2. ASSUME NEW t \in Tasks, NEW w \in Workers,
             \/ AllocateOk(t, w) \/ AllocateLost(t, w) \/ AllocateExhausted(t, w)
             \/ ReleaseOk(t, w) \/ ReleaseFails(t, w)
      PROVE  step'[u] = "done" => tries'[u] = 0
  BY <1>1, <1>2 DEF AllocateOk, AllocateLost, AllocateExhausted, ReleaseOk, ReleaseFails
<1>3. ASSUME NEW t \in Tasks,
             \/ AllocateError(t) \/ CreateSessionOk(t) \/ CreateSessionFails(t) \/ ExecuteOk(t)
             \/ ExecuteFails(t) \/ ValidateOk(t) \/ ValidateFails(t) \/ RepromptOk(t)
             \/ Cancel(t) \/ ExecutionTimeout(t)
      PROVE  step'[u] = "done" => tries'[u] = 0
  BY <1>1, <1>3 DEF AllocateError, CreateSessionOk, CreateSessionFails, ExecuteOk, ExecuteFails,
                    ValidateOk, ValidateFails, RepromptOk, Cancel, ExecutionTimeout
<1>4. CASE UNCHANGED <<step, tries>>
  BY <1>4
<1> QED BY <1>2, <1>3, <1>4 DEF Next, WorkerRestart, Finished, vars, state

LEMMA BudgetFits == TypeOK /\ CountInv /\ IdleInv => FitsInv
<1> SUFFICES ASSUME TypeOK, CountInv, IdleInv, NEW t \in Tasks PROVE Fits(t)
  BY DEF FitsInv
<1> USE DEF TypeOK, MaxAttempts, MaxValidationRetries
<1>1. step[t] \in {"allocate", "session", "execute", "validate", "reprompt", "release", "done"}
      /\ attempt[t] \in 0..3 /\ tries[t] \in 0..2
  OBVIOUS
<1>2. step[t] = "reprompt" => attempt[t] < 3
  BY <1>1 DEF CountInv, Count, LastAttempt
<1>3. step[t] = "done" => tries[t] = 0
  BY DEF IdleInv
<1>4. /\ Stage(t) \in Nat
      /\ step[t] # "done" => Stage(t) > 0
      /\ step[t] \notin {"release", "done"} => Stage(t) > 1
  <2>1. CASE step[t] \in {"allocate", "session", "execute"} BY <2>1 DEF Stage
  <2>2. CASE step[t] = "validate" BY <1>1, <2>2 DEF Stage
  <2>3. CASE step[t] = "reprompt" BY <1>1, <1>2, <2>3 DEF Stage
  <2>4. CASE step[t] \in {"release", "done"} BY <2>4 DEF Stage
  <2> QED BY <1>1, <2>1, <2>2, <2>3, <2>4
<1> QED BY <1>1, <1>3, <1>4 DEF Budget, Fits

LEMMA BudgetNext ==
  ASSUME TypeOK, CountInv, [Next]_vars, NEW u \in Tasks, Fits(u), Fits(u)'
  PROVE  UNCHANGED Workflow(u) \/ Budget(u)' \in 0..(Budget(u) - 1)
<1> DEFINE Spent == Budget(u)' \in 0..(Budget(u) - 1)
<1> USE DEF TypeOK, MaxAttempts, MaxValidationRetries, Goto, Ends
<1>1. ASSUME Stage(u)' < Stage(u) PROVE Spent
  BY <1>1 DEF Fits
<1>2. ASSUME step[u] # "done", step'[u] = "done" PROVE Spent
  BY <1>1, <1>2 DEF Fits, Stage
<1>3. ASSUME step[u] \notin {"release", "done"}, step'[u] \in {"release", "done"} PROVE Spent
  BY <1>1, <1>3 DEF Fits, Stage
<1>4. ASSUME NEW r, Return(u, r), step[u] \notin {"release", "done"} PROVE Spent
  BY <1>3, <1>4 DEF Return
<1>5. ASSUME tries' = [tries EXCEPT ![u] = @ + 1], UNCHANGED <<step, attempt>>, step[u] # "done"
      PROVE  Spent
  <2>1. Stage(u)' = Stage(u) /\ tries'[u] = tries[u] + 1
    BY <1>5 DEF Stage
  <2>2. step'[u] # "done"
    BY <1>5
  <2> QED BY <2>1, <2>2 DEF Fits
<1>6. ASSUME Retry(u), step[u] \notin {"release", "done"}, UNCHANGED attempt PROVE Spent
  BY <1>4, <1>5, <1>6, RetryCases
<1>7. ASSUME NEW w \in Workers,
             AllocateOk(u, w) \/ AllocateLost(u, w) \/ AllocateExhausted(u, w)
      PROVE  Spent
  <2>1. CASE AllocateOk(u, w)
    BY <1>1, <2>1 DEF AllocateOk, Stage
  <2> QED BY <1>6, <1>7, <2>1 DEF AllocateLost, AllocateExhausted
<1>8. ASSUME NEW w \in Workers, ReleaseOk(u, w) \/ ReleaseFails(u, w) PROVE Spent
  BY <1>2, <1>5, <1>8 DEF ReleaseOk, ReleaseFails
<1>9. ASSUME AllocateError(u) \/ CreateSessionOk(u) \/ CreateSessionFails(u) PROVE Spent
  <2>1. CASE CreateSessionOk(u)
    BY <1>1, <2>1 DEF CreateSessionOk, Stage
  <2> QED BY <1>6, <1>9, <2>1 DEF AllocateError, CreateSessionFails
<1>10. ASSUME ExecuteOk(u) PROVE Spent
  <2>1. CASE Return(u, "ok")
    BY <1>4, <1>10, <2>1 DEF ExecuteOk
  <2>2. CASE Goto(u, "validate") /\ attempt' = [attempt EXCEPT ![u] = 1]
    BY <1>1, <1>10, <2>2 DEF ExecuteOk, Stage
  <2> QED BY <1>10, <2>1, <2>2 DEF ExecuteOk
<1>11. ASSUME ExecuteFails(u) \/ ValidateOk(u) \/ Cancel(u) \/ ExecutionTimeout(u) PROVE Spent
  BY <1>2, <1>4, <1>11 DEF ExecuteFails, ValidateOk, Cancel, ExecutionTimeout
<1>12. ASSUME ValidateFails(u) PROVE Spent
  <2>1. CASE Goto(u, "reprompt") /\ UNCHANGED attempt
    BY <1>1, <1>12, <2>1 DEF ValidateFails, Stage
  <2> QED BY <1>4, <1>12, <2>1 DEF ValidateFails
<1>13. ASSUME RepromptOk(u) PROVE Spent
  BY <1>1, <1>13 DEF RepromptOk, Stage
<1>14. ASSUME UNCHANGED <<step, state>> PROVE UNCHANGED Workflow(u)
  BY <1>14 DEF state, Workflow
<1>15. ASSUME NEW t \in Tasks, t # u, NEW w \in Workers,
              \/ AllocateOk(t, w) \/ AllocateLost(t, w) \/ AllocateExhausted(t, w)
              \/ ReleaseOk(t, w) \/ ReleaseFails(t, w)
       PROVE  UNCHANGED Workflow(u)
  BY <1>15 DEF AllocateOk, AllocateLost, AllocateExhausted, ReleaseOk, ReleaseFails, Retry,
               Return, Workflow
<1>16. ASSUME NEW t \in Tasks, t # u,
              \/ AllocateError(t) \/ CreateSessionOk(t) \/ CreateSessionFails(t) \/ ExecuteOk(t)
              \/ ExecuteFails(t) \/ ValidateOk(t) \/ ValidateFails(t) \/ RepromptOk(t)
              \/ Cancel(t) \/ ExecutionTimeout(t)
       PROVE  UNCHANGED Workflow(u)
  BY <1>16 DEF AllocateError, CreateSessionOk, CreateSessionFails, ExecuteOk, ExecuteFails,
               Answered, MoreTokens, ValidateOk, ValidateFails, RepromptOk, Cancel,
               ExecutionTimeout, Retry, Return, Workflow
<1> HIDE DEF Spent
<1> QED BY <1>7, <1>8, <1>9, <1>10, <1>11, <1>12, <1>13, <1>14, <1>15, <1>16
        DEF Next, WorkerRestart, Finished, vars, Spent

\* Every task comes to its end, or to a halt in an activity Temporal does not
\* dispatch, after at most MaxAttempts * Stage steps of its own, whatever fails,
\* however often, and whatever the other tasks do.
THEOREM AttemptsAreBounded == Spec => AttemptsBounded
<1>1. Init => IdleInv
  BY DEF Init, IdleInv
<1>2. TypeOK /\ CountInv /\ FitsInv /\ FitsInv' /\ [Next]_vars
      => [\A t \in Tasks : UNCHANGED Workflow(t) \/ Budget(t)' \in 0..(Budget(t) - 1)]_vars
  BY BudgetNext DEF FitsInv
<1> QED BY <1>1, <1>2, TaskInvariant, IdleNext, BudgetFits, PTL DEF Spec, AttemptsBounded
=============================================================================
