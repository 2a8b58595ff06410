----------------------------- MODULE TaskAPI_proofs -----------------------------
(* Theorems about TaskAPI, for every width of a Duration, every default, cap    *)
(* and buffer that fit, every requested timeout and any number of streams.      *)
EXTENDS TaskAPI, TLAPS

(***************************************************************************)
(* A report of an outcome is made from what Temporal answered, and stays   *)
(* true because a workflow closes once.                                    *)
(***************************************************************************)
Honest(r) ==
    r.terminal => /\ exec \in Closed
                  /\ r.status = StatusOf(exec)
                  /\ r.result => exec = "completed"

HonestInv ==
    /\ created = "none" => exec = "none"
    /\ event \in [Streams -> [status : Statuses, result : BOOLEAN, terminal : BOOLEAN]]
    /\ Honest(reply.report)
    /\ \A s \in Streams : Honest(event[s])

LEMMA ReportHonest ==
  ASSUME NEW r \in Report(exec)
  PROVE  Honest(r) /\ r \in [status : Statuses, result : BOOLEAN, terminal : BOOLEAN]
<1>1. PICK b \in BOOLEAN :
        /\ r = [status |-> StatusOf(exec), result |-> b, terminal |-> Terminal(exec)]
        /\ b => exec = "completed"
  BY Zenon DEF Report
<1>2. StatusOf(exec) \in Statuses /\ Terminal(exec) \in BOOLEAN
  BY DEF StatusOf, Statuses, Terminal
<1>3. r \in [status : Statuses, result : BOOLEAN, terminal : BOOLEAN]
  BY <1>1, <1>2
<1>4. r.status = StatusOf(exec) /\ r.result = b /\ r.terminal = Terminal(exec)
  BY <1>1
<1> QED BY <1>1, <1>3, <1>4 DEF Honest, Terminal

LEMMA HonestNext == HonestInv /\ [Next]_vars => HonestInv'
<1> SUFFICES ASSUME HonestInv, [Next]_vars PROVE HonestInv'
  OBVIOUS
<1>1. ASSUME exec' = exec \/ exec \notin Closed,
             created' = "none" => exec' = "none", UNCHANGED <<reply, event>>
      PROVE  HonestInv'
  BY <1>1 DEF HonestInv, Honest
<1>2. CASE CreateRejected \/ WorkflowCloses
  BY <1>1, <1>2 DEF CreateRejected, WorkflowCloses, HonestInv, Closed
<1>3. ASSUME NEW req \in Requests, CreateOk(req) \/ CreateFails(req) PROVE HonestInv'
  BY <1>1, <1>3 DEF CreateOk, CreateFails, HonestInv, Closed
<1>4. CASE GetTask
  <2>1. Honest(reply'.report)
    BY <1>4, ReportHonest DEF GetTask, Nothing, Honest
  <2> QED BY <1>4, <2>1 DEF GetTask, HonestInv, Honest
<1>5. ASSUME NEW s \in Streams, StreamEvent(s) PROVE HonestInv'
  <2>1. PICK r \in Report(exec) : event' = [event EXCEPT ![s] = r]
    BY <1>5 DEF StreamEvent
  <2> QED BY <1>5, <2>1, ReportHonest DEF StreamEvent, HonestInv, Honest
<1>6. ASSUME NEW s \in Streams, StreamBlind(s) PROVE HonestInv'
  BY <1>6 DEF StreamBlind, Unknown, HonestInv, Honest, Statuses
<1>7. ASSUME NEW s \in Streams, StreamOpen(s) \/ ClientGone(s) PROVE HonestInv'
  BY <1>1, <1>7 DEF StreamOpen, ClientGone, HonestInv
<1>8. CASE UNCHANGED vars
  BY <1>1, <1>8 DEF vars, HonestInv
<1> QED BY <1>2, <1>3, <1>4, <1>5, <1>6, <1>7, <1>8 DEF Next

\* getTask and every streamTask tell the outcome Temporal recorded, the same to all,
\* however their polls are interleaved with the workflow and with failing calls.
THEOREM ClientsAgree == Spec => []OutcomesAgree
<1>1. Init => HonestInv
  BY DEF Init, HonestInv, Honest, Nothing, Statuses
<1>2. HonestInv => OutcomesAgree
  <2>1. exec \in Closed => StatusOf(exec) = Outcome[exec]
    BY DEF Closed, StatusOf, Outcome
  <2> QED BY <2>1 DEF HonestInv, Honest, OutcomesAgree
<1> QED BY <1>1, <1>2, HonestNext, PTL DEF Spec

-----------------------------------------------------------------------------
(***************************************************************************)
(* The arithmetic of createTask.  The product with a second may wrap, to   *)
(* any word; what the cap lets through is still a word, and far enough     *)
(* from the largest for the buffer.                                        *)
(***************************************************************************)
LEMMA WrapType == ASSUME NEW x \in Int PROVE Wrap(x) \in Word
<1>1. Half \in Nat /\ Half > 0 /\ 2 * Half \in Nat /\ 2 * Half > 0 /\ x + Half \in Int
  BY TaskAPIAssumption
<1>2. (x + Half) % (2 * Half) \in 0..(2 * Half - 1)
  BY <1>1
<1> QED BY <1>1, <1>2 DEF Wrap, Word

LEMMA WrapFits == ASSUME NEW x \in Word PROVE Wrap(x) = x
<1>1. x \in Int /\ Half \in Int /\ 0 <= x + Half /\ x + Half < 2 * Half
  BY TaskAPIAssumption DEF Word
<1>2. (x + Half) % (2 * Half) = x + Half
  BY <1>1
<1> QED BY <1>1, <1>2 DEF Wrap

LEMMA TimeoutCapped ==
  ASSUME NEW req \in Word
  PROVE  /\ Timeout(req) <= Cap * Second
         /\ Wrap(Timeout(req) + Buffer * Second) = Timeout(req) + Buffer * Second
<1>1. /\ Half \in Nat /\ Second \in Nat /\ Default \in Nat /\ Cap \in Nat /\ Buffer \in Nat
      /\ Default < Cap /\ req \in Int
  BY TaskAPIAssumption DEF Word
<1>2. /\ req * Second \in Int /\ Cap * Second \in Nat /\ Buffer * Second \in Nat
      /\ Default * Second \in Nat /\ Default * Second <= Cap * Second
  BY <1>1
<1>3. (Cap + Buffer) * Second = Cap * Second + Buffer * Second
  BY <1>1
<1>4. Cap * Second + Buffer * Second < Half
  BY <1>1, <1>3, TaskAPIAssumption DEF Word
<1>5. Duration(req) \in Int /\ Duration(req) >= -Half
  <2>1. Wrap(req * Second) \in Word
    BY <1>2, WrapType
  <2> QED BY <1>1, <1>2, <2>1 DEF Duration, Word
<1>6. Timeout(req) \in Int /\ Timeout(req) >= -Half /\ Timeout(req) <= Cap * Second
  BY <1>1, <1>2, <1>5 DEF Timeout
<1>7. Timeout(req) + Buffer * Second \in Word
  BY <1>1, <1>2, <1>4, <1>6 DEF Word
<1> QED BY <1>6, <1>7, WrapFits

\* what BufferKept needs, whatever exec becomes
GivenInv ==
    /\ created = "none" => exec = "none"
    /\ BufferKept

LEMMA GivenNext == GivenInv /\ [Next]_vars => GivenInv'
<1> SUFFICES ASSUME GivenInv, [Next]_vars PROVE GivenInv'
  OBVIOUS
<1>1. ASSUME NEW req \in Requests, Started(req), created' # "none" PROVE GivenInv'
  <2>1. req \in Word
    BY TaskAPIAssumption
  <2>2. /\ given'.timeout = Timeout(req)
        /\ given'.execution = Wrap(Timeout(req) + Buffer * Second)
    BY <1>1 DEF Started
  <2> QED BY <1>1, <2>1, <2>2, TimeoutCapped DEF GivenInv, BufferKept
<1>2. ASSUME UNCHANGED <<given, exec>>, created' = created \/ created' # "none"
      PROVE  GivenInv'
  BY <1>2 DEF GivenInv, BufferKept
<1>3. CASE WorkflowCloses
  BY <1>3 DEF WorkflowCloses, GivenInv, BufferKept
<1>4. CASE UNCHANGED vars
  BY <1>2, <1>4 DEF vars
<1>5. CASE CreateRejected \/ GetTask
  BY <1>2, <1>5 DEF CreateRejected, GetTask
<1>6. ASSUME NEW req \in Requests, CreateOk(req) \/ CreateFails(req) PROVE GivenInv'
  BY <1>1, <1>2, <1>6 DEF CreateOk, CreateFails
<1>7. ASSUME NEW s \in Streams, StreamOpen(s) \/ StreamEvent(s) \/ StreamBlind(s) \/ ClientGone(s)
      PROVE  GivenInv'
  BY <1>2, <1>7 DEF StreamOpen, StreamEvent, StreamBlind, ClientGone
<1> QED BY <1>3, <1>4, <1>5, <1>6, <1>7 DEF Next

\* The cap and the buffer hold for every requested number, the ones that overflow
\* included: no task is given more than the cap, and adding the buffer is exact.
THEOREM BufferIsKept == Spec => []BufferKept
<1>1. Init => GivenInv
  BY DEF Init, GivenInv, BufferKept
<1>2. GivenInv => BufferKept
  BY DEF GivenInv
<1> QED BY <1>1, <1>2, GivenNext, PTL DEF Spec
=============================================================================
