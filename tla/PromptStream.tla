----------------------------- MODULE PromptStream -----------------------------
(***************************************************************************)
(* One prompt: Client.SendMessage and readSSEStream                        *)
(* (internal/opencode/client.go), run by ExecutePromptActivity, whose      *)
(* heartbeats Temporal watches.  The OpenCode server (external) sends      *)
(* events, each as one "data: " line or as two, ended by an empty line.    *)
(* The connection is FIFO, so a line is sent and read in one step.         *)
(*                                                                         *)
(* The data of a line is which event it belongs to and which piece of it;  *)
(* an event is known by its place in sent.                                 *)
(***************************************************************************)
EXTENDS Integers, Sequences, FiniteSets

CONSTANTS
    MaxEvents,         \* bound on the number of events of an answer
    BeatEvery,         \* a heartbeat every tenth event
    HeartbeatTimeout,  \* one minute
    Header             \* X-Usage-Total-Tokens; 0 when it is absent

ASSUME StreamAssumption ==
    /\ MaxEvents \in Nat /\ BeatEvery \in Nat \ {0}
    /\ HeartbeatTimeout \in Nat /\ Header \in Nat

\* JSON with content, with a usage of one token, with both, with a usage of zero;
\* and data that is not JSON
Kinds == {"text", "usage", "both", "zero", "noise"}
Texts == {"text", "both"}
Usages == {"usage", "both"}
Done  == [event |-> 0, piece |-> "whole"]      \* data: [DONE]

VARIABLES
    status,  \* "sent", "reading", "decoding" or "rejected"; then how it ended
    sent,    \* kinds of the events the server has begun to send (history)
    part,    \* what the server owes: "none", "second" line, or "end" of event
    buf,     \* dataBuf
    result,  \* the events whose content is in the result
    tokens,  \* tokensUsed
    events,  \* eventCount
    quiet    \* time since the activity's last heartbeat

stream == <<sent, part, buf>>
answer == <<result, tokens, events>>
vars   == <<status, stream, answer, quiet>>

Init ==
    /\ status = "sent"
    /\ sent = <<>> /\ part = "none" /\ buf = <<>>
    /\ result = <<>> /\ tokens = 0 /\ events = 0
    /\ quiet = 0        \* RecordHeartbeat("starting prompt execution")

-----------------------------------------------------------------------------
(* The response's status and content type *)

RespondStream ==
    /\ status = "sent"
    /\ status' = "reading"
    /\ UNCHANGED <<stream, answer, quiet>>

RespondPlain ==
    /\ status = "sent"
    /\ status' = "decoding"
    /\ UNCHANGED <<stream, answer, quiet>>

\* a plain JSON body, with or without usage, or one that does not decode
DecodePlain ==
    /\ status = "decoding"
    /\ \/ status' = "plain" /\ tokens' \in {0, 1}
       \/ status' = "error" /\ UNCHANGED tokens
    /\ UNCHANGED <<stream, result, events, quiet>>

\* no response, or one whose status is not 200: its body is read to the end first
RespondError ==
    /\ status = "sent"
    /\ status' \in {"error", "rejected"}
    /\ UNCHANGED <<stream, answer, quiet>>

ReadRejection ==
    /\ status = "rejected"
    /\ status' = "error"
    /\ UNCHANGED <<stream, answer, quiet>>

-----------------------------------------------------------------------------
(* readSSEStream, line by line *)

\* data: a whole event, or the first of two lines of it
ReadData(k, p) ==
    /\ status = "reading" /\ part = "none"
    /\ Done \notin {buf[i] : i \in 1..Len(buf)}
    /\ Len(sent) < MaxEvents
    /\ sent' = Append(sent, k)
    /\ buf' = Append(buf, [event |-> Len(sent'), piece |-> p])
    /\ part' = IF p = "whole" THEN "end" ELSE "second"
    /\ UNCHANGED <<status, answer, quiet>>

ReadSecond ==
    /\ status = "reading" /\ part = "second"
    /\ buf' = Append(buf, [event |-> Len(sent), piece |-> "second"])
    /\ part' = "end"
    /\ UNCHANGED <<status, sent, answer, quiet>>

ReadDone ==
    /\ status = "reading" /\ part = "none"
    /\ buf' = Append(buf, Done)
    /\ part' = "end"
    /\ UNCHANGED <<status, sent, answer, quiet>>

\* processSSEData parses the lines joined by newlines: the pieces of one event
\* make JSON, anything else does not, and contributes nothing
Whole(b) == \/ Len(b) = 1 /\ b[1].piece = "whole"
            \/ Len(b) = 2 /\ b[1].event = b[2].event
Kind(b) == IF Whole(b) /\ b[1].event # 0 THEN sent[b[1].event] ELSE "noise"
Content(b) == IF Kind(b) \in Texts THEN <<b[1].event>> ELSE <<>>
Usage(b) == IF Kind(b) \in Usages THEN 1 ELSE 0
Reset_Forgotten == UNCHANGED buf
Reset == buf' = <<>>

Process == /\ result' = result \o Content(buf)
           /\ tokens' = tokens + Usage(buf)

\* the empty line that ends an event, and the heartbeat after every tenth one
ReadEnd ==
    /\ status = "reading" /\ part = "end" /\ buf # <<Done>>
    /\ Process
    /\ Reset
    /\ events' = events + 1
    /\ quiet' = IF events' % BeatEvery = 0 THEN 0 ELSE quiet
    /\ part' = "none"
    /\ UNCHANGED <<status, sent>>

\* an empty line with no data before it, a comment, an event: or id: line
Ignored_Beats == quiet' = 0
Ignored == UNCHANGED quiet
ReadIgnored ==
    /\ status = "reading"
    /\ Ignored
    /\ UNCHANGED <<status, stream, answer>>

\* the response header, when the stream reported no usage
Fallback_Adds(n) == n + Header
Fallback(n) == IF n = 0 THEN Header ELSE n

\* the empty line after [DONE] ends the loop
Finish ==
    /\ status = "reading" /\ buf = <<Done>>
    /\ status' = "ok"
    /\ tokens' = Fallback(tokens)
    /\ Reset
    /\ UNCHANGED <<sent, part, result, events, quiet>>

\* the body ends, [DONE] or not: what is left in dataBuf is processed
ReadEOF ==
    /\ status = "reading"
    /\ status' = "ok"
    /\ result' = result \o Content(buf)
    /\ tokens' = Fallback(tokens + Usage(buf))
    /\ UNCHANGED <<stream, events, quiet>>

\* scanner.Err(): a broken connection, or a line of more than 1MB; SendMessage
\* drops what was read so far
ReadError ==
    /\ status = "reading"
    /\ status' = "error"
    /\ UNCHANGED <<stream, answer, quiet>>

-----------------------------------------------------------------------------
(* Temporal's watchdog *)

Tick ==
    /\ status \in {"reading", "decoding", "rejected"}
    /\ quiet <= HeartbeatTimeout
    /\ quiet' = quiet + 1
    /\ UNCHANGED <<status, stream, answer>>

\* Temporal gives the attempt up; its goroutine goes when the activity's context does
ActivityTimeout ==
    /\ status \in {"reading", "decoding", "rejected"}
    /\ quiet > HeartbeatTimeout
    /\ status' = "timedOut"
    /\ UNCHANGED <<stream, answer, quiet>>

Ended == status \in {"ok", "plain", "error", "timedOut"} /\ UNCHANGED vars

Next ==
    \/ RespondStream \/ RespondPlain \/ RespondError \/ ReadRejection \/ DecodePlain
    \/ \E k \in Kinds, p \in {"whole", "first"} : ReadData(k, p)
    \/ ReadSecond \/ ReadDone \/ ReadEnd \/ ReadIgnored \/ Finish \/ ReadEOF \/ ReadError
    \/ Tick \/ ActivityTimeout \/ Ended

Spec == Init /\ [][Next]_vars

\* The response header comes or its timeout does, time passes, and Temporal acts
\* on a missed heartbeat.  The server may stall or babble for ever.
FairSpec ==
    /\ Spec
    /\ WF_vars(RespondStream \/ RespondPlain \/ RespondError)
    /\ WF_vars(Tick) /\ WF_vars(ActivityTimeout)

-----------------------------------------------------------------------------
(* Properties *)

\* The events that arrived completely: while reading, those whose empty line was
\* read; at the end of the body also the last one, if all its lines came.
Arrived ==
    LET open == part = "second" \/ (status # "ok" /\ part = "end" /\ buf # <<Done>>)
    IN  1 .. (IF open THEN Len(sent) - 1 ELSE Len(sent))

\* The result is the content of the events that arrived, each once and in order,
\* however they are cut into lines and whatever comes between them: dataBuf never
\* carries one event into the next, and the end of the body loses nothing.
ContentExact ==
    /\ {result[i] : i \in 1..Len(result)} = {e \in Arrived : sent[e] \in Texts}
    /\ \A i, j \in 1..Len(result) : i < j => result[i] < result[j]

\* The tokens of a streamed answer are those its events report, or the header's
\* when they report none or a usage of zero, never both.
TokensExact ==
    LET n == Cardinality({e \in Arrived : sent[e] \in Usages})
    IN  status = "ok" => tokens = IF n = 0 THEN Header ELSE n

\* "No overall timeout, activity heartbeat manages liveness": a server that
\* stalls, in a stream, a plain body or an error's, or only sends lines that are no events,
\* does not hold a task for ever.  (An answer has at most MaxEvents events: one that
\* never ends is for the activity's StartToCloseTimeout.)
PromptEnds == <>(status \in {"ok", "plain", "error", "timedOut"})
=============================================================================
