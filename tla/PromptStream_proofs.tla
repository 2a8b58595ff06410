-------------------------- MODULE PromptStream_proofs --------------------------
(* Theorems about PromptStream, for answers of any length, cut into lines in   *)
(* any way, and any heartbeat settings.                                        *)
EXTENDS PromptStream, FiniteSetTheorems, TLAPS

StreamType ==
    /\ status \in {"sent", "reading", "decoding", "rejected", "ok", "plain", "error", "timedOut"}
    /\ part \in {"none", "second", "end"}
    /\ sent \in Seq(Kinds)
    /\ result \in Seq(Nat)
    /\ tokens \in Nat

(***************************************************************************)
(* While the stream is read, part says what dataBuf holds: nothing, the    *)
(* first line of the last event, or all of it, or [DONE].                  *)
(***************************************************************************)
Line(p) == [event |-> Len(sent), piece |-> p]

BothLines(b) == Len(b) = 2 /\ b[1] = Line("first") /\ b[2] = Line("second")

Shape ==
    /\ part = "none" => buf = <<>>
    /\ part = "second" => Len(sent) > 0 /\ buf = <<Line("first")>>
    /\ part = "end" => \/ buf = <<Done>>
                       \/ /\ Len(sent) > 0
                          /\ buf = <<Line("whole")>> \/ BothLines(buf)

ShapeInv ==
    /\ status \in {"sent", "decoding", "rejected", "reading"} => Shape
    /\ status \in {"sent", "decoding", "rejected"} => sent = <<>> /\ part = "none" /\ tokens = 0

\* The whole of the last event waits in dataBuf for its empty line.
Pending == part = "end" /\ buf # <<Done>>

LEMMA PendingKind ==
  ASSUME StreamType, Shape, Pending
  PROVE  Len(sent) > 0 /\ Kind(buf) = sent[Len(sent)] /\ buf[1].event = Len(sent)
<1>1. Len(sent) \in Nat /\ Len(sent) > 0
  BY DEF StreamType, Shape, Pending
<1>2. CASE buf = <<Line("whole")>>
  BY <1>1, <1>2 DEF Kind, Whole, Line
<1>3. CASE BothLines(buf)
  BY <1>1, <1>3 DEF BothLines, Kind, Whole, Line
<1> QED BY <1>1, <1>2, <1>3 DEF Shape, Pending

LEMMA OtherKind ==
  ASSUME StreamType, Shape, ~ Pending
  PROVE  Content(buf) = <<>> /\ Usage(buf) = 0
<1>1. Kind(buf) = "noise"
  <2>1. CASE buf = <<>> BY <2>1 DEF Kind, Whole
  <2>2. CASE buf = <<Line("first")>> BY <2>2 DEF Kind, Whole, Line
  <2>3. CASE buf = <<Done>> BY <2>3 DEF Kind, Whole, Done
  <2> QED BY <2>1, <2>2, <2>3 DEF StreamType, Shape, Pending
<1> QED BY <1>1 DEF Content, Usage, Texts, Usages

LEMMA StreamInit == Init => StreamType /\ ShapeInv
  BY DEF Init, StreamType, ShapeInv, Shape

LEMMA StreamTypeNext == StreamType /\ ShapeInv /\ [Next]_vars => StreamType'
<1> SUFFICES ASSUME StreamType, ShapeInv, [Next]_vars PROVE StreamType'
  OBVIOUS
<1>1. ASSUME status = "reading" PROVE Content(buf) \in Seq(Nat) /\ Usage(buf) \in Nat
  <2>1. CASE Pending
    <3>1. Len(sent) \in Nat /\ buf[1].event = Len(sent)
      BY <1>1, <2>1, PendingKind DEF ShapeInv, StreamType
    <3>2. <<buf[1].event>> \in Seq(Nat) /\ <<>> \in Seq(Nat)
      BY <3>1
    <3> QED BY <3>2 DEF Content, Usage
  <2>2. CASE ~ Pending
    <3>1. Content(buf) = <<>> /\ Usage(buf) = 0
      BY <1>1, <2>2, OtherKind DEF ShapeInv
    <3> QED BY <3>1
  <2> QED BY <2>1, <2>2
<1> USE StreamAssumption DEF StreamType, stream, answer
<1>2. ASSUME NEW k \in Kinds, NEW p \in {"whole", "first"}, ReadData(k, p) PROVE StreamType'
  BY <1>2 DEF ReadData
<1>3. CASE ReadSecond \/ ReadDone \/ ReadIgnored
  BY <1>3 DEF ReadSecond, ReadDone, ReadIgnored
<1>4. CASE ReadEnd
  <2>1. result' \in Seq(Nat) /\ tokens' \in Nat
    BY <1>1, <1>4 DEF ReadEnd, Process
  <2> QED BY <1>4, <2>1 DEF ReadEnd
<1>5. CASE ReadEOF
  <2>1. result' \in Seq(Nat) /\ tokens' \in Nat
    BY <1>1, <1>5 DEF ReadEOF, Fallback
  <2> QED BY <1>5, <2>1 DEF ReadEOF
<1>6. CASE Finish BY <1>6 DEF Finish, Fallback
<1>7. CASE DecodePlain BY <1>7 DEF DecodePlain
<1>8. CASE RespondStream \/ RespondPlain \/ RespondError \/ ReadRejection
  BY <1>8 DEF RespondStream, RespondPlain, RespondError, ReadRejection
<1>9. CASE ReadError \/ Tick \/ ActivityTimeout
  BY <1>9 DEF ReadError, Tick, ActivityTimeout
<1>10. CASE UNCHANGED vars BY <1>10 DEF vars
<1> QED BY <1>2, <1>3, <1>4, <1>5, <1>6, <1>7, <1>8, <1>9, <1>10 DEF Next, Ended

LEMMA ShapeNext == StreamType /\ ShapeInv /\ [Next]_vars => ShapeInv'
<1> SUFFICES ASSUME StreamType, ShapeInv, [Next]_vars PROVE ShapeInv'
  OBVIOUS
<1> USE DEF ShapeInv, Shape, stream, answer
<1>1. ASSUME NEW k \in Kinds, NEW p \in {"whole", "first"}, ReadData(k, p) PROVE ShapeInv'
  <2>1. buf = <<>> /\ Len(sent') = Len(sent) + 1 /\ Len(sent) \in Nat
    BY <1>1 DEF ReadData, StreamType
  <2>2. buf' = <<[event |-> Len(sent'), piece |-> p]>>
    <3> DEFINE x == [event |-> Len(sent'), piece |-> p]
    <3>1. buf' = Append(<<>>, x)
      BY <1>1, <2>1 DEF ReadData
    <3> HIDE DEF x
    <3>2. buf' = <<x>>
      BY <3>1
    <3> QED BY <3>2 DEF x
  <2> QED BY <1>1, <2>1, <2>2 DEF ReadData, Line
<1>2. CASE ReadSecond
  <2>1. BothLines(buf')
    <3>1. buf = <<Line("first")>> /\ buf' = Append(buf, Line("second"))
      BY <1>2 DEF ReadSecond, Line
    <3> QED BY <3>1 DEF BothLines
  <2> QED BY <1>2, <2>1 DEF ReadSecond, Line, BothLines
<1>3. CASE ReadDone
  <2>1. buf' = <<Done>>
    BY <1>3 DEF ReadDone
  <2> QED BY <1>3, <2>1 DEF ReadDone
<1>4. CASE ReadEnd BY <1>4 DEF ReadEnd, Reset
<1>5. CASE Finish \/ ReadEOF \/ ReadError
  BY <1>5 DEF Finish, ReadEOF, ReadError
<1>6. CASE ReadIgnored \/ Tick
  BY <1>6 DEF ReadIgnored, Tick, Line, BothLines
<1>7. CASE RespondStream \/ RespondPlain \/ RespondError
  BY <1>7 DEF RespondStream, RespondPlain, RespondError
<1>8. CASE ReadRejection \/ DecodePlain \/ ActivityTimeout
  BY <1>8 DEF ReadRejection, DecodePlain, ActivityTimeout
<1>9. CASE UNCHANGED vars BY <1>9 DEF vars, Line, BothLines
<1> QED BY <1>1, <1>2, <1>3, <1>4, <1>5, <1>6, <1>7, <1>8, <1>9 DEF Next, Ended

LEMMA StreamInvariant == Spec => [](StreamType /\ ShapeInv)
  BY StreamInit, StreamTypeNext, ShapeNext, PTL DEF Spec

-----------------------------------------------------------------------------
(***************************************************************************)
(* A step either leaves the arrived events as they are, or it is the one   *)
(* that completes the last event: its empty line, or the end of the body.  *)
(***************************************************************************)
Live == {"sent", "decoding", "rejected", "reading"}

Kept ==
    /\ Arrived' = Arrived /\ \A e \in Arrived : sent'[e] = sent[e]
    /\ result' = result
    /\ \/ status' = status /\ tokens' = tokens
       \/ status \in Live /\ status' \in Live /\ tokens' = tokens
       \/ status \in Live /\ status' = "ok" /\ tokens' = Fallback(tokens)
       \/ status' \in {"plain", "error", "timedOut"}

Taken ==
    /\ status = "reading" /\ Pending
    /\ Arrived = 1 .. Len(sent) - 1 /\ Arrived' = 1 .. Len(sent) /\ sent' = sent
    /\ result' = result \o Content(buf)
    /\ \/ status' = "reading" /\ tokens' = tokens + Usage(buf)
       \/ status' = "ok" /\ tokens' = Fallback(tokens + Usage(buf))

LEMMA Steps == ASSUME StreamType, ShapeInv, [Next]_vars PROVE Kept \/ Taken
<1> USE DEF Arrived, Live, stream, answer
<1>1. Len(sent) \in Nat
  BY DEF StreamType
<1>2. ASSUME NEW k \in Kinds, NEW p \in {"whole", "first"}, ReadData(k, p) PROVE Kept
  <2>1. status = "reading" /\ status' = "reading" /\ part = "none" /\ UNCHANGED <<result, tokens>>
    BY <1>2 DEF ReadData
  <2>2. Len(sent') = Len(sent) + 1 /\ \A e \in 1..Len(sent) : sent'[e] = sent[e]
    BY <1>2 DEF ReadData, StreamType
  <2>3. part' = "second" \/ (part' = "end" /\ buf' # <<Done>>)
    <3>1. buf' = Append(<<>>, [event |-> Len(sent'), piece |-> p])
      BY <1>2, <2>1 DEF ReadData, ShapeInv, Shape
    <3>2. buf'[1].event = Len(sent) + 1
      BY <2>2, <3>1
    <3>3. <<Done>>[1].event = 0
      BY DEF Done
    <3>4. buf' # <<Done>>
      BY <1>1, <3>2, <3>3
    <3> QED BY <1>2, <3>4 DEF ReadData
  <2>4. Arrived = 1..Len(sent)
    BY <2>1
  <2>5. Arrived' = 1..Len(sent)
    BY <1>1, <2>1, <2>2, <2>3
  <2> HIDE DEF Arrived
  <2> QED BY <2>1, <2>2, <2>4, <2>5 DEF Kept
<1>3. CASE ReadSecond
  <2>1. Len(buf') = 2
    <3>1. Len(buf) = 1 /\ buf = <<Line("first")>>
      BY <1>3 DEF ReadSecond, ShapeInv, Shape
    <3> QED BY <1>3, <3>1 DEF ReadSecond
  <2>2. buf' # <<Done>>
    BY <2>1
  <2> QED BY <1>3, <2>2 DEF ReadSecond, Kept
<1>4. CASE ReadDone
  <2>1. buf' = <<Done>>
    BY <1>4 DEF ReadDone, ShapeInv, Shape
  <2> QED BY <1>4, <2>1 DEF ReadDone, Kept
<1>5. CASE ReadEnd
  BY <1>5 DEF ReadEnd, Process, Pending, Taken
<1>6. CASE Finish
  <2>1. part = "end"
    BY <1>6 DEF Finish, ShapeInv, Shape, StreamType, Line, Done
  <2> QED BY <1>6, <2>1 DEF Finish, Kept
<1>7. CASE ReadEOF /\ Pending
  BY <1>7 DEF ReadEOF, Pending, Taken
<1>8. CASE ReadEOF /\ ~ Pending
  <2>1. Content(buf) = <<>> /\ Usage(buf) = 0
    BY <1>8, OtherKind DEF ReadEOF, ShapeInv
  <2>2. result' = result /\ tokens' = Fallback(tokens)
    BY <1>8, <2>1 DEF ReadEOF, StreamType
  <2>3. Arrived' = Arrived
    BY <1>8 DEF ReadEOF, Pending
  <2> QED BY <1>8, <2>2, <2>3 DEF ReadEOF, Kept
<1>9. CASE RespondStream \/ RespondPlain \/ RespondError \/ ReadRejection
  BY <1>9 DEF RespondStream, RespondPlain, RespondError, ReadRejection, Kept
<1>10. CASE DecodePlain
  BY <1>10 DEF DecodePlain, Kept
<1>11. CASE ReadIgnored \/ Tick
  BY <1>11 DEF ReadIgnored, Tick, Kept
<1>12. CASE ReadError \/ ActivityTimeout
  BY <1>12 DEF ReadError, ActivityTimeout, Kept
<1>13. CASE UNCHANGED vars
  BY <1>13 DEF vars, Kept
<1> HIDE DEF Arrived
<1> QED BY <1>2, <1>3, <1>4, <1>5, <1>6, <1>7, <1>8, <1>9, <1>10, <1>11, <1>12, <1>13
        DEF Next, Ended

-----------------------------------------------------------------------------
(* The content *)

LEMMA ContentNext == StreamType /\ ShapeInv /\ ContentExact /\ [Next]_vars => ContentExact'
<1> SUFFICES ASSUME StreamType, ShapeInv, ContentExact, [Next]_vars PROVE ContentExact'
  OBVIOUS
<1>1. CASE Kept
  BY <1>1 DEF Kept, ContentExact
<1>2. CASE Taken
  <2> DEFINE n == Len(sent)
  <2>1. /\ n \in Nat /\ n > 0 /\ Kind(buf) = sent[n] /\ buf[1].event = n
        /\ Len(result) \in Nat
    BY <1>2, PendingKind DEF Taken, ShapeInv, StreamType
  <2>2. \A i \in 1..Len(result) : result[i] \in Nat /\ result[i] < n
    BY <1>2, <2>1 DEF Taken, ContentExact
  <2>3. CASE sent[n] \in Texts
    <3>1. result' = result \o <<n>>
      BY <1>2, <2>1, <2>3 DEF Taken, Content
    <3>2. /\ Len(result') = Len(result) + 1 /\ result'[Len(result) + 1] = n
          /\ \A i \in 1..Len(result) : result'[i] = result[i]
      BY <2>1, <3>1 DEF StreamType
    <3>3. {result'[i] : i \in 1..Len(result')} = {result[i] : i \in 1..Len(result)} \cup {n}
      BY <2>1, <3>2
    <3>4. {e \in Arrived' : sent'[e] \in Texts} = {e \in Arrived : sent[e] \in Texts} \cup {n}
      BY <1>2, <2>1, <2>3 DEF Taken
    <3>5. \A i, j \in 1..Len(result') : i < j => result'[i] < result'[j]
      BY <2>1, <2>2, <3>2 DEF ContentExact
    <3> QED BY <3>3, <3>4, <3>5 DEF ContentExact
  <2>4. CASE sent[n] \notin Texts
    <3>1. result' = result
      BY <1>2, <2>1, <2>4 DEF Taken, Content, StreamType
    <3>2. {e \in Arrived' : sent'[e] \in Texts} = {e \in Arrived : sent[e] \in Texts}
      BY <1>2, <2>1, <2>4 DEF Taken
    <3> QED BY <3>1, <3>2 DEF ContentExact
  <2> QED BY <2>3, <2>4
<1> QED BY <1>1, <1>2, Steps

\* readSSEStream returns the content of exactly the events that arrived, each once and
\* in order, for every way the server cuts events into lines and wherever the
\* body ends.
THEOREM ContentIsExact == Spec => []ContentExact
<1>1. Init => ContentExact
  BY DEF Init, ContentExact, Arrived
<1> QED BY <1>1, StreamInvariant, ContentNext, PTL DEF Spec

-----------------------------------------------------------------------------
(* The tokens *)

Used == {e \in Arrived : sent[e] \in Usages}

TokensInv == /\ status \in Live => tokens = Cardinality(Used)
             /\ status = "ok" => tokens = Fallback(Cardinality(Used))

LEMMA UsedFinite == ASSUME StreamType PROVE IsFiniteSet(Used) /\ Cardinality(Used) \in Nat
<1>1. Len(sent) \in Nat
  BY DEF StreamType
<1>2. IsFiniteSet(1..Len(sent))
  BY <1>1, FS_Interval
<1>3. Used \subseteq 1..Len(sent)
  BY <1>1 DEF Used, Arrived
<1> QED BY <1>2, <1>3, FS_Subset, FS_CardinalityType

LEMMA TokensNext == StreamType /\ ShapeInv /\ TokensInv /\ [Next]_vars => TokensInv'
<1> SUFFICES ASSUME StreamType, ShapeInv, TokensInv, [Next]_vars PROVE TokensInv'
  OBVIOUS
<1>1. CASE Kept
  <2>1. Used' = Used
    BY <1>1 DEF Kept, Used
  <2> QED BY <1>1, <2>1 DEF Kept, TokensInv, Live
<1>2. CASE Taken
  <2> DEFINE n == Len(sent)
  <2>1. n \in Nat /\ n > 0 /\ Kind(buf) = sent[n]
    BY <1>2, PendingKind DEF Taken, ShapeInv, StreamType
  <2>2. Cardinality(Used') = Cardinality(Used) + Usage(buf)
    <3>1. CASE sent[n] \in Usages
      <4>1. Used' = Used \cup {n} /\ n \notin Used
        BY <1>2, <2>1, <3>1 DEF Taken, Used
      <4> QED BY <2>1, <3>1, <4>1, UsedFinite, FS_AddElement DEF Usage
    <3>2. CASE sent[n] \notin Usages
      <4>1. Used' = Used
        BY <1>2, <2>1, <3>2 DEF Taken, Used
      <4> QED BY <2>1, <3>2, <4>1, UsedFinite DEF Usage
    <3> QED BY <3>1, <3>2
  <2> QED BY <1>2, <2>2 DEF Taken, TokensInv, Live
<1> QED BY <1>1, <1>2, Steps

\* processSSEData adds up the usage of exactly the events that arrived, and the
\* X-Usage-Total-Tokens header counts only when they report none or zero.
THEOREM TokensAreExact == Spec => []TokensExact
<1>1. Init => TokensInv
  <2> SUFFICES ASSUME Init PROVE TokensInv
    OBVIOUS
  <2>1. Used = {}
    BY DEF Init, Used, Arrived
  <2> QED BY <2>1, FS_EmptySet DEF Init, TokensInv
<1>2. TokensInv => TokensExact
  BY DEF TokensInv, TokensExact, Used, Fallback
<1> QED BY <1>1, <1>2, StreamInvariant, TokensNext, PTL DEF Spec
=============================================================================
