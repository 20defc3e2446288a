------------------------- MODULE ConversationProofs -------------------------
(* The tool servers keep the promise of RequestReply, and the sessions of  *)
(* two users are apart, for every value of the constants.                  *)
EXTENDS Conversation, SeqFacts

-----------------------------------------------------------------------------
(* The tool servers.                                                       *)

\* What is being worked on wants an answer and has none; the exec server works
\* on the last line it read, and has answered the ones before it.
ToolInv ==
  /\ ToolTypeOK
  /\ \A p \in running : WantsAnswer(sent[p]) /\ ~AnswerIs(p)
  /\ kind = "exec" => \A p \in running : p = taken
  /\ kind = "exec" /\ ended # "cut" =>
       \A p \in 1..taken : WantsAnswer(sent[p]) => p \in running \/ AnswerIs(p)

Asked == [p \in DOMAIN sent |-> WantsAnswer(sent[p])]

LEMMA SentIndexed ==
  ASSUME ToolTypeOK
  PROVE  DOMAIN sent = 1..Len(sent) /\ Len(sent) \in Nat /\ taken \in Nat /\ taken <= Len(sent)
BY LenProperties DEF ToolTypeOK

\* Sending a line adds it, and leaves the lines before it.
LEMMA SentGrows ==
  ASSUME ToolTypeOK, NEW line \in Lines, sent' = Append(sent, line)
  PROVE  /\ sent' \in Seq(Lines) /\ Len(sent') = Len(sent) + 1
         /\ DOMAIN sent' = 1..(Len(sent) + 1)
         /\ \A p \in DOMAIN sent : sent'[p] = sent[p]
         /\ sent'[Len(sent) + 1] = line
<1>1. sent \in Seq(Lines)
  BY DEF ToolTypeOK
<1> QED BY <1>1, SentIndexed, AppendProperties, LenProperties

LEMMA AskedGrows ==
  ASSUME ToolTypeOK, NEW line \in Lines, sent' = Append(sent, line)
  PROVE  Asked' = Append(Asked, WantsAnswer(line))
<1> DEFINE n == Len(sent)
<1>1. n \in Nat /\ DOMAIN sent = 1..n
  BY SentIndexed
<1>2. Asked \in [1..n -> BOOLEAN]
  BY <1>1 DEF Asked, WantsAnswer
<1>3. Asked \in Seq(BOOLEAN) /\ Len(Asked) = n
  BY <1>1, <1>2, FunctionIsSeq
<1>4. Asked' \in [1..(n + 1) -> BOOLEAN]
  BY <1>1, SentGrows DEF Asked, WantsAnswer
<1>5. Asked' \in Seq(BOOLEAN) /\ Len(Asked') = n + 1
  BY <1>1, <1>4, FunctionIsSeq
<1>6. WantsAnswer(line) \in BOOLEAN
  BY DEF WantsAnswer
<1> DEFINE t == Append(Asked, WantsAnswer(line))
<1>7. t \in Seq(BOOLEAN) /\ Len(t) = n + 1
  BY <1>3, <1>6, AppendProperties
<1>8. ASSUME NEW i \in 1..(n + 1) PROVE Asked'[i] = t[i]
  <2>1. CASE i = n + 1
    <3>1. t[i] = WantsAnswer(line)
      BY <1>3, <1>6, <2>1, AppendProperties
    <3>2. Asked'[i] = WantsAnswer(line)
      BY <1>1, <2>1, SentGrows DEF Asked
    <3> QED BY <3>1, <3>2
  <2>2. CASE i # n + 1
    <3>1. i \in 1..n
      BY <1>1, <2>2
    <3>2. t[i] = Asked[i]
      BY <1>3, <1>6, <3>1, AppendProperties
    <3>3. Asked'[i] = Asked[i]
      BY <1>1, <3>1, SentGrows DEF Asked
    <3> QED BY <3>2, <3>3
  <2> QED BY <2>1, <2>2
<1>9. Asked' = t
  BY <1>5, <1>7, <1>8, SeqEqual
<1> QED BY <1>9

\* An answer adds its line to those that are answered, and no other.
LEMMA AnswersGrow ==
  ASSUME NEW S, answers \in Seq(S), NEW p \in S, answers' = Append(answers, p)
  PROVE  /\ answers' \in Seq(S)
         /\ \A q : AnswerIs(q)' <=> AnswerIs(q) \/ q = p
<1>1. DOMAIN answers = 1..Len(answers) /\ Len(answers) \in Nat
  BY LenProperties
<1>2. /\ answers' \in Seq(S) /\ DOMAIN answers' = 1..(Len(answers) + 1)
      /\ answers'[Len(answers) + 1] = p
      /\ \A i \in 1..Len(answers) : answers'[i] = answers[i]
  BY <1>1, AppendProperties, LenProperties
<1> QED BY <1>1, <1>2 DEF AnswerIs
\* A sequence over a set is one over a larger set.
LEMMA WiderSeq ==
  ASSUME NEW S, NEW T, S \subseteq T, NEW s \in Seq(S)
  PROVE  s \in Seq(T)
<1>1. s \in [1..Len(s) -> S] /\ Len(s) \in Nat
  BY LenProperties
<1>2. s \in [1..Len(s) -> T]
  BY <1>1
<1> QED BY <1>1, <1>2, SeqDef

LEMMA ToolInitInv == ToolInit => ToolInv
<1> SUFFICES ASSUME ToolInit PROVE ToolInv
  OBVIOUS
<1>1. sent \in Seq(Lines) /\ Len(sent) = 0 /\ answers \in Seq(1..0)
  BY EmptyIsSeq DEF ToolInit
<1>2. taken = 0 /\ running = {} /\ answers \in Seq(1..taken) /\ taken \in 0..Len(sent)
  BY <1>1 DEF ToolInit
<1>3. kind \in Kinds /\ ended \in {"loading", "no"} /\ closed \in BOOLEAN
  BY DEF ToolInit
<1>4. process \in [alive : BOOLEAN, held : BOOLEAN]
  BY DEF ToolInit, NoProcess
<1>5. Len(sent) <= MaxRequests
  BY <1>1, MaxRequestsAssumption
<1>6. ToolTypeOK
  BY <1>1, <1>2, <1>3, <1>4, <1>5 DEF ToolTypeOK
<1> QED BY <1>2, <1>6 DEF ToolInv

\* The answers stay those to lines that were read, when one more line is read.
LEMMA TakesNext ==
  ASSUME ToolTypeOK, taken < Len(sent), sent' = sent, taken' = taken + 1
  PROVE  /\ taken + 1 \in 1..Len(sent) /\ sent[taken + 1] \in Lines
         /\ 1..taken \subseteq 1..taken' /\ 1..taken' = (1..taken) \union {taken + 1}
         /\ taken' \in 0..Len(sent) /\ taken' \in 1..taken'
         /\ answers \in Seq(1..taken')
         /\ ~AnswerIs(taken + 1) /\ taken + 1 \notin running
<1>1. sent \in Seq(Lines) /\ answers \in Seq(1..taken) /\ running \subseteq 1..taken
  BY DEF ToolTypeOK
<1>2. taken + 1 \in 1..Len(sent) /\ 1..taken \subseteq 1..taken' /\ taken' \in 0..Len(sent)
      /\ taken' \in 1..taken' /\ 1..taken' = (1..taken) \union {taken + 1}
  BY SentIndexed
<1>3. sent[taken + 1] \in Lines
  BY <1>1, <1>2, LenProperties
<1>4. answers \in Seq(1..taken')
  BY <1>1, <1>2, WiderSeq
<1>5. \A i \in DOMAIN answers : answers[i] \in 1..taken
  BY <1>1, LenProperties
<1>6. taken + 1 \notin 1..taken
  BY SentIndexed
<1> QED BY <1>1, <1>2, <1>3, <1>4, <1>5, <1>6 DEF AnswerIs

\* Who only works on a command, or on how it ends, leaves the lines alone.
LEMMA LinesLeftAlone ==
  ASSUME ToolInv, ToolTypeOK', UNCHANGED <<kind, sent, taken, running, answers>>,
         ended' = "cut" \/ (ended # "cut" <=> ended' # "cut")
  PROVE  ToolInv'
BY DEF ToolInv, AnswerIs

LEMMA SendKeepsInv ==
  ASSUME ToolInv, NEW line \in Lines, Send(line)
  PROVE  ToolInv'
<1> USE DEF Send
<1>1. ToolTypeOK
  BY DEF ToolInv
<1>2. /\ sent' \in Seq(Lines) /\ Len(sent') = Len(sent) + 1
      /\ \A p \in 1..Len(sent) : sent'[p] = sent[p]
  BY <1>1, SentGrows, SentIndexed
<1>3. 1..taken \subseteq 1..Len(sent) /\ 0..Len(sent) \subseteq 0..Len(sent')
      /\ Len(sent') <= MaxRequests
  BY <1>1, <1>2, SentIndexed, MaxRequestsAssumption
<1>4. ToolTypeOK'
  BY <1>1, <1>2, <1>3 DEF ToolTypeOK
<1>5. \A p \in 1..taken : WantsAnswer(sent[p])' <=> WantsAnswer(sent[p])
  BY <1>2, <1>3 DEF WantsAnswer
<1>6. running \subseteq 1..taken
  BY <1>1 DEF ToolTypeOK
<1> QED BY <1>4, <1>5, <1>6 DEF ToolInv, AnswerIs

\* A line is read, and set to work if it wants an answer.
LEMMA ReadKeepsInv ==
  ASSUME ToolInv, taken < Len(sent), taken' = taken + 1,
         UNCHANGED <<kind, sent, closed, answers>>, ended' = ended,
         process' \in [alive : BOOLEAN, held : BOOLEAN],
         running' = running \/ running' = running \union {taken + 1},
         running' = running => ~WantsAnswer(NextLine),
         taken + 1 \in running' => WantsAnswer(NextLine),
         kind = "exec" => running = {}
  PROVE  ToolInv'
<1>1. ToolTypeOK
  BY DEF ToolInv
<1>2. /\ taken' \in 0..Len(sent) /\ answers \in Seq(1..taken')
      /\ 1..taken' = (1..taken) \union {taken + 1}
      /\ ~AnswerIs(taken + 1) /\ taken + 1 \notin running
  BY <1>1, TakesNext
<1>3. running' \subseteq 1..taken'
  BY <1>1, <1>2 DEF ToolTypeOK
<1>4. ToolTypeOK'
  BY <1>1, <1>2, <1>3 DEF ToolTypeOK
<1>5. \A p : AnswerIs(p)' <=> AnswerIs(p)
  BY DEF AnswerIs
<1>6. \A p \in running' : WantsAnswer(sent[p])' /\ ~AnswerIs(p)'
  BY <1>2, <1>5 DEF ToolInv, NextLine, WantsAnswer
<1>7. kind = "exec" => \A p \in running' : p = taken'
  BY <1>2
<1>8. ASSUME kind = "exec", ended' # "cut", NEW p \in 1..taken', WantsAnswer(sent[p])
      PROVE  p \in running' \/ AnswerIs(p)
  <2>1. CASE p = taken + 1
    BY <1>8, <2>1 DEF NextLine
  <2>2. CASE p # taken + 1
    BY <1>2, <1>8, <2>2 DEF ToolInv
  <2> QED BY <2>1, <2>2
<1>9. \A p : WantsAnswer(sent[p])' <=> WantsAnswer(sent[p])
  BY DEF WantsAnswer
<1> QED BY <1>4, <1>5, <1>6, <1>7, <1>8, <1>9 DEF ToolInv

\* A line that was set to work is answered.
LEMMA ReplyKeepsInv ==
  ASSUME ToolInv, NEW p \in running, running' = running \ {p},
         answers' = Append(answers, p),
         UNCHANGED <<kind, ended, sent, closed, taken, process>>
  PROVE  ToolInv'
<1>1. answers \in Seq(1..taken) /\ p \in 1..taken
  BY DEF ToolInv, ToolTypeOK
<1>2. answers' \in Seq(1..taken) /\ \A q : AnswerIs(q)' <=> AnswerIs(q) \/ q = p
  BY <1>1, AnswersGrow
<1>3. ToolTypeOK'
  BY <1>2 DEF ToolInv, ToolTypeOK
<1> QED BY <1>2, <1>3 DEF ToolInv, WantsAnswer

\* A line is read and answered at once.
LEMMA ReadAnswerKeepsInv ==
  ASSUME ToolInv, taken < Len(sent), taken' = taken + 1, 
         answers' = Append(answers, taken + 1),
         UNCHANGED <<kind, ended, sent, closed, running, process>>,
         kind = "exec" => running = {}
  PROVE  ToolInv'
<1>1. ToolTypeOK
  BY DEF ToolInv
<1>2. /\ taken' \in 0..Len(sent) /\ answers \in Seq(1..taken') /\ taken' \in 1..taken'
      /\ 1..taken' = (1..taken) \union {taken + 1}
      /\ ~AnswerIs(taken + 1) /\ taken + 1 \notin running
  BY <1>1, TakesNext
<1>3. answers' \in Seq(1..taken') /\ \A q : AnswerIs(q)' <=> AnswerIs(q) \/ q = taken + 1
  BY <1>2, AnswersGrow
<1>4. ToolTypeOK'
  BY <1>1, <1>2, <1>3 DEF ToolTypeOK
<1> QED BY <1>2, <1>3, <1>4 DEF ToolInv, WantsAnswer

LEMMA ToolStep == ToolInv /\ [ToolNext]_toolVars => ToolInv'
<1> SUFFICES ASSUME ToolInv, [ToolNext]_toolVars PROVE ToolInv'
  OBVIOUS
<1>0. ToolTypeOK
  BY DEF ToolInv
<1>1. ASSUME NEW line \in Lines, Send(line) PROVE ToolInv'
  BY <1>1, SendKeepsInv
<1>2. CASE CloseStdin
  <2>1. ToolTypeOK'
    BY <1>0, <1>2 DEF CloseStdin, ToolTypeOK
  <2> QED BY <1>2, <2>1, LinesLeftAlone DEF CloseStdin
<1>3. CASE ExecAnswers
  <2> USE <1>3 DEF ExecAnswers, Reads
  <2>1. CASE WantsAnswer(NextLine)
    BY <2>1, ReadAnswerKeepsInv
  <2>2. CASE ~WantsAnswer(NextLine)
    <3>1. taken + 1 \notin running'
      BY SentIndexed
    <3>2. process' \in [alive : BOOLEAN, held : BOOLEAN]
      BY <1>0 DEF ToolTypeOK
    <3> QED BY <2>2, <3>1, <3>2, ReadKeepsInv
  <2> QED BY <2>1, <2>2
<1>4. CASE ExecStarts
  <2> USE <1>4 DEF ExecStarts, Reads
  <2>1. WantsAnswer(NextLine)
    BY DEF WantsAnswer, Calls
  <2>2. process' \in [alive : BOOLEAN, held : BOOLEAN]
    BY DEF Started
  <2>3. running' = running \union {taken + 1} /\ running' # running
    OBVIOUS
  <2> QED BY <2>1, <2>2, <2>3, ReadKeepsInv
<1>5. CASE ExecOverflows
  <2> USE <1>5 DEF ExecOverflows, Reads
  <2>1. /\ taken' \in 0..Len(sent) /\ answers \in Seq(1..taken')
        /\ 1..taken \subseteq 1..taken'
    BY <1>0, TakesNext
  <2>2. ToolTypeOK'
    BY <1>0, <2>1 DEF ToolTypeOK
  <2> QED BY <2>2 DEF ToolInv, AnswerIs
<1>6. CASE CommandEnds \/ CommandTimesOut \/ ChildEnds
  <2>1. UNCHANGED <<kind, ended, sent, closed, taken, running, answers>>
        /\ process' \in [alive : BOOLEAN, held : BOOLEAN]
    BY <1>0, <1>6 DEF ToolTypeOK, CommandEnds, CommandTimesOut, ChildEnds
  <2>2. ToolTypeOK'
    BY <1>0, <2>1 DEF ToolTypeOK
  <2> QED BY <2>1, <2>2, LinesLeftAlone
<1>7. CASE ExecReplies
  <2>1. PICK p \in running : running' = running \ {p} /\ answers' = Append(answers, p)
    BY <1>7 DEF ExecReplies
  <2> QED BY <1>7, <2>1, ReplyKeepsInv DEF ExecReplies
<1>8. CASE ExecEnds \/ BridgeLoads \/ BridgeEnds \/ Signalled
  <2>1. /\ UNCHANGED <<kind, sent, closed, taken, running, process, answers>>
        /\ ended # "cut" /\ ended' \in {"no", "drained", "cut"}
    BY <1>8 DEF ExecEnds, BridgeLoads, BridgeEnds, Signalled
  <2>2. ToolTypeOK'
    BY <1>0, <2>1 DEF ToolTypeOK
  <2> QED BY <2>1, <2>2, LinesLeftAlone
<1>9. CASE BridgeReads
  <2> USE <1>9 DEF BridgeReads, Reads
  <2>1. CASE NextLine = "garbage"
    <3>1. WantsAnswer(NextLine) /\ running' = running
      BY <2>1 DEF WantsAnswer, Calls
    <3> QED BY <2>1, <3>1, ReadAnswerKeepsInv
  <2>2. CASE NextLine # "garbage"
    <3>1. NextLine \in Lines /\ taken + 1 \notin running
      BY <1>0, TakesNext DEF NextLine
    <3>2. process' \in [alive : BOOLEAN, held : BOOLEAN]
      BY <1>0 DEF ToolTypeOK
    <3>3. CASE NextLine = "notification"
      <4>1. running' = running /\ ~WantsAnswer(NextLine)
        BY <3>3 DEF WantsAnswer, Calls
      <4> QED BY <2>2, <3>1, <3>2, <4>1, ReadKeepsInv
    <3>4. CASE NextLine # "notification"
      <4>1. running' = running \union {taken + 1} /\ WantsAnswer(NextLine)
        BY <2>2, <3>1, <3>4 DEF WantsAnswer, Lines
      <4> QED BY <2>2, <3>1, <3>2, <4>1, ReadKeepsInv
    <3> QED BY <3>3, <3>4
  <2> QED BY <2>1, <2>2
<1>10. ASSUME NEW p \in 1..MaxRequests, BridgeReplies(p) PROVE ToolInv'
  BY <1>10, ReplyKeepsInv DEF BridgeReplies
<1>11. CASE UNCHANGED toolVars
  <2>1. ToolTypeOK'
    BY <1>0, <1>11 DEF ToolTypeOK, toolVars
  <2> QED BY <1>11, <2>1, LinesLeftAlone DEF toolVars
<1> QED
  BY <1>1, <1>2, <1>3, <1>4, <1>5, <1>6, <1>7, <1>8, <1>9, <1>10, <1>11
  DEF ToolNext, Exec, Bridge
(* The promise.  The lines sent are the requests asked.                    *)
Ends == IF ended = "loading" THEN "no" ELSE ended

LEMMA InitRefines == ToolInit => RR!Init
<1> SUFFICES ASSUME ToolInit PROVE RR!Init
  OBVIOUS
<1>1. (kind = "exec") \in BOOLEAN
  OBVIOUS
<1>2. DOMAIN sent = {}
  BY EmptyIsSeq DEF ToolInit
<1>3. Asked \in [1..0 -> BOOLEAN]
  BY <1>2 DEF Asked
<1>4. Asked = <<>>
  <2>1. Asked \in Seq(BOOLEAN) /\ Len(Asked) = 0
    BY <1>3, FunctionIsSeq
  <2> QED BY <2>1, EmptySeq
<1>5. [p \in DOMAIN sent |-> WantsAnswer(sent[p])] = <<>>
  BY <1>4 DEF Asked
<1>6. answers = <<>> /\ (IF ended = "loading" THEN "no" ELSE ended) = "no"
  BY DEF ToolInit
<1> QED BY <1>1, <1>5, <1>6 DEF RR!Init

\* The requests that have no answer yet.
LEMMA WaitingIs ==
  ASSUME ToolTypeOK
  PROVE  \A p : p \in RR!Waiting <=> p \in 1..Len(sent) /\ WantsAnswer(sent[p]) /\ ~AnswerIs(p)
<1>1. DOMAIN sent = 1..Len(sent)
  BY SentIndexed
<1> QED BY <1>1 DEF RR!Waiting, RR!Answered, AnswerIs

\* An answer to a line that waits for one, the first that waits if the server
\* answers in order.
LEMMA AnswerRefines ==
  ASSUME ToolTypeOK, NEW p \in 1..Len(sent), WantsAnswer(sent[p]), ~AnswerIs(p),
         kind = "exec" => \A q \in 1..(p - 1) : WantsAnswer(sent[q]) => AnswerIs(q),
         answers' = Append(answers, p), ended = "no",
         UNCHANGED <<kind, ended, sent>>
  PROVE  RR!Answer
<1>1. p \in RR!Waiting
  BY WaitingIs
<1>2. ASSUME kind = "exec", NEW q \in RR!Waiting PROVE p <= q
  <2>1. q \in 1..Len(sent) /\ WantsAnswer(sent[q]) /\ ~AnswerIs(q)
    BY WaitingIs
  <2>2. Len(sent) \in Nat
    BY SentIndexed
  <2>3. q \notin 1..(p - 1)
    BY <1>2, <2>1
  <2> QED BY <2>1, <2>2, <2>3
<1>3. UNCHANGED <<kind = "exec", [q \in DOMAIN sent |-> WantsAnswer(sent[q])],
                  IF ended = "loading" THEN "no" ELSE ended>>
  BY DEF WantsAnswer
<1>4. (IF ended = "loading" THEN "no" ELSE ended) = "no"
  OBVIOUS
<1> QED BY <1>1, <1>2, <1>3, <1>4 DEF RR!Answer

\* What is seen of a server that neither is sent a line nor answers one.
LEMMA SilentStep ==
  ASSUME UNCHANGED <<kind, sent, answers>>
  PROVE  UNCHANGED <<kind = "exec", [p \in DOMAIN sent |-> WantsAnswer(sent[p])], answers>>
BY DEF WantsAnswer

LEMMA StutterRefines ==
  ASSUME UNCHANGED <<kind, sent, answers>>, Ends' = Ends
  PROVE  UNCHANGED RR!vars
BY SilentStep DEF RR!vars, Ends

LEMMA CutRefines ==
  ASSUME UNCHANGED <<kind, sent, answers>>, Ends = "no", ended' = "cut"
  PROVE  RR!Cut
BY SilentStep DEF RR!Cut, Ends

LEMMA StepRefines == ToolInv /\ [ToolNext]_toolVars => [RR!Next]_(RR!vars)
<1> SUFFICES ASSUME ToolInv, [ToolNext]_toolVars PROVE [RR!Next]_(RR!vars)
  OBVIOUS
<1>0. ToolTypeOK
  BY DEF ToolInv
<1>1. ASSUME NEW line \in Lines, Send(line) PROVE RR!Ask
  <2>1. Asked' = Append(Asked, WantsAnswer(line))
    BY <1>0, <1>1, AskedGrows DEF Send
  <2>2. [p \in DOMAIN sent |-> WantsAnswer(sent[p])]'
          = Append([p \in DOMAIN sent |-> WantsAnswer(sent[p])], WantsAnswer(line))
    BY <2>1 DEF Asked
  <2>3. WantsAnswer(line) \in BOOLEAN
    BY DEF WantsAnswer
  <2>4. (IF ended = "loading" THEN "no" ELSE ended) = "no"
    BY <1>1 DEF Send
  <2>5. UNCHANGED <<kind = "exec", answers, IF ended = "loading" THEN "no" ELSE ended>>
    BY <1>1 DEF Send
  <2> QED BY <2>2, <2>3, <2>4, <2>5 DEF RR!Ask
<1>2. CASE CloseStdin \/ CommandEnds \/ CommandTimesOut \/ ChildEnds \/ ExecStarts \/ BridgeLoads
  BY <1>2, StutterRefines
  DEF CloseStdin, CommandEnds, CommandTimesOut, ChildEnds, ExecStarts, BridgeLoads, Ends
<1>3. CASE ExecAnswers
  <2> USE <1>3 DEF ExecAnswers, Reads
  <2>1. CASE WantsAnswer(NextLine)
    <3>1. taken + 1 \in 1..Len(sent) /\ ~AnswerIs(taken + 1) /\ (taken + 1) - 1 = taken
      BY <1>0, SentIndexed, TakesNext
    <3>2. \A q \in 1..taken : WantsAnswer(sent[q]) => AnswerIs(q)
      BY DEF ToolInv
    <3>3. RR!Answer
      BY <1>0, <2>1, <3>1, <3>2, AnswerRefines DEF NextLine
    <3> QED BY <3>3 DEF RR!Next
  <2>2. CASE ~WantsAnswer(NextLine)
    BY <2>2, StutterRefines DEF Ends
  <2> QED BY <2>1, <2>2
<1>4. CASE ExecReplies
  <2>1. PICK p \in running : running' = running \ {p} /\ answers' = Append(answers, p)
    BY <1>4 DEF ExecReplies
  <2>2. p \in 1..Len(sent) /\ p = taken /\ p \in Nat
    BY <1>0, <1>4, SentIndexed DEF ExecReplies, ToolInv, ToolTypeOK
  <2>3. WantsAnswer(sent[p]) /\ ~AnswerIs(p)
    BY DEF ToolInv
  <2>4. ASSUME NEW q \in 1..(p - 1), WantsAnswer(sent[q]) PROVE AnswerIs(q)
    <3>1. q \in 1..taken /\ q # taken
      BY <2>2
    <3>2. q \in running \/ AnswerIs(q)
      BY <1>4, <2>4, <3>1 DEF ExecReplies, ToolInv
    <3>3. q \notin running
      BY <1>4, <3>1 DEF ExecReplies, ToolInv
    <3> QED BY <3>2, <3>3
  <2>5. RR!Answer
    BY <1>0, <1>4, <2>1, <2>2, <2>3, <2>4, AnswerRefines DEF ExecReplies
  <2> QED BY <2>5 DEF RR!Next
<1>5. CASE ExecEnds
  <2> USE <1>5 DEF ExecEnds
  <2>1. RR!Waiting = {}
    BY <1>0, WaitingIs DEF ToolInv
  <2>2. RR!Drain
    BY <2>1, SilentStep DEF RR!Drain
  <2> QED BY <2>2 DEF RR!Next
<1>6. CASE ExecOverflows \/ BridgeEnds \/ Signalled
  <2>1. RR!Cut
    BY <1>6, CutRefines DEF ExecOverflows, Reads, BridgeEnds, Signalled, Ends
  <2> QED BY <2>1 DEF RR!Next
<1>7. CASE BridgeReads
  <2> USE <1>7 DEF BridgeReads, Reads
  <2>1. CASE NextLine = "garbage"
    <3>1. taken + 1 \in 1..Len(sent) /\ ~AnswerIs(taken + 1)
      BY <1>0, TakesNext
    <3>2. RR!Answer
      BY <1>0, <2>1, <3>1, AnswerRefines DEF NextLine, WantsAnswer
    <3> QED BY <3>2 DEF RR!Next
  <2>2. CASE NextLine # "garbage"
    BY <2>2, StutterRefines DEF Ends
  <2> QED BY <2>1, <2>2
<1>8. ASSUME NEW p \in 1..MaxRequests, BridgeReplies(p) PROVE RR!Answer
  <2>1. p \in 1..Len(sent) /\ WantsAnswer(sent[p]) /\ ~AnswerIs(p)
    BY <1>0, <1>8, SentIndexed DEF BridgeReplies, ToolInv, ToolTypeOK
  <2> QED BY <1>0, <1>8, <2>1, AnswerRefines DEF BridgeReplies
<1>9. CASE UNCHANGED toolVars
  BY <1>9, StutterRefines DEF toolVars, Ends
<1> QED
  BY <1>1, <1>2, <1>3, <1>4, <1>5, <1>6, <1>7, <1>8, <1>9
  DEF ToolNext, Exec, Bridge, RR!Next

-----------------------------------------------------------------------------
(* The servers within the conversation.                                    *)
LEMMA ToolsWithin ==
  ASSUME setup \in Setups, [Next]_vars
  PROVE  setup' = setup /\ [ToolNext]_toolVars
<1>1. setup.calls \subseteq Lines /\ setup.lines \subseteq Lines
  BY SetupsAssumption
<1>2. ASSUME NEW m \in Messages, Bot(m) PROVE setup' = setup /\ UNCHANGED toolVars
  BY <1>2 DEF Bot
<1>3. ASSUME NEW s \in SessionIDs, CallTool(s) PROVE setup' = setup /\ ToolNext
  BY <1>1, <1>3 DEF CallTool, ToolNext
<1>4. ASSUME NEW s \in SessionIDs, OpenCodeResponds(s)
      PROVE  setup' = setup /\ UNCHANGED toolVars
  BY <1>4 DEF OpenCodeResponds
<1>5. CASE Server
  BY <1>5 DEF Server, ToolNext
<1>6. CASE Client
  BY <1>1, <1>6 DEF Client, ToolNext
<1>7. CASE Telegram
  BY <1>7 DEF Telegram
<1>8. CASE Faults
  BY <1>8 DEF Faults, ToolNext
<1>9. CASE ChildEnds /\ UNCHANGED <<setup, calls, mishaps, botVars>>
  BY <1>9 DEF ToolNext
<1>10. CASE UNCHANGED vars
  BY <1>10 DEF vars
<1> QED BY <1>2, <1>3, <1>4, <1>5, <1>6, <1>7, <1>8, <1>9, <1>10 DEF Next

LEMMA ToolInvariant == Spec => [](setup \in Setups /\ ToolInv)
<1>1. Init => setup \in Setups /\ ToolInv
  BY ToolInitInv DEF Init
<1>2. (setup \in Setups /\ ToolInv) /\ [Next]_vars => (setup \in Setups /\ ToolInv)'
  BY ToolsWithin, ToolStep
<1> QED BY <1>1, <1>2, PTL DEF Spec

(* Whatever OpenCode, a client, commands, their children and signals do, a *)
(* server seen from its stdin and stdout keeps the promise: no answer      *)
(* twice, none to a notification, the exec server's in order, and none     *)
(* missing when its stdin has ended (main.go:503-539,                      *)
(* tool-bridge.ts:357-399).                                                *)
THEOREM ServersKeepPromise == Spec => ImplementsRequestReply
<1>1. Init => RR!Init
  BY InitRefines DEF Init
<1>2. (setup \in Setups /\ ToolInv) /\ [Next]_vars => [RR!Next]_(RR!vars)
  BY ToolsWithin, StepRefines
<1> QED BY <1>1, <1>2, ToolInvariant, PTL DEF Spec, ImplementsRequestReply, RR!Spec
-----------------------------------------------------------------------------
(* The sessions.                                                           *)

\* A message that was posted has its session, and keeps it.
Posted == {"wait", "reply", "replied", "silent", "lost"}

\* The session is the user's: the bot remembers it, or works on a message of
\* the user in it.
Owns(u, s) == sessions[u] = s \/ \E m \in Messages : Sender[m] = u /\ Session(m) = s

OneOwner ==
  \A s \in SessionIDs : \A u, v \in Users : Owns(u, s) /\ Owns(v, s) => u = v

OwnedExist == \A s \in SessionIDs : \A u \in Users : Owns(u, s) => s <= created

QueuedInOwn ==
  \A s \in SessionIDs : \A m \in Messages :
    In(m, prompts[s]) => Session(m) = s /\ updates[m].pc \in Posted

SessionInv == BotTypeOK /\ OneOwner /\ OwnedExist /\ QueuedInOwn

LEMMA InAppend ==
  ASSUME NEW q \in Seq(Messages), NEW m \in Messages
  PROVE  /\ Append(q, m) \in Seq(Messages)
         /\ \A n : In(n, Append(q, m)) <=> In(n, q) \/ n = m
<1>1. DOMAIN q = 1..Len(q) /\ Len(q) \in Nat
  BY LenProperties
<1>2. /\ Append(q, m) \in Seq(Messages) /\ DOMAIN Append(q, m) = 1..(Len(q) + 1)
      /\ Append(q, m)[Len(q) + 1] = m
      /\ \A i \in 1..Len(q) : Append(q, m)[i] = q[i]
  BY <1>1, AppendProperties, LenProperties
<1> QED BY <1>1, <1>2 DEF In

LEMMA InTail ==
  ASSUME NEW q \in Seq(Messages), q # <<>>
  PROVE  /\ Tail(q) \in Seq(Messages) /\ Head(q) \in Messages /\ In(Head(q), q)
         /\ \A n : In(n, Tail(q)) => In(n, q)
<1>1. /\ Head(q) = q[1] /\ Head(q) \in Messages /\ Tail(q) \in Seq(Messages)
      /\ Len(Tail(q)) = Len(q) - 1
      /\ \A i \in 1..Len(Tail(q)) : Tail(q)[i] = q[i + 1]
  BY HeadTailProperties
<1>2. DOMAIN q = 1..Len(q) /\ Len(q) \in Nat /\ Len(q) # 0
  BY LenProperties, EmptySeq
<1>3. DOMAIN Tail(q) = 1..Len(Tail(q))
  BY <1>1, LenProperties
<1> QED BY <1>1, <1>2, <1>3 DEF In

LEMMA InNothing == \A n : ~In(n, <<>>)
BY EmptyIsSeq DEF In

LEMMA SessionsAreNumbers ==
  ASSUME BotTypeOK
  PROVE  /\ SessionIDs \subseteq Nat /\ created \in Nat /\ NoSession \notin SessionIDs
         /\ known \subseteq SessionIDs /\ \A m \in Messages : Sender[m] \in Users
BY MaxSessionsAssumption, NoSessionAssumption DEF SessionIDs, BotTypeOK, Users

LEMMA SessionInitInv == BotInit => SessionInv
<1> SUFFICES ASSUME BotInit PROVE SessionInv
  OBVIOUS
<1>1. updates \in [Messages -> [pc : Steps, session : SessionIDs \union {NoSession}]]
  BY DEF BotInit, Steps
<1>2. sessions \in [Users -> SessionIDs \union {NoSession}]
  BY DEF BotInit
<1>3. prompts \in [SessionIDs -> Seq(Messages)]
  BY EmptyIsSeq DEF BotInit
<1>4. created \in 0..MaxSessions /\ known \subseteq 1..created
  BY MaxSessionsAssumption DEF BotInit
<1>5. BotTypeOK
  BY <1>1, <1>2, <1>3, <1>4 DEF BotTypeOK
<1>6. \A u \in Users : \A s \in SessionIDs : ~Owns(u, s)
  BY <1>5, SessionsAreNumbers DEF Owns, Session, BotInit
<1>7. QueuedInOwn
  BY InNothing DEF QueuedInOwn, BotInit
<1> QED BY <1>5, <1>6, <1>7 DEF SessionInv, OneOwner, OwnedExist

\* A step that takes messages further leaves them their sessions.
LEMMA StepOnKeepsInv ==
  ASSUME SessionInv,
         updates' \in [Messages -> [pc : Steps, session : SessionIDs \union {NoSession}]],
         \A n \in Messages : Session(n)' = Session(n),
         \A n \in Messages : updates[n].pc \in Posted => updates'[n].pc \in Posted,
         sessions' = sessions \/ sessions' = [u \in Users |-> NoSession],
         prompts' \in [SessionIDs -> Seq(Messages)],
         \A s \in SessionIDs : \A n \in Messages :
           In(n, prompts'[s]) =>
             In(n, prompts[s]) \/ (Session(n) = s /\ updates'[n].pc \in Posted),
         created' = created, known' \subseteq known
  PROVE  SessionInv'
<1>1. sessions' \in [Users -> SessionIDs \union {NoSession}]
  BY DEF SessionInv, BotTypeOK
<1>2. created' \in 0..MaxSessions /\ known' \subseteq 1..created'
  BY DEF SessionInv, BotTypeOK
<1>3. BotTypeOK'
  BY <1>1, <1>2 DEF BotTypeOK, Steps, SessionIDs, Users
<1>4. \A s \in SessionIDs : \A u \in Users : Owns(u, s)' => Owns(u, s)
  BY SessionsAreNumbers DEF Owns, SessionInv
<1>5. QueuedInOwn'
  BY DEF QueuedInOwn, SessionInv
<1> QED BY <1>3, <1>4, <1>5 DEF SessionInv, OneOwner, OwnedExist

\* Most steps move one message on.
LEMMA GotoKeepsInv ==
  ASSUME SessionInv, NEW m \in Messages, NEW pc \in Steps,
         updates' = [updates EXCEPT ![m].pc = pc],
         updates[m].pc \in Posted => pc \in Posted,
         UNCHANGED <<sessions, prompts, created, known>>
  PROVE  SessionInv'
<1>1. /\ updates' \in [Messages -> [pc : Steps, session : SessionIDs \union {NoSession}]]
      /\ \A n \in Messages : Session(n)' = Session(n)
      /\ \A n \in Messages : updates[n].pc \in Posted => updates'[n].pc \in Posted
  BY DEF SessionInv, BotTypeOK, Session
<1>2. prompts' \in [SessionIDs -> Seq(Messages)] /\ known' \subseteq known
  BY DEF SessionInv, BotTypeOK
<1> QED BY <1>1, <1>2, StepOnKeepsInv

LEMMA LookupKeepsInv ==
  ASSUME SessionInv, NEW m \in Messages, LookupSession(m)
  PROVE  SessionInv'
<1> DEFINE t == sessions[Sender[m]]
           to == IF t = NoSession THEN "create" ELSE "status"
<1>0. BotTypeOK /\ Sender[m] \in Users
  BY SessionsAreNumbers DEF SessionInv
<1>1. updates' = [updates EXCEPT ![m] = [pc |-> to, session |-> t]]
      /\ UNCHANGED <<sessions, prompts, created, known>> /\ updates[m].pc = "lookup"
  BY DEF LookupSession
<1>2. t \in SessionIDs \union {NoSession} /\ to \in Steps
  BY <1>0 DEF BotTypeOK, Steps
<1> HIDE DEF t, to
<1>3. BotTypeOK'
  BY <1>0, <1>1, <1>2 DEF BotTypeOK, Steps, SessionIDs, Users
<1>4. /\ \A n \in Messages \ {m} : updates'[n] = updates[n]
      /\ Session(m)' = t
  BY <1>0, <1>1, <1>2 DEF BotTypeOK, Session
<1>5. ASSUME NEW s \in SessionIDs, NEW u \in Users, Owns(u, s)' PROVE Owns(u, s)
  BY <1>1, <1>4, <1>5 DEF Owns, Session, t
<1>6. QueuedInOwn'
  BY <1>1, <1>4 DEF QueuedInOwn, SessionInv, Session, Posted
<1> QED BY <1>1, <1>3, <1>5, <1>6 DEF SessionInv, OneOwner, OwnedExist

LEMMA CreateKeepsInv ==
  ASSUME SessionInv, NEW m \in Messages, CreateSession(m)
  PROVE  SessionInv'
<1> DEFINE t == created + 1
<1>0. BotTypeOK /\ created \in Nat /\ SessionIDs \subseteq Nat /\ Sender[m] \in Users
  BY SessionsAreNumbers DEF SessionInv
<1>1. /\ updates' = [updates EXCEPT ![m] = [pc |-> "store", session |-> t]]
      /\ updates[m].pc = "create" /\ created < MaxSessions
      /\ created' = t /\ known' = known \union {t} /\ UNCHANGED <<sessions, prompts>>
  BY DEF CreateSession
<1>2. t \in SessionIDs /\ t \in 0..MaxSessions /\ known' \subseteq 1..t /\ created < t
  BY <1>0, <1>1, MaxSessionsAssumption DEF BotTypeOK, SessionIDs
<1> HIDE DEF t
<1>3. updates' \in [Messages -> [pc : Steps, session : SessionIDs \union {NoSession}]]
  BY <1>0, <1>1, <1>2 DEF BotTypeOK, Steps
<1>4. BotTypeOK'
  BY <1>0, <1>1, <1>2, <1>3 DEF BotTypeOK, Steps, SessionIDs, Users
<1>5. (\A n \in Messages \ {m} : updates'[n] = updates[n]) /\ Session(m)' = t
  BY <1>0, <1>1 DEF BotTypeOK, Session
<1>6. ASSUME NEW s \in SessionIDs, NEW u \in Users, Owns(u, s)'
      PROVE  (s = t /\ u = Sender[m]) \/ Owns(u, s)
  BY <1>1, <1>5, <1>6 DEF Owns, Session
<1>7. \A u \in Users : ~Owns(u, t)
  BY <1>0, <1>2 DEF SessionInv, OwnedExist
<1>8. OwnedExist'
  <2> SUFFICES ASSUME NEW s \in SessionIDs, NEW u \in Users, Owns(u, s)' PROVE s <= t
    BY <1>1 DEF OwnedExist
  <2>1. s \in Nat /\ t \in Nat
    BY <1>0, <1>2
  <2>2. CASE Owns(u, s)
    <3>1. s <= created
      BY <2>2 DEF SessionInv, OwnedExist
    <3> QED BY <1>0, <1>2, <2>1, <3>1
  <2> QED BY <1>6, <2>1, <2>2
<1>9. OneOwner'
  BY <1>6, <1>7 DEF SessionInv, OneOwner
<1>10. QueuedInOwn'
  BY <1>1, <1>5 DEF QueuedInOwn, SessionInv, Session, Posted
<1> QED BY <1>4, <1>8, <1>9, <1>10 DEF SessionInv

LEMMA StoreKeepsInv ==
  ASSUME SessionInv, NEW m \in Messages, StoreSession(m)
  PROVE  SessionInv'
<1> DEFINE u0 == Sender[m]
<1>0. BotTypeOK /\ u0 \in Users
  BY SessionsAreNumbers DEF SessionInv
<1>1. /\ updates' = [updates EXCEPT ![m].pc = "status"] /\ updates[m].pc = "store"
      /\ sessions' = [sessions EXCEPT ![u0] = Session(m)]
      /\ UNCHANGED <<prompts, created, known>>
  BY DEF StoreSession, Goto
<1>2. /\ updates' \in [Messages -> [pc : Steps, session : SessionIDs \union {NoSession}]]
      /\ \A n \in Messages : Session(n)' = Session(n)
      /\ \A n \in Messages : updates[n].pc \in Posted => updates'[n].pc \in Posted
  BY <1>0, <1>1 DEF BotTypeOK, Session, Steps, Posted
<1>3. Session(m) \in SessionIDs \union {NoSession}
  BY <1>0 DEF BotTypeOK, Session
<1> HIDE DEF u0
<1>4. /\ sessions' \in [Users -> SessionIDs \union {NoSession}]
      /\ sessions'[u0] = Session(m) /\ \A u \in Users \ {u0} : sessions'[u] = sessions[u]
  BY <1>0, <1>1, <1>3 DEF BotTypeOK
<1>5. BotTypeOK'
  BY <1>0, <1>1, <1>2, <1>4 DEF BotTypeOK, Steps, SessionIDs, Users
<1>6. ASSUME NEW s \in SessionIDs, NEW u \in Users, Owns(u, s)' PROVE Owns(u, s)
  BY <1>2, <1>4, <1>6 DEF Owns, u0
<1>7. QueuedInOwn'
  BY <1>1, <1>2 DEF QueuedInOwn, SessionInv
<1> QED BY <1>1, <1>5, <1>6, <1>7 DEF SessionInv, OneOwner, OwnedExist
LEMMA AbortKeepsInv ==
  ASSUME SessionInv, NEW m \in Messages, Abort(m)
  PROVE  SessionInv'
<1> DEFINE t == Session(m)
           up(n) == CASE n = m -> [updates[n] EXCEPT !.pc = "post"]
                      [] In(n, prompts[t]) /\ updates[n].pc = "wait"
                           -> [updates[n] EXCEPT !.pc = "reply"]
                      [] OTHER -> updates[n]
<1>0. BotTypeOK
  BY DEF SessionInv
<1>1. /\ updates' = [n \in Messages |-> up(n)] /\ updates[m].pc = "abort"
      /\ prompts' = [prompts EXCEPT ![t] = <<>>]
      /\ UNCHANGED <<sessions, created, known>>
  BY DEF Abort
<1>2. ASSUME NEW n \in Messages
      PROVE  /\ up(n) \in [pc : Steps, session : SessionIDs \union {NoSession}]
             /\ up(n).session = updates[n].session
             /\ updates[n].pc \in Posted => up(n).pc \in Posted
  <2>1. updates[n] \in [pc : Steps, session : SessionIDs \union {NoSession}]
    BY <1>0 DEF BotTypeOK
  <2>2. CASE n = m
    BY <1>1, <2>1, <2>2 DEF Steps, Posted
  <2>3. CASE n # m /\ In(n, prompts[t]) /\ updates[n].pc = "wait"
    <3>1. up(n) = [updates[n] EXCEPT !.pc = "reply"]
      BY <2>3
    <3> QED BY <2>1, <2>3, <3>1 DEF Steps, Posted
  <2>4. CASE n # m /\ ~(In(n, prompts[t]) /\ updates[n].pc = "wait")
    <3>1. up(n) = updates[n]
      BY <2>4
    <3> QED BY <2>1, <3>1
  <2> QED BY <2>2, <2>3, <2>4
<1>3. /\ updates' \in [Messages -> [pc : Steps, session : SessionIDs \union {NoSession}]]
      /\ \A n \in Messages : Session(n)' = Session(n)
      /\ \A n \in Messages : updates[n].pc \in Posted => updates'[n].pc \in Posted
  BY <1>1, <1>2 DEF Session
<1>4. prompts' \in [SessionIDs -> Seq(Messages)]
  BY <1>0, <1>1, EmptyIsSeq DEF BotTypeOK
<1>5. \A s \in SessionIDs : \A n \in Messages : In(n, prompts'[s]) => In(n, prompts[s])
  BY <1>0, <1>1, InNothing DEF BotTypeOK
<1> QED BY <1>1, <1>3, <1>4, <1>5, StepOnKeepsInv

LEMMA PostKeepsInv ==
  ASSUME SessionInv, NEW m \in Messages, Post(m)
  PROVE  SessionInv'
<1> DEFINE t == Session(m)
<1>0. BotTypeOK /\ known \subseteq SessionIDs
  BY SessionsAreNumbers DEF SessionInv
<1>1. CASE Goto(m, "reply") /\ UNCHANGED prompts
  <2>1. "reply" \in Steps /\ "reply" \in Posted
    BY DEF Steps, Posted
  <2> QED BY <1>1, <2>1, GotoKeepsInv DEF Post, Goto
<1>2. CASE /\ t \in known /\ prompts' = [prompts EXCEPT ![t] = Append(@, m)]
           /\ Goto(m, "wait")
  <2>1. t \in SessionIDs /\ UNCHANGED <<sessions, created, known>>
    BY <1>0, <1>2 DEF Post
  <2>2. /\ updates' \in [Messages -> [pc : Steps, session : SessionIDs \union {NoSession}]]
        /\ \A n \in Messages : Session(n)' = Session(n)
        /\ \A n \in Messages : updates[n].pc \in Posted => updates'[n].pc \in Posted
        /\ updates'[m].pc \in Posted
    BY <1>0, <1>2 DEF BotTypeOK, Session, Goto, Steps, Posted
  <2>3. prompts[t] \in Seq(Messages)
    BY <1>0, <2>1 DEF BotTypeOK
  <2>4. prompts' \in [SessionIDs -> Seq(Messages)]
    BY <1>0, <1>2, <2>3, InAppend DEF BotTypeOK
  <2>5. ASSUME NEW s \in SessionIDs, NEW n \in Messages, In(n, prompts'[s])
        PROVE  In(n, prompts[s]) \/ (Session(n) = s /\ updates'[n].pc \in Posted)
    <3>1. CASE s = t
      <4>1. prompts'[s] = Append(prompts[t], m)
        BY <1>0, <1>2, <2>1, <3>1 DEF BotTypeOK
      <4>2. In(n, prompts[t]) \/ n = m
        BY <2>3, <2>5, <4>1, InAppend
      <4> QED BY <2>2, <3>1, <4>2
    <3>2. CASE s # t
      BY <1>0, <1>2, <2>5, <3>2 DEF BotTypeOK
    <3> QED BY <3>1, <3>2
  <2> QED BY <2>1, <2>2, <2>4, <2>5, StepOnKeepsInv
<1> QED BY <1>1, <1>2 DEF Post

LEMMA RespondKeepsInv ==
  ASSUME SessionInv, NEW t \in SessionIDs, Respond(t)
  PROVE  SessionInv'
<1> DEFINE m == Head(prompts[t])
           to == IF updates[m].pc = "wait" THEN "reply" ELSE updates[m].pc
<1>0. BotTypeOK
  BY DEF SessionInv
<1>1. /\ prompts' = [prompts EXCEPT ![t] = Tail(@)] /\ prompts[t] # <<>>
      /\ updates' = [updates EXCEPT ![m].pc = to]
      /\ UNCHANGED <<sessions, created, known>>
  BY DEF Respond, Busy
<1>2. prompts[t] \in Seq(Messages)
  BY <1>0 DEF BotTypeOK
<1>3. m \in Messages /\ Tail(prompts[t]) \in Seq(Messages)
      /\ \A n : In(n, Tail(prompts[t])) => In(n, prompts[t])
  BY <1>1, <1>2, InTail
<1>4. to \in Steps /\ (updates[m].pc \in Posted => to \in Posted)
  BY <1>0, <1>3 DEF BotTypeOK, Steps, Posted
<1> HIDE DEF m, to
<1>5. /\ updates' \in [Messages -> [pc : Steps, session : SessionIDs \union {NoSession}]]
      /\ \A n \in Messages : Session(n)' = Session(n)
      /\ \A n \in Messages : updates[n].pc \in Posted => updates'[n].pc \in Posted
  BY <1>0, <1>1, <1>3, <1>4 DEF BotTypeOK, Session
<1>6. prompts' \in [SessionIDs -> Seq(Messages)]
  BY <1>0, <1>1, <1>3 DEF BotTypeOK
<1>7. \A s \in SessionIDs : \A n \in Messages : In(n, prompts'[s]) => In(n, prompts[s])
  BY <1>0, <1>1, <1>3 DEF BotTypeOK
<1> QED BY <1>1, <1>5, <1>6, <1>7, StepOnKeepsInv

LEMMA RestartKeepsInv ==
  ASSUME SessionInv, BotRestarts \/ OpenCodeRestarts \/ ForgetSessions
  PROVE  SessionInv'
<1>0. BotTypeOK
  BY DEF SessionInv
<1>1. /\ updates' \in [Messages -> [pc : Steps, session : SessionIDs \union {NoSession}]]
      /\ \A n \in Messages : Session(n)' = Session(n)
      /\ \A n \in Messages : updates[n].pc \in Posted => updates'[n].pc \in Posted
  <2>1. ASSUME NEW n \in Messages
        PROVE  \/ updates'[n] = updates[n]
               \/ updates'[n] = [updates[n] EXCEPT !.pc = "lost"]
               \/ updates'[n] = [updates[n] EXCEPT !.pc = "reply"]
    BY DEF BotRestarts, OpenCodeRestarts, ForgetSessions
  <2>2. ASSUME NEW n \in Messages
        PROVE  /\ updates'[n] \in [pc : Steps, session : SessionIDs \union {NoSession}]
               /\ Session(n)' = Session(n)
               /\ updates[n].pc \in Posted => updates'[n].pc \in Posted
    <3>1. updates[n] \in [pc : Steps, session : SessionIDs \union {NoSession}]
      BY <1>0 DEF BotTypeOK
    <3> QED BY <2>1, <3>1 DEF Session, Steps, Posted
  <2>3. CASE ForgetSessions
    BY <1>0, <2>3 DEF BotTypeOK, ForgetSessions, Session
  <2>4. CASE BotRestarts \/ OpenCodeRestarts
    <3>1. updates' = [n \in Messages |-> updates'[n]]
      BY <2>4 DEF BotRestarts, OpenCodeRestarts
    <3> QED BY <2>2, <3>1
  <2> QED BY <2>3, <2>4
<1>2. sessions' = sessions \/ sessions' = [u \in Users |-> NoSession]
  BY DEF BotRestarts, OpenCodeRestarts, ForgetSessions
<1>3. /\ prompts' \in [SessionIDs -> Seq(Messages)]
      /\ \A s \in SessionIDs : \A n \in Messages : In(n, prompts'[s]) => In(n, prompts[s])
  <2>1. CASE OpenCodeRestarts
    BY <2>1, EmptyIsSeq, InNothing DEF OpenCodeRestarts
  <2>2. CASE BotRestarts \/ ForgetSessions
    BY <1>0, <2>2 DEF BotTypeOK, BotRestarts, ForgetSessions
  <2> QED BY <2>1, <2>2
<1>4. created' = created /\ known' \subseteq known
  BY DEF BotRestarts, OpenCodeRestarts, ForgetSessions
<1> QED BY <1>1, <1>2, <1>3, <1>4, StepOnKeepsInv

LEMMA GoroutineKeepsInv ==
  ASSUME SessionInv, NEW m \in Messages,
         Goroutine(m) \/ HandleWebhook(m) \/ ReplyRefused(m)
  PROVE  SessionInv'
<1>1. CASE CheckUser(m) \/ GetStatus(m) \/ ClientTimesOut(m) \/ Reply(m)
           \/ HandleWebhook(m) \/ ReplyRefused(m)
  <2>1. PICK pc \in Steps : Goto(m, pc) /\ (updates[m].pc \in Posted => pc \in Posted)
    BY <1>1 DEF CheckUser, GetStatus, ClientTimesOut, Reply, HandleWebhook, ReplyRefused,
                Steps, Posted
  <2>2. UNCHANGED <<sessions, prompts, created, known>>
    BY <1>1 DEF CheckUser, GetStatus, ClientTimesOut, Reply, HandleWebhook, ReplyRefused
  <2> QED BY <2>1, <2>2, GotoKeepsInv DEF Goto
<1> QED BY <1>1, LookupKeepsInv, CreateKeepsInv, StoreKeepsInv, AbortKeepsInv, PostKeepsInv
        DEF Goroutine

LEMMA SessionStep ==
  ASSUME SessionInv, setup \in Setups, [Next]_vars
  PROVE  SessionInv'
<1>1. ASSUME NEW m \in Messages, Bot(m) PROVE SessionInv'
  BY <1>1, GoroutineKeepsInv DEF Bot
<1>2. ASSUME NEW s \in SessionIDs, OpenCodeResponds(s) PROVE SessionInv'
  BY <1>2, RespondKeepsInv DEF OpenCodeResponds
<1>3. CASE Telegram
  <2>1. setup.messages \subseteq Messages
    BY SetupsAssumption
  <2> QED BY <1>3, <2>1, GoroutineKeepsInv DEF Telegram
<1>4. ASSUME UNCHANGED botVars PROVE SessionInv'
  BY <1>4 DEF botVars, SessionInv, BotTypeOK, OneOwner, OwnedExist, QueuedInOwn,
              Owns, Session, In, Steps, SessionIDs, Users
<1>5. CASE Faults
  <2>1. CASE UNCHANGED botVars
    BY <1>4, <2>1
  <2>2. CASE BotRestarts \/ OpenCodeRestarts \/ ForgetSessions
    BY <2>2, RestartKeepsInv
  <2>3. CASE \E m \in Messages : ReplyRefused(m)
    BY <2>3, GoroutineKeepsInv
  <2> QED BY <1>5, <2>1, <2>2, <2>3 DEF Faults
<1>6. ASSUME NEW s \in SessionIDs, CallTool(s) PROVE UNCHANGED botVars
  BY <1>6 DEF CallTool
<1>7. CASE Server \/ Client \/ (ChildEnds /\ UNCHANGED <<setup, calls, mishaps, botVars>>)
           \/ UNCHANGED vars
  BY <1>4, <1>7 DEF Server, Client, vars
<1> QED BY <1>1, <1>2, <1>3, <1>4, <1>5, <1>6, <1>7 DEF Next

LEMMA SessionInvariant == Spec => []SessionInv
<1>1. Init => SessionInv
  BY SessionInitInv DEF Init
<1>2. SessionInv /\ (setup \in Setups /\ ToolInv) /\ [Next]_vars => SessionInv'
  BY SessionStep
<1> QED BY <1>1, <1>2, ToolInvariant, PTL DEF Spec

(* Users are kept apart, however many messages come at once and whoever    *)
(* restarts: what a session works on, and who works in it, is one user's   *)
(* (opencode.go:75-96, 175-188).                                           *)
THEOREM UsersKeptApart == Spec => []SessionsAreApart
<1>1. SessionInv => SessionsAreApart
  <2> SUFFICES ASSUME SessionInv PROVE SessionsAreApart
    OBVIOUS
  <2>0. BotTypeOK /\ \A m \in Messages : Sender[m] \in Users
    BY SessionsAreNumbers DEF SessionInv
  <2>1. ASSUME NEW m \in Messages, NEW n \in Messages, NEW s \in SessionIDs,
               Session(m) = s, Session(n) = s
        PROVE  Sender[m] = Sender[n]
    <3>1. Owns(Sender[m], s) /\ Owns(Sender[n], s)
      BY <2>1 DEF Owns
    <3> QED BY <2>0, <3>1 DEF SessionInv, OneOwner
  <2>2. ASSUME NEW m \in Messages, NEW n \in Messages,
               Session(m) # NoSession, Session(m) = Session(n)
        PROVE  Sender[m] = Sender[n]
    <3>1. Session(m) \in SessionIDs
      BY <2>0, <2>2 DEF BotTypeOK, Session
    <3> QED BY <2>1, <2>2, <3>1
  <2>3. ASSUME NEW s \in SessionIDs, NEW i \in DOMAIN prompts[s], NEW j \in DOMAIN prompts[s]
        PROVE  Sender[prompts[s][i]] = Sender[prompts[s][j]]
    <3>1. prompts[s] \in Seq(Messages)
      BY <2>0 DEF BotTypeOK
    <3>2. prompts[s][i] \in Messages /\ prompts[s][j] \in Messages
      BY <3>1, LenProperties
    <3>3. Session(prompts[s][i]) = s /\ Session(prompts[s][j]) = s
      BY <3>2 DEF SessionInv, QueuedInOwn, In
    <3> QED BY <2>1, <3>2, <3>3
  <2> QED BY <2>2, <2>3 DEF SessionsAreApart
<1> QED BY <1>1, SessionInvariant, PTL
-----------------------------------------------------------------------------
(* The rest of the state: calls are lines that were sent.                  *)
RestTypeOK == mishaps \in 0..setup.mishaps /\ calls \in [Messages -> 0..Len(sent)]

LEMMA SentNeverShrinks ==
  ASSUME ToolTypeOK, [ToolNext]_toolVars
  PROVE  Len(sent) \in Nat /\ Len(sent') \in Nat /\ Len(sent) <= Len(sent')
<1>1. Len(sent) \in Nat
  BY SentIndexed
<1>2. ASSUME NEW line \in Lines, Send(line) PROVE Len(sent') = Len(sent) + 1
  BY <1>2, SentGrows DEF Send
<1>3. (\E line \in Lines : Send(line)) \/ sent' = sent
  BY DEF ToolNext, toolVars, CloseStdin, Exec, Bridge, ExecAnswers, ExecStarts,
         ExecOverflows, CommandEnds, CommandTimesOut, ExecReplies, ExecEnds,
         BridgeLoads, BridgeReads, BridgeReplies, BridgeEnds, ChildEnds, Signalled
<1> QED BY <1>1, <1>2, <1>3

LEMMA RestStep ==
  ASSUME RestTypeOK, SessionInv, setup \in Setups, ToolInv, [Next]_vars
  PROVE  RestTypeOK'
<1>0. /\ setup' = setup /\ setup.mishaps \in Nat
      /\ Len(sent) \in Nat /\ Len(sent') \in Nat /\ Len(sent) <= Len(sent')
      /\ setup.calls \subseteq Lines
  BY ToolsWithin, SentNeverShrinks, SetupsAssumption DEF ToolInv
<1>1. mishaps' = mishaps \/ Mishap
  BY DEF Next, Bot, CallTool, OpenCodeResponds, Server, Client, Telegram, Faults, vars
<1>2. mishaps' \in 0..setup'.mishaps
  BY <1>0, <1>1 DEF RestTypeOK, Mishap
<1>3. ASSUME calls' = calls PROVE calls' \in [Messages -> 0..Len(sent')]
  BY <1>0, <1>3 DEF RestTypeOK
<1>4. ASSUME NEW s \in SessionIDs, CallTool(s) PROVE calls' \in [Messages -> 0..Len(sent')]
  <2>1. PICK line \in Lines : Send(line)
    BY <1>0, <1>4 DEF CallTool
  <2>2. Len(sent') = Len(sent) + 1
    BY <2>1, SentGrows DEF Send, ToolInv
  <2>3. Len(sent) + 1 \in 0..Len(sent') /\ \A p \in 0..Len(sent) : p \in 0..Len(sent')
    BY <1>0, <2>2
  <2>4. calls' = [calls EXCEPT ![Head(prompts[s])] = Len(sent) + 1]
    BY <1>4 DEF CallTool
  <2> QED BY <2>3, <2>4 DEF RestTypeOK
<1>5. calls' = calls \/ \E s \in SessionIDs : CallTool(s)
  BY DEF Next, Bot, OpenCodeResponds, Server, Client, Telegram, Faults, vars
<1> QED BY <1>2, <1>3, <1>4, <1>5 DEF RestTypeOK

(* The conversation stays well-typed: sessions and prompts are ones that   *)
(* were created, and only lines that were read are worked on or answered   *)
(* (opencode.go:75-96, main.go:503-539, tool-bridge.ts:357-399).           *)
THEOREM ConversationTypeCorrect == Spec => []TypeOK
<1>1. Init => RestTypeOK
  <2> SUFFICES ASSUME Init PROVE RestTypeOK
    OBVIOUS
  <2>1. Len(sent) = 0
    BY EmptyIsSeq DEF Init, ToolInit
  <2>2. calls \in [Messages -> 0..Len(sent)]
    BY <2>1 DEF Init
  <2>3. setup.mishaps \in Nat /\ mishaps = 0
    BY SetupsAssumption DEF Init
  <2> QED BY <2>2, <2>3 DEF RestTypeOK
<1>2. RestTypeOK /\ SessionInv /\ (setup \in Setups /\ ToolInv) /\ [Next]_vars
        => RestTypeOK'
  BY RestStep
<1>3. RestTypeOK /\ SessionInv /\ (setup \in Setups /\ ToolInv) => TypeOK
  BY DEF TypeOK, RestTypeOK, SessionInv, ToolInv
<1> QED BY <1>1, <1>2, <1>3, SessionInvariant, ToolInvariant, PTL DEF Spec
=============================================================================
