------------------------- MODULE CargoRunnerProofs -------------------------
(* What holds of _run_cargo for every amount of output and pipe size.      *)
EXTENDS CargoRunner, TLAPS

-----------------------------------------------------------------------------
(* The inductive invariant: where every line is, what a stream that is no  *)
(* longer read has left, and what each point of the program may assume.    *)

Begun(s) == IF fragment[s] = "none" THEN 0 ELSE 1

Unread(s) == pipe[s] + buffer[s] + Begun(s)

\* No line is invented, and none is lost unless somebody raised over it.
Conserved(s) ==
  /\ Unread(s) + captured[s] <= written[s]
  /\ outcome # "crash" /\ raised = {} => Unread(s) + captured[s] = written[s]

\* A stream that is no longer read has been read to its end, or its thread
\* raised.
ReadOut(s) == pc # "start" /\ outcome = "none" /\ s \notin open
              => s \in raised \/ AtEnd(s)

Control ==
  /\ ~windows => raised = {} /\ ~timing
  /\ pc \in {"poll", "alive", "finalize"} => windows
  /\ pc \in {"loop", "events"} => ~windows
  /\ pc \in {"closing", "done"} <=> outcome # "none"
  /\ pc = "start" => cargo = "none" /\ ~child /\ open = {} /\ raised = {}
  /\ pc = "wait" => open = {} /\ raised = {}
  /\ pc \in {"start", "poll", "alive"} => ~timing
  /\ timing => expired
  /\ outcome = "none" => "join" \notin raised

Results ==
  /\ pc = "finalize" /\ cargo = "running" => open = {}
  /\ outcome # "none" /\ cargo = "running" => raised = Streams
  /\ outcome = "timeout" => expired
  /\ outcome \notin {"none", "crash"} => raised = {} /\ (windows => open = {})
  /\ outcome = "ok" => cargo = "succeeded" /\ ~child /\ captured = written

Amounts == <<written, pipe, fragment, buffer, captured>>

Occupied(s) == pipe[s] + (IF fragment[s] = "pipe" THEN 1 ELSE 0)

Counted == /\ written \in [Streams -> 0 .. MaxLines]
           /\ pipe \in [Streams -> Nat]
           /\ fragment \in [Streams -> {"none", "pipe", "buffer"}]
           /\ buffer \in [Streams -> Nat] /\ captured \in [Streams -> Nat]
           /\ \A s \in Streams : Occupied(s) <= PipeCap

IInv == /\ TypeOK /\ Counted /\ Control /\ Results
        /\ \A s \in Streams : Conserved(s) /\ ReadOut(s)

-----------------------------------------------------------------------------
(* Lines. *)

\* readline() takes one line out of what is unread.
LEMMA TakesOne ==
  ASSUME Counted, NEW s \in Streams, TakeLine(s), UNCHANGED written,
         captured' = captured \/ Capture(s)
  PROVE  /\ Counted'
         /\ Unread(s)' = Unread(s) - 1
         /\ \A t \in Streams \ {s} : Unread(t)' = Unread(t)
<1> USE PipeAssumption DEF Counted, Occupied, Unread, Begun, Capture
<1>1. CASE buffer[s] > 0 /\ buffer' = [buffer EXCEPT ![s] = @ - 1]
           /\ UNCHANGED <<pipe, fragment>>
  BY <1>1
<1>2. CASE /\ buffer[s] = 0 /\ pipe[s] > 0
           /\ buffer' = [buffer EXCEPT ![s] = pipe[s] - 1]
           /\ pipe' = [pipe EXCEPT ![s] = 0]
           /\ fragment' = [fragment EXCEPT ![s] = IF @ = "pipe" THEN "buffer" ELSE @]
  BY <1>2
<1>3. CASE /\ buffer[s] = 0 /\ pipe[s] = 0 /\ fragment[s] # "none" /\ Ended
           /\ fragment' = [fragment EXCEPT ![s] = "none"]
           /\ UNCHANGED <<buffer, pipe>>
  BY <1>3
<1> QED BY <1>1, <1>2, <1>3 DEF TakeLine

\* Reading half a line leaves the count of unread lines alone.
LEMMA KeepsFragment ==
  ASSUME Counted, NEW s \in Streams, ReadFragment(s), UNCHANGED written
  PROVE  Counted' /\ UNCHANGED captured
         /\ \A t \in Streams : Unread(t)' = Unread(t)
  BY PipeAssumption DEF Counted, Occupied, ReadFragment, Unread, Begun

\* A writer adds a line, or completes one that was counted already.
LEMMA WritesOne ==
  ASSUME Counted, NEW s \in Streams, Write(s)
  PROVE  /\ Counted' /\ UNCHANGED captured
         /\ written' = [written EXCEPT ![s] = @ + 1]
         /\ Unread(s)' = Unread(s) + 1
         /\ \A t \in Streams \ {s} : Unread(t)' = Unread(t)
<1>1. written[s] + 1 \in 0 .. MaxLines
  BY LinesAssumption DEF Write, Counted
<1>2. written' = [written EXCEPT ![s] = @ + 1] /\ UNCHANGED <<buffer, captured>>
  BY DEF Write, ByCargo
<1>3. fragment[s] = "none" /\ pipe[s] + 1 <= PipeCap
  BY PipeAssumption DEF Write, Room, Counted
<1>4. CASE pipe' = [pipe EXCEPT ![s] = @ + 1] /\ UNCHANGED fragment
  BY <1>1, <1>2, <1>3, <1>4 DEF Counted, Occupied, Unread, Begun
<1>5. CASE fragment' = [fragment EXCEPT ![s] = "pipe"] /\ UNCHANGED pipe
  BY <1>1, <1>2, <1>3, <1>5 DEF Counted, Occupied, Unread, Begun
<1> QED
  BY <1>4, <1>5 DEF Write

\* Ending a begun line moves it, and adds none.
LEMMA FinishesOne ==
  ASSUME Counted, NEW s \in Streams, FinishLine(s)
  PROVE  /\ Counted' /\ UNCHANGED <<captured, written>>
         /\ \A t \in Streams : Unread(t)' = Unread(t)
<1>1. pipe[s] + 1 <= PipeCap /\ fragment[s] # "none"
  BY PipeAssumption DEF FinishLine, Room, Counted, Occupied
<1> QED
  BY <1>1 DEF FinishLine, ByCargo, process, Counted, Occupied, Unread, Begun

-----------------------------------------------------------------------------
(* Every step keeps the count of lines. *)

Worsens == (outcome = "crash" => outcome' = "crash") /\ raised \subseteq raised'

\* A step that reads, writes or loses one line of one stream conserves the rest.
LEMMA CountKept ==
  ASSUME Counted, \A s \in Streams : Conserved(s), Worsens,
         NEW s \in Streams, Counted',
         \A t \in Streams \ {s} :
            Unread(t)' = Unread(t) /\ captured'[t] = captured[t] /\ written'[t] = written[t],
         \/ Unread(s)' + captured'[s] = Unread(s) + captured[s] /\ written'[s] = written[s]
         \/ Unread(s)' + captured'[s] = Unread(s) + captured[s] + 1 /\ written'[s] = written[s] + 1
         \/ /\ Unread(s)' + captured'[s] = Unread(s) + captured[s] - 1
            /\ written'[s] = written[s]
            /\ outcome' = "crash" \/ raised' # {}
  PROVE  \A t \in Streams : Conserved(t)'
<1>1. \A t \in Streams : Unread(t) \in Nat /\ captured[t] \in Nat /\ written[t] \in Nat
  BY LinesAssumption, PipeAssumption DEF Counted, Unread, Begun
<1>2. \A t \in Streams : Unread(t)' \in Nat /\ captured'[t] \in Nat /\ written'[t] \in Nat
  BY LinesAssumption, PipeAssumption DEF Counted, Unread, Begun
<1>3. Conserved(s)'
  BY <1>1, <1>2 DEF Conserved, Worsens
<1>4. ASSUME NEW t \in Streams \ {s} PROVE Conserved(t)'
  BY <1>1, <1>2, <1>4 DEF Conserved, Worsens
<1> QED BY <1>3, <1>4

\* The steps that move no line.
LEMMA CountSame ==
  ASSUME \A s \in Streams : Conserved(s), Worsens, UNCHANGED Amounts
  PROVE  \A s \in Streams : Conserved(s)'
  BY DEF Conserved, Worsens, Amounts, Unread, Begun

Still == \/ BadTimeout \/ Spawn \/ PumpDone \/ PumpTimeout \/ Select
         \/ PollRaised \/ PollClear \/ PollAlive \/ Finalize \/ Wait \/ Close
         \/ Fork \/ ChildExits \/ CargoExits \/ Deadline
         \/ \E s \in Streams : EventEnd(s) \/ ThreadEnd(s)

Moving(s) == \/ Write(s) \/ FinishLine(s)
             \/ EventLine(s) \/ EventBlocks(s) \/ EventRaises(s)
             \/ ThreadLine(s) \/ ThreadReads(s) \/ ThreadRaises(s)

\* Every step moves lines of one stream or none at all.
LEMMA NextSplit == Next => Still \/ \E s \in Streams : Moving(s)
  BY DEF Next, Runner, Pump, Cargo, Still, Moving

\* A crash stays a crash, and no thread takes its error back.
LEMMA StepWorsens ==
  ASSUME Control, Next
  PROVE  Worsens
<1> USE DEF Worsens, Control, control, ByCargo, Main, Handled, ThreadOnly
<1>1. CASE Still
  BY <1>1 DEF Still, BadTimeout, Spawn, PumpDone, PumpTimeout, Select,
     PollRaised, PollClear, PollAlive, Finalize, Wait, Close, Fork, ChildExits,
     CargoExits, Deadline, EventEnd, ThreadEnd
<1>2. ASSUME NEW s \in Streams, Moving(s) PROVE Worsens
  BY <1>2 DEF Moving, Write, FinishLine, EventLine, EventBlocks, EventRaises,
     ThreadLine, ThreadReads, ThreadRaises
<1> QED BY <1>1, <1>2, NextSplit

\* The still steps leave every amount alone.
LEMMA StillAmounts ==
  ASSUME Still
  PROVE  UNCHANGED Amounts
  BY DEF Still, BadTimeout, Spawn, PumpDone, PumpTimeout, Select,
     PollRaised, PollClear, PollAlive, Finalize, Wait, Close, Fork, ChildExits,
     CargoExits, Deadline, EventEnd, ThreadEnd, Amounts, process, pipes, Main,
     ByCargo, Handled, ThreadOnly

\* The moving steps keep the amounts typed and conserved.
LEMMA MovingAmounts ==
  ASSUME IInv, NEW s \in Streams, Moving(s)
  PROVE  Counted' /\ \A t \in Streams : Conserved(t)'
<1> USE DEF process, pipes, ThreadOnly
<1>1. Counted /\ Worsens /\ \A t \in Streams : Conserved(t)
  BY StepWorsens DEF IInv, Next, Runner, Pump, Cargo, Moving
<1>2. CASE Write(s)
  <2>1. /\ written'[s] = written[s] + 1 /\ captured' = captured
        /\ \A t \in Streams \ {s} : written'[t] = written[t]
    BY <1>1, <1>2, WritesOne DEF Counted
  <2>2. Unread(s) \in Nat /\ captured[s] \in Nat
    BY <1>1, PipeAssumption DEF Counted, Unread, Begun
  <2>3. Unread(s)' + captured'[s] = Unread(s) + captured[s] + 1
    BY <1>1, <1>2, <2>1, <2>2, WritesOne
  <2> QED BY <1>1, <1>2, <2>1, <2>3, WritesOne, CountKept
<1>3. CASE FinishLine(s)
  BY <1>1, <1>3, FinishesOne, CountKept DEF Counted
<1>4. CASE EventBlocks(s) \/ ThreadReads(s)
  <2>1. ReadFragment(s) /\ UNCHANGED written
    BY <1>4 DEF EventBlocks, ThreadReads
  <2> QED BY <1>1, <2>1, KeepsFragment, CountKept
<1>5. CASE EventLine(s) \/ ThreadLine(s)
  <2>1. TakeLine(s) /\ Capture(s) /\ UNCHANGED written
    BY <1>5 DEF EventLine, ThreadLine
  <2>2. captured'[s] = captured[s] + 1
        /\ \A t \in Streams \ {s} : captured'[t] = captured[t]
    BY <1>1, <2>1 DEF Capture, Counted
  <2>3. Unread(s) \in Nat /\ captured[s] \in Nat
    BY <1>1, PipeAssumption DEF Counted, Unread, Begun
  <2> QED BY <1>1, <2>1, <2>2, <2>3, TakesOne, CountKept
<1>6. CASE EventRaises(s) \/ ThreadRaises(s)
  <2>1. /\ TakeLine(s) /\ UNCHANGED <<written, captured>>
        /\ outcome' = "crash" \/ raised' # {}
    BY <1>6 DEF EventRaises, ThreadRaises
  <2>2. Unread(s) \in Nat /\ captured[s] \in Nat
    BY <1>1, PipeAssumption DEF Counted, Unread, Begun
  <2> QED BY <1>1, <2>1, <2>2, TakesOne, CountKept
<1> QED BY <1>2, <1>3, <1>4, <1>5, <1>6 DEF Moving

-----------------------------------------------------------------------------
(* The invariant holds initially and is kept. *)

\* The inductive invariant holds before cargo is started.
LEMMA InvInit == Init => IInv
<1> SUFFICES ASSUME Init PROVE IInv
  OBVIOUS
<1>1. ASSUME NEW s \in Streams
      PROVE  /\ written[s] = 0 /\ pipe[s] = 0 /\ fragment[s] = "none"
             /\ buffer[s] = 0 /\ captured[s] = 0
  BY <1>1 DEF Init
<1>2. /\ written \in [Streams -> 0 .. MaxLines]
      /\ pipe \in [Streams -> 0 .. PipeCap] /\ pipe \in [Streams -> Nat]
      /\ fragment \in [Streams -> {"none", "pipe", "buffer"}]
      /\ buffer \in [Streams -> 0 .. MaxLines] /\ buffer \in [Streams -> Nat]
      /\ captured \in [Streams -> 0 .. MaxLines] /\ captured \in [Streams -> Nat]
  BY LinesAssumption, PipeAssumption DEF Init
<1>3. TypeOK /\ Control /\ Results
  BY <1>2 DEF Init, TypeOK, Control, Results
<1>4. Counted
  BY <1>1, <1>2, PipeAssumption DEF Counted, Occupied
<1>5. \A s \in Streams : Conserved(s) /\ ReadOut(s)
  BY <1>1 DEF Init, Conserved, ReadOut, Unread, Begun
<1> QED BY <1>3, <1>4, <1>5 DEF IInv

\* Every step conserves lines.
LEMMA LinesStep ==
  ASSUME IInv, Next
  PROVE  Counted' /\ \A s \in Streams : Conserved(s)'
<1>1. CASE Still
  <2>1. UNCHANGED Amounts /\ Worsens
    BY <1>1, StillAmounts, StepWorsens DEF IInv
  <2> QED BY <2>1, CountSame DEF IInv, Counted, Occupied, Amounts
<1>2. ASSUME NEW s \in Streams, Moving(s)
      PROVE  Counted' /\ \A t \in Streams : Conserved(t)'
  BY <1>2, MovingAmounts
<1> QED BY <1>1, <1>2, NextSplit

\* What a conserved count bounds.
LEMMA Bounded ==
  ASSUME Counted', \A s \in Streams : Conserved(s)'
  PROVE  /\ buffer' \in [Streams -> 0 .. MaxLines]
         /\ captured' \in [Streams -> 0 .. MaxLines]
         /\ pipe' \in [Streams -> 0 .. PipeCap]
<1>1. ASSUME NEW s \in Streams
      PROVE  /\ buffer'[s] \in 0 .. MaxLines /\ captured'[s] \in 0 .. MaxLines
             /\ pipe'[s] \in 0 .. PipeCap
  BY <1>1, LinesAssumption, PipeAssumption
  DEF Counted, Conserved, Occupied, Unread, Begun
<1> QED BY <1>1 DEF Counted

\* Every step keeps the types.
LEMMA TypeStep ==
  ASSUME IInv, Next
  PROVE  TypeOK'
<1>1. Counted' /\ \A s \in Streams : Conserved(s)'
  BY LinesStep
<1>2. /\ buffer' \in [Streams -> 0 .. MaxLines]
      /\ captured' \in [Streams -> 0 .. MaxLines]
      /\ pipe' \in [Streams -> 0 .. PipeCap]
      /\ written' \in [Streams -> 0 .. MaxLines]
      /\ fragment' \in [Streams -> {"none", "pipe", "buffer"}]
  BY <1>1, Bounded DEF Counted
<1> DEFINE Rest ==
      /\ windows \in BOOLEAN /\ child \in BOOLEAN /\ expired \in BOOLEAN
      /\ cargo \in {"none", "running", "closed", "succeeded", "failed", "killed"}
      /\ open \subseteq Streams /\ ready \subseteq Streams
      /\ reading \in Streams \cup {"none"}
      /\ raised \subseteq Streams \cup {"join"} /\ timing \in BOOLEAN
      /\ pc \in {"start", "loop", "events", "poll", "alive", "finalize",
                 "wait", "closing", "done"}
      /\ outcome \in {"none", "usage", "ok", "failed", "timeout", "crash"}
<1>3. Rest
  BY DEF IInv, TypeOK
<1> USE <1>3 DEF control, ByCargo, Main, Handled, ThreadOnly, process, Kill, NoKill
<1>4. CASE Still
  <2> SUFFICES Rest'
    BY <1>2 DEF TypeOK
  <2>1. CASE BadTimeout \/ Spawn \/ PumpDone \/ PumpTimeout \/ Select
    BY <2>1 DEF BadTimeout, Spawn, PumpDone, PumpTimeout, Select
  <2>2. CASE PollRaised \/ PollClear
    BY <2>2 DEF PollRaised, PollClear
  <2>3. CASE PollAlive
    BY <2>3 DEF PollAlive
  <2>4. CASE Finalize
    <3>1. /\ UNCHANGED <<windows, child, expired, open, ready, reading, timing>>
          /\ cargo' \in {cargo, "killed"} /\ pc' \in {"wait", "closing"}
          /\ raised' \in {raised, raised \cup {"join"}}
          /\ outcome' \in {outcome, "crash", "timeout"}
      BY <2>4 DEF Finalize
    <3> QED BY <3>1
  <2>5. CASE Wait
    <3>1. /\ UNCHANGED <<windows, child, expired, open, ready, reading, timing, raised>>
          /\ cargo' \in {cargo, "killed"} /\ pc' = "closing"
          /\ outcome' \in {"ok", "failed", "timeout"}
      BY <2>5 DEF Wait
    <3> QED BY <3>1
  <2>6. CASE Close
    BY <2>6 DEF Close
  <2>7. CASE Fork \/ ChildExits \/ CargoExits
    <3>1. /\ UNCHANGED <<windows, expired, open, ready, reading, raised, timing>>
          /\ UNCHANGED <<pc, outcome>>
          /\ cargo' \in {cargo, "closed", "succeeded", "failed"}
      BY <2>7 DEF Fork, ChildExits, CargoExits
    <3>2. child' \in BOOLEAN
      BY <2>7, ZenonT(30) DEF Fork, ChildExits, CargoExits
    <3> QED BY <3>1, <3>2
  <2>8. CASE Deadline
    BY <2>8 DEF Deadline
  <2>9. CASE \E s \in Streams : EventEnd(s) \/ ThreadEnd(s)
    BY <2>9 DEF EventEnd, ThreadEnd
  <2> QED
    BY <1>4, <2>1, <2>2, <2>3, <2>4, <2>5, <2>6, <2>7, <2>8, <2>9 DEF Still
<1>5. ASSUME NEW s \in Streams, Moving(s) PROVE TypeOK'
  <2>1. Rest'
    BY <1>5 DEF Moving, Write, FinishLine, EventLine, EventBlocks,
       EventRaises, ThreadLine, ThreadReads, ThreadRaises
  <2> QED BY <1>2, <2>1 DEF TypeOK
<1> QED BY <1>4, <1>5, NextSplit

\* Every step keeps what each point of the program may assume.
LEMMA ControlStep ==
  ASSUME IInv, Next
  PROVE  Control'
<1>1. TypeOK /\ Control
  BY DEF IInv
<1> USE <1>1 DEF TypeOK, Control, control, ByCargo, Main, Handled, ThreadOnly,
        process
<1>2. CASE Still
  BY <1>2 DEF Still, BadTimeout, Spawn, PumpDone, PumpTimeout, Select,
     PollRaised, PollClear, PollAlive, Finalize, Wait, Close, Fork, ChildExits,
     CargoExits, Deadline, EventEnd, ThreadEnd, Event, Thread
<1>3. ASSUME NEW s \in Streams, Moving(s) PROVE Control'
  <2>1. s # "join"
    BY DEF Streams
  <2>2. CASE Write(s)  BY <2>2 DEF Write
  <2>3. CASE FinishLine(s)  BY <2>3 DEF FinishLine
  <2>4. CASE EventLine(s)  BY <2>4 DEF EventLine, Event
  <2>5. CASE EventBlocks(s)  BY <2>5 DEF EventBlocks, Event
  <2>6. CASE EventRaises(s)  BY <2>6 DEF EventRaises, Event
  <2>7. CASE ThreadLine(s)  BY <2>7 DEF ThreadLine, Thread
  <2>8. CASE ThreadReads(s)  BY <2>8 DEF ThreadReads, Thread
  <2>9. CASE ThreadRaises(s)
    <3>1. windows /\ open # {} /\ pc # "wait" /\ pc # "start"
      BY <2>9 DEF ThreadRaises, Thread
    <3> QED BY <2>1, <2>9, <3>1 DEF ThreadRaises
  <2> QED
    BY <1>3, <2>2, <2>3, <2>4, <2>5, <2>6, <2>7, <2>8, <2>9 DEF Moving
<1> QED BY <1>2, <1>3, NextSplit

\* The end of a stream is final: nobody is left to write.
LEMMA EndIsFinal ==
  ASSUME IInv, Next, NEW s \in Streams, AtEnd(s), pc # "start"
  PROVE  AtEnd(s)'
<1> USE DEF IInv, TypeOK, Counted, AtEnd, Ended, Running, Kill, NoKill, process
<1>1. CASE Still
  <2>1. UNCHANGED Amounts
    BY <1>1, StillAmounts
  <2>2. Ended'
    BY <1>1 DEF Still, BadTimeout, Spawn, PumpDone, PumpTimeout, Select,
       PollRaised, PollClear, PollAlive, Finalize, Wait, Close, Fork,
       ChildExits, CargoExits, Deadline, EventEnd, ThreadEnd, Main, Handled,
       ThreadOnly
  <2> QED BY <2>1, <2>2 DEF Amounts
<1>2. ASSUME NEW t \in Streams, Moving(t) PROVE AtEnd(s)'
  BY <1>2 DEF Moving, Write, FinishLine, EventLine, EventBlocks, EventRaises,
     ThreadLine, ThreadReads, ThreadRaises, TakeLine, ReadFragment, Event,
     ThreadOnly, Room
<1> QED BY <1>1, <1>2, NextSplit

\* A stream that is given up has been read to its end, or raised.
LEMMA ReadOutStep ==
  ASSUME IInv, Next, NEW s \in Streams
  PROVE  ReadOut(s)'
<1> SUFFICES ASSUME pc' # "start", outcome' = "none", s \notin open'
             PROVE  (s \in raised \/ AtEnd(s))'
  BY DEF ReadOut
<1>1. Worsens
  BY StepWorsens DEF IInv
<1>2. CASE pc = "start"
  BY <1>2 DEF Next, Runner, Pump, Cargo, BadTimeout, Spawn, PumpDone,
     PumpTimeout, Select, EventLine, EventEnd, EventBlocks, EventRaises, Event,
     PollRaised, PollClear, PollAlive, Finalize, Wait, Close, Main, Fork,
     ChildExits, CargoExits, Deadline, Write, FinishLine, ByCargo, control,
     ThreadLine, ThreadEnd, ThreadReads, ThreadRaises, Thread, IInv, Control,
     ThreadOnly
<1>3. CASE pc # "start" /\ s \notin open
  <2>1. outcome = "none"
    BY <1>3 DEF Next, Runner, Pump, Cargo, BadTimeout, Spawn, PumpDone,
       PumpTimeout, Select, EventLine, EventEnd, EventBlocks, EventRaises,
       Event, PollRaised, PollClear, PollAlive, Finalize, Wait, Close, Main,
       Fork, ChildExits, CargoExits, Deadline, Write, FinishLine, ByCargo,
       control, ThreadLine, ThreadEnd, ThreadReads, ThreadRaises, ThreadOnly,
       IInv, Control, Handled
  <2>2. s \in raised \/ AtEnd(s)
    BY <1>3, <2>1 DEF IInv, ReadOut
  <2> QED BY <1>1, <1>3, <2>2, EndIsFinal DEF Worsens
<1>4. CASE pc # "start" /\ s \in open
  <2>1. s \in raised' \/ EventEnd(s) \/ ThreadEnd(s)
    BY <1>4 DEF Next, Runner, Pump, Cargo, BadTimeout, Spawn, PumpDone,
       PumpTimeout, Select, EventLine, EventEnd, EventBlocks, EventRaises,
       Event, PollRaised, PollClear, PollAlive, Finalize, Wait, Close, Main,
       Fork, ChildExits, CargoExits, Deadline, Write, FinishLine, ByCargo,
       ThreadLine, ThreadEnd, ThreadReads, ThreadRaises
  <2>2. EventEnd(s) \/ ThreadEnd(s) => AtEnd(s)'
    BY <1>4, EndIsFinal DEF EventEnd, ThreadEnd
  <2> QED BY <2>1, <2>2
<1> QED BY <1>2, <1>3, <1>4

\* Every step keeps what an outcome says.
LEMMA ResultsStep ==
  ASSUME IInv, Next
  PROVE  Results'
<1>1. TypeOK /\ Control /\ Results
  BY DEF IInv
<1> USE <1>1 DEF TypeOK, Control, Results, control, ByCargo, Main, Handled,
        ThreadOnly, process, Running, Kill, NoKill
<1>2. CASE BadTimeout \/ Spawn \/ PumpDone \/ PumpTimeout \/ Select
  BY <1>2 DEF BadTimeout, Spawn, PumpDone, PumpTimeout, Select, pipes
<1>3. CASE PollRaised \/ PollClear \/ PollAlive
  BY <1>3 DEF PollRaised, PollClear, PollAlive
<1>4. CASE Finalize
  <2>1. cargo' = "running" => raised' = Streams
    <3> SUFFICES ASSUME cargo' = "running" PROVE raised' = Streams
      OBVIOUS
    <3>1. cargo = "running" /\ open = {} /\ raised' = raised
      BY <1>4 DEF Finalize
    <3>2. \A s \in Streams : s \in raised
      BY <1>4, <3>1 DEF Finalize, IInv, ReadOut, AtEnd, Ended
    <3>3. "join" \notin raised
      BY <1>4 DEF Finalize
    <3> QED BY <3>1, <3>2, <3>3
  <2>2. CASE outcome' = "crash"
    BY <1>4, <2>1, <2>2 DEF Finalize
  <2>3. CASE outcome' # "crash"
    BY <1>4, <2>1, <2>3 DEF Finalize
  <2> QED BY <2>2, <2>3
<1>5. CASE Wait
  <2>1. \A s \in Streams : AtEnd(s) /\ Conserved(s)
    BY <1>5 DEF Wait, IInv, ReadOut
  <2>2. captured = written /\ ~child
    <3>1. ASSUME NEW s \in Streams PROVE captured[s] = written[s]
      <4>1. Unread(s) = 0
        BY <2>1 DEF AtEnd, Unread, Begun
      <4>2. captured[s] \in Nat /\ written[s] \in Nat
        BY LinesAssumption DEF IInv, Counted
      <4> QED BY <1>5, <2>1, <4>1, <4>2 DEF Wait, Conserved
    <3>2. captured \in [Streams -> Nat] /\ written \in [Streams -> 0 .. MaxLines]
      BY DEF IInv, Counted
    <3>3. captured = written
      BY <3>1, <3>2
    <3>4. ~child
      BY <2>1 DEF AtEnd, Ended, Streams
    <3> QED BY <3>3, <3>4
  <2> QED BY <1>5, <2>2 DEF Wait, pipes
<1>6. CASE Close
  BY <1>6 DEF Close, pipes
<1>7. CASE Fork \/ ChildExits \/ CargoExits \/ Deadline
  BY <1>7 DEF Fork, ChildExits, CargoExits, Deadline, pipes
<1>8. ASSUME NEW s \in Streams, Moving(s) \/ EventEnd(s) \/ ThreadEnd(s)
      PROVE  Results'
  <2>1. CASE Write(s) \/ FinishLine(s)
    BY <2>1 DEF Write, FinishLine
  <2>2. CASE EventLine(s) \/ EventBlocks(s) \/ EventRaises(s) \/ EventEnd(s)
    BY <2>2 DEF EventLine, EventBlocks, EventRaises, EventEnd, Event
  <2>3. CASE ThreadLine(s) \/ ThreadReads(s) \/ ThreadRaises(s) \/ ThreadEnd(s)
    <3>1. outcome \in {"none", "crash"} /\ (outcome # "none" /\ cargo = "running" => raised = Streams)
      BY <2>3 DEF ThreadLine, ThreadReads, ThreadRaises, ThreadEnd, Thread
    <3>2. cargo' = cargo /\ outcome' = outcome /\ pc' = pc /\ windows' = windows
          /\ expired' = expired /\ open' \subseteq open
          /\ (raised' = raised \/ raised' = raised \cup {s})
      BY <2>3 DEF ThreadLine, ThreadReads, ThreadRaises, ThreadEnd
    <3> QED BY <3>1, <3>2
  <2> QED BY <1>8, <2>1, <2>2, <2>3 DEF Moving
<1> QED
  BY <1>2, <1>3, <1>4, <1>5, <1>6, <1>7, <1>8, NextSplit DEF Still

\* Every step keeps the inductive invariant.
LEMMA InvStep == IInv /\ [Next]_vars => IInv'
<1>1. IInv /\ Next => IInv'
  BY TypeStep, LinesStep, ControlStep, ResultsStep, ReadOutStep DEF IInv
<1>2. IInv /\ UNCHANGED vars => IInv'
  BY DEF vars, process, pipes, control, IInv, TypeOK, Counted, Occupied,
     Control, Results, Conserved, Unread, Begun, ReadOut, AtEnd, Ended
<1> QED BY <1>1, <1>2

\* The inductive invariant holds in every behaviour of the runner.
THEOREM Invariance == Spec => []IInv
  BY InvInit, InvStep, PTL DEF Spec

-----------------------------------------------------------------------------
(* What follows from it. *)

\* The runner's state is well formed: no reader ever holds more lines than
\* were begun, no pipe more than it has room for.
THEOREM Typing == Spec => []TypeOK
<1>1. IInv => TypeOK
  BY DEF IInv
<1> QED BY <1>1, Invariance, PTL

\* On both platforms a reported success has every line of both streams.
THEOREM CompleteSuccess == Spec => []SuccessIsComplete
<1>1. IInv => SuccessIsComplete
  BY DEF IInv, Results, SuccessIsComplete
<1> QED BY <1>1, Invariance, PTL

\* No cargo is left running with its pipes open, save when both Windows pump
\* threads raised.
THEOREM NothingLeft == Spec => []NoCargoLeft
<1>1. IInv => NoCargoLeft
  BY DEF IInv, Control, Results, NoCargoLeft
<1> QED BY <1>1, Invariance, PTL

\* A timeout is a real one, and hides no thread's error.
THEOREM GenuineOutcome == Spec => []OutcomeIsGenuine
<1>1. IInv => OutcomeIsGenuine
  BY DEF IInv, Control, Results, OutcomeIsGenuine
<1> QED BY <1>1, Invariance, PTL
=============================================================================
