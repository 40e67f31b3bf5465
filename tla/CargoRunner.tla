---------------------------- MODULE CargoRunner ----------------------------
(***************************************************************************)
(* _run_cargo of generate-coverage/scripts/_cargo_runner.py: one cargo     *)
(* process, its two pipes, and whoever reads them.  On POSIX the main      *)
(* thread selects on the pipes and reads a line of each one that is ready; *)
(* on Windows a thread per stream reads lines while the main thread polls. *)
(* A line is a count.  A line whose end is not written yet is a fragment,  *)
(* in the pipe or already in the reader's buffer.                          *)
(***************************************************************************)
EXTENDS Naturals

CONSTANTS MaxLines,  \* bound: lines cargo starts on one stream
          PipeCap    \* lines a pipe holds before a writer blocks

ASSUME LinesAssumption == MaxLines \in Nat
ASSUME PipeAssumption == PipeCap \in Nat \ {0}

Streams == {"stdout", "stderr"}

VARIABLES
  windows,                       \* os.name == "nt"
  cargo, child,                  \* the process; a descendant with the pipes
  expired,                       \* the deadline has passed
  written, pipe, fragment,       \* at the writing end
  buffer, captured,              \* at the reading end
  open,                          \* registered streams, or live pump threads
  ready, reading,                \* POSIX: events of one select; blocked read
  raised, timing,                \* Windows: thread_exceptions; a timeout
  pc, outcome

process == <<cargo, child, written>>
pipes == <<pipe, fragment, buffer, captured>>
control == <<ready, reading, raised, timing, pc, outcome>>
vars == <<windows, process, expired, pipes, open, control>>

Running == cargo \in {"running", "closed"}
\* The last writer has closed its end; a process closes its files before it
\* can be waited for.
Ended == cargo # "running" /\ ~child

Init == /\ windows \in BOOLEAN
        /\ cargo = "none" /\ child = FALSE /\ expired = FALSE
        /\ written = [s \in Streams |-> 0] /\ pipe = [s \in Streams |-> 0]
        /\ fragment = [s \in Streams |-> "none"]
        /\ buffer = [s \in Streams |-> 0] /\ captured = [s \in Streams |-> 0]
        /\ open = {} /\ ready = {} /\ reading = "none"
        /\ raised = {} /\ timing = FALSE
        /\ pc = "start" /\ outcome = "none"

-----------------------------------------------------------------------------
(* Cargo, its descendants and the clock: external. *)

Room(s) == pipe[s] + (IF fragment[s] = "pipe" THEN 1 ELSE 0) < PipeCap

ByCargo == UNCHANGED <<windows, expired, buffer, captured, open, control>>

\* A new line begins, whole or in part.
Write(s) == /\ cargo = "running" \/ child
            /\ fragment[s] = "none" /\ Room(s) /\ written[s] < MaxLines
            /\ written' = [written EXCEPT ![s] = @ + 1]
            /\ \/ pipe' = [pipe EXCEPT ![s] = @ + 1] /\ UNCHANGED fragment
               \/ fragment' = [fragment EXCEPT ![s] = "pipe"] /\ UNCHANGED pipe
            /\ UNCHANGED <<cargo, child>>
            /\ ByCargo

FinishLine(s) == /\ cargo = "running" \/ child
                 /\ \/ fragment[s] = "pipe"
                    \/ fragment[s] = "buffer" /\ Room(s)
                 /\ pipe' = [pipe EXCEPT ![s] = @ + 1]
                 /\ fragment' = [fragment EXCEPT ![s] = "none"]
                 /\ UNCHANGED process
                 /\ ByCargo

Fork == /\ cargo = "running" /\ ~child
        /\ child' = TRUE
        /\ UNCHANGED <<cargo, written, pipe, fragment>>
        /\ ByCargo

ChildExits == /\ child
              /\ child' = FALSE
              /\ UNCHANGED <<cargo, written, pipe, fragment>>
              /\ ByCargo

CargoExits == /\ \/ cargo = "running" /\ cargo' = "closed"
                 \/ cargo = "closed" /\ cargo' \in {"succeeded", "failed"}
              /\ UNCHANGED <<child, written, pipe, fragment>>
              /\ ByCargo

Deadline == /\ pc # "start" /\ ~expired
            /\ expired' = TRUE
            /\ UNCHANGED <<windows, process, pipes, open, control>>

-----------------------------------------------------------------------------
(* Reading. *)

\* proc.kill() and proc.wait(timeout=5), errors suppressed.
Kill == cargo' = IF Running THEN "killed" ELSE cargo
NoKill == UNCHANGED cargo

\* stream.readline() returns a line: one it has buffered, else the first of
\* what it finds in the pipe, else the unfinished last line of an ended stream.
TakeLine(s) ==
  \/ /\ buffer[s] > 0
     /\ buffer' = [buffer EXCEPT ![s] = @ - 1]
     /\ UNCHANGED <<pipe, fragment>>
  \/ /\ buffer[s] = 0 /\ pipe[s] > 0
     /\ buffer' = [buffer EXCEPT ![s] = pipe[s] - 1]
     /\ pipe' = [pipe EXCEPT ![s] = 0]
     /\ fragment' = [fragment EXCEPT ![s] = IF @ = "pipe" THEN "buffer" ELSE @]
  \/ /\ buffer[s] = 0 /\ pipe[s] = 0 /\ fragment[s] # "none" /\ Ended
     /\ fragment' = [fragment EXCEPT ![s] = "none"]
     /\ UNCHANGED <<buffer, pipe>>

AtEnd(s) == /\ buffer[s] = 0 /\ pipe[s] = 0 /\ fragment[s] = "none" /\ Ended

\* readline() has read a fragment and waits for the rest.
Waits(s) == /\ buffer[s] = 0 /\ pipe[s] = 0 /\ fragment[s] = "buffer" /\ ~Ended

ReadFragment(s) == /\ buffer[s] = 0 /\ pipe[s] = 0 /\ fragment[s] = "pipe"
                   /\ ~Ended
                   /\ fragment' = [fragment EXCEPT ![s] = "buffer"]
                   /\ UNCHANGED <<buffer, pipe, captured>>

Capture(s) == captured' = [captured EXCEPT ![s] = @ + 1]

-----------------------------------------------------------------------------
(* _run_cargo: a timeout that is no number ends it before anything runs. *)

BadTimeout == /\ pc = "start"
              /\ pc' = "done" /\ outcome' = "usage"
              /\ UNCHANGED <<windows, process, expired, pipes, open,
                             ready, reading, raised, timing>>

Spawn == /\ pc = "start"
         /\ cargo' = "running" /\ open' = Streams
         /\ pc' = IF windows THEN "poll" ELSE "loop"
         /\ UNCHANGED <<windows, child, written, expired, pipes,
                        ready, reading, raised, timing, outcome>>

-----------------------------------------------------------------------------
(* _pump_cargo_output_posix and _handle_cargo_output_event. *)

Readable(s) == pipe[s] > 0 \/ fragment[s] = "pipe" \/ Ended

\* As if the loop ended with the process and not with its streams.
PumpDoneAtExit == /\ pc = "loop" /\ ~Running
                  /\ pc' = "wait"
                  /\ UNCHANGED <<windows, process, expired, pipes, open,
                                 ready, reading, raised, timing, outcome>>

PumpDone == /\ pc = "loop" /\ open = {}
            /\ pc' = "wait"
            /\ UNCHANGED <<windows, process, expired, pipes, open,
                           ready, reading, raised, timing, outcome>>

\* As if the timeout were only reported.
PumpTimeoutNoKill == /\ pc = "loop" /\ open # {} /\ expired
                     /\ pc' = "closing" /\ outcome' = "timeout"
                     /\ UNCHANGED <<windows, process, expired, pipes, open,
                                    ready, reading, raised, timing>>

PumpTimeout == /\ pc = "loop" /\ open # {} /\ expired
               /\ Kill
               /\ pc' = "closing" /\ outcome' = "timeout"
               /\ UNCHANGED <<windows, child, written, expired, pipes, open,
                              ready, reading, raised, timing>>

Select == /\ pc = "loop" /\ ~expired
          /\ ready' = {s \in open : Readable(s)}
          /\ ready' # {}
          /\ pc' = "events"
          /\ UNCHANGED <<windows, process, expired, pipes, open,
                         reading, raised, timing, outcome>>

\* The event on s is dealt with, whatever the clock says.
Event(s) == pc = "events" /\ s \in ready /\ reading \in {"none", s}

Handled(s) == /\ ready' = ready \ {s}
              /\ reading' = "none"
              /\ pc' = IF ready = {s} THEN "loop" ELSE "events"
              /\ UNCHANGED <<windows, expired, raised, timing, outcome>>

EventLine(s) == /\ Event(s) /\ TakeLine(s) /\ Capture(s)
                /\ Handled(s)
                /\ UNCHANGED <<process, open>>

EventEnd(s) == /\ Event(s) /\ AtEnd(s)
               /\ open' = open \ {s}
               /\ Handled(s)
               /\ UNCHANGED <<process, pipes>>

EventBlocks(s) == /\ Event(s) /\ ReadFragment(s)
                  /\ reading' = s
                  /\ UNCHANGED <<windows, process, expired, open, ready,
                                 raised, timing, pc, outcome>>

\* typer.echo raises (the console is gone): cargo is killed.
EventRaises(s) == /\ Event(s) /\ TakeLine(s)
                  /\ Kill
                  /\ pc' = "closing" /\ outcome' = "crash"
                  /\ UNCHANGED <<windows, child, written, expired, captured,
                                 open, ready, reading, raised, timing>>

-----------------------------------------------------------------------------
(* _pump_stream_thread, _poll_pump_loop_iteration, _finalize_pump_threads.  *)

Thread(s) == windows /\ s \in open

ThreadOnly == UNCHANGED <<windows, process, expired, ready, reading, timing,
                          pc, outcome>>

ThreadLine(s) == /\ Thread(s) /\ TakeLine(s) /\ Capture(s)
                 /\ UNCHANGED <<open, raised>>
                 /\ ThreadOnly

ThreadEnd(s) == /\ Thread(s) /\ AtEnd(s)
                /\ open' = open \ {s}
                /\ UNCHANGED <<pipes, raised>>
                /\ ThreadOnly

ThreadReads(s) == /\ Thread(s) /\ ReadFragment(s)
                  /\ UNCHANGED <<open, raised>>
                  /\ ThreadOnly

ThreadRaises(s) == /\ Thread(s) /\ TakeLine(s)
                   /\ raised' = raised \cup {s} /\ open' = open \ {s}
                   /\ UNCHANGED captured
                   /\ ThreadOnly

Main(from) == /\ pc = from
              /\ UNCHANGED <<windows, child, written, expired, pipes, open,
                             ready, reading>>

PollRaised == /\ Main("poll") /\ raised # {}
              /\ Kill
              /\ pc' = "finalize"
              /\ UNCHANGED <<raised, timing, outcome>>

PollClear == /\ Main("poll") /\ raised = {}
             /\ pc' = "alive"
             /\ NoKill /\ UNCHANGED <<raised, timing, outcome>>

\* As if the polling loop had no deadline.
PollAliveNoDeadline == /\ Main("alive")
                       /\ NoKill
                       /\ pc' = IF open = {} THEN "finalize" ELSE "poll"
                       /\ UNCHANGED <<raised, timing, outcome>>

\* A thread may have raised since the list was looked at.
PollAlive == /\ Main("alive")
             /\ IF open # {} /\ expired
                THEN Kill /\ timing' = TRUE
                ELSE NoKill /\ UNCHANGED timing
             /\ pc' = IF open = {} \/ expired THEN "finalize" ELSE "poll"
             /\ UNCHANGED <<raised, outcome>>

\* As if a timeout came before the threads' errors.
FinalizeTimeoutFirst ==
  /\ Main("finalize")
  /\ raised' = IF open # {} THEN raised \cup {"join"} ELSE raised
  /\ IF open # {} THEN Kill ELSE NoKill
  /\ outcome' = IF timing THEN "timeout"
                ELSE IF raised' # {} THEN "crash" ELSE outcome
  /\ pc' = IF outcome' = "none" THEN "wait" ELSE "closing"
  /\ UNCHANGED timing

\* Each join waits five seconds; a thread alive after that is an error too,
\* and an error of a thread replaces a timeout.
Finalize == /\ Main("finalize")
            /\ raised' = IF open # {} THEN raised \cup {"join"} ELSE raised
            /\ IF open # {} THEN Kill ELSE NoKill
            /\ outcome' = IF raised' # {} THEN "crash"
                          ELSE IF timing THEN "timeout" ELSE outcome
            /\ pc' = IF outcome' = "none" THEN "wait" ELSE "closing"
            /\ UNCHANGED timing

-----------------------------------------------------------------------------
(* _wait_for_cargo, and the finally clause of _run_cargo. *)

Wait == /\ Main("wait")
        /\ \/ ~Running /\ NoKill
              /\ outcome' = IF cargo = "succeeded" THEN "ok" ELSE "failed"
           \/ Running /\ expired /\ Kill
              /\ outcome' = "timeout"
        /\ pc' = "closing"
        /\ UNCHANGED <<raised, timing>>

\* close() waits for a thread that is inside readline() on that stream.
Close == /\ Main("closing")
         /\ windows => open = {}
         /\ pc' = "done"
         /\ NoKill /\ UNCHANGED <<raised, timing, outcome>>

Runner == \/ BadTimeout \/ Spawn
          \/ PumpDone \/ PumpTimeout \/ Select
          \/ \E s \in Streams : \/ EventLine(s) \/ EventEnd(s)
                                \/ EventBlocks(s) \/ EventRaises(s)
          \/ PollRaised \/ PollClear \/ PollAlive \/ Finalize
          \/ Wait \/ Close

Pump(s) == \/ ThreadLine(s) \/ ThreadEnd(s) \/ ThreadReads(s) \/ ThreadRaises(s)

Cargo == \/ \E s \in Streams : Write(s) \/ FinishLine(s)
         \/ Fork \/ ChildExits \/ CargoExits

Next == Runner \/ (\E s \in Streams : Pump(s)) \/ Cargo \/ Deadline

Spec == Init /\ [][Next]_vars

\* The runner's threads keep running and time passes; cargo and what it
\* started may hang at any point.
FairSpec == /\ Spec
            /\ WF_vars(Runner) /\ WF_vars(Deadline)
            /\ \A s \in Streams : WF_vars(Pump(s))

-----------------------------------------------------------------------------
TypeOK ==
  /\ windows \in BOOLEAN /\ child \in BOOLEAN /\ expired \in BOOLEAN
  /\ cargo \in {"none", "running", "closed", "succeeded", "failed", "killed"}
  /\ written \in [Streams -> 0 .. MaxLines]
  /\ pipe \in [Streams -> 0 .. PipeCap]
  /\ fragment \in [Streams -> {"none", "pipe", "buffer"}]
  /\ buffer \in [Streams -> 0 .. MaxLines]
  /\ captured \in [Streams -> 0 .. MaxLines]
  /\ open \subseteq Streams /\ ready \subseteq Streams
  /\ reading \in Streams \cup {"none"}
  /\ raised \subseteq Streams \cup {"join"} /\ timing \in BOOLEAN
  /\ pc \in {"start", "loop", "events", "poll", "alive", "finalize", "wait",
             "closing", "done"}
  /\ outcome \in {"none", "usage", "ok", "failed", "timeout", "crash"}

\* A run reports success only when cargo exited with 0 and every line written
\* to either stream, by cargo or by what it started, has been read: neither a
\* line left in a buffer select cannot see nor one a dying thread held is lost.
SuccessIsComplete ==
  outcome = "ok" => /\ cargo = "succeeded" /\ ~child /\ raised = {}
                    /\ captured = written

\* However the run ends it leaves no cargo running with its pipes open, but for
\* one race: on Windows both threads raise between two looks at their list.
NoCargoLeft == pc = "done" /\ cargo = "running" => raised = Streams

\* A run that ends in a timeout had reached its deadline, and a console or
\* thread failure is never hidden behind another outcome.
OutcomeIsGenuine == /\ outcome = "timeout" => expired /\ raised = {}
                    /\ raised # {} /\ pc = "done" => outcome = "crash"

\* What may hold a run beyond its deadline: on POSIX a readline() on a line
\* cargo has begun and does not finish, on Windows a descendant of cargo that
\* keeps a pipe open while the stream is closed.
Held == \/ reading # "none" /\ Waits(reading)
        \/ pc = "closing" /\ windows /\ open # {} /\ child

\* Every run ends, unless one of the two holds it for ever.
EndsUnlessHeld == <>(pc = "done") \/ <>[]Held

\* The module docstring: output pumping is bounded by
\* RUN_RUST_CARGO_WAIT_TIMEOUT on both platforms.
BoundedByTimeout == expired ~> pc = "done"

=============================================================================
