----------------------------- MODULE Experiment -----------------------------
(***************************************************************************)
(* One run of an experiment. A Python script writes messages to its        *)
(* standard output; a reader goroutine turns its lines into events, a      *)
(* second goroutine waits for the process, and the runner's loop serves    *)
(* whichever of the events, the exit and the deadline is ready. A fixture  *)
(* is a list of calls the runner makes itself.                             *)
(***************************************************************************)
EXTENDS Integers, FiniteSets, Sequences, SequencesExt, Orders

CONSTANTS MessageId,
          MaxSteps,     \* Config.MaxSteps
          MaxPublished, \* maxArtifactsPerRun
          LineRoom,     \* capacity of the channel of lines
          MaxSent       \* bound: messages of the script

ASSUME ExperimentAssumption ==
  MaxSteps \in Nat /\ MaxPublished \in Nat /\ LineRoom \in Nat \ {0} /\ MaxSent \in Nat

VARIABLES sent,      \* what the script has written, in order
          taken,     \* how much of it the reader has read
          script,    \* the child: "alive", "silent" (output closed), or "exited"
          stdout,    \* the read end of its output: "open", or "shut" by Wait
          reader,    \* "reading", or "done"
          held,      \* the event the reader is about to send: <<>> or <<event>>
          lines,     \* the channel of lines
          waiter,    \* the goroutine of Wait: "waiting", "answered", "received"
          expired,   \* the deadline has passed, or the caller is gone
          killed,    \* commandCtx is cancelled
          run,       \* the runner's loop and its result
          executed   \* history: the calls that reached a tool

childVars  == <<sent, script>>
readerVars == <<taken, reader, held>>
experimentVars == <<sent, taken, script, stdout, reader, held, lines, waiter, expired, killed,
                    run, executed>>

Message == [kind : {"call", "artifact"}, id : MessageId]
             \cup {[kind |-> "complete", id |-> "none"], [kind |-> "other", id |-> "none"]}

\* The end of the output, and a read that failed or found too long a line.
Eof    == [kind |-> "eof", id |-> "none"]
Broken == [kind |-> "broken", id |-> "none"]

MaxMessages == MaxSteps + MaxPublished + 2

NoRun == [at |-> "idle", kind |-> "python", steps |-> <<>>, published |-> 0, seen |-> {},
          messages |-> 0, call |-> "none", status |-> "none", code |-> "none"]

Places == {"idle", "greeting", "loop", "executing", "replying", "fatal", "eof", "completing", "leaving",
           "reaping", "fixture", "over"}

ExperimentTypeOK ==
  /\ \A i \in DOMAIN sent : sent[i] \in Message /\ taken \in 0..Len(sent)
  /\ script \in {"alive", "silent", "exited"} /\ stdout \in {"open", "shut"}
  /\ reader \in {"reading", "done"} /\ Len(held) <= 1 /\ Len(lines) <= LineRoom
  /\ waiter \in {"waiting", "answered", "received"} /\ expired \in BOOLEAN /\ killed \in BOOLEAN
  /\ run.at \in Places /\ run.status \in {"none", "completed", "failed"}
  /\ run.seen \subseteq MessageId /\ run.messages <= MaxMessages + 1

ExperimentStart ==
  /\ sent = <<>> /\ taken = 0 /\ script = "alive" /\ stdout = "open"
  /\ reader = "reading" /\ held = <<>> /\ lines = <<>> /\ waiter = "waiting"
  /\ expired = FALSE /\ killed = FALSE /\ run = NoRun /\ executed = <<>>

ExperimentInit == ExperimentStart

----------------------------------------------------------------------------
\* The child process, and the two goroutines beside it.

Write(message) ==
  /\ run.kind = "python" /\ run.at # "idle" /\ script = "alive" /\ Len(sent) < MaxSent
  /\ sent' = Append(sent, message)
  /\ UNCHANGED <<script, readerVars, stdout, lines, waiter, expired, killed, run, executed>>

CloseOutput ==
  /\ run.kind = "python" /\ run.at # "idle"
  /\ \/ script = "alive" /\ script' = "silent"
     \/ script # "exited" /\ script' = "exited"
  /\ UNCHANGED <<sent, readerVars, stdout, lines, waiter, expired, killed, run, executed>>

\* Mutant of Terminate: the child is not bound to the context of the run.
TerminateKilled ==
  /\ run.kind = "python" /\ killed
  /\ script # "exited" /\ script' = "exited"
  /\ UNCHANGED <<sent, readerVars, stdout, lines, waiter, expired, killed, run, executed>>

\* CommandContext: the end of the context, or a kill, ends the process.
Terminate ==
  /\ run.kind = "python" /\ (expired \/ killed)
  /\ script # "exited" /\ script' = "exited"
  /\ UNCHANGED <<sent, readerVars, stdout, lines, waiter, expired, killed, run, executed>>

\* Wait: the process is gone; its pipes are closed, read or not, and the error is sent.
Await ==
  /\ waiter = "waiting" /\ script = "exited"
  /\ stdout' = "shut" /\ waiter' = "answered"
  /\ UNCHANGED <<childVars, readerVars, lines, expired, killed, run, executed>>

\* readLines: one event a line; the end of the output, or an error, is the last one.
NextLine ==
  /\ reader = "reading" /\ held = <<>> /\ run.at \notin {"idle", "greeting"}
  /\ \/ /\ stdout = "open" /\ taken < Len(sent)
        /\ held' = <<sent[taken + 1]>> /\ taken' = taken + 1
     \/ /\ stdout = "open" /\ taken = Len(sent) /\ script # "alive"
        /\ held' = <<Eof>> /\ UNCHANGED taken
     \/ stdout = "shut" /\ held' = <<Broken>> /\ UNCHANGED taken
  /\ UNCHANGED <<childVars, reader, stdout, lines, waiter, expired, killed, run, executed>>

SendLine ==
  /\ held # <<>> /\ Len(lines) < LineRoom
  /\ lines' = lines \o held /\ held' = <<>>
  /\ reader' = IF held[1] \in {Eof, Broken} THEN "done" ELSE "reading"
  /\ UNCHANGED <<childVars, taken, stdout, waiter, expired, killed, run, executed>>

\* The wall-clock budget ends, or the caller goes away.
Expire ==
  /\ run.at \notin {"idle", "over"} /\ ~expired
  /\ expired' = TRUE
  /\ UNCHANGED <<childVars, readerVars, stdout, lines, waiter, killed, run, executed>>

----------------------------------------------------------------------------
\* The loop of the runner.

Steady == UNCHANGED <<childVars, readerVars, stdout, expired>>

Ended(status, code) == [run EXCEPT !.status = status, !.code = code, !.at = "over"]
Abandon(code, place) == [run EXCEPT !.status = "failed", !.code = code, !.at = place]

StartScript ==
  /\ run.at = "idle"
  /\ \/ run' = [NoRun EXCEPT !.at = "greeting"] /\ UNCHANGED <<script, reader, waiter>>
     \/ run' = [NoRun EXCEPT !.at = "fixture", !.kind = "json"] /\ UNCHANGED <<script, reader, waiter>>
     \/ /\ run' = [NoRun EXCEPT !.at = "over", !.status = "failed", !.code = "python_start_failed"]
        /\ script' = "exited" /\ reader' = "done" /\ waiter' = "received"
  /\ UNCHANGED <<sent, taken, held, stdout, expired, lines, killed, executed>>

\* The init message. When it cannot be written, the runner waits for the exit, and no
\* reader is started.
Greet ==
  /\ run.at = "greeting"
  /\ \/ script # "exited" /\ run' = [run EXCEPT !.at = "loop"] /\ UNCHANGED <<reader, waiter>>
     \/ /\ waiter = "answered" /\ waiter' = "received" /\ reader' = "done"
        /\ run' = Ended("failed", "python_exited")
  /\ UNCHANGED <<childVars, taken, held, stdout, expired, lines, killed, executed>>

\* Mutant of FreshCall: an id may be used again.
FreshCallAgain(event) == Len(run.steps) < MaxSteps

FreshCall(event) == event.id \notin run.seen /\ Len(run.steps) < MaxSteps

FreshArtifact(event) == event.id \notin run.seen /\ run.published < MaxPublished

Fatally(counted, code) == [counted EXCEPT !.status = "failed", !.code = code, !.at = "fatal"]

\* A message that parses, counted.
Serve(event, counted) ==
  CASE event.kind = "call" /\ FreshCall(event) ->
         [counted EXCEPT !.seen = @ \cup {event.id}, !.call = event.id, !.at = "executing"]
    [] event.kind = "artifact" /\ FreshArtifact(event) ->
         [counted EXCEPT !.seen = @ \cup {event.id}, !.published = @ + 1, !.at = "replying"]
    [] event.kind = "complete" -> [counted EXCEPT !.status = "completed", !.at = "completing"]
    [] OTHER -> Fatally(counted, IF event.id \in run.seen THEN "duplicate_message_id" ELSE "too_many")

\* An artifact that is too large, undecodable, or that the store refuses.
Unstored(event) ==
  /\ event.kind = "artifact" /\ FreshArtifact(event) /\ run.messages < MaxMessages
  /\ run' = Fatally([run EXCEPT !.messages = @ + 1, !.seen = @ \cup {event.id}], "artifact_refused")

\* What the loop does with one event of the reader.
Handle(event) ==
  CASE event = Eof          -> [run EXCEPT !.at = "eof"]
    [] event = Broken       -> Fatally(run, "output_line_too_long")
    [] event.kind = "other" -> Fatally(run, "protocol_violation")
    [] OTHER -> LET counted == [run EXCEPT !.messages = @ + 1]
                IN IF counted.messages > MaxMessages THEN Fatally(counted, "too_many_messages")
                   ELSE Serve(event, counted)

TakeLine ==
  /\ run.at = "loop" /\ lines # <<>>
  /\ lines' = Tail(lines)
  /\ run' = Handle(Head(lines)) \/ Unstored(Head(lines))
  /\ Steady /\ UNCHANGED <<waiter, killed, executed>>

\* The process has exited, although lines may still be on their way.
TakeExit ==
  /\ run.at = "loop" /\ waiter = "answered"
  /\ waiter' = "received" /\ run' = Ended("failed", "python_exited")
  /\ Steady /\ UNCHANGED <<lines, killed, executed>>

TakeDeadline ==
  /\ run.at = "loop" /\ expired
  /\ killed' = TRUE /\ run' = Abandon("timeout", "reaping")
  /\ Steady /\ UNCHANGED <<lines, waiter, executed>>

\* A tool runs to its answer. A failed one may have failed because the run is over.
Execute ==
  /\ run.at = "executing"
  /\ executed' = Append(executed, run.call)
  /\ \E ok \in BOOLEAN :
       LET stepped == [run EXCEPT !.steps = Append(@, run.call), !.at = "replying"]
       IN IF ok \/ ~expired THEN run' = stepped /\ UNCHANGED killed
          ELSE /\ killed' = TRUE
               /\ run' = [stepped EXCEPT !.status = "failed", !.code = "timeout", !.at = "reaping"]
  /\ Steady /\ UNCHANGED <<lines, waiter>>

\* A reply is read by the script, or finds it gone or deaf.
Reply ==
  /\ run.at = "replying"
  /\ \/ script # "exited" /\ run' = [run EXCEPT !.at = "loop"]
     \/ run' = Abandon("python_exited", "leaving")
  /\ Steady /\ UNCHANGED <<lines, waiter, killed, executed>>

\* exitWhileReplying: the exit, or two seconds, and the output is closed.
Leave ==
  /\ run.at = "leaving"
  /\ \/ waiter = "answered" /\ waiter' = "received" /\ UNCHANGED stdout
     \/ stdout' = "shut" /\ UNCHANGED waiter
  /\ run' = [run EXCEPT !.at = "over"]
  /\ UNCHANGED <<childVars, readerVars, expired, lines, killed, executed>>

\* fatal: the error message is written, then the process is killed.
Fatal ==
  /\ run.at = "fatal"
  /\ killed' = TRUE /\ run' = [run EXCEPT !.at = "reaping"]
  /\ Steady /\ UNCHANGED <<lines, waiter, executed>>

\* The end of the output, and complete: the exit, or two seconds and a kill.
AfterEof ==
  /\ run.at = "eof"
  /\ \/ /\ waiter = "answered" /\ waiter' = "received"
        /\ run' = Ended("failed", "python_exited") /\ UNCHANGED killed
     \/ killed' = TRUE /\ run' = Abandon("python_exited", "reaping") /\ UNCHANGED waiter
  /\ Steady /\ UNCHANGED <<lines, executed>>

AfterComplete ==
  /\ run.at = "completing"
  /\ \/ /\ waiter = "answered" /\ waiter' = "received"
        /\ run' = [run EXCEPT !.at = "over"] /\ UNCHANGED killed
     \/ killed' = TRUE /\ run' = [run EXCEPT !.at = "reaping"] /\ UNCHANGED waiter
  /\ Steady /\ UNCHANGED <<lines, executed>>

\* reap: the exit, or twice two seconds.
Reap ==
  /\ run.at = "reaping"
  /\ \/ waiter = "answered" /\ waiter' = "received"
     \/ UNCHANGED waiter
  /\ run' = [run EXCEPT !.at = "over"]
  /\ Steady /\ UNCHANGED <<lines, killed, executed>>

\* The deferred kill of a run that is over.
Kill ==
  /\ run.at = "over" /\ run.kind = "python" /\ ~killed /\ killed' = TRUE
  /\ Steady /\ UNCHANGED <<lines, waiter, run, executed>>

\* One step of a fixture, until one fails; the deadline shows only in a step that fails. A
\* fixture without steps, or with more than the cap, is refused.
FixtureStep ==
  /\ run.at = "fixture"
  /\ \/ /\ Len(run.steps) < MaxSteps
        /\ \E id \in MessageId, ok \in BOOLEAN :
             /\ executed' = Append(executed, id)
             /\ run' = IF ok THEN [run EXCEPT !.steps = Append(@, id)]
                       ELSE [run EXCEPT !.steps = Append(@, id), !.status = "failed", !.at = "over",
                               !.code = IF expired THEN "timeout" ELSE "step_failed"]
     \/ run.steps # <<>> /\ run' = Ended("completed", "none") /\ UNCHANGED executed
     \/ run.steps = <<>> /\ run' = Ended("failed", "fixture_invalid") /\ UNCHANGED executed
  /\ Steady /\ UNCHANGED <<lines, waiter, killed>>

RunnerStep ==
  \/ Greet \/ TakeLine \/ TakeExit \/ TakeDeadline \/ Execute \/ Reply \/ Leave \/ Fatal \/ AfterEof
  \/ AfterComplete \/ Reap \/ FixtureStep

ExperimentNext ==
  \/ StartScript \/ RunnerStep \/ Kill \/ Expire \/ Terminate \/ Await \/ NextLine \/ SendLine
  \/ CloseOutput \/ \E message \in Message : Write(message)

ExperimentSpec == ExperimentInit /\ [][ExperimentNext]_experimentVars

\* The runner and its goroutines go on, the deadline comes, a killed process ends. What
\* the runner writes, though, nobody but a live script reads, and it need not.
Unblocked == RunnerStep /\ (run.at \in {"greeting", "replying", "fatal"} => script = "exited")

RunnerFairness ==
  /\ WF_experimentVars(Unblocked) /\ WF_experimentVars(Expire) /\ WF_experimentVars(Kill)
  /\ WF_experimentVars(Terminate) /\ WF_experimentVars(Await)
  /\ WF_experimentVars(NextLine) /\ WF_experimentVars(SendLine)

FairExperimentSpec == ExperimentSpec /\ RunnerFairness

----------------------------------------------------------------------------
Calls(messages) ==
  LET calls == Selected(messages, LAMBDA message : message.kind = "call")
  IN [i \in DOMAIN calls |-> calls[i].id]

(***************************************************************************)
(* The manifest tells what was done: however the run ends, its steps are   *)
(* the calls that reached a tool, in the order the script wrote them, none *)
(* twice and none beyond the cap (runner.go:412-460); and a script's run   *)
(* is "completed" only if the script said so after all its calls: what it  *)
(* had written before "complete" was executed and replied to first         *)
(* (runner.go:364-374, 505-513).                                           *)
(***************************************************************************)
ManifestFaithful ==
  /\ run.steps = executed
  /\ Len(run.steps) <= MaxSteps
  /\ run.kind = "python" => /\ IsPrefix(run.steps, Calls(sent))
                            /\ Cardinality(ToSet(run.steps)) = Len(run.steps)
  /\ run.status = "completed" /\ run.kind = "python" =>
       \E i \in DOMAIN sent : /\ sent[i].kind = "complete"
                              /\ Calls(SubSeq(sent, 1, i)) = run.steps

(***************************************************************************)
(* Every run ends and leaves no child, whatever the script does: one that  *)
(* neither exits nor reads its replies, on which the runner's loop is      *)
(* blocked, is killed at the deadline (runner.go:288-290).                 *)
(***************************************************************************)
RunEnds == run.at = "greeting" ~> run.at = "over" /\ script = "exited"

=============================================================================
