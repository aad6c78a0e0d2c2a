----------------------------- MODULE SpockFilter -----------------------------
(***************************************************************************)
(* spock-filter: a supervisor that runs a primary command, feeds what it   *)
(* prints to a filter command, and takes both down when it is interrupted. *)
(* One loop polls the two output pipes of the primary, forwards a chunk,   *)
(* and then lets the pending event act: the events form a chain that waits *)
(* for a child, and signals it harder when the wait exceeds a deadline.    *)
(*                                                                         *)
(* The children and the user act in between.  A chunk is one read(); the   *)
(* clock is a flag that says whether the deadline of the event has passed. *)
(***************************************************************************)
EXTENDS Naturals, FiniteSets

CONSTANTS
    ExitCode,       \* exit codes of the children
    Signaled,       \* how a child ends that a signal kills
    PipeSize,       \* chunks that fit in a pipe
    MaxChunks,      \* bounds the chunks the primary prints
    MaxSignals      \* bounds the signals the supervisor receives

ASSUME FilterConstantsOK ==
    /\ ExitCode \subseteq Nat /\ 0 \in ExitCode
    /\ Signaled \notin ExitCode
    /\ PipeSize \in Nat \ {0}
    /\ MaxChunks \in Nat
    /\ MaxSignals \in Nat

Child  == {"primary", "filter"}
Stream == {"stdout", "stderr"}

VARIABLES
    (* The supervisor *)
    pc,                 \* "poll", "write", "event", or how it ended
    nextEvent,          \* the pending event, "none" at first
    due,                \* the deadline of that event has passed
    wasInterrupted,     \* set by the signal handler
    programExitStatus,
    pid,                \* pid[c]: "none" (0), "live" (> 0) or "gone" (-1)
    fds,                \* the streams of the primary still polled
    inputOpen,          \* the write end of the filter's input is open
    (* The rest of the system *)
    proc,               \* proc[c]: "none", "running", "ended" or "reaped"
    code,               \* code[c]: how c ended
    writers,            \* streams that some process may still write to
    pipe,               \* pipe[s]: chunks waiting in stream s
    fill,               \* chunks waiting in the filter's input
    (* History *)
    sent,               \* sent[c]: signals the supervisor has sent to c
    written, signals    \* chunks printed, signals received

supervisor == <<pc, nextEvent, due, wasInterrupted, programExitStatus, pid, fds, inputOpen>>
children   == <<proc, code>>
pipes      == <<writers, pipe, fill>>
vars       == <<supervisor, children, pipes, sent, written, signals>>

Over == {"exited", "aborted", "killed"}

-----------------------------------------------------------------------------
(* Both children are started before the main loop, the filter only if one  *)
(* is given.  If the primary cannot be forked its pid is 0, and the write  *)
(* ends of its pipes stay open in the supervisor itself.                   *)
Init ==
    /\ pc = "poll" /\ nextEvent = "none" /\ due = FALSE
    /\ wasInterrupted = FALSE /\ programExitStatus = 0
    /\ proc \in [Child -> {"none", "running"}]
    /\ pid = [c \in Child |-> IF proc[c] = "running" THEN "live" ELSE "none"]
    /\ inputOpen = (proc["filter"] = "running")
    /\ fds = Stream /\ writers = Stream
    /\ code = [c \in Child |-> 0]
    /\ pipe = [s \in Stream |-> 0] /\ fill = 0
    /\ sent = [c \in Child |-> {}]
    /\ written = 0 /\ signals = 0

-----------------------------------------------------------------------------
(* transferData: poll the streams, stdout first *)

(* Mutant: a stream is read without looking at its POLLIN.                 *)
ReadableUnchecked(s) == s \in fds

Readable(s) == s \in fds /\ pipe[s] > 0

(* Mutant: POLLHUP closes a stream that still holds data.                  *)
HungUpEarly(s) == s \in fds /\ s \notin writers

HungUp(s) == s \in fds /\ pipe[s] = 0 /\ s \notin writers

(* One chunk is read and the other stream left for the next round, unless  *)
(* it comes first and is seen to be closed.                                *)
ReadChunk ==
    /\ pc = "poll"
    /\ \E s \in Stream :
          /\ Readable(s)
          /\ s = "stderr" => ~ Readable("stdout")
          /\ pipe' = [pipe EXCEPT ![s] = @ - 1]
          /\ fds' = fds \ {t \in {"stdout"} : HungUp(t)}
    /\ pc' = IF proc["filter"] = "none" THEN "event" ELSE "write"
    /\ UNCHANGED <<nextEvent, due, wasInterrupted, programExitStatus, pid, inputOpen,
                   children, writers, fill, sent, written, signals>>

CloseHungUp ==
    /\ pc = "poll"
    /\ \A s \in Stream : ~ Readable(s)
    /\ \E s \in Stream : HungUp(s)
    /\ fds' = fds \ {s \in Stream : HungUp(s)}
    /\ pc' = "event"
    /\ UNCHANGED <<nextEvent, due, wasInterrupted, programExitStatus, pid, inputOpen,
                   children, pipes, sent, written, signals>>

PollTimesOut ==
    /\ pc = "poll"
    /\ \A s \in Stream : ~ Readable(s) /\ ~ HungUp(s)
    /\ pc' = "event"
    /\ UNCHANGED <<nextEvent, due, wasInterrupted, programExitStatus, pid, fds, inputOpen,
                   children, pipes, sent, written, signals>>

(* The write blocks as long as the pipe is full.                           *)
WriteChunk ==
    /\ pc = "write" /\ proc["filter"] = "running" /\ fill < PipeSize
    /\ fill' = fill + 1
    /\ pc' = "event"
    /\ UNCHANGED <<nextEvent, due, wasInterrupted, programExitStatus, pid, fds, inputOpen,
                   children, writers, pipe, sent, written, signals>>

(* Nobody is left to read: SIGPIPE, which the supervisor does not catch.   *)
BrokenPipe ==
    /\ pc = "write" /\ proc["filter"] # "running"
    /\ pc' = "killed"
    /\ UNCHANGED <<nextEvent, due, wasInterrupted, programExitStatus, pid, fds, inputOpen,
                   children, pipes, sent, written, signals>>

-----------------------------------------------------------------------------
(* The events: what a constructor and a finalAction() do *)

(* The event e is pending from now on, in the place of the one that acted. *)
Await(e) ==
    /\ nextEvent' = e
    /\ due' = FALSE
    /\ pc' = "poll"

ExitProgram ==
    /\ pc' = "exited"
    /\ UNCHANGED <<nextEvent, due>>

Send(c, sig) == sent' = [sent EXCEPT ![c] = @ \cup {sig}]

(* IntFilter(): a filter that is gone, or that there never was, is awaited *)
(* all the same.                                                           *)
IntFilter(pids) ==
    /\ IF pids["filter"] = "live" THEN Send("filter", "INT") ELSE UNCHANGED sent
    /\ Await("int-filter")

(* IntPrimary(): if there is no primary any more, an IntFilter signals the *)
(* filter, but it is replaced at once by this event.                       *)
IntPrimary ==
    /\ Await("int-primary")
    /\ IF pid["primary"] = "live"
       THEN Send("primary", "INT") /\ UNCHANGED <<pid, programExitStatus>>
       ELSE /\ IF pid["filter"] = "live" THEN Send("filter", "INT") ELSE UNCHANGED sent
            /\ pid' = [pid EXCEPT !["primary"] = "gone"]
            /\ programExitStatus' = 1

Quiet == UNCHANGED <<wasInterrupted, fds, code, pipes, written, signals>>

(* No event yet: begin the shutdown, or wait for the children to end once  *)
(* both streams are closed.                                                *)
Interrupted ==
    /\ pc = "event" /\ nextEvent = "none" /\ wasInterrupted
    /\ IntPrimary
    /\ UNCHANGED <<inputOpen, proc>> /\ Quiet

StreamsClosed ==
    /\ pc = "event" /\ nextEvent = "none" /\ ~ wasInterrupted /\ fds = {}
    /\ inputOpen' = FALSE
    /\ Await("natural")
    /\ UNCHANGED <<programExitStatus, pid, proc, sent>> /\ Quiet

NothingToDo ==
    /\ pc = "event" /\ nextEvent = "none" /\ ~ wasInterrupted /\ fds # {}
    /\ pc' = "poll"
    /\ UNCHANGED <<nextEvent, due, programExitStatus, pid, inputOpen, proc, sent>> /\ Quiet

-----------------------------------------------------------------------------
(* DoThenWait::process: the final action of the pending event, once its    *)
(* deadline has passed or else its wait condition holds.                   *)

(* waitpid() finds that c has ended.                                       *)
Reapable(c) == pid[c] = "live" /\ proc[c] = "ended" /\ ~ due

(* Mutant: the pid of a reaped child is not given up.                      *)
ReapKeepsPid(R) ==
    /\ proc' = [c \in Child |-> IF c \in R THEN "reaped" ELSE proc[c]]
    /\ UNCHANGED pid

Reap(R) ==
    /\ proc' = [c \in Child |-> IF c \in R THEN "reaped" ELSE proc[c]]
    /\ pid' = [c \in Child |-> IF c \in R THEN "gone" ELSE pid[c]]

(* The child that an event other than "natural" waits for.                 *)
Target == CASE nextEvent \in {"int-primary", "term-primary"} -> "primary"
            [] nextEvent \in {"int-filter", "term-filter"} -> "filter"
            [] OTHER -> "none"

KeepWaiting ==
    /\ pc = "event" /\ Target # "none" /\ ~ due
    /\ pid[Target] = "live" /\ proc[Target] = "running"
    /\ pc' = "poll"
    /\ UNCHANGED <<nextEvent, due, programExitStatus, pid, inputOpen, proc, sent>> /\ Quiet

(* WaitForNaturalExit: the status of the filter wins over the primary's.   *)
NaturalStatus(R) ==
    programExitStatus' = IF "filter" \in R /\ code["filter"] # 0 THEN 2
                         ELSE IF "primary" \in R /\ code["primary"] # 0 THEN 1
                         ELSE programExitStatus

NaturalWait ==
    /\ pc = "event" /\ nextEvent = "natural" /\ ~ due
    /\ LET R == {c \in Child : Reapable(c)}
       IN  /\ Reap(R)
           /\ NaturalStatus(R)
           /\ IF \E c \in Child \ R : pid[c] = "live"
              THEN pc' = "poll" /\ UNCHANGED <<nextEvent, due>>
              ELSE ExitProgram
    /\ UNCHANGED <<inputOpen, sent>> /\ Quiet

NaturalExpires ==
    /\ pc = "event" /\ nextEvent = "natural" /\ due
    /\ IntPrimary
    /\ UNCHANGED <<inputOpen, proc>> /\ Quiet

(* Mutant: a primary that died of a signal leaves the status alone.        *)
PrimaryEndedWell ==
    /\ pc = "event" /\ Target = "primary" /\ Reapable("primary")
    /\ Reap({"primary"})
    /\ programExitStatus' = IF code["primary"] = Signaled THEN programExitStatus
                            ELSE code["primary"]
    /\ IntFilter(pid)
    /\ UNCHANGED inputOpen /\ Quiet

(* IntPrimary and TermPrimary: go on with the filter when the primary is   *)
(* over, signal the primary harder when it is late.                        *)
PrimaryEnded ==
    /\ pc = "event" /\ Target = "primary" /\ Reapable("primary")
    /\ Reap({"primary"})
    /\ programExitStatus' = IF code["primary"] = Signaled THEN 1 ELSE code["primary"]
    /\ IntFilter(pid)
    /\ UNCHANGED inputOpen /\ Quiet

PrimaryGone ==
    /\ pc = "event" /\ Target = "primary" /\ pid["primary"] # "live"
    /\ IntFilter(pid)
    /\ UNCHANGED <<programExitStatus, pid, inputOpen, proc>> /\ Quiet

(* Mutant: KillPrimary keeps the pid.                                      *)
PrimaryLateKeepsPid ==
    /\ pc = "event" /\ Target = "primary" /\ pid["primary"] = "live" /\ due
    /\ \/ /\ nextEvent = "int-primary"
          /\ Send("primary", "TERM")
          /\ Await("term-primary")
          /\ UNCHANGED programExitStatus
       \/ /\ nextEvent = "term-primary"
          /\ Send("primary", "INT")
          /\ programExitStatus' = 1
          /\ Await("kill-primary")
    /\ UNCHANGED <<pid, inputOpen, proc>> /\ Quiet

PrimaryLate ==
    /\ pc = "event" /\ Target = "primary" /\ pid["primary"] = "live" /\ due
    /\ \/ /\ nextEvent = "int-primary"
          /\ Send("primary", "TERM")
          /\ Await("term-primary")
          /\ UNCHANGED <<programExitStatus, pid>>
       \/ /\ nextEvent = "term-primary"         \* KillPrimary()
          /\ Send("primary", "INT")
          /\ programExitStatus' = 1
          /\ pid' = [pid EXCEPT !["primary"] = "gone"]
          /\ Await("kill-primary")
    /\ UNCHANGED <<inputOpen, proc>> /\ Quiet

(* Mutant: the filter is forgotten.                                        *)
PrimaryAbandonedExits ==
    /\ pc = "event" /\ nextEvent = "kill-primary"
    /\ ExitProgram
    /\ UNCHANGED <<programExitStatus, pid, inputOpen, proc, sent>> /\ Quiet

(* KillPrimary does not wait.                                              *)
PrimaryAbandoned ==
    /\ pc = "event" /\ nextEvent = "kill-primary"
    /\ IF pid["filter"] = "live" THEN IntFilter(pid) ELSE ExitProgram /\ UNCHANGED sent
    /\ UNCHANGED <<programExitStatus, pid, inputOpen, proc>> /\ Quiet

(* IntFilter and TermFilter.                                               *)
FilterEnded ==
    /\ pc = "event" /\ Target = "filter" /\ Reapable("filter")
    /\ Reap({"filter"})
    /\ programExitStatus' = IF code["filter"] # 0 THEN 2 ELSE programExitStatus
    /\ ExitProgram
    /\ UNCHANGED <<inputOpen, sent>> /\ Quiet

FilterGone ==
    /\ pc = "event" /\ Target = "filter" /\ pid["filter"] # "live"
    /\ ExitProgram
    /\ UNCHANGED <<programExitStatus, pid, inputOpen, proc, sent>> /\ Quiet

(* Mutant: an IntFilter follows a TermFilter.                              *)
FilterLateAgain ==
    /\ pc = "event" /\ Target = "filter" /\ pid["filter"] = "live" /\ due
    /\ \/ /\ nextEvent = "int-filter"
          /\ Send("filter", "TERM")
          /\ Await("term-filter")
       \/ /\ nextEvent = "term-filter"
          /\ IntFilter(pid)
    /\ UNCHANGED <<programExitStatus, pid, inputOpen, proc>> /\ Quiet

FilterLate ==
    /\ pc = "event" /\ Target = "filter" /\ pid["filter"] = "live" /\ due
    /\ \/ /\ nextEvent = "int-filter"
          /\ Send("filter", "TERM")
          /\ Await("term-filter")
          /\ UNCHANGED <<programExitStatus, pid>>
       \/ /\ nextEvent = "term-filter"          \* KillFilter() exits
          /\ Send("filter", "KILL")
          /\ programExitStatus' = 2
          /\ pid' = [pid EXCEPT !["filter"] = "gone"]
          /\ ExitProgram
    /\ UNCHANGED <<inputOpen, proc>> /\ Quiet

Supervise ==
    \/ ReadChunk \/ CloseHungUp \/ PollTimesOut \/ WriteChunk \/ BrokenPipe
    \/ Interrupted \/ StreamsClosed \/ NothingToDo \/ KeepWaiting
    \/ NaturalWait \/ NaturalExpires
    \/ PrimaryEnded \/ PrimaryGone \/ PrimaryLate \/ PrimaryAbandoned
    \/ FilterEnded \/ FilterGone \/ FilterLate

-----------------------------------------------------------------------------
(* Time, signals and the children *)

TimePasses ==
    /\ pc \notin Over /\ ~ due
    /\ nextEvent \notin {"none", "kill-primary"}
    /\ due' = TRUE
    /\ UNCHANGED <<pc, nextEvent, wasInterrupted, programExitStatus, pid, fds, inputOpen,
                   children, pipes, sent, written, signals>>

(* SIGINT or SIGTERM: a blocked poll() returns early, a blocked write()    *)
(* fails and the assertion that all was written terminates the program.    *)
(* The signal may also come just before the call blocks.                   *)
Signal ==
    /\ pc \notin Over /\ signals < MaxSignals
    /\ signals' = signals + 1
    /\ wasInterrupted' = TRUE
    /\ \/ pc' = pc
       \/ pc = "poll" /\ pc' = "event"
       \/ pc = "write" /\ proc["filter"] = "running" /\ fill = PipeSize /\ pc' = "aborted"
    /\ UNCHANGED <<nextEvent, due, programExitStatus, pid, fds, inputOpen,
                   children, pipes, sent, written>>

(* The primary, or a process it started, prints.                           *)
Emit ==
    /\ proc["primary"] # "none" /\ written < MaxChunks
    /\ \E s \in writers :
          /\ pipe[s] < PipeSize
          /\ pipe' = [pipe EXCEPT ![s] = @ + 1]
    /\ written' = written + 1
    /\ UNCHANGED <<supervisor, children, writers, fill, sent, signals>>

(* The last process that could write to a stream closes it.                *)
CloseStream ==
    /\ proc["primary"] # "none"
    /\ \E s \in writers : writers' = writers \ {s}
    /\ UNCHANGED <<supervisor, children, pipe, fill, sent, written, signals>>

FilterReads ==
    /\ proc["filter"] = "running" /\ fill > 0
    /\ fill' = fill - 1
    /\ UNCHANGED <<supervisor, children, writers, pipe, sent, written, signals>>

(* A child ends by itself or of a signal; SIGKILL leaves it no choice.     *)
ChildEnds ==
    /\ \E c \in Child :
          /\ proc[c] = "running"
          /\ proc' = [proc EXCEPT ![c] = "ended"]
          /\ \E k \in IF "KILL" \in sent[c] THEN {Signaled} ELSE ExitCode \cup {Signaled} :
                code' = [code EXCEPT ![c] = k]
    /\ UNCHANGED <<supervisor, pipes, sent, written, signals>>

Next ==
    \/ Supervise
    \/ TimePasses \/ Signal
    \/ Emit \/ CloseStream \/ FilterReads \/ ChildEnds

Spec == Init /\ [][Next]_vars

(* The supervisor is scheduled, the clock runs, and the filter reads what  *)
(* it is sent or ends.  The children need not end of themselves.           *)
FairSpec == Spec /\ WF_vars(Supervise) /\ WF_vars(TimePasses) /\ WF_vars(FilterReads)

-----------------------------------------------------------------------------
(* Properties *)

Event == {"none", "natural", "int-primary", "term-primary", "kill-primary",
          "int-filter", "term-filter"}

(* The variables hold what they are meant to hold.                         *)
FilterTypeOK ==
    /\ pc \in {"poll", "write", "event"} \cup Over
    /\ nextEvent \in Event
    /\ due \in BOOLEAN /\ wasInterrupted \in BOOLEAN /\ inputOpen \in BOOLEAN
    /\ programExitStatus \in ExitCode \cup {1, 2}
    /\ pid \in [Child -> {"none", "live", "gone"}]
    /\ fds \in SUBSET Stream /\ writers \in SUBSET Stream
    /\ proc \in [Child -> {"none", "running", "ended", "reaped"}]
    /\ code \in [Child -> ExitCode \cup {Signaled}]
    /\ pipe \in [Stream -> 0 .. PipeSize] /\ fill \in 0 .. PipeSize
    /\ sent \in [Child -> SUBSET {"INT", "TERM", "KILL"}]
    /\ written \in Nat /\ signals \in Nat

(* A pid the supervisor still holds, and may signal or wait for, is that   *)
(* of its own child: it is given up no later than the child is reaped and  *)
(* its pid can be used again.                                              *)
PidsAreOurs == \A c \in Child : pid[c] = "live" => proc[c] \in {"running", "ended"}

(* The filter's input is closed only when the primary can print no more    *)
(* and all it printed has been passed on, so statistics are complete: a    *)
(* stream is closed at its end, not when its writer has hung up.           *)
NothingDropped ==
    /\ \A s \in Stream \ fds : s \notin writers /\ pipe[s] = 0
    /\ proc["filter"] # "none" /\ ~ inputOpen => fds = {} /\ pc # "write"

(* The filter is not signaled while the supervisor may still wait for the  *)
(* primary: its final statistics come after all the output.                *)
FilterOutlivesPrimary == sent["filter"] # {} => pid["primary"] # "live"

(* The program reports success only if the primary was waited for and      *)
(* exited with zero, whichever events took their turn until then.          *)
SuccessIsReal ==
    pc = "exited" /\ programExitStatus = 0 =>
        proc["primary"] = "reaped" /\ code["primary"] = 0

(* When the program exits its filter is over, or is being killed: events   *)
(* that are replaced half way never leave it behind.                       *)
NoFilterLeft ==
    pc = "exited" => proc["filter"] # "running" \/ "KILL" \in sent["filter"]

(* Once the program is interrupted, or nobody can print any more, it ends, *)
(* even if neither child ever does, as long as the filter reads.           *)
EndsOnceOver == wasInterrupted \/ writers = {} ~> pc \in Over

(* What the documentation says of signals: the program catches them and    *)
(* then signals the primary.                                               *)
SignalReachesPrimary ==
    pc \in Over /\ wasInterrupted =>
        sent["primary"] # {} \/ proc["primary"] # "running"
=============================================================================
