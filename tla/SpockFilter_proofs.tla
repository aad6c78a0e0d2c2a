-------------------------- MODULE SpockFilter_proofs --------------------------
(***************************************************************************)
(* The safety properties of SpockFilter, for every pipe size, every number *)
(* of chunks and signals, and every set of exit codes.                     *)
(***************************************************************************)
EXTENDS SpockFilter, TLAPS

-----------------------------------------------------------------------------
(* Types *)

(* A signal sent is one of the three.                                      *)
LEMMA SendType ==
  ASSUME NEW c \in Child, NEW sig \in {"INT", "TERM", "KILL"},
         sent \in [Child -> SUBSET {"INT", "TERM", "KILL"}], Send(c, sig)
  PROVE  sent' \in [Child -> SUBSET {"INT", "TERM", "KILL"}]
BY DEF Send

(* What the variables may hold.                                            *)
THEOREM FilterTypeInvariant == Spec => []FilterTypeOK
<1>1. Init => FilterTypeOK
  <2> SUFFICES ASSUME Init PROVE FilterTypeOK
    OBVIOUS
  <2>1. /\ pid \in [Child -> {"none", "live", "gone"}]
        /\ proc \in [Child -> {"none", "running", "ended", "reaped"}]
    BY DEF Init
  <2>2. inputOpen \in BOOLEAN
    BY DEF Init
  <2>3. /\ pipe \in [Stream -> 0 .. PipeSize] /\ fill \in 0 .. PipeSize
        /\ code \in [Child -> ExitCode \cup {Signaled}]
    BY FilterConstantsOK DEF Init
  <2>4. QED
    BY <2>1, <2>2, <2>3, FilterConstantsOK DEF Init, FilterTypeOK, Event, Over
<1>2. FilterTypeOK /\ [Next]_vars => FilterTypeOK'
  <2> SUFFICES ASSUME FilterTypeOK, [Next]_vars
               PROVE  FilterTypeOK'
    OBVIOUS
  <2> USE FilterConstantsOK DEF Event, Over, Child, Stream
  <2>1. CASE ReadChunk
    <3>1. PICK s \in Stream : /\ Readable(s)
                              /\ pipe' = [pipe EXCEPT ![s] = @ - 1]
      BY <2>1 DEF ReadChunk
    <3>2. pipe' \in [Stream -> 0 .. PipeSize]
      BY <3>1 DEF Readable, FilterTypeOK
    <3>3. fds' \in SUBSET Stream /\ pc' \in {"event", "write"}
      BY <2>1 DEF ReadChunk, FilterTypeOK
    <3>4. QED
      BY <3>2, <3>3, <2>1 DEF ReadChunk, children, FilterTypeOK
  <2>2. CASE CloseHungUp
    BY <2>2 DEF CloseHungUp, HungUp, supervisor, children, pipes,
       FilterTypeOK
  <2>3. CASE PollTimesOut
    BY <2>3 DEF PollTimesOut, supervisor, children, pipes, FilterTypeOK
  <2>4. CASE WriteChunk
    BY <2>4 DEF WriteChunk, supervisor, children, pipes, FilterTypeOK
  <2>5. CASE BrokenPipe
    BY <2>5 DEF BrokenPipe, supervisor, children, pipes, FilterTypeOK
  <2>6. CASE Interrupted
    BY <2>6, SendType DEF Interrupted, IntPrimary, Await, Quiet, supervisor,
       children, pipes, FilterTypeOK
  <2>7. CASE StreamsClosed
    BY <2>7 DEF StreamsClosed, Await, Quiet, supervisor, children, pipes,
       FilterTypeOK
  <2>8. CASE NothingToDo
    BY <2>8 DEF NothingToDo, Quiet, supervisor, children, pipes,
       FilterTypeOK
  <2>9. CASE KeepWaiting
    BY <2>9 DEF KeepWaiting, Quiet, supervisor, children, pipes,
       FilterTypeOK
  <2>10. CASE NaturalWait
    BY <2>10 DEF NaturalWait, Reapable, Reap, NaturalStatus, ExitProgram,
       Quiet, supervisor, children, pipes, FilterTypeOK
  <2>11. CASE NaturalExpires
    BY <2>11, SendType DEF NaturalExpires, IntPrimary, Await, Quiet,
       supervisor, children, pipes, FilterTypeOK
  <2>12. CASE PrimaryEnded
    BY <2>12, SendType DEF PrimaryEnded, Reapable, Reap, IntFilter, Await,
       Quiet, supervisor, children, pipes, FilterTypeOK
  <2>13. CASE PrimaryGone
    BY <2>13, SendType DEF PrimaryGone, IntFilter, Await, Quiet, supervisor,
       children, pipes, FilterTypeOK
  <2>14. CASE PrimaryLate
    BY <2>14, SendType DEF PrimaryLate, Await, Quiet, supervisor, children,
       pipes, FilterTypeOK
  <2>15. CASE PrimaryAbandoned
    BY <2>15, SendType DEF PrimaryAbandoned, IntFilter, Await, ExitProgram,
       Quiet, supervisor, children, pipes, FilterTypeOK
  <2>16. CASE FilterEnded
    BY <2>16 DEF FilterEnded, Reapable, Reap, ExitProgram, Quiet,
       supervisor, children, pipes, FilterTypeOK
  <2>17. CASE FilterGone
    BY <2>17 DEF FilterGone, ExitProgram, Quiet, supervisor, children,
       pipes, FilterTypeOK
  <2>18. CASE FilterLate
    BY <2>18, SendType DEF FilterLate, Await, ExitProgram, Quiet,
       supervisor, children, pipes, FilterTypeOK
  <2>19. CASE TimePasses
    BY <2>19 DEF TimePasses, supervisor, children, pipes, FilterTypeOK
  <2>20. CASE Signal
    BY <2>20 DEF Signal, supervisor, children, pipes, FilterTypeOK
  <2>21. CASE Emit
    BY <2>21 DEF Emit, supervisor, children, pipes, FilterTypeOK
  <2>22. CASE CloseStream
    BY <2>22 DEF CloseStream, supervisor, children, pipes, FilterTypeOK
  <2>23. CASE FilterReads
    BY <2>23 DEF FilterReads, supervisor, children, pipes, FilterTypeOK
  <2>24. CASE ChildEnds
    BY <2>24 DEF ChildEnds, supervisor, children, pipes, FilterTypeOK
  <2>25. CASE UNCHANGED vars
    BY <2>25 DEF vars, supervisor, children, pipes, FilterTypeOK
  <2>26. QED
    BY <2>1, <2>2, <2>3, <2>4, <2>5, <2>6, <2>7, <2>8, <2>9, <2>10, <2>11,
       <2>12, <2>13, <2>14, <2>15, <2>16, <2>17, <2>18, <2>19, <2>20, <2>21,
       <2>22, <2>23, <2>24, <2>25 DEF Next, Supervise
<1>3. QED
  BY <1>1, <1>2, PTL DEF Spec

-----------------------------------------------------------------------------
(* The inductive invariant *)

(* The pending event tells how far the shutdown has got: past the primary  *)
(* its pid has been given up.                                              *)
EventsInOrder ==
    /\ nextEvent \in {"kill-primary", "int-filter", "term-filter"} => pid["primary"] = "gone"
    /\ nextEvent # "none" => pid["primary"] # "none"

(* A primary that never was keeps its streams open, and one that was given *)
(* up without being reaped left its mark in the exit status.               *)
PrimaryAccounted ==
    /\ pid["primary"] = "none" => proc["primary"] = "none" /\ writers = Stream
    /\ pid["primary"] = "gone" /\ programExitStatus = 0 =>
          proc["primary"] = "reaped" /\ code["primary"] = 0
    /\ pc = "exited" => pid["primary"] = "gone"

(* A running filter is known by its pid or has been killed.                *)
FilterAccounted ==
    /\ proc["filter"] = "running" => pid["filter"] = "live" \/ "KILL" \in sent["filter"]
    /\ pc = "exited" => pid["filter"] # "live"

FilterInv ==
    /\ PidsAreOurs
    /\ NothingDropped
    /\ FilterOutlivesPrimary
    /\ EventsInOrder
    /\ PrimaryAccounted
    /\ FilterAccounted

(* The invariant holds in every state: no order of hang-ups, ends of       *)
(* children, deadlines and signals breaks any of its parts.                *)
THEOREM FilterInvariant == Spec => []FilterInv
<1>0. /\ Target = "primary" => nextEvent \in {"int-primary", "term-primary"}
      /\ Target = "filter" => nextEvent \in {"int-filter", "term-filter"}
  BY DEF Target
<1>1. Init => FilterInv
  BY DEF Init, FilterInv, PidsAreOurs, NothingDropped, FilterOutlivesPrimary, EventsInOrder, PrimaryAccounted, FilterAccounted, Child, Stream
<1>2. FilterTypeOK /\ FilterInv /\ [Next]_vars => FilterInv'
  <2> SUFFICES ASSUME FilterTypeOK, FilterInv, [Next]_vars
               PROVE  FilterInv'
    OBVIOUS
  <2> USE FilterConstantsOK DEF Event, Over, Child, Stream, FilterTypeOK,
          FilterInv
  <2>1. CASE ReadChunk
    BY <2>1 DEF ReadChunk, Readable, HungUp, supervisor, children, pipes,
       PidsAreOurs, NothingDropped, FilterOutlivesPrimary, EventsInOrder,
       PrimaryAccounted, FilterAccounted
  <2>2. CASE CloseHungUp
    BY <2>2 DEF CloseHungUp, HungUp, supervisor, children, pipes,
       PidsAreOurs, NothingDropped, FilterOutlivesPrimary, EventsInOrder,
       PrimaryAccounted, FilterAccounted
  <2>3. CASE PollTimesOut
    BY <2>3 DEF PollTimesOut, supervisor, children, pipes, PidsAreOurs,
       NothingDropped, FilterOutlivesPrimary, EventsInOrder, PrimaryAccounted,
       FilterAccounted
  <2>4. CASE WriteChunk
    BY <2>4 DEF WriteChunk, supervisor, children, pipes, PidsAreOurs,
       NothingDropped, FilterOutlivesPrimary, EventsInOrder, PrimaryAccounted,
       FilterAccounted
  <2>5. CASE BrokenPipe
    BY <2>5 DEF BrokenPipe, supervisor, children, pipes, PidsAreOurs,
       NothingDropped, FilterOutlivesPrimary, EventsInOrder, PrimaryAccounted,
       FilterAccounted
  <2>6. CASE Interrupted
    BY <2>6 DEF Interrupted, IntPrimary, Await, Send, Quiet, supervisor,
       children, pipes, PidsAreOurs, NothingDropped, FilterOutlivesPrimary,
       EventsInOrder, PrimaryAccounted, FilterAccounted
  <2>7. CASE StreamsClosed
    BY <2>7 DEF StreamsClosed, Await, Quiet, supervisor, children, pipes,
       PidsAreOurs, NothingDropped, FilterOutlivesPrimary, EventsInOrder,
       PrimaryAccounted, FilterAccounted
  <2>8. CASE NothingToDo
    BY <2>8 DEF NothingToDo, Quiet, supervisor, children, pipes,
       PidsAreOurs, NothingDropped, FilterOutlivesPrimary, EventsInOrder,
       PrimaryAccounted, FilterAccounted
  <2>9. CASE KeepWaiting
    BY <2>9 DEF KeepWaiting, Quiet, supervisor, children, pipes,
       PidsAreOurs, NothingDropped, FilterOutlivesPrimary, EventsInOrder,
       PrimaryAccounted, FilterAccounted
  <2>10. CASE NaturalWait
    BY <2>10 DEF NaturalWait, Reapable, Reap, NaturalStatus, ExitProgram,
       Quiet, supervisor, children, pipes, PidsAreOurs, NothingDropped,
       FilterOutlivesPrimary, EventsInOrder, PrimaryAccounted, FilterAccounted
  <2>11. CASE NaturalExpires
    BY <2>11 DEF NaturalExpires, IntPrimary, Await, Send, Quiet, supervisor,
       children, pipes, PidsAreOurs, NothingDropped, FilterOutlivesPrimary,
       EventsInOrder, PrimaryAccounted, FilterAccounted
  <2>12. CASE PrimaryEnded
    BY <2>12 DEF PrimaryEnded, Reapable, Reap, IntFilter, Await, Send,
       Quiet, supervisor, children, pipes, PidsAreOurs, NothingDropped,
       FilterOutlivesPrimary, EventsInOrder, PrimaryAccounted, FilterAccounted
  <2>13. CASE PrimaryGone
    BY <2>13, <1>0 DEF PrimaryGone, IntFilter, Await, Send, Quiet,
       supervisor, children, pipes, PidsAreOurs, NothingDropped,
       FilterOutlivesPrimary, EventsInOrder, PrimaryAccounted, FilterAccounted
  <2>14. CASE PrimaryLate
    BY <2>14 DEF PrimaryLate, Await, Send, Quiet, supervisor, children,
       pipes, PidsAreOurs, NothingDropped, FilterOutlivesPrimary,
       EventsInOrder, PrimaryAccounted, FilterAccounted
  <2>15. CASE PrimaryAbandoned
    BY <2>15 DEF PrimaryAbandoned, IntFilter, Await, Send, ExitProgram,
       Quiet, supervisor, children, pipes, PidsAreOurs, NothingDropped,
       FilterOutlivesPrimary, EventsInOrder, PrimaryAccounted, FilterAccounted
  <2>16. CASE FilterEnded
    BY <2>16, <1>0 DEF FilterEnded, Reapable, Reap, ExitProgram, Quiet,
       supervisor, children, pipes, PidsAreOurs, NothingDropped,
       FilterOutlivesPrimary, EventsInOrder, PrimaryAccounted, FilterAccounted
  <2>17. CASE FilterGone
    BY <2>17, <1>0 DEF FilterGone, ExitProgram, Quiet, supervisor, children,
       pipes, PidsAreOurs, NothingDropped, FilterOutlivesPrimary,
       EventsInOrder, PrimaryAccounted, FilterAccounted
  <2>18. CASE FilterLate
    <3>1. nextEvent \in {"int-filter", "term-filter"} /\ pid["primary"] = "gone"
      BY <2>18 DEF FilterLate, EventsInOrder
    <3>2. CASE nextEvent = "int-filter"
      BY <2>18, <3>1, <3>2 DEF FilterLate, Await, Send, Quiet, supervisor,
         children, pipes, PidsAreOurs, NothingDropped,
            FilterOutlivesPrimary, EventsInOrder, PrimaryAccounted,
            FilterAccounted
    <3>3. CASE nextEvent = "term-filter"
      BY <2>18, <3>1, <3>3 DEF FilterLate, Await, Send, ExitProgram, Quiet,
         supervisor, children, pipes, PidsAreOurs, NothingDropped,
            FilterOutlivesPrimary, EventsInOrder, PrimaryAccounted,
            FilterAccounted
    <3>4. QED
      BY <3>1, <3>2, <3>3
  <2>19. CASE TimePasses
    BY <2>19 DEF TimePasses, supervisor, children, pipes, PidsAreOurs,
       NothingDropped, FilterOutlivesPrimary, EventsInOrder, PrimaryAccounted,
       FilterAccounted
  <2>20. CASE Signal
    BY <2>20 DEF Signal, supervisor, children, pipes, PidsAreOurs,
       NothingDropped, FilterOutlivesPrimary, EventsInOrder, PrimaryAccounted,
       FilterAccounted
  <2>21. CASE Emit
    BY <2>21 DEF Emit, supervisor, children, pipes, PidsAreOurs,
       NothingDropped, FilterOutlivesPrimary, EventsInOrder, PrimaryAccounted,
       FilterAccounted
  <2>22. CASE CloseStream
    BY <2>22 DEF CloseStream, supervisor, children, pipes, PidsAreOurs,
       NothingDropped, FilterOutlivesPrimary, EventsInOrder, PrimaryAccounted,
       FilterAccounted
  <2>23. CASE FilterReads
    BY <2>23 DEF FilterReads, supervisor, children, pipes, PidsAreOurs,
       NothingDropped, FilterOutlivesPrimary, EventsInOrder, PrimaryAccounted,
       FilterAccounted
  <2>24. CASE ChildEnds
    BY <2>24 DEF ChildEnds, supervisor, children, pipes, PidsAreOurs,
       NothingDropped, FilterOutlivesPrimary, EventsInOrder, PrimaryAccounted,
       FilterAccounted
  <2>25. CASE UNCHANGED vars
    BY <2>25 DEF vars, supervisor, children, pipes, PidsAreOurs,
       NothingDropped, FilterOutlivesPrimary, EventsInOrder, PrimaryAccounted,
       FilterAccounted
  <2>26. QED
    BY <2>1, <2>2, <2>3, <2>4, <2>5, <2>6, <2>7, <2>8, <2>9, <2>10, <2>11,
       <2>12, <2>13, <2>14, <2>15, <2>16, <2>17, <2>18, <2>19, <2>20, <2>21,
       <2>22, <2>23, <2>24, <2>25 DEF Next, Supervise
<1>3. QED
  BY <1>1, <1>2, FilterTypeInvariant, PTL DEF Spec

-----------------------------------------------------------------------------
(* The properties *)

(* kill() and waitpid() are only ever called with the pid of a child of    *)
(* the supervisor that has not been reaped.                                *)
THEOREM PidsStayOurs == Spec => []PidsAreOurs
BY FilterInvariant, PTL DEF FilterInv

(* No output is lost between the primary and the filter.                   *)
THEOREM OutputIsForwarded == Spec => []NothingDropped
BY FilterInvariant, PTL DEF FilterInv

(* The filter is not signaled before the primary is given up.              *)
THEOREM FilterSignaledLast == Spec => []FilterOutlivesPrimary
BY FilterInvariant, PTL DEF FilterInv

(* An exit status of zero means that the primary was waited for and exited *)
(* with zero.                                                              *)
THEOREM SuccessIsNotMadeUp == Spec => []SuccessIsReal
<1>1. FilterInv => SuccessIsReal
  BY DEF FilterInv, PrimaryAccounted, SuccessIsReal
<1>2. QED
  BY <1>1, FilterInvariant, PTL

(* No exit leaves a filter behind that has not been killed.                *)
THEOREM FilterNotLeftBehind == Spec => []NoFilterLeft
<1>1. FilterInv => NoFilterLeft
  BY DEF FilterInv, FilterAccounted, NoFilterLeft
<1>2. QED
  BY <1>1, FilterInvariant, PTL
=============================================================================
