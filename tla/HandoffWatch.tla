--------------------------- MODULE HandoffWatch ---------------------------
(***************************************************************************)
(* Watching a handoff (session_peer_core/handoff_watch.py): samples of the *)
(* ledger become frames on an output that may block, through a writer      *)
(* child that alone touches it, until a deadline, an interrupt or a        *)
(* failure ends them with one last frame.                                  *)
(*                                                                         *)
(* Time has four limits in this order: no more samples and snapshot frames *)
(* (1), no more of the end frame (2), no more waiting for the child (3).   *)
(***************************************************************************)
EXTENDS Integers, Sequences

CONSTANTS
  MaxHistory,   \* bound: changes of the record
  MaxEpochs,    \* bound: replacements of the ledger
  FrameLimit,   \* snapshot frames that fit into the output limit
  MaxInterrupts \* bound: interrupts of the terminal

ASSUME WatchAssumption == /\ MaxHistory \in Nat /\ MaxEpochs \in Nat /\ FrameLimit \in Nat /\ MaxInterrupts \in Nat

VARIABLES
  clock,      \* which of the limits are over
  history,    \* epoch and value of the record
  watcher,    \* the watching command
  helper,     \* the writer child: its state and the frame it holds
  output,     \* what reached the output, each frame whole or cut
  interrupts  \* interrupts so far

watchVars == <<clock, history, watcher, helper, output, interrupts>>

NoFrame == [kind |-> "none", epoch |-> 0, value |-> 0, reason |-> "", count |-> 0, whole |-> FALSE]
WatchInit ==
  /\ clock = 0 /\ history = [epoch |-> 1, value |-> 1] /\ output = <<>> /\ interrupts = 0
  /\ watcher = [pc |-> "start", reason |-> "history_unavailable", snapshots |-> 0, used |-> 0, damaged |-> FALSE,
                epoch |-> 0, previous |-> 0, code |-> -1]
  /\ helper = [state |-> "none", holds |-> NoFrame]

Doing(pc) == watcher.pc = pc
(* The loop is left with a reason; the end frame is next.                  *)
Leaves(reason) == watcher' = [watcher EXCEPT !.pc = "end", !.reason = reason]

WriterStarts ==
  /\ Doing("start")
  /\ \/ watcher' = [watcher EXCEPT !.pc = "sample"] /\ helper' = [helper EXCEPT !.state = "idle"]
     \/ /\ watcher' = [watcher EXCEPT !.pc = "over", !.reason = "output_unavailable", !.code = 1]
        /\ UNCHANGED helper
  /\ UNCHANGED <<clock, history, output, interrupts>>

(* One sample: the ledger may be unreadable or another one, and the        *)
(* deadline may pass on the way.                                           *)
Samples(readable) ==
  /\ Doing("sample")
  /\ IF clock >= 1 THEN Leaves("duration_elapsed")
     ELSE IF ~readable THEN Leaves("history_unavailable")
     ELSE IF watcher.epoch \notin {0, history.epoch} THEN Leaves("history_changed")
     ELSE watcher' = [watcher EXCEPT !.epoch = history.epoch, !.previous = history.value,
                        !.pc = IF watcher.previous = history.value THEN "pause" ELSE "frame"]
  /\ UNCHANGED <<clock, history, helper, output, interrupts>>
Pauses ==
  /\ Doing("pause")
  /\ IF clock >= 1 THEN Leaves("duration_elapsed") ELSE watcher' = [watcher EXCEPT !.pc = "sample"]
  /\ UNCHANGED <<clock, history, helper, output, interrupts>>

(* HandoffWatchOutput.write, up to the frame's way to the child; the end    *)
(* frame has its own reserve of bytes and of time.                          *)
Snapshot == [NoFrame EXCEPT !.kind = "snapshot", !.epoch = watcher.epoch, !.value = watcher.previous]
EndFrame == [NoFrame EXCEPT !.kind = "end", !.reason = watcher.reason, !.count = watcher.snapshots]
UnusableMutant == helper.state = "dead"
Unusable == watcher.damaged \/ helper.state = "dead"
SendsSnapshot ==
  /\ Doing("frame")
  /\ IF watcher.used >= FrameLimit THEN Leaves("output_limit") /\ UNCHANGED helper
     ELSE IF Unusable THEN watcher' = [watcher EXCEPT !.pc = "end", !.reason = "output_unavailable", !.damaged = TRUE]
                           /\ UNCHANGED helper
     ELSE IF clock >= 1 THEN Leaves("duration_elapsed") /\ UNCHANGED helper
     ELSE watcher' = [watcher EXCEPT !.pc = "await"] /\ helper' = [state |-> "writing", holds |-> Snapshot]
  /\ UNCHANGED <<clock, history, output, interrupts>>
SendsEnd ==
  /\ Doing("end")
  /\ IF Unusable \/ clock >= 2
     THEN /\ watcher' = [watcher EXCEPT !.pc = "close",
                           !.reason = IF @ = "interrupted" THEN @ ELSE "output_unavailable"]
          /\ UNCHANGED helper
     ELSE watcher' = [watcher EXCEPT !.pc = "awaitEnd"] /\ helper' = [state |-> "writing", holds |-> EndFrame]
  /\ UNCHANGED <<clock, history, output, interrupts>>

(* The child writes part of the frame, then the rest, then acknowledges it. *)
Holds == [helper.holds EXCEPT !.whole = FALSE]
WritesPart ==
  /\ helper.state = "writing" /\ helper.holds # NoFrame
  /\ output' = Append(output, Holds) /\ helper' = [helper EXCEPT !.state = "middle"]
  /\ UNCHANGED <<clock, history, watcher, interrupts>>
WritesRest ==
  /\ helper.state = "middle"
  /\ output' = [output EXCEPT ![Len(output)].whole = TRUE] /\ helper' = [state |-> "written", holds |-> NoFrame]
  /\ UNCHANGED <<clock, history, watcher, interrupts>>
HelperDies ==
  /\ helper.state \notin {"none", "dead"} /\ helper' = [state |-> "dead", holds |-> NoFrame]
  /\ UNCHANGED <<clock, history, watcher, output, interrupts>>

(* The acknowledgement is read, or the wait ends without it.                *)
Acknowledged ==
  /\ helper.state = "written" /\ helper' = [helper EXCEPT !.state = "idle"]
  /\ \/ Doing("await") /\ watcher' = [watcher EXCEPT !.pc = "count", !.used = @ + 1]
     \/ Doing("awaitEnd") /\ watcher' = [watcher EXCEPT !.pc = "close"]
  /\ UNCHANGED <<clock, history, output, interrupts>>
Counts ==
  /\ Doing("count") /\ watcher' = [watcher EXCEPT !.pc = "pause", !.snapshots = @ + 1]
  /\ UNCHANGED <<clock, history, helper, output, interrupts>>
GivesUp ==
  /\ \/ Doing("await") /\ (clock >= 1 \/ helper.state = "dead")
        /\ watcher' = [watcher EXCEPT !.pc = "end", !.damaged = TRUE, !.reason = "output_unavailable"]
     \/ Doing("awaitEnd") /\ (clock >= 2 \/ helper.state = "dead")
        /\ watcher' = [watcher EXCEPT !.pc = "close", !.damaged = TRUE,
                         !.reason = IF @ = "interrupted" THEN @ ELSE "output_unavailable"]
  /\ UNCHANGED <<clock, history, helper, output, interrupts>>

(* An interrupt ends the loop, or the end frame; inside a write it leaves   *)
(* the output in doubt.                                                     *)
Interrupted ==
  /\ interrupts < MaxInterrupts /\ interrupts' = interrupts + 1
  /\ \/ /\ watcher.pc \in {"sample", "pause", "frame", "await", "count"}
        /\ watcher' = [watcher EXCEPT !.pc = "end", !.reason = "interrupted", !.damaged = @ \/ Doing("await")]
     \/ /\ watcher.pc \in {"end", "awaitEnd"}
        /\ watcher' = [watcher EXCEPT !.pc = "close", !.reason = "interrupted", !.damaged = @ \/ Doing("awaitEnd")]
  /\ UNCHANGED <<clock, history, helper, output>>

(* The child is killed and reaped; an interrupt waits until that is done.   *)
Closes(reaped, interrupt) ==
  /\ Doing("close") /\ (interrupt => interrupts < MaxInterrupts)
  /\ interrupts' = IF interrupt THEN interrupts + 1 ELSE interrupts
  /\ helper' = [state |-> "dead", holds |-> NoFrame]
  /\ LET reason == IF interrupt \/ watcher.reason = "interrupted" THEN "interrupted"
                   ELSE IF reaped THEN watcher.reason ELSE "output_unavailable"
     IN watcher' = [watcher EXCEPT !.pc = "over", !.reason = reason,
          !.code = IF reason = "duration_elapsed" THEN 0 ELSE IF reason = "interrupted" THEN 130 ELSE 1]
  /\ UNCHANGED <<clock, history, output>>

TimePasses ==
  /\ clock < 3 /\ clock' = clock + 1
  /\ UNCHANGED <<history, watcher, helper, output, interrupts>>
HistoryMoves ==
  /\ \/ history.value < MaxHistory /\ history' = [history EXCEPT !.value = @ + 1]
     \/ history.epoch < MaxEpochs /\ history' = [history EXCEPT !.epoch = @ + 1]
  /\ UNCHANGED <<clock, watcher, helper, output, interrupts>>

WatchNext ==
  \/ WriterStarts \/ (\E readable \in BOOLEAN : Samples(readable)) \/ Pauses \/ SendsSnapshot \/ SendsEnd
  \/ WritesPart \/ WritesRest \/ HelperDies \/ Acknowledged \/ Counts \/ GivesUp \/ Interrupted
  \/ \E reaped, interrupt \in BOOLEAN : Closes(reaped, interrupt)
  \/ TimePasses \/ HistoryMoves
WatchSpec == WatchInit /\ [][WatchNext]_watchVars

-----------------------------------------------------------------------------
Places == 1 .. Len(output)
LastFrame == output[Len(output)]

(* Nothing follows a cut or unacknowledged frame or the end frame, and      *)
(* snapshots are changes of one history in their order.                     *)
StreamSound ==
  \A n \in Places : n < Len(output) =>
    /\ output[n].whole /\ output[n].kind = "snapshot"
    /\ output[n + 1].kind = "snapshot" => /\ output[n].value < output[n + 1].value
                                           /\ output[n].epoch = output[n + 1].epoch
(* The end frame counts the snapshots before it; an interrupt between an    *)
(* acknowledgement and its counting leaves it one behind.                   *)
EndTrue ==
  (output # <<>> /\ LastFrame.kind = "end") =>
     \/ LastFrame.count = Len(output) - 1
     \/ LastFrame.reason = "interrupted" /\ LastFrame.count = Len(output) - 2
(* Success means a whole end frame that says the time was up, no command    *)
(* ends with its child alive, and an interrupt is never called anything     *)
(* else.                                                                    *)
CodeTrue ==
  watcher.pc = "over" =>
    /\ watcher.code = 0 => output # <<>> /\ LastFrame.kind = "end" /\ LastFrame.whole /\ LastFrame.reason = "duration_elapsed"
    /\ helper.state \in {"none", "dead"}
    /\ interrupts > 0 => watcher.code = 130

(* However the output blocks, the child dies or interrupts arrive, what is  *)
(* printed is a true account with at most its last frame cut.               *)
WatchSafe == StreamSound /\ EndTrue /\ CodeTrue
=============================================================================
