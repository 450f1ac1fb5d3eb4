------------------------------ MODULE McpServer ------------------------------
(***************************************************************************)
(* The tool server (session_peer_mcp.py): a call is checked against the    *)
(* operator's policy, perhaps expanded from a saved route preset, and      *)
(* becomes one invocation of the command line, or one for each agent.      *)
(*                                                                         *)
(* An invocation leads a process group of its own and stays unreaped until *)
(* the group has been stopped.  Its pipes reach their end only when every  *)
(* holder has let go: the leader, a helper in its group, and perhaps a     *)
(* process that left the group, which nothing here may stop.  A wake has   *)
(* an app-server in a session of its own, owned by the command line; told  *)
(* to terminate, that stops it first, within its cleanup budget.  What the *)
(* command line says of its own effect is taken as true: it is modelled in *)
(* CodexWake and ClaudeInbox.  POSIX only.                                 *)
(***************************************************************************)
EXTENDS Integers, FiniteSets

CONSTANTS
  ToolCalls,         \* tool calls
  ToolAgents,    \* agents of the destination
  Capabilities,  \* what the policy allows there
  Matching,      \* routes of presets that match the destination exactly
  OtherRoutes,   \* those that do not
  MaxToolEdits   \* bound: edits of the preset store

ASSUME ToolAssumption == /\ MaxToolEdits \in Nat /\ ToolAgents # {} /\ IsFiniteSet(ToolAgents)
                         /\ Matching \cap OtherRoutes = {} /\ "" \notin Matching \cup OtherRoutes

VARIABLES
  preset,     \* the route saved under the approved name, or "" or "broken"
  edits,      \* edits so far
  tool,       \* each call
  cli         \* the invocation of each: its processes and its output

toolVars == <<preset, edits, tool, cli>>

Routes == Matching \cup OtherRoutes
NoCli == [leader |-> "none", helper |-> FALSE, escaped |-> FALSE, native |-> "none", crashed |-> FALSE, out |-> "", sent |-> ""]
NoCall == [pc |-> "new", op |-> "", named |-> FALSE, given |-> "", route |-> "", todo |-> {}, late |-> FALSE,
           done |-> FALSE, cancelled |-> FALSE, parts |-> {}, told |-> ""]
ToolInit ==
  /\ preset \in Routes \cup {""} /\ edits = 0
  /\ tool = [c \in ToolCalls |-> NoCall] /\ cli = [c \in ToolCalls |-> NoCli]

EditsPreset(r) ==
  /\ edits < MaxToolEdits /\ r # preset /\ preset' = r /\ edits' = edits + 1
  /\ UNCHANGED <<tool, cli>>

-----------------------------------------------------------------------------
(* The checks before an invocation.                                        *)

Needs(op, named) ==
  (CASE op = "wake" -> {"send", "wake"} [] op = "diagnose" -> {"diagnostics", "diagnostics_probe"} [] OTHER -> {op})
  \cup (IF named THEN {"presets"} ELSE {})
(* A real send by preset needs a revision, and is never a wake.            *)
WellFormed(op, named, given) ==
  /\ given # "" => named
  /\ named => op \in {"send", "list", "preflight"}
  /\ named /\ op = "send" => given # ""
(* resolve_preset: one read of the store; what was read has to match the   *)
(* policy before its revision is compared.                                 *)
MayExpand(r, given) == r \in Matching /\ given \in {"", r}

Granted(op, named) == Needs(op, named) \subseteq Capabilities
Rejects(c) == tool' = [tool EXCEPT ![c].pc = "over", ![c].told = "rejected"]
Begins(c, op, named, given) ==
  /\ tool[c].pc = "new"
  /\ IF Granted(op, named) /\ WellFormed(op, named, given) /\ (named => MayExpand(preset, given))
     THEN tool' = [tool EXCEPT ![c] = [NoCall EXCEPT !.pc = "planned", !.op = op, !.named = named, !.given = given,
                     !.route = IF named THEN preset ELSE "policy",
                     !.todo = IF op \in {"diagnose", "list"} /\ ~named THEN ToolAgents ELSE {CHOOSE a \in ToolAgents : TRUE}]]
     ELSE Rejects(c)
  /\ UNCHANGED <<preset, edits, cli>>

(* Popen, in a new session; or it fails.  A diagnosis whose time is over   *)
(* starts nothing more.                                                    *)
Spawns(c) ==
  /\ tool[c].pc = "planned" /\ ~tool[c].late
  /\ \/ \E h, e \in BOOLEAN :
          /\ cli' = [cli EXCEPT ![c] = [NoCli EXCEPT !.leader = "runs", !.helper = h, !.escaped = e, !.sent = cli[c].sent]]
          /\ tool' = [tool EXCEPT ![c].pc = "reads", ![c].done = FALSE]
     \/ /\ tool' = [tool EXCEPT ![c].pc = "over", ![c].told = IF tool[c].named THEN "unknown" ELSE "error"]
        /\ UNCHANGED cli
  /\ UNCHANGED <<preset, edits>>

-----------------------------------------------------------------------------
(* The command line and what it starts.                                    *)

CliRuns(c) == cli[c].leader \in {"runs", "stopping"}
CliSubmits(c) ==
  /\ cli[c].leader = "runs" /\ tool[c].op \in {"send", "wake"} /\ cli[c].sent = ""
  /\ cli' = [cli EXCEPT ![c].sent = tool[c].route]
CliActivates(c) ==
  /\ cli[c].leader = "runs" /\ tool[c].op = "wake" /\ cli[c].sent # "" /\ cli[c].native = "none"
  /\ cli' = [cli EXCEPT ![c].native = "runs"]
(* The turn is over, or the command line was told to stop.                 *)
CliStopsNative(c) ==
  /\ CliRuns(c) /\ cli[c].native = "runs"
  /\ cli' = [cli EXCEPT ![c].native = "gone", ![c].leader = IF @ = "stopping" THEN "ended" ELSE @,
                        ![c].out = IF cli[c].leader = "stopping" THEN "posted" ELSE @]
(* `failed`: success, but with an exit code that denies it; `mixed`: a     *)
(* check whose fields contradict each other, or tell of a submission.      *)
Outputs(c) ==
  IF cli[c].sent # "" THEN {"posted", "unknown", "failed"}
  ELSE IF tool[c].op = "preflight" THEN {"ok", "refused", "failed", "mixed"}
  ELSE {"refused", "failed"} \cup (IF tool[c].op \in {"send", "wake"} THEN {} ELSE {"ok"})
CliPrints(c, o) ==
  /\ cli[c].leader = "runs" /\ cli[c].native # "runs" /\ o \in Outputs(c)
  /\ cli' = [cli EXCEPT ![c].leader = "ended", ![c].out = o]
CliCrashes(c) ==
  /\ CliRuns(c)
  /\ cli' = [cli EXCEPT ![c].leader = "ended", ![c].out = "garbled", ![c].crashed = TRUE]
OtherEnds(c) ==
  /\ \/ cli[c].helper /\ cli' = [cli EXCEPT ![c].helper = FALSE]
     \/ cli[c].escaped /\ cli' = [cli EXCEPT ![c].escaped = FALSE]
CliSteps(c) ==
  /\ \/ CliSubmits(c) \/ CliActivates(c) \/ CliStopsNative(c) \/ CliCrashes(c) \/ OtherEnds(c)
     \/ \E o \in {"posted", "unknown", "failed", "ok", "refused", "mixed"} : CliPrints(c, o)
  /\ UNCHANGED <<preset, edits, tool>>

-----------------------------------------------------------------------------
(* invoke_posix and invoke_bounded_diagnostic.                             *)

AtEof(c) == cli[c].leader \in {"ended", "reaped"} /\ ~cli[c].helper /\ ~cli[c].escaped
Diagnoses(c) == tool[c].op = "diagnose"
ReadsAll(c) ==
  /\ tool[c].pc = "reads" /\ AtEof(c)
  /\ tool' = [tool EXCEPT ![c].pc = "term", ![c].done = TRUE]
  /\ UNCHANGED <<preset, edits, cli>>
(* The time is over; for a diagnosis that is the time of all its agents,   *)
(* but not its other end, more output than is allowed.                     *)
StopsReading(c) ==
  /\ tool[c].pc = "reads"
  /\ \E l \in {Diagnoses(c), FALSE} : tool' = [tool EXCEPT ![c].pc = "term", ![c].late = l]
  /\ UNCHANGED <<preset, edits, cli>>
(* The caller cancels, also again and in the middle of the cleanup, which  *)
(* goes on to its end.                                                     *)
AfterCancelMutant(c) == IF tool[c].pc = "reads" THEN "term" ELSE "settle"
AfterCancel(c) == IF tool[c].pc = "reads" THEN "term" ELSE tool[c].pc
Cancels(c) ==
  /\ tool[c].pc \in {"reads", "term", "grace", "reap", "settle"}
  /\ tool' = [tool EXCEPT ![c].pc = AfterCancel(c), ![c].cancelled = TRUE]
  /\ UNCHANGED <<preset, edits, cli>>

(* stop_codex_wake: SIGTERM to the group, a pause, SIGKILL, and only then  *)
(* is the leader reaped.  Without an app-server a command line dies of the *)
(* first; a helper may ignore it.                                          *)
Terminates(c) ==
  /\ tool[c].pc = "term"
  /\ \E h \in {cli[c].helper, FALSE} :
       cli' = [cli EXCEPT ![c].helper = h,
                          ![c].leader = IF @ # "runs" THEN @ ELSE IF cli[c].native = "runs" THEN "stopping" ELSE "ended"]
  /\ tool' = [tool EXCEPT ![c].pc = "grace"]
  /\ UNCHANGED <<preset, edits>>
(* The pause lasts for the whole cleanup of a wake that has not answered.  *)
GraceOver(c) == tool[c].op = "wake" /\ ~tool[c].done => cli[c].leader # "stopping"
Kills(c) ==
  /\ tool[c].pc = "grace" /\ GraceOver(c)
  /\ cli' = [cli EXCEPT ![c].leader = "ended", ![c].helper = FALSE]
  /\ tool' = [tool EXCEPT ![c].pc = "reap"]
  /\ UNCHANGED <<preset, edits>>
Reaps(c) ==
  /\ tool[c].pc = "reap"
  /\ cli' = [cli EXCEPT ![c].leader = "reaped"]
  /\ tool' = [tool EXCEPT ![c].pc = "settle"]
  /\ UNCHANGED <<preset, edits>>

-----------------------------------------------------------------------------
(* What the call answers.                                                  *)

(* invoke and decode; then a preset's failure without a known submission   *)
(* is an unknown outcome; of a check the two answers that agree with       *)
(* themselves are passed on, of a diagnosis only a complete one.           *)
Decoded(c) ==
  LET out == cli[c].out IN
  IF ~tool[c].done THEN "unknown" ELSE IF out \in {"", "garbled"} THEN "invalid" ELSE out
SendAnswer(c) == IF tool[c].named /\ Decoded(c) \in {"invalid", "failed"} THEN "unknown" ELSE Decoded(c)
CheckAnswer(c) == IF Decoded(c) \in {"ok", "refused"} THEN Decoded(c) ELSE "unknown"
DiagnoseAnswer(c) == IF Decoded(c) = "ok" THEN "ok" ELSE "unknown"
ToolAnswer(c) ==
  IF tool[c].op \in {"send", "wake"} THEN SendAnswer(c)
  ELSE IF tool[c].op = "preflight" THEN CheckAnswer(c)
  ELSE IF tool[c].op = "diagnose" THEN DiagnoseAnswer(c) ELSE Decoded(c)
(* The answers of the agents together.                                     *)
Combined(parts) == IF parts = {"ok"} THEN "ok" ELSE IF Cardinality(parts) = 1 THEN CHOOSE p \in parts : TRUE ELSE "partly"

(* The readers of a diagnosis were cancelled; those of another call end    *)
(* with the pipes.  A cancelled call goes no further; another goes on with *)
(* its next agent.                                                         *)
ReadersGone(c) == AtEof(c) \/ Diagnoses(c)
Concludes(c) ==
  /\ tool[c].pc = "settle" /\ ReadersGone(c)
  /\ LET parts == tool[c].parts \cup {ToolAnswer(c)}
         next == {a \in tool[c].todo : a # CHOOSE b \in tool[c].todo : TRUE}
     IN tool' = [tool EXCEPT ![c] =
          IF tool[c].cancelled THEN [@ EXCEPT !.pc = "over", !.told = "cancelled"]
          ELSE IF next # {} THEN [@ EXCEPT !.pc = "planned", !.todo = next, !.parts = parts]
          ELSE [@ EXCEPT !.pc = "over", !.told = Combined(parts)]]
  /\ UNCHANGED <<preset, edits, cli>>
(* The remaining agents of a late diagnosis are answered without asking.   *)
RunsOut(c) ==
  /\ tool[c].pc = "planned" /\ tool[c].late
  /\ tool' = [tool EXCEPT ![c].pc = "over", ![c].told = Combined(tool[c].parts \cup {"unknown"})]
  /\ UNCHANGED <<preset, edits, cli>>

ToolStep(c) ==
  \/ Spawns(c) \/ ReadsAll(c) \/ StopsReading(c) \/ Cancels(c) \/ Terminates(c) \/ Kills(c) \/ Reaps(c)
  \/ Concludes(c) \/ RunsOut(c)
Ops == {"send", "wake", "list", "preflight", "diagnose"}
ToolNext ==
  \/ \E r \in Routes \cup {"", "broken"} : EditsPreset(r)
  \/ \E c \in ToolCalls :
       \/ \E op \in Ops, named \in BOOLEAN, given \in Routes \cup {""} : Begins(c, op, named, given)
       \/ ToolStep(c) \/ CliSteps(c)

ToolSpec == ToolInit /\ [][ToolNext]_toolVars

-----------------------------------------------------------------------------
(* What a tool call guarantees.                                            *)

(* Whenever a call is over, or goes on to its next invocation, its process *)
(* group is empty and reaped, however often it was cancelled, and the      *)
(* app-server of a wake is gone unless its command line was killed by      *)
(* somebody else.                                                          *)
LeavesNothing ==
  \A c \in ToolCalls : tool[c].pc \in {"planned", "over"} =>
    /\ cli[c].leader \in {"none", "reaped"} /\ ~cli[c].helper
    /\ cli[c].native = "runs" => cli[c].crashed

(* What a caller may act on is true and stays true: told of a refusal,     *)
(* nothing was and nothing will be submitted; told of a submission, there  *)
(* is one; only a timeout, a damaged answer or a cancellation leaves it    *)
(* open.                                                                   *)
AnswerHolds ==
  \A c \in ToolCalls : tool[c].pc = "over" =>
    /\ tool[c].told \in {"rejected", "refused", "ok"} => cli[c].sent = ""
    /\ tool[c].told = "posted" => cli[c].sent # ""

(* A message sent by preset went over exactly the route whose revision the *)
(* caller had seen, one that the policy allows, whatever the store says    *)
(* meanwhile.                                                              *)
RouteKept ==
  \A c \in ToolCalls : cli[c].sent # "" =>
    IF tool[c].named THEN cli[c].sent = tool[c].given /\ tool[c].given \in Matching ELSE cli[c].sent = "policy"

(* Tool calls leave no process behind, answer truly and keep to the route  *)
(* that was confirmed.                                                     *)
ToolsSafe == LeavesNothing /\ AnswerHolds /\ RouteKept
=============================================================================
