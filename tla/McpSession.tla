------------------------------- MODULE McpSession -------------------------------
(***************************************************************************)
(* ListenToMCPClient and handleMCPMethod (server/mcp.go) in the life of    *)
(* their process (RunServer, waitMCPClient and runRemoteMCP in             *)
(* server/server.go).                                                      *)
(*                                                                         *)
(* An agent speaks JSON-RPC over the standard input.  One goroutine        *)
(* decodes and dispatches; tools that search, ingest or approve run in     *)
(* goroutines of their own and answer when they are done, in any order.    *)
(* The end of the input ends the session, and the session the process,     *)
(* with the watchers of a writer.  The decoder of encoding/json keeps an   *)
(* error of the syntax for good, and the end of the input within a message *)
(* is such an error.                                                       *)
(***************************************************************************)
EXTENDS Integers, Sequences, SequencesExt

CONSTANTS
  MaxMessages,  \* bound: messages an agent sends
  Breaks        \* an agent may send what is no JSON, or leave within a message

ASSUME McpAssumption == MaxMessages \in Nat /\ Breaks \in BOOLEAN

\* What a message is: tools/list, a status or a refused call is answered in place;
\* "tool" runs with the context of the session and "approval" with none; "notice"
\* is a method the server does not know; "odd" is JSON of another type.
MessageKinds == {"inline", "tool", "approval", "notice", "odd"} \union (IF Breaks THEN {"junk"} ELSE {})

VARIABLES
  wire,      \* the messages sent
  decoded,   \* how many of them were decoded
  client,    \* "here", "left", or "cut" within a message
  listener,  \* "off", "on", "stuck" in its loop with a kept error, or "done"
  running,   \* messages whose tool runs
  replies,   \* messages answered, in the order of the answers
  mayApprove,  \* the present login may approve
  process,   \* "starting", "up" or "down"
  signalled, \* a termination signal has come
  watching   \* the watchers of a writer run

mcpVars == <<wire, decoded, client, listener, running, replies, mayApprove, process, signalled, watching>>

McpInit ==
  /\ wire = <<>> /\ decoded = 0 /\ client = "here" /\ listener = "off"
  /\ running = {} /\ replies = <<>> /\ mayApprove \in BOOLEAN
  /\ process = "starting" /\ signalled = FALSE /\ watching = FALSE

(***************************************************************************)
(* The agent, and whoever logs in or stops the process.                    *)
(***************************************************************************)
AgentSends ==
  /\ client = "here" /\ Len(wire) < MaxMessages
  /\ \E k \in MessageKinds : wire' = Append(wire, k)
  /\ UNCHANGED <<decoded, client, listener, running, replies, mayApprove, process, signalled, watching>>

AgentLeaves ==
  /\ client = "here" /\ client' \in {"left"} \union (IF Breaks THEN {"cut"} ELSE {})
  /\ UNCHANGED <<wire, decoded, listener, running, replies, mayApprove, process, signalled, watching>>

LoginChanges ==
  /\ mayApprove' = ~mayApprove
  /\ UNCHANGED <<wire, decoded, client, listener, running, replies, process, signalled, watching>>

Signal ==
  /\ process = "up" /\ ~signalled /\ signalled' = TRUE
  /\ UNCHANGED <<wire, decoded, client, listener, running, replies, mayApprove, process, watching>>

(***************************************************************************)
(* Start: the configuration, the worker and its validation may fail; a     *)
(* writer starts its watchers, a reader and a remote client have none.     *)
(***************************************************************************)
StartFails ==
  /\ process = "starting" /\ process' = "down"
  /\ UNCHANGED <<wire, decoded, client, listener, running, replies, mayApprove, signalled, watching>>

Serves(role) ==
  /\ process = "starting" /\ process' = "up" /\ listener' = "on"
  /\ watching' = (role = "writer")
  /\ UNCHANGED <<wire, decoded, client, running, replies, mayApprove, signalled>>

(***************************************************************************)
(* Dispatch.                                                               *)
(***************************************************************************)
Reply(i) == replies' = Append(replies, i)

Dispatch ==
  LET i == decoded + 1
      k == wire[i]
      async == k = "tool" \/ (k = "approval" /\ mayApprove)
  IN  /\ listener = "on" /\ decoded < Len(wire) /\ ~signalled /\ k # "junk"
      /\ decoded' = i
      /\ running' = IF async THEN running \union {i} ELSE running
      /\ IF k = "inline" \/ (k = "approval" /\ ~mayApprove) THEN Reply(i) ELSE UNCHANGED replies
      /\ UNCHANGED <<wire, client, listener, mayApprove, process, signalled, watching>>

(* Mutant: a failed call is answered, and then answered as if it had not failed. *)
FallsThrough(i) == running' \in {running, running \ {i}}

Returns(i) == running' = running \ {i}

ToolAnswers(i) ==
  /\ i \in running /\ process = "up" /\ Returns(i) /\ Reply(i)
  /\ UNCHANGED <<wire, decoded, client, listener, mayApprove, process, signalled, watching>>

\* Only io.EOF ends the loop; a kept error is met again in every round.
AfterEnd == IF client = "left" THEN "done" ELSE "stuck"

InputEnds ==
  /\ listener = "on" /\ ~signalled
  /\ IF decoded < Len(wire) THEN wire[decoded + 1] = "junk" /\ listener' = "stuck"
                            ELSE client # "here" /\ listener' = AfterEnd
  /\ UNCHANGED <<wire, decoded, client, running, replies, mayApprove, process, signalled, watching>>

(***************************************************************************)
(* waitMCPClient, and what RunServer does after it: tools still running    *)
(* end with the process.                                                   *)
(***************************************************************************)
(* Mutant: only the listener ends the process. *)
ListenerDone == listener = "done"

SessionOver == listener = "done" \/ signalled

WatchersEnd == watching' = FALSE

Shutdown ==
  /\ process = "up" /\ SessionOver
  /\ process' = "down" /\ WatchersEnd /\ running' = {} /\ listener' = "done"
  /\ UNCHANGED <<wire, decoded, client, replies, mayApprove, signalled>>

McpStep ==
  \/ Dispatch \/ InputEnds \/ Shutdown
  \/ \E i \in running : ToolAnswers(i)

McpNext ==
  \/ AgentSends \/ AgentLeaves \/ LoginChanges \/ Signal \/ StartFails
  \/ \E role \in {"writer", "reader", "remote"} : Serves(role)
  \/ McpStep

\* The listener and the goroutines run, and every tool returns, by the timeouts of its calls.
McpFairness ==
  /\ WF_mcpVars(Dispatch \/ InputEnds) /\ WF_mcpVars(Shutdown)
  /\ \A i \in 1..MaxMessages : WF_mcpVars(ToolAnswers(i))

McpSpec == McpInit /\ [][McpNext]_mcpVars /\ McpFairness
----------------------------------------------------------------------------
\* The types.  Only a process that is up watches or runs tools.
McpTypeOK ==
  /\ wire \in Seq(MessageKinds) /\ decoded \in 0..Len(wire) /\ client \in {"here", "left", "cut"}
  /\ listener \in {"off", "on", "stuck", "done"} /\ running \subseteq 1..decoded
  /\ process \in {"starting", "up", "down"} /\ {mayApprove, signalled, watching} \subseteq BOOLEAN
  /\ running # {} \/ watching => process = "up"

Expects(i) == wire[i] \in {"inline", "tool", "approval"}

(***************************************************************************)
(* handleMCPMethod: however the goroutines finish, a message is answered   *)
(* once at most, and only one that expects an answer.                      *)
(***************************************************************************)
AnsweredOnce ==
  /\ IsInjective(replies)
  /\ \A i \in Range(replies) : i <= decoded /\ Expects(i) /\ i \notin running

(***************************************************************************)
(* Every request is answered, unless the input before it could not be      *)
(* decoded or the process goes down; a request the agent sent before it    *)
(* left included.                                                          *)
(***************************************************************************)
RequestAnswered ==
  \A i \in 1..MaxMessages :
    (process = "up" /\ i <= Len(wire) /\ Expects(i))
      ~> (i \in Range(replies) \/ process = "down" \/ listener = "stuck")

(***************************************************************************)
(* An agent that leaves between two messages, and has sent no broken one,  *)
(* takes the process and its watchers with it; so does a signal, whatever  *)
(* the listener waits for.                                                 *)
(***************************************************************************)
ProcessEnds ==
  /\ (process = "up" /\ client = "left" /\ ~Contains(wire, "junk")) ~> process = "down"
  /\ signalled ~> process = "down"
================================================================================
