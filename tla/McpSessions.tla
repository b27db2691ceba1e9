---------------------------- MODULE McpSessions ----------------------------
(***************************************************************************)
(* Calls of local MCP tools.  A call starts a server process of its own,   *)
(* asks it to initialize and then to run the tool, and ends the process.   *)
(* A reader thread passes what the server writes through a bounded queue.  *)
(* When the application shuts down, the lifespan thread closes the         *)
(* sessions it knows before it waits for the workers, which may be calling *)
(* or about to call.  Before the application serves, an installer lists    *)
(* the tools in a session of the same kind that nobody can cancel.         *)
(* The two output streams share one reader here, and a line is one item.   *)
(*                                                                         *)
(* Two assumptions on a server.  It keeps its descendants in its process   *)
(* group and takes them with it when it ends: _stop kills the group only   *)
(* while the server itself runs, so a descendant that outlives it would    *)
(* stay and hold the streams open.  And it takes the few requests it is    *)
(* sent: a full stdin would block _write, which no deadline covers.        *)
(***************************************************************************)
EXTENDS Integers, Sequences

CONSTANTS Callers,       \* worker threads
          QueueSize,     \* size of events, 32 in the code
          StderrLimit,   \* stderr_limit, in items
          MaxCalls       \* bound on calls of the workers

Installer == "installer"

ASSUME McpAssumption ==
    /\ QueueSize \in Nat \ {0} /\ {StderrLimit, MaxCalls} \subseteq Nat
    /\ Installer \notin Callers

VARIABLES session,   \* per thread its session and what the last call came to
          listed,    \* _SessionController._sessions
          doomed,    \* sessions cancel_all has still to close
          phase,     \* of the application
          mcpCalls

mcpVars == <<session, listed, doomed, phase, mcpCalls>>

Everyone == Callers \cup {Installer}

\* asked: the last request sent; close: open, closed, or who holds _close_lock;
\* ran, misfit: history, whether the tool ran and its answer broke the schema.
NoSession == [pc |-> "away", child |-> FALSE, asked |-> "none", pipe |-> <<>>, events |-> <<>>,
              ended |-> FALSE, stderr |-> 0, close |-> "open", outcome |-> "none",
              ran |-> FALSE, misfit |-> FALSE]

McpInit ==
    /\ session = [c \in Everyone |-> NoSession]
    /\ listed = {} /\ doomed = {}
    /\ phase = "install"
    /\ mcpCalls = 0

InStep(c, pc) == session[c].pc = pc
Becomes(c, s) == session' = [session EXCEPT ![c] = s]

----------------------------------------------------------------------------
(* The caller.                                                             *)

\* A worker calls while the pool lives, the installer before that.
MayCall(c) ==
    /\ InStep(c, "away")
    /\ IF c = Installer THEN phase = "install"
       ELSE phase \in {"up", "cancelling", "draining"} /\ mcpCalls < MaxCalls

Counted(c) == mcpCalls' = IF c = Installer THEN mcpCalls ELSE mcpCalls + 1

\* _bound refuses arguments that do not match the schema.
RefuseArguments(c) ==
    /\ MayCall(c) /\ c # Installer /\ Counted(c)
    /\ Becomes(c, [NoSession EXCEPT !.outcome = "invalid"])
    /\ UNCHANGED <<listed, doomed, phase>>

\* Popen, which may fail.
Spawn(c, works) ==
    /\ MayCall(c) /\ Counted(c)
    /\ Becomes(c, IF works THEN [NoSession EXCEPT !.pc = "spawned", !.child = TRUE]
                  ELSE [NoSession EXCEPT !.outcome = "ambiguous"])
    /\ UNCHANGED <<listed, doomed, phase>>

\* The session is added to the controller, if it has one, and its readers start.
Register(c) ==
    /\ InStep(c, "spawned")
    /\ session' = [session EXCEPT ![c].pc = "initialize"]
    /\ listed' = listed \cup ({c} \cap Callers)
    /\ UNCHANGED <<doomed, phase, mcpCalls>>

\* The caller listens no more: what is in the queue or still comes is lost.
Finished(s, outcome) ==
    [s EXCEPT !.pc = "close", !.outcome = outcome, !.asked = "none", !.pipe = <<>>,
              !.events = <<>>, !.ended = FALSE, !.stderr = 0]
Failed(s) == Finished(s, "ambiguous")

\* _write: the pipe is closed, broken, or takes the request.
Ask(c) ==
    /\ session[c].pc \in {"initialize", "call"}
    /\ Becomes(c, IF session[c].child /\ session[c].close = "open"
                  THEN [session[c] EXCEPT !.asked = session[c].pc, !.pc = "wait"]
                  ELSE Failed(session[c]))
    /\ UNCHANGED <<listed, doomed, phase, mcpCalls>>

\* Mutated: nothing counts what the server writes to stderr.
StderrIgnored(s) == TRUE

StderrWithin(s) == s.stderr < StderrLimit

\* request: one item of the queue.  The answer to the request ends the wait; an
\* answer to the call that does not match the output schema is invalid arguments.
Received(s, item) ==
    CASE item = "stderr" /\ StderrWithin(s) ->
             [s EXCEPT !.stderr = IF @ < StderrLimit THEN @ + 1 ELSE @]
      [] item = s.asked /\ item = "initialize" -> [s EXCEPT !.pc = "call"]
      [] item = s.asked /\ item = "call" -> Finished(s, "answered")
      [] item = "misfit" /\ s.asked = "call" ->
             [Finished(s, "invalid") EXCEPT !.misfit = TRUE]
      [] OTHER -> Failed(s)

TakeEvent(c) ==
    LET s == session[c]
    IN  /\ s.pc = "wait" /\ s.events # <<>>
        /\ Becomes(c, Received([s EXCEPT !.events = Tail(@)], Head(s.events)))
        /\ UNCHANGED <<listed, doomed, phase, mcpCalls>>

\* The deadline passes with nothing in the queue; with something in it the item is
\* taken even after the deadline.
Timeout(c) ==
    /\ InStep(c, "wait") /\ session[c].events = <<>>
    /\ Becomes(c, Failed(session[c]))
    /\ UNCHANGED <<listed, doomed, phase, mcpCalls>>

\* close: the lock, closing, the end of the process.
Closing(s, who) == [s EXCEPT !.close = who, !.child = FALSE]

WorkerCloses(c) ==
    /\ InStep(c, "close") /\ session[c].close = "open"
    /\ Becomes(c, Closing(session[c], "worker"))
    /\ UNCHANGED <<listed, doomed, phase, mcpCalls>>

\* The readers are joined and the session discarded, or it was closed already;
\* _exchange returns.  A session cancel_all has yet to reach is closed by now.
WorkerLeaves(c) ==
    /\ InStep(c, "close") /\ session[c].close \in {"worker", "closed"}
    /\ Becomes(c, [NoSession EXCEPT !.outcome = session[c].outcome, !.ran = session[c].ran,
                                    !.misfit = session[c].misfit])
    /\ listed' = listed \ {c} /\ doomed' = doomed \ {c}
    /\ UNCHANGED <<phase, mcpCalls>>

----------------------------------------------------------------------------
(* The reader and the server.                                              *)

Room(c) == session[c].close = "open" /\ Len(session[c].events) < QueueSize
Reading(c) == session[c].pc \in {"initialize", "call", "wait"}

\* _reader, _enqueue: a full queue holds the reader, a closing session ends it.
Reader(c) ==
    /\ Reading(c) /\ Room(c) /\ session[c].pipe # <<>>
    /\ session' = [session EXCEPT ![c].events = @ \o session[c].pipe, ![c].pipe = <<>>]
    /\ UNCHANGED <<listed, doomed, phase, mcpCalls>>

ReaderEnds(c) ==
    /\ Reading(c) /\ Room(c) /\ session[c].pipe = <<>>
    /\ ~session[c].child /\ ~session[c].ended
    /\ session' = [session EXCEPT ![c].events = Append(@, "end"), ![c].ended = TRUE]
    /\ UNCHANGED <<listed, doomed, phase, mcpCalls>>

\* The server runs the tool once it was asked to.
ServerRuns(c) ==
    /\ session[c].child /\ session[c].asked = "call" /\ ~session[c].ran
    /\ session' = [session EXCEPT ![c].ran = TRUE]
    /\ UNCHANGED <<listed, doomed, phase, mcpCalls>>

\* It writes an answer, to the call only after the tool ran, or anything else.
ServerWrites(c, item) ==
    /\ session[c].child /\ session[c].pipe = <<>> /\ session[c].pc # "close"
    /\ item = "initialize" => session[c].asked # "none"
    /\ item \in {"call", "misfit"} => session[c].ran
    /\ session' = [session EXCEPT ![c].pipe = <<item>>]
    /\ UNCHANGED <<listed, doomed, phase, mcpCalls>>

ServerDies(c) ==
    /\ session[c].child
    /\ session' = [session EXCEPT ![c].child = FALSE]
    /\ UNCHANGED <<listed, doomed, phase, mcpCalls>>

----------------------------------------------------------------------------
(* The application.                                                        *)

\* install_local_mcp_adapter: the tools are as bound, or the start is refused.
Install ==
    /\ phase = "install" /\ InStep(Installer, "away") /\ session[Installer].outcome # "none"
    /\ phase' = IF session[Installer].outcome = "answered" THEN "up" ELSE "stopped"
    /\ UNCHANGED <<session, listed, doomed, mcpCalls>>

\* cancel_all takes the sessions known at that moment.
CancelAll ==
    /\ phase = "up"
    /\ phase' = "cancelling"
    /\ doomed' = listed
    /\ UNCHANGED <<session, listed, mcpCalls>>

NotClosing == \A d \in Callers : session[d].close # "lifespan"

CancelOne(c) ==
    /\ phase = "cancelling" /\ c \in doomed /\ NotClosing
    /\ session[c].close = "open"
    /\ Becomes(c, Closing(session[c], "lifespan"))
    /\ UNCHANGED <<listed, doomed, phase, mcpCalls>>

CancelledOne(c) ==
    /\ session[c].close = "lifespan"
    /\ session' = [session EXCEPT ![c].close = "closed"]
    /\ listed' = listed \ {c} /\ doomed' = doomed \ {c}
    /\ UNCHANGED <<phase, mcpCalls>>

\* runtime_service.close(wait=True)
Drain ==
    /\ phase = "cancelling" /\ doomed = {}
    /\ phase' = "draining"
    /\ UNCHANGED <<session, listed, doomed, mcpCalls>>

Drained ==
    /\ phase = "draining" /\ \A c \in Callers : InStep(c, "away")
    /\ phase' = "stopped"
    /\ UNCHANGED <<session, listed, doomed, mcpCalls>>

StartApplication ==
    /\ phase = "stopped"
    /\ phase' = "install"
    /\ session' = [c \in Everyone |-> NoSession]
    /\ UNCHANGED <<listed, doomed, mcpCalls>>

CallStep(c) ==
    \/ Register(c) \/ Ask(c) \/ TakeEvent(c) \/ Timeout(c) \/ WorkerCloses(c) \/ WorkerLeaves(c)

ShutdownStep == Drain \/ Drained \/ \E c \in Callers : CancelOne(c) \/ CancelledOne(c)

McpNext ==
    \/ \E c \in Everyone :
           \/ RefuseArguments(c) \/ (\E works \in BOOLEAN : Spawn(c, works)) \/ CallStep(c)
           \/ Reader(c) \/ ReaderEnds(c) \/ ServerRuns(c) \/ ServerDies(c)
           \/ \E item \in {"initialize", "call", "misfit", "stderr", "garbage"} : ServerWrites(c, item)
    \/ Install \/ CancelAll \/ ShutdownStep \/ StartApplication

----------------------------------------------------------------------------
(* Properties.                                                             *)

\* A stopped application has no server process and no session left, also of a call
\* that began behind the back of cancel_all; and what the gateway takes for a call
\* without effect (KNOWN_NO_EFFECT_ERRORS) did not run the tool, except for an
\* answer that broke the output schema, which has the code of refused arguments.
LeavesNothing ==
    /\ phase = "stopped" => listed = {} /\ \A c \in Everyone : ~session[c].child
    /\ \A c \in Everyone : session[c].outcome = "invalid" => ~session[c].ran \/ session[c].misfit

\* Every call ends and so does every shutdown, whatever the server writes or keeps
\* to itself (request, close, lifespan): "so shutdown remains bounded".
CallsEnd ==
    /\ []LeavesNothing
    /\ \A c \in Everyone : []<>InStep(c, "away")
    /\ []<>(phase \notin {"cancelling", "draining"})
=============================================================================
