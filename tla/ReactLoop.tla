------------------------------- MODULE ReactLoop -------------------------------
(***************************************************************************)
(* The tool-calling loop of the agents (src/agents/react_loop.py,          *)
(* run_react_tool_loop): the model is asked, its tool calls are executed   *)
(* one after the other, the observations go back to it.                    *)
(*                                                                         *)
(* A handler runs in a thread of its own.  One that exceeds its timeout is *)
(* abandoned, not stopped: it is still running while the next attempt of   *)
(* the same call starts, and its late result is dropped.                   *)
(*                                                                         *)
(* Of a call's arguments the model keeps what decides its fate: whether    *)
(* the JSON parses, whether the arguments the tool requires are there, and *)
(* the symbol they name (Own: the task's company).  The loop is that of    *)
(* the researcher (src/agents/deep_researcher_agent.py l.134-193), which   *)
(* offers two tools and passes the handlers of all the registered ones.    *)
(***************************************************************************)
EXTENDS Naturals, Sequences, FiniteSets, SequencesExt, FiniteSetsExt

CONSTANTS
  Registered,      \* tools with a handler (build_core_tool_registry)
  Offered,         \* allowed_tools: the tools the model is shown, and those with bound arguments
  Querying,        \* offered tools that require an argument no binding supplies
  Calls,           \* the tool calls the model may make
  Symbols, Own,    \* companies; the task's
  Rows,            \* evidence rows
  Answers(_, _),   \* what a tool asked about a symbol may return: sequences of rows
  MaxSteps,        \* max_steps
  MaxToolCalls,    \* max_tool_calls
  MaxAttempts,     \* tool_max_attempts
  MaxBatch         \* bound: calls in one response of the model

Tool == {c.tool : c \in Calls}

ASSUME ReactAssumption ==
  /\ Offered \subseteq Registered /\ Querying \subseteq Offered /\ Own \in Symbols
  /\ \A c \in Calls : /\ c.args \in {"malformed", "partial", "complete"}
                      /\ c.symbol \in Symbols
                      /\ \A s \in Symbols : Answers(c.tool, s) \subseteq Seq(Rows)
  /\ {MaxSteps, MaxToolCalls, MaxAttempts, MaxBatch} \subseteq Nat \ {0}

\* A tool asked about a company returns rows of that company, and the tools that
\* are not offered return none: evidence is read from the keys hits and evidence,
\* which only the two offered ones fill (src/tools/registry.py l.230-248, 296-303).
ASSUME AnswersAssumption ==
  \A c \in Calls : \A s \in Symbols : \A rows \in Answers(c.tool, s) :
    /\ c.tool \notin Offered => rows = <<>>
    /\ \A i \in DOMAIN rows : rows[i].symbol = s

VARIABLES
  step,          \* step_index
  pending,       \* calls of the last response not executed yet
  calls,         \* tool_call_count
  attempt,       \* attempt of the running handler, 0: none runs
  hadError,      \* had_tool_error
  messages,      \* the conversation after the two prompts
  observations,  \* what the loop hands to its caller
  ran,           \* which handlers were started, on which company
  status         \* "running", "completed", "degraded", "failed" or "error"

reactVars == <<step, pending, calls, attempt, hadError, messages,
               observations, ran, status>>

Asked(n) == [kind |-> "assistant", n |-> n]
Told(n) == [kind |-> "tool", n |-> n]
Error(kind) == [error |-> kind, rows |-> <<>>]
Found(rows) == [error |-> "none", rows |-> rows]

ReactInit ==
  /\ step = 0 /\ pending = <<>> /\ calls = 0 /\ attempt = 0
  /\ hadError = FALSE /\ messages = <<>> /\ observations = <<>>
  /\ ran = {} /\ status = "running"

\* The loop has returned: its locals are gone, only how it ended is kept.
ReactReturned ==
  /\ step' = 0 /\ pending' = <<>> /\ calls' = 0 /\ attempt' = 0
  /\ hadError' = FALSE /\ messages' = <<>> /\ observations' = <<>>
  /\ ran' = {} /\ UNCHANGED status

Thinking == status = "running" /\ pending = <<>>

-----------------------------------------------------------------------------
(***************************************************************************)
(* The model's turn                                                        *)
(***************************************************************************)
\* model.chat fails: whatever was observed so far is still returned.
ModelFails ==
  /\ Thinking /\ step < MaxSteps
  /\ status' = "error"
  /\ UNCHANGED <<step, pending, calls, attempt, hadError, messages,
                 observations, ran>>

\* No tool calls: the loop ends.
ModelStops ==
  /\ Thinking /\ step < MaxSteps
  /\ status' = IF hadError THEN "degraded" ELSE "completed"
  /\ UNCHANGED <<step, pending, calls, attempt, hadError, messages,
                 observations, ran>>

Batches == BoundedSeq(Calls, MaxBatch) \ {<<>>}

ModelCalls ==
  /\ Thinking /\ step < MaxSteps
  /\ step' = step + 1
  /\ \E batch \in Batches :
       /\ pending' = batch
       /\ messages' = Append(messages, Asked(Len(batch)))
  /\ UNCHANGED <<calls, attempt, hadError, observations, ran, status>>

OutOfSteps ==
  /\ Thinking /\ step = MaxSteps
  /\ status' = "failed"
  /\ UNCHANGED <<step, pending, calls, attempt, hadError, messages,
                 observations, ran>>

-----------------------------------------------------------------------------
(***************************************************************************)
(* One tool call                                                           *)
(***************************************************************************)
Ready == status = "running" /\ pending # <<>> /\ attempt = 0
Call == Head(pending)

\* validate_arguments after the bound arguments are merged in.  A tool that is
\* not offered has no schema here: whatever the model passes is valid.
Complete(c) ==
  IF c.tool \notin Offered THEN TRUE
  ELSE c.tool \in Querying => c.args = "complete"

\* Arguments that do not parse are replaced by the bound ones, if there are any.
Runnable(c) ==
  /\ c.tool \in Registered
  /\ IF c.args = "malformed" THEN c.tool \in Offered /\ Complete(c) ELSE Complete(c)

\* The company a handler is asked about.
SymbolOf(c) == IF c.tool \in Offered THEN Own ELSE c.symbol

\* A bug: an answer without a tool message is taken for granted.
AnsweredOnlyResults(o) ==
  IF o.error \in {"none", "silent", "tool_error", "tool_timeout"}
  THEN Append(messages, Told(Len(observations) + 1)) ELSE messages

Answered(o) == Append(messages, Told(Len(observations) + 1))

\* A bug: only a handler that ran can spoil the round.
SpoiledByRun(o) == hadError \/ o.error \in {"tool_error", "tool_timeout"}

\* An error is told by its text: that of an exception without a message is empty.
Untold == {"none", "silent"}

Spoiled(o) == hadError \/ o.error \notin Untold

\* The observation of a call is final: it is sent to the model and recorded.
Observe(o) ==
  /\ messages' = Answered(o)
  /\ observations' = Append(observations, o)
  /\ hadError' = Spoiled(o)
  /\ pending' = Tail(pending)
  /\ attempt' = 0

BudgetExceeded ==
  /\ Ready /\ calls = MaxToolCalls
  /\ calls' = calls + 1
  /\ status' = "failed"
  /\ UNCHANGED <<step, pending, attempt, hadError, messages, observations,
                 ran>>

\* Invalid arguments or an unknown tool: no handler runs.
RejectCall ==
  /\ Ready /\ calls < MaxToolCalls /\ ~Runnable(Call)
  /\ calls' = calls + 1
  /\ Observe(Error(IF Complete(Call) /\ Call.args # "malformed"
                   THEN "unknown_tool" ELSE "invalid_arguments"))
  /\ UNCHANGED <<step, ran, status>>

StartTool ==
  /\ Ready /\ calls < MaxToolCalls /\ Runnable(Call)
  /\ calls' = calls + 1
  /\ attempt' = 1
  /\ ran' = ran \cup {[tool |-> Call.tool, symbol |-> SymbolOf(Call)]}
  /\ UNCHANGED <<step, pending, hadError, messages, observations, status>>

\* The handler returns in time; it may itself report an error.
ToolReturns ==
  /\ attempt > 0
  /\ \/ \E rows \in Answers(Call.tool, SymbolOf(Call)) : Observe(Found(rows))
     \/ Observe(Error("reported"))
  /\ UNCHANGED <<step, calls, ran, status>>

\* Another attempt, or the last error is the observation.
Again(kind) ==
  IF attempt < MaxAttempts
  THEN /\ attempt' = attempt + 1
       /\ UNCHANGED <<pending, hadError, messages, observations>>
  ELSE Observe(Error(kind))

\* The text of the error is the exception's message, which may be empty.
ToolRaises ==
  /\ attempt > 0
  /\ \E kind \in {"tool_error", "silent"} : Again(kind)
  /\ UNCHANGED <<step, calls, ran, status>>

\* A bug: the loop waits for the handler without a timeout.
NoTimeout == FALSE /\ UNCHANGED reactVars

\* The thread is abandoned; nobody reads its result any more.
ToolTimesOut ==
  /\ attempt > 0
  /\ Again("tool_timeout")
  /\ UNCHANGED <<step, calls, ran, status>>

\* What the loop's own thread does.  The handlers need not do anything at all.
LoopStep ==
  \/ ModelFails \/ ModelStops \/ ModelCalls \/ OutOfSteps
  \/ BudgetExceeded \/ RejectCall \/ StartTool \/ ToolTimesOut

ReactNext == LoopStep \/ ToolReturns \/ ToolRaises

-----------------------------------------------------------------------------
(***************************************************************************)
(* Properties                                                              *)
(***************************************************************************)
ReactTypeOK ==
  /\ step \in 0..MaxSteps /\ pending \in Seq(Calls)
  /\ calls \in 0..MaxToolCalls + 1 /\ attempt \in 0..MaxAttempts
  /\ hadError \in BOOLEAN
  /\ \A i \in DOMAIN observations :
       /\ observations[i].error \in {"none", "silent", "reported", "tool_error", "tool_timeout",
                                     "invalid_arguments", "unknown_tool"}
       /\ observations[i].rows \in Seq(Rows)
  /\ ran \subseteq [tool : Registered, symbol : Symbols]
  /\ status \in {"running", "completed", "degraded", "failed", "error"}

\* When the model is asked again, every call it made has been answered exactly
\* once, in order, before the next one was asked for: a provider refuses a
\* conversation with a call left open.  Rejected calls, unparsable arguments and
\* handlers that never return are answered too.
EveryCallAnswered ==
  Thinking =>
    \A i \in DOMAIN messages :
      messages[i].kind = "assistant" =>
        LET last == i + messages[i].n
        IN /\ last <= Len(messages)
           /\ \A j \in i + 1 .. last : messages[j].kind = "tool"
           /\ last < Len(messages) => messages[last + 1].kind = "assistant"

\* Of a round the model ends itself, "degraded" is said exactly if one of the
\* calls, of whichever turn, ended in an error with a text.  "completed" does not
\* say that every handler worked: one that raises without a message goes unnoticed.
DegradedExactlyIfTold ==
  status \in {"completed", "degraded"} /\ messages # <<>> =>
    (status = "degraded" <=> \E i \in DOMAIN observations : observations[i].error \notin Untold)

\* Only tools the model was offered are run (allowed_tools, l.135).
OnlyOfferedToolsRun == \A r \in ran : r.tool \in Offered
=============================================================================
