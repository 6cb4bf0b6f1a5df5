------------------------------ MODULE AgentLoop ------------------------------
(***************************************************************************)
(* scripts/agent.py: turns of completions and tool calls over a message    *)
(* list that is kept within a budget by dropping old tool results.         *)
(*                                                                         *)
(* Of a message its role counts, how many calls it makes or which call it  *)
(* answers (position of the message that made it, number of the call), and *)
(* whether its body is still there.  The model may call any tool, also one *)
(* that was not loaded.                                                    *)
(***************************************************************************)
EXTENDS GuardedReboot, Sequences, SequencesExt

CONSTANTS
    ReadTool,       \* tools of the mounts
    MaxTurns,       \* bound: prompts between two resets
    MaxRounds,      \* max_rounds
    Parallel,       \* bound: tool calls of one completion
    Keep            \* keep_recent_tools

ASSUME BoundsAssumption ==
    /\ MaxTurns \in Nat /\ MaxRounds \in Nat \ {0} /\ Parallel \in Nat /\ Keep \in Nat

VARIABLES
    registry,       \* names load_tools found
    messages,
    phase,          \* "prompt", "complete", "tools", "dead"
    round,          \* completions of this turn
    pending,        \* calls of the last completion that were not executed
    over            \* a prompt of this turn was over the budget

loopVars  == <<registry, messages, phase, round, pending, over>>
agentVars == <<loopVars, rebootVars>>

BuiltIn == {"reboot_host", "get_current_timestamp"}
Name    == ReadTool \cup BuiltIn

(* A mount that does not answer is skipped, for good; --no-tools skips all, *)
(* --no-system leaves out the system prompt.                                *)
Init ==
    /\ RebootInit
    /\ registry = {} \/ \E found \in SUBSET ReadTool : registry = found \cup BuiltIn
    /\ messages \in {<<>>, <<[role |-> "system"]>>}
    /\ phase = "prompt" /\ round = 0 /\ pending = <<>> /\ over = FALSE

User           == [role |-> "user"]
Assistant(n)   == [role |-> "assistant", calls |-> n]
Result(a, i)   == [role |-> "tool", call |-> <<a, i>>, elided |-> FALSE]

With(role)     == {i \in DOMAIN messages : messages[i].role = role}
LastOf(S)      == CHOOSE i \in S : \A j \in S : j <= i
Turns          == Cardinality(With("user"))

-----------------------------------------------------------------------------
(***************************************************************************)
(* Bounding the context, after a turn one of whose prompts was over the    *)
(* budget: of the results that are still there all but the last Keep lose  *)
(* their bodies.                                                           *)
(***************************************************************************)
Whole(ms) == {i \in DOMAIN ms : ms[i].role = "tool" /\ ~ ms[i].elided}

BugElide(ms, i) == i <= Len(ms) - Keep          \* mutant: counts messages
Elide(ms, i)    == Cardinality({j \in Whole(ms) : j >= i}) > Keep

BugBounded(ms) == SubSeq(ms, 1, 1) \o SubSeq(ms, Min({3, Len(ms)}), Len(ms))
                                                \* mutant: the oldest message goes
Bounded(ms) ==
    [i \in DOMAIN ms |-> IF i \in Whole(ms) /\ Elide(ms, i)
                         THEN [ms[i] EXCEPT !.elided = TRUE] ELSE ms[i]]

EndTurn(ms, above) ==
    LET all == Append(ms, Assistant(0)) IN
    /\ messages' = IF above THEN Bounded(all) ELSE all
    /\ phase' = "prompt" /\ round' = 0 /\ over' = FALSE /\ pending' = <<>>

-----------------------------------------------------------------------------
Prompt ==
    /\ phase = "prompt" /\ Turns < MaxTurns
    /\ messages' = Append(messages, User)
    /\ phase' = "complete" /\ round' = 0 /\ over' = FALSE
    /\ UNCHANGED <<registry, pending, rebootVars>>

(* /reset, or the next prompt of --json: the history goes, the system      *)
(* prompt stays.                                                           *)
Reset ==
    /\ phase = "prompt" /\ messages' = SubSeq(messages, 1, Cardinality(With("system")))
    /\ UNCHANGED <<registry, phase, round, pending, over, rebootVars>>

(* One completion; a failed request ends the program.  At the last round   *)
(* the calls are still executed, then the turn ends without an answer.     *)
Complete(names, above) ==
    /\ phase = "complete"
    /\ IF names = <<>> THEN EndTurn(messages, over \/ above)
       ELSE /\ messages' = Append(messages, Assistant(Len(names)))
            /\ phase' = "tools" /\ round' = round + 1
            /\ pending' = names /\ over' = (over \/ above)
    /\ UNCHANGED <<registry, rebootVars>>

RequestFails ==
    /\ phase = "complete" /\ phase' = "dead"
    /\ UNCHANGED <<registry, messages, round, pending, over, rebootVars>>

(* Every call gets a result, also one that fails or names no tool. *)
BugStopsAt(left) == round >= MaxRounds          \* mutant: without the calls left
StopsAt(left)    == left = <<>> /\ round >= MaxRounds

AppendResult ==
    LET a  == LastOf({i \in With("assistant") : messages[i].calls > 0})
        ms == Append(messages, Result(a, messages[a].calls - Len(pending) + 1))
        left == Tail(pending) IN
    IF StopsAt(left) THEN EndTurn(ms, over)
    ELSE /\ messages' = ms /\ pending' = left
         /\ phase' = IF left = <<>> THEN "complete" ELSE "tools"
         /\ UNCHANGED <<round, over>>

IsReboot == Head(pending) = "reboot_host" /\ "reboot_host" \in registry

RunTool ==
    /\ phase = "tools" /\ ~ IsReboot
    /\ AppendResult
    /\ UNCHANGED <<registry, rebootVars>>

StartReboot ==
    /\ phase = "tools" /\ IsReboot
    /\ \E h \in Host : BeginCall("cli", h)
    /\ phase' = "reboot"
    /\ UNCHANGED <<registry, messages, round, pending, over>>

Reboot ==
    /\ phase = "reboot"
    /\ CallStep("cli")
    /\ UNCHANGED loopVars

(* The record of the call goes, unless it is still under way somewhere. *)
EndReboot ==
    /\ phase = "reboot" /\ call["cli"].pc = "idle"
    /\ AppendResult
    /\ IF call["cli"].late THEN UNCHANGED call ELSE call' = [call EXCEPT !["cli"] = NoCall]
    /\ UNCHANGED <<registry, allow, mock>>

Late == \E c \in Client : ExecuteLate(c) /\ UNCHANGED loopVars

CallList == UNION {[1 .. n -> Name] : n \in 0 .. Parallel}

Next ==
    \/ Prompt \/ Reset
    \/ \E names \in CallList, above \in BOOLEAN : Complete(names, above)
    \/ RequestFails
    \/ RunTool \/ StartReboot \/ Reboot \/ EndReboot
    \/ Late
    \/ (FrontEnd \/ Restart) /\ UNCHANGED loopVars

Spec == Init /\ [][Next]_agentVars

-----------------------------------------------------------------------------
(* The type of every variable. *)
TypeOK ==
    /\ registry \in SUBSET Name /\ phase \in {"prompt", "complete", "tools", "reboot", "dead"}
    /\ round \in 0 .. MaxRounds /\ over \in BOOLEAN
    /\ pending \in Seq(Name) /\ Len(pending) <= Parallel
    /\ call["cli"].pc # "idle" => phase = "reboot"

(* Whenever the model is asked, every tool call it ever made is followed   *)
(* by exactly its results, in order, and no result stands alone; a turn    *)
(* that was cut off at its last round included.                            *)
CallsOf(a) == messages[a].calls
EveryCallAnswered ==
    phase \in {"complete", "prompt"} =>
      With("tool") = UNION {a + 1 .. a + CallsOf(a) : a \in With("assistant")}
      /\ \A a \in With("assistant") : \A i \in 1 .. CallsOf(a) : messages[a + i].call = <<a, i>>

(* Only the oldest results lose their bodies, and never those of the turn  *)
(* that is going on, nor any of the last Keep.                             *)
OldestElided ==
    \A i \in With("tool") : messages[i].elided =>
      /\ \A j \in With("tool") : j < i => messages[j].elided
      /\ Cardinality({j \in With("tool") : j > i}) >= Keep
      /\ phase # "prompt" => i < LastOf(With("user"))

(* What was said stays said: a message is never dropped, moved or          *)
(* rewritten, but for a result that loses its body, until a reset.         *)
MayBecome(old, new) ==
    new = old \/ (old.role = "tool" /\ new = [old EXCEPT !.elided = TRUE])

HistoryKept ==
    [][Reset \/ /\ Len(messages') >= Len(messages)
                /\ \A i \in DOMAIN messages : MayBecome(messages[i], messages'[i])]_agentVars
=============================================================================
