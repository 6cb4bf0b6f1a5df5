--------------------------- MODULE AgentLoopProofs ---------------------------
(***************************************************************************)
(* What holds of AgentLoop for every set of hosts and tools, and any       *)
(* number of turns, rounds and parallel calls: a reboot needs an approval  *)
(* of its own and is reported as it was, every call has exactly its result *)
(* when the model is asked, and nothing that was said is lost.             *)
(***************************************************************************)
EXTENDS AgentLoop, FiniteSetTheorems, SequenceTheorems, TLAPS

-----------------------------------------------------------------------------
(***************************************************************************)
(* Rebooting.  Until it executes, a call has done nothing; when it has, it *)
(* is answered or given up, and only one given up is executed late.        *)
(***************************************************************************)
Pc     == {"idle", "plan", "confirm", "exec", "acted", "refused"}
Said   == {"", "no plan", "cancelled", "no session", "done", "refused", "failed"}
Record == [pc : Pc, host : Host \cup {""}, yes : BOOLEAN, acts : Nat, late : BOOLEAN,
           said : Said]

Stage(k) ==
    /\ k.acts \in {0, 1}
    /\ ~ k.yes => k.acts = 0 /\ ~ k.late
    /\ k.late => k.pc = "idle" /\ k.acts = 0 /\ k.said = "failed"
    /\ k.pc \in {"plan", "confirm", "exec", "refused"} => k.acts = 0
    /\ k.pc = "acted" => k.acts = 1
    /\ k.pc \in {"exec", "acted", "refused"} => k.yes
    /\ k.pc # "idle" => k.said = ""
    /\ k.said = "done" => k.acts = 1
    /\ k.said \in {"cancelled", "no session", "no plan"} => k.acts = 0

CallOK ==
    /\ call \in [Client -> Record]
    /\ \A c \in Client : Stage(call[c])
    /\ call["cli"].said = "refused" => call["cli"].acts = 0

LEMMA StepCall ==
    ASSUME CallOK, NEW c \in Client, NEW k \in Record, Step(c, k), Stage(k),
           c = "cli" /\ k.said = "refused" => k.acts = 0
    PROVE  CallOK'
BY DEF CallOK, Step, Client

LEMMA FirstCall == NoCall \in Record /\ Stage(NoCall)
BY DEF NoCall, Record, Pc, Said, Stage

LEMMA BeginOK ==
    ASSUME CallOK, NEW c \in Client, NEW h \in Host, BeginCall(c, h)
    PROVE  CallOK'
<1> DEFINE k == [NoCall EXCEPT !.pc = "plan", !.host = h]
<1>1. k \in Record /\ Stage(k) /\ k.said = ""
  BY DEF NoCall, Record, Pc, Said, Stage
<1>2. Step(c, k)
  BY DEF BeginCall
<1> HIDE DEF k
<1> QED BY <1>1, <1>2, StepCall

(* A call that is answered keeps what was done for it. *)
LEMMA EndOK ==
    ASSUME CallOK, NEW c \in Client, call[c].pc # "idle", NEW s \in Said, Step(c, Say(c, s)),
           s = "done" => call[c].acts = 1,
           s \in {"cancelled", "no session", "no plan"} => call[c].acts = 0,
           c = "cli" /\ s = "refused" => call[c].acts = 0
    PROVE  CallOK'
<1> DEFINE k == Say(c, s)
<1>1. call[c] \in Record /\ Stage(call[c])
  BY DEF CallOK
<1>2. k \in Record
  BY <1>1 DEF Say, Record, Pc
<1>3. k.pc = "idle" /\ k.said = s /\ k.acts = call[c].acts
  BY <1>1 DEF Say, Record
<1>4. k.late = call[c].late /\ k.yes = call[c].yes
  BY <1>1 DEF Say, Record
<1>5. ~ call[c].late
  BY <1>1 DEF Stage
<1> HIDE DEF k
<1>6. Stage(k)
  BY <1>1, <1>3, <1>4, <1>5 DEF Stage
<1> QED BY <1>2, <1>3, <1>6, StepCall DEF k

(* A call that goes on: planned, approved, executed. *)
LEMMA GoOnOK ==
    ASSUME CallOK, NEW c \in Client, call[c].pc # "idle", NEW k \in Record, Step(c, k),
           k.said = call[c].said, k.late = call[c].late,
           k.pc \in {"confirm", "refused"} => k.acts = 0,
           k.pc = "acted" => k.acts = 1,
           k.pc = "exec" => k.yes /\ k.acts = 0,
           k.pc \in {"acted", "refused"} => k.yes,
           k.pc \in {"confirm", "exec", "acted", "refused"}
    PROVE  CallOK'
<1>1. ~ call[c].late /\ call[c].said = ""
  BY DEF CallOK, Stage
<1>2. Stage(k) /\ k.said = ""
  BY <1>1 DEF Stage
<1> QED BY <1>2, StepCall

LEMMA CallStepOK ==
    ASSUME CallOK, NEW c \in Client, CallStep(c)
    PROVE  CallOK'
<1>1. call[c] \in Record /\ Stage(call[c])
  BY DEF CallOK
<1>2. Acted(call[c], FALSE) = call[c].acts
  BY DEF Acted, MayAct
<1>3. CASE Planned(c)
  <2> DEFINE k == [call[c] EXCEPT !.pc = "confirm", !.acts = Acted(call[c], FALSE)]
  <2>1. k = [call[c] EXCEPT !.pc = "confirm", !.acts = call[c].acts]
    BY <1>2
  <2>2. k \in Record
    BY <1>1, <2>1 DEF Record, Pc
  <2>3. /\ k.pc = "confirm" /\ k.acts = call[c].acts /\ k.said = call[c].said
        /\ k.late = call[c].late
    BY <1>1, <2>1 DEF Record
  <2>4. Step(c, k) /\ call[c].pc = "plan"
    BY <1>3 DEF Planned
  <2>5. call[c].acts = 0
    BY <1>1, <2>4 DEF Stage
  <2> HIDE DEF k
  <2> QED BY <2>2, <2>3, <2>4, <2>5, GoOnOK
<1>4. CASE PlanFails(c)
  <2>1. call[c].pc = "plan" /\ Step(c, Say(c, "no plan"))
    BY <1>4 DEF PlanFails
  <2>2. call[c].acts = 0
    BY <1>1, <2>1 DEF Stage
  <2> QED BY <2>1, <2>2, EndOK DEF Said
<1>5. ASSUME NEW yes \in BOOLEAN, Decide(c, yes) PROVE CallOK'
  <2>1. call[c].pc = "confirm"
    BY <1>5 DEF Decide
  <2>2. call[c].acts = 0
    BY <1>1, <2>1 DEF Stage
  <2>3. CASE yes
    <3> DEFINE k == [call[c] EXCEPT !.pc = "exec", !.yes = TRUE]
    <3>1. k \in Record
      BY <1>1 DEF Record, Pc
    <3>2. k.pc = "exec" /\ k.acts = call[c].acts /\ k.said = call[c].said
      BY <1>1 DEF Record
    <3>3. k.late = call[c].late /\ k.yes
      BY <1>1 DEF Record
    <3>4. yes = TRUE
      BY <2>3
    <3>5. Step(c, k)
      BY <1>5, <3>4 DEF Decide, Approved
    <3> HIDE DEF k
    <3> QED BY <2>1, <2>2, <3>1, <3>2, <3>3, <3>5, GoOnOK
  <2>4. CASE ~ yes
    <3>1. Step(c, Say(c, "cancelled"))
      BY <1>5, <2>4 DEF Decide, Approved
    <3> QED BY <2>1, <2>2, <3>1, EndOK DEF Said
  <2> QED BY <2>3, <2>4
<1>6. CASE NoSession(c)
  <2>1. call[c].pc = "confirm" /\ Step(c, Say(c, "no session"))
    BY <1>6 DEF NoSession
  <2>2. call[c].acts = 0
    BY <1>1, <2>1 DEF Stage
  <2> QED BY <2>1, <2>2, EndOK DEF Said
<1>7. CASE Execute(c)
  <2>1. call[c].pc = "exec"
    BY <1>7 DEF Execute
  <2>2. call[c].acts = 0 /\ call[c].yes
    BY <1>1, <2>1 DEF Stage
  <2>3. CASE MayAct(call[c].host, TRUE)
    <3> DEFINE k == [call[c] EXCEPT !.acts = 1, !.pc = "acted"]
    <3>1. k \in Record
      BY <1>1 DEF Record, Pc
    <3>2. k.pc = "acted" /\ k.acts = 1 /\ k.said = call[c].said
      BY <1>1 DEF Record
    <3>3. k.late = call[c].late /\ k.yes = call[c].yes
      BY <1>1 DEF Record
    <3>4. Step(c, k)
      BY <1>7, <2>2, <2>3 DEF Execute, Acted
    <3> HIDE DEF k
    <3> QED BY <2>1, <2>2, <3>1, <3>2, <3>3, <3>4, GoOnOK
  <2>4. CASE ~ MayAct(call[c].host, TRUE)
    <3> DEFINE k == [call[c] EXCEPT !.acts = 0, !.pc = "refused"]
    <3>1. k \in Record
      BY <1>1 DEF Record, Pc
    <3>2. k.pc = "refused" /\ k.acts = 0 /\ k.said = call[c].said
      BY <1>1 DEF Record
    <3>3. k.late = call[c].late /\ k.yes = call[c].yes
      BY <1>1 DEF Record
    <3>4. Step(c, k)
      BY <1>7, <2>2, <2>4 DEF Execute, Acted
    <3> HIDE DEF k
    <3> QED BY <2>1, <2>2, <3>1, <3>2, <3>3, <3>4, GoOnOK
  <2> QED BY <2>3, <2>4
<1>8. CASE Answered(c)
  <2>1. call[c].pc \in {"acted", "refused"} /\ Step(c, Say(c, Answer(c)))
    BY <1>8 DEF Answered
  <2>2. CASE call[c].pc = "acted"
    <3>1. Answer(c) = "done" /\ call[c].acts = 1
      BY <1>1, <2>2 DEF Answer, Stage
    <3> QED BY <2>1, <3>1, EndOK DEF Said
  <2>3. CASE call[c].pc = "refused"
    <3>1. Answer(c) = "refused" /\ call[c].acts = 0
      BY <1>1, <2>3 DEF Answer, Stage
    <3> QED BY <2>1, <3>1, EndOK DEF Said
  <2> QED BY <2>1, <2>2, <2>3
<1>9. CASE AnswerLost(c)
  <2>1. PICK s \in {"failed"} \cup (IF c = "owui" THEN {"refused"} ELSE {}) : Step(c, Say(c, s))
    BY <1>9 DEF AnswerLost
  <2>2. s \in {"failed", "refused"} /\ (c = "cli" => s # "refused")
    BY <2>1
  <2>3. call[c].pc # "idle"
    BY <1>9 DEF AnswerLost
  <2> QED BY <2>1, <2>2, <2>3, EndOK DEF Said
<1>10. CASE StopsWaiting(c)
  <2>1. PICK late \in BOOLEAN : Step(c, [Say(c, "failed") EXCEPT !.late = late])
    BY <1>10 DEF StopsWaiting
  <2> DEFINE k == [Say(c, "failed") EXCEPT !.late = late]
  <2>2. k \in Record
    BY <1>1 DEF Say, Record, Pc, Said
  <2>3. k.pc = "idle" /\ k.acts = call[c].acts /\ k.said = "failed"
    BY <1>1 DEF Say, Record
  <2>4. k.yes = call[c].yes
    BY <1>1 DEF Say, Record
  <2>5. call[c].acts = 0 /\ call[c].yes
    BY <1>1, <1>10 DEF StopsWaiting, Stage
  <2>6. Step(c, k)
    BY <2>1
  <2> HIDE DEF k
  <2>7. Stage(k)
    BY <2>3, <2>4, <2>5 DEF Stage
  <2> QED BY <2>2, <2>3, <2>6, <2>7, StepCall
<1> QED BY <1>3, <1>4, <1>5, <1>6, <1>7, <1>8, <1>9, <1>10 DEF CallStep

(* An execution nobody waits for was approved, and has not happened yet. *)
LEMMA LateOK ==
    ASSUME CallOK, NEW c \in Client, ExecuteLate(c)
    PROVE  CallOK'
<1>1. call[c] \in Record /\ Stage(call[c]) /\ call[c].late
  BY DEF CallOK, ExecuteLate
<1>2. call[c].pc = "idle" /\ call[c].acts = 0 /\ call[c].said = "failed" /\ call[c].yes
  BY <1>1 DEF Stage
<1> DEFINE n == Acted(call[c], TRUE)
<1>3. n \in {0, 1} /\ n \in Nat
  BY <1>2 DEF Acted
<1> DEFINE k == [call[c] EXCEPT !.late = FALSE, !.acts = n]
<1>0. Step(c, k)
  BY DEF ExecuteLate
<1> HIDE DEF n
<1>4. k \in Record
  BY <1>1, <1>3 DEF Record
<1>5. k.pc = "idle" /\ k.acts = n /\ k.said = "failed"
  BY <1>1, <1>2 DEF Record
<1>6. k.yes = call[c].yes /\ ~ k.late
  BY <1>1 DEF Record
<1> HIDE DEF k
<1>7. Stage(k)
  BY <1>2, <1>3, <1>5, <1>6 DEF Stage
<1> QED BY <1>0, <1>4, <1>5, <1>7, StepCall

LEMMA CallsOK == CallOK /\ [Next]_agentVars => CallOK'
<1> SUFFICES ASSUME CallOK, [Next]_agentVars PROVE CallOK'
  OBVIOUS
<1>1. CASE UNCHANGED call
  BY <1>1 DEF CallOK
<1>2. CASE StartReboot
  BY <1>2, BeginOK DEF StartReboot, Client
<1>3. CASE Reboot
  BY <1>3, CallStepOK DEF Reboot, Client
<1>4. CASE EndReboot
  <2>1. CASE UNCHANGED call
    BY <2>1 DEF CallOK
  <2>2. CASE call' = [call EXCEPT !["cli"] = NoCall]
    BY <2>2, FirstCall DEF CallOK, Client, NoCall
  <2> QED BY <1>4, <2>1, <2>2 DEF EndReboot
<1>5. CASE Late
  BY <1>5, LateOK DEF Late
<1>6. CASE FrontEnd
  <2>1. CASE \E h \in Host : BeginCall("owui", h)
    BY <2>1, BeginOK DEF Client
  <2>2. CASE CallStep("owui")
    BY <2>2, CallStepOK DEF Client
  <2> QED BY <1>6, <2>1, <2>2 DEF FrontEnd
<1>7. CASE Restart
  BY <1>1, <1>7 DEF Restart
<1>8. ASSUME Prompt \/ Reset \/ (\E names \in CallList, above \in BOOLEAN : Complete(names, above))
               \/ RequestFails \/ RunTool
      PROVE  UNCHANGED call
  BY <1>8 DEF Prompt, Reset, Complete, RequestFails, RunTool, rebootVars
<1>9. UNCHANGED agentVars => UNCHANGED call
  BY DEF agentVars, rebootVars
<1> QED BY <1>1, <1>2, <1>3, <1>4, <1>5, <1>6, <1>7, <1>8, <1>9 DEF Next

LEMMA InitCalls == Init => CallOK
<1> SUFFICES ASSUME Init PROVE CallOK
  OBVIOUS
<1>1. call = [c \in Client |-> NoCall]
  BY DEF Init, RebootInit
<1>2. NoCall.said = ""
  BY DEF NoCall
<1> QED BY <1>1, <1>2, FirstCall DEF CallOK, Client

LEMMA CallsAlways == Spec => []CallOK
BY InitCalls, CallsOK, PTL DEF Spec

(* OneRebootPerApproval holds: no host is rebooted without an approval of  *)
(* its own, nor twice for one.                                             *)
THEOREM EveryRebootApproved == Spec => []OneRebootPerApproval
<1>1. CallOK => OneRebootPerApproval
  <2> SUFFICES ASSUME CallOK, NEW c \in Client
               PROVE  call[c].acts <= (IF call[c].yes THEN 1 ELSE 0)
    BY DEF OneRebootPerApproval
  <2>1. call[c].acts \in {0, 1} /\ (~ call[c].yes => call[c].acts = 0)
    BY DEF CallOK, Stage
  <2> QED BY <2>1
<1> QED BY <1>1, CallsAlways, PTL

(* SaysWhatHappened holds: an answer is true, also of what comes late.     *)
THEOREM AnswersAreTrue == Spec => []SaysWhatHappened
<1>1. CallOK => SaysWhatHappened
  <2> SUFFICES ASSUME CallOK, NEW c \in Client
               PROVE  /\ call[c].said = "done" => call[c].acts = 1
                      /\ call[c].said \in {"cancelled", "no session", "no plan"}
                           => call[c].acts = 0 /\ ~ call[c].late
                      /\ c = "cli" /\ call[c].said = "refused" => call[c].acts = 0
    BY DEF SaysWhatHappened
  <2>1. Stage(call[c])
    BY DEF CallOK
  <2>2. call[c].said \in {"cancelled", "no session", "no plan"} => call[c].said # "failed"
    OBVIOUS
  <2>3. call[c].said # "failed" => ~ call[c].late
    BY <2>1 DEF Stage
  <2>4. c = "cli" /\ call[c].said = "refused" => call[c].acts = 0
    BY DEF CallOK
  <2>5. /\ call[c].said = "done" => call[c].acts = 1
        /\ call[c].said \in {"cancelled", "no session", "no plan"} => call[c].acts = 0
    BY <2>1 DEF Stage
  <2> QED BY <2>2, <2>3, <2>4, <2>5
<1> QED BY <1>1, CallsAlways, PTL

-----------------------------------------------------------------------------
(***************************************************************************)
(* The messages.                                                           *)
(***************************************************************************)
ToolMessage == [role : {"tool"}, call : Nat \X Nat, elided : BOOLEAN]
Message     == [role : {"system", "user"}] \cup [role : {"assistant"}, calls : Nat]
                 \cup ToolMessage

LEMMA Kinds ==
    ASSUME NEW m \in Message
    PROVE  /\ m.role \in {"system", "user", "assistant", "tool"}
           /\ m.role = "tool" => m \in ToolMessage
           /\ m.role = "assistant" => m.calls \in Nat
BY DEF Message, ToolMessage

LEMMA UserKind == User \in Message /\ User.role = "user"
BY DEF User, Message

LEMMA AssistantKind ==
    ASSUME NEW n \in Nat
    PROVE  /\ Assistant(n) \in Message
           /\ Assistant(n).role = "assistant" /\ Assistant(n).calls = n
BY DEF Assistant, Message

LEMMA ResultKind ==
    ASSUME NEW a \in Nat, NEW i \in Nat
    PROVE  /\ Result(a, i) \in Message
           /\ Result(a, i).role = "tool" /\ Result(a, i).call = <<a, i>>
           /\ ~ Result(a, i).elided
BY DEF Result, Message, ToolMessage

-----------------------------------------------------------------------------
(***************************************************************************)
(* A list in which n calls of the last completion have no result yet.      *)
(***************************************************************************)
Asks(ms)      == {i \in DOMAIN ms : ms[i].role = "assistant"}
Due(ms, a)    == a + ms[a].calls

Told(ms, n) ==
    /\ \A a \in Asks(ms) : Due(ms, a) <= Len(ms) + n
    /\ \A i \in DOMAIN ms :
         ms[i].role = "tool" <=> \E a \in Asks(ms) : a < i /\ i <= Due(ms, a)
    /\ \A a \in Asks(ms), i \in DOMAIN ms :
         a < i /\ i <= Due(ms, a) => ms[i].call = <<a, i - a>>

Waits(ms, n, a) ==
    /\ a \in Asks(ms) /\ Due(ms, a) = Len(ms) + n
    /\ \A b \in Asks(ms) : b # a => Due(ms, b) <= Len(ms)

LEMMA Appended ==
    ASSUME NEW ms \in Seq(Message), NEW m \in Message
    PROVE  /\ Append(ms, m) \in Seq(Message)
           /\ Len(Append(ms, m)) = Len(ms) + 1 /\ Len(ms) \in Nat
           /\ DOMAIN ms = 1 .. Len(ms)
           /\ DOMAIN Append(ms, m) = 1 .. Len(ms) + 1
           /\ \A i \in 1 .. Len(ms) : Append(ms, m)[i] = ms[i] /\ ms[i] \in Message
           /\ Append(ms, m)[Len(ms) + 1] = m
OBVIOUS

LEMMA AppendedAsks ==
    ASSUME NEW ms \in Seq(Message), NEW m \in Message
    PROVE  /\ Asks(ms) \subseteq Nat
           /\ \A a \in Asks(ms) : a <= Len(ms) /\ Due(ms, a) \in Nat
           /\ \A a \in Asks(ms) : Due(Append(ms, m), a) = Due(ms, a)
           /\ Asks(Append(ms, m)) =
                Asks(ms) \cup (IF m.role = "assistant" THEN {Len(ms) + 1} ELSE {})
<1>1. Asks(ms) \subseteq 1 .. Len(ms)
  BY Appended DEF Asks
<1>2. \A a \in Asks(ms) : ms[a].calls \in Nat
  BY Appended, Kinds DEF Asks
<1>3. \A a \in Asks(ms) : Append(ms, m)[a] = ms[a]
  BY <1>1, Appended
<1>4. Asks(Append(ms, m)) =
        Asks(ms) \cup (IF m.role = "assistant" THEN {Len(ms) + 1} ELSE {})
  BY Appended DEF Asks
<1> QED BY <1>1, <1>2, <1>3, <1>4, Appended DEF Due

(* What makes no call and answers none. *)
LEMMA AppendPlain ==
    ASSUME NEW ms \in Seq(Message), NEW m \in Message, Told(ms, 0),
           m.role # "tool", m.role = "assistant" => m.calls = 0
    PROVE  Told(Append(ms, m), 0)
<1> DEFINE ns == Append(ms, m)
           n  == Len(ms)
<1>1. /\ n \in Nat /\ Len(ns) = n + 1 /\ DOMAIN ms = 1 .. n /\ DOMAIN ns = 1 .. n + 1
      /\ ns[n + 1] = m /\ \A i \in 1 .. n : ns[i] = ms[i]
  BY Appended
<1>2. \A a \in Asks(ns) : \/ a \in Asks(ms) /\ Due(ns, a) = Due(ms, a)
                          \/ a = n + 1 /\ Due(ns, a) = n + 1
  <2>1. CASE m.role = "assistant"
    <3>1. Due(ns, n + 1) = n + 1
      BY <1>1, <2>1 DEF Due
    <3>2. Asks(ns) = Asks(ms) \cup {n + 1} /\ \A a \in Asks(ms) : Due(ns, a) = Due(ms, a)
      BY <2>1, AppendedAsks
    <3> QED BY <3>1, <3>2
  <2>2. CASE m.role # "assistant"
    BY <2>2, AppendedAsks
  <2> QED BY <2>1, <2>2
<1>3. \A a \in Asks(ms) : /\ a \in Asks(ns) /\ Due(ns, a) = Due(ms, a) /\ Due(ms, a) <= n
                          /\ a \in Nat /\ Due(ms, a) \in Nat
  BY AppendedAsks DEF Told
<1>4. \A a \in Asks(ns) : Due(ns, a) <= Len(ns)
  BY <1>1, <1>2, <1>3
<1>5. ASSUME NEW i \in DOMAIN ns
      PROVE  ns[i].role = "tool" <=> \E a \in Asks(ns) : a < i /\ i <= Due(ns, a)
  <2>1. CASE i = n + 1
    BY <1>1, <1>2, <1>3, <2>1
  <2>2. CASE i \in 1 .. n
    <3>1. ns[i].role = "tool" <=> \E a \in Asks(ms) : a < i /\ i <= Due(ms, a)
      BY <1>1, <2>2 DEF Told
    <3> QED BY <1>1, <1>2, <1>3, <2>2, <3>1
  <2> QED BY <1>1, <2>1, <2>2
<1>6. ASSUME NEW a \in Asks(ns), NEW i \in DOMAIN ns, a < i, i <= Due(ns, a)
      PROVE  ns[i].call = <<a, i - a>>
  <2>1. a \in Asks(ms) /\ i \in 1 .. n /\ i <= Due(ms, a)
    BY <1>1, <1>2, <1>3, <1>6
  <2> QED BY <1>1, <1>6, <2>1 DEF Told
<1> HIDE DEF ns, n
<1>7. Told(ns, 0)
  BY <1>1, <1>4, <1>5, <1>6 DEF Told
<1> QED BY <1>7 DEF ns

(* A completion that makes k calls. *)
LEMMA AppendAsk ==
    ASSUME NEW ms \in Seq(Message), NEW k \in Nat \ {0}, Told(ms, 0)
    PROVE  LET ns == Append(ms, Assistant(k)) IN
             Told(ns, k) /\ Waits(ns, k, Len(ms) + 1)
<1> DEFINE m == Assistant(k)
           ns == Append(ms, m)
           n  == Len(ms)
<1>0. m \in Message /\ m.role = "assistant" /\ m.calls = k
  BY AssistantKind
<1> HIDE DEF m
<1>1. /\ n \in Nat /\ Len(ns) = n + 1 /\ DOMAIN ms = 1 .. n /\ DOMAIN ns = 1 .. n + 1
      /\ ns[n + 1] = m /\ \A i \in 1 .. n : ns[i] = ms[i]
  BY <1>0, Appended
<1>2. Asks(ns) = Asks(ms) \cup {n + 1} /\ Due(ns, n + 1) = n + 1 + k
  BY <1>0, <1>1, AppendedAsks DEF Due
<1>3. \A a \in Asks(ms) : /\ Due(ns, a) = Due(ms, a) /\ Due(ms, a) <= n
                          /\ a \in Nat /\ a <= n /\ Due(ms, a) \in Nat
  BY <1>0, AppendedAsks DEF Told
<1>4. \A a \in Asks(ns) : Due(ns, a) <= Len(ns) + k
  BY <1>1, <1>2, <1>3
<1>5. ASSUME NEW i \in DOMAIN ns
      PROVE  ns[i].role = "tool" <=> \E a \in Asks(ns) : a < i /\ i <= Due(ns, a)
  <2>1. CASE i = n + 1
    BY <1>0, <1>1, <1>2, <1>3, <2>1
  <2>2. CASE i \in 1 .. n
    <3>1. ns[i].role = "tool" <=> \E a \in Asks(ms) : a < i /\ i <= Due(ms, a)
      BY <1>1, <2>2 DEF Told
    <3> QED BY <1>1, <1>2, <1>3, <2>2, <3>1
  <2> QED BY <1>1, <2>1, <2>2
<1>6. ASSUME NEW a \in Asks(ns), NEW i \in DOMAIN ns, a < i, i <= Due(ns, a)
      PROVE  ns[i].call = <<a, i - a>>
  <2>1. a \in Asks(ms) /\ i \in 1 .. n /\ i <= Due(ms, a)
    BY <1>1, <1>2, <1>3, <1>6
  <2> QED BY <1>1, <1>6, <2>1 DEF Told
<1>7. Waits(ns, k, n + 1)
  BY <1>1, <1>2, <1>3 DEF Waits
<1> HIDE DEF ns, n
<1>8. Told(ns, k)
  BY <1>1, <1>4, <1>5, <1>6 DEF Told
<1> QED BY <1>7, <1>8 DEF ns, n, m

(* The one that waits is the last that made calls. *)
LEMMA WaitsIsLast ==
    ASSUME NEW ms \in Seq(Message), NEW n \in Nat \ {0}, Told(ms, n), NEW a, Waits(ms, n, a)
    PROVE  LastOf({i \in Asks(ms) : ms[i].calls > 0}) = a
<1> DEFINE S == {i \in Asks(ms) : ms[i].calls > 0}
<1>1. Len(ms) \in Nat /\ Asks(ms) \subseteq 1 .. Len(ms) /\ \A b \in Asks(ms) : ms[b].calls \in Nat
  BY Kinds DEF Asks
<1>2. a \in S
  BY <1>1 DEF Waits, Due
<1>3. ASSUME NEW b \in S, b > a PROVE FALSE
  <2>1. b \in DOMAIN ms /\ b <= Due(ms, a) /\ ms[b].role = "assistant"
    BY <1>1 DEF Waits, Asks
  <2>2. ms[b].role = "tool"
    BY <1>1, <1>2, <1>3, <2>1 DEF Told
  <2> QED BY <2>1, <2>2
<1>4. \A b \in S : b <= a
  BY <1>1, <1>2, <1>3
<1>5. S \subseteq Nat
  BY <1>1
<1> HIDE DEF S
<1>6. LastOf(S) \in S /\ \A b \in S : b <= LastOf(S)
  BY <1>2, <1>4 DEF LastOf
<1>7. LastOf(S) = a
  <2>1. LastOf(S) \in Nat /\ a \in Nat
    BY <1>2, <1>5, <1>6
  <2>2. LastOf(S) <= a /\ a <= LastOf(S)
    BY <1>2, <1>4, <1>6
  <2> QED BY <2>1, <2>2
<1>8. S = {i \in Asks(ms) : ms[i].calls > 0}
  BY DEF S
<1> QED BY <1>7, <1>8

(* The result of the next call. *)
LEMMA AppendAnswer ==
    ASSUME NEW ms \in Seq(Message), NEW n \in Nat \ {0}, Told(ms, n), NEW a, Waits(ms, n, a)
    PROVE  LET ns == Append(ms, Result(a, ms[a].calls - n + 1)) IN
             ns \in Seq(Message) /\ Told(ns, n - 1) /\ Waits(ns, n - 1, a)
<1> DEFINE i == ms[a].calls - n + 1
           m == Result(a, i)
           ns == Append(ms, m)
           l  == Len(ms)
<1>1. l \in Nat /\ Asks(ms) \subseteq 1 .. l /\ \A b \in Asks(ms) : ms[b].calls \in Nat
  BY Kinds DEF Asks
<1>2. a \in Asks(ms) /\ a \in 1 .. l /\ a + ms[a].calls = l + n /\ i \in Nat /\ a + i = l + 1
  <2>1. a \in Asks(ms) /\ a + ms[a].calls = l + n
    BY DEF Waits, Due
  <2>2. a \in 1 .. l /\ ms[a].calls \in Nat
    BY <1>1, <2>1
  <2> DEFINE k == ms[a].calls
  <2> HIDE DEF k, l
  <2>0. l \in Nat /\ k \in Nat /\ a \in 1 .. l /\ a + k = l + n
    BY <1>1, <2>1, <2>2 DEF k
  <2>3. k - n + 1 \in Nat /\ a + (k - n + 1) = l + 1
    BY <2>0
  <2> QED BY <2>1, <2>2, <2>3 DEF k
<1>3. m \in Message /\ m.role = "tool" /\ m.call = <<a, l + 1 - a>>
  <2>1. i = l + 1 - a /\ a \in Nat
    BY <1>1, <1>2
  <2> HIDE DEF i
  <2> QED BY <1>2, <2>1, ResultKind
<1> HIDE DEF i, m
<1>4. /\ Len(ns) = l + 1 /\ DOMAIN ms = 1 .. l /\ DOMAIN ns = 1 .. l + 1
      /\ ns[l + 1] = m /\ \A j \in 1 .. l : ns[j] = ms[j]
      /\ ns \in Seq(Message)
  BY <1>3, Appended
<1>5. Asks(ns) = Asks(ms)
  BY <1>3, AppendedAsks
<1>6. \A b \in Asks(ms) : /\ Due(ns, b) = Due(ms, b) /\ Due(ms, b) <= l + n
                          /\ b \in Nat /\ b <= l /\ Due(ms, b) \in Nat
                          /\ b # a => Due(ms, b) <= l
  <2>1. \A b \in Asks(ms) : /\ Due(ns, b) = Due(ms, b)
                            /\ b \in Nat /\ b <= l /\ Due(ms, b) \in Nat
    BY <1>3, AppendedAsks
  <2>2. \A b \in Asks(ms) : Due(ms, b) <= l + n
    BY DEF Told
  <2>3. \A b \in Asks(ms) : b # a => Due(ms, b) <= l
    BY DEF Waits
  <2> QED BY <2>1, <2>2, <2>3
<1>7. Due(ms, a) = l + n
  BY DEF Waits
<1> HIDE DEF ns
<1>8. Waits(ns, n - 1, a)
  BY <1>1, <1>2, <1>4, <1>5, <1>6, <1>7 DEF Waits
<1>9. \A b \in Asks(ns) : Due(ns, b) <= Len(ns) + (n - 1)
  BY <1>1, <1>4, <1>5, <1>6
<1>10. ASSUME NEW j \in DOMAIN ns
       PROVE  ns[j].role = "tool" <=> \E b \in Asks(ns) : b < j /\ j <= Due(ns, b)
  <2>1. CASE j = l + 1
    BY <1>1, <1>2, <1>3, <1>4, <1>5, <1>6, <1>7, <2>1
  <2>2. CASE j \in 1 .. l
    <3>1. ms[j].role = "tool" <=> \E b \in Asks(ms) : b < j /\ j <= Due(ms, b)
      BY <1>4, <2>2 DEF Told
    <3> QED BY <1>4, <1>5, <1>6, <2>2, <3>1
  <2> QED BY <1>1, <1>4, <2>1, <2>2
<1>11. ASSUME NEW b \in Asks(ns), NEW j \in DOMAIN ns, b < j, j <= Due(ns, b)
       PROVE  ns[j].call = <<b, j - b>>
  <2>1. CASE j = l + 1
    <3>1. b = a
      BY <1>1, <1>5, <1>6, <1>11, <2>1
    <3>2. ns[j] = m
      BY <1>4, <2>1
    <3>3. m.call = <<a, j - a>>
      <4> HIDE DEF l
      <4>1. l \in Nat /\ a \in Nat
        BY <1>1, <1>2
      <4> QED BY <1>3, <2>1, <4>1
    <3> QED BY <3>1, <3>2, <3>3
  <2>2. CASE j \in 1 .. l
    BY <1>4, <1>5, <1>6, <1>11, <2>2 DEF Told
  <2> QED BY <1>1, <1>4, <2>1, <2>2
<1> HIDE DEF l
<1>12. Told(ns, n - 1)
  BY <1>9, <1>10, <1>11 DEF Told
<1> QED BY <1>4, <1>8, <1>12 DEF ns, m, i

-----------------------------------------------------------------------------
(* Bounding the context leaves roles, calls and answers where they are. *)
LEMMA BoundedKeeps ==
    ASSUME NEW ms \in Seq(Message)
    PROVE  /\ Bounded(ms) \in Seq(Message) /\ Len(Bounded(ms)) = Len(ms)
           /\ DOMAIN Bounded(ms) = DOMAIN ms
           /\ \A i \in DOMAIN ms :
                /\ MayBecome(ms[i], Bounded(ms)[i])
                /\ Bounded(ms)[i].role = ms[i].role
                /\ ms[i].role = "assistant" => Bounded(ms)[i].calls = ms[i].calls
                /\ ms[i].role = "tool" => Bounded(ms)[i].call = ms[i].call
<1> DEFINE bs == Bounded(ms)
<1>1. DOMAIN ms = 1 .. Len(ms) /\ Len(ms) \in Nat
  OBVIOUS
<1>2. DOMAIN bs = DOMAIN ms
  BY DEF Bounded
<1>3. ASSUME NEW i \in DOMAIN ms
      PROVE  /\ bs[i] \in Message /\ MayBecome(ms[i], bs[i]) /\ bs[i].role = ms[i].role
             /\ ms[i].role = "assistant" => bs[i].calls = ms[i].calls
             /\ ms[i].role = "tool" => bs[i].call = ms[i].call
  <2>1. ms[i] \in Message
    BY <1>1
  <2>2. CASE bs[i] = ms[i]
    BY <2>1, <2>2 DEF MayBecome
  <2>3. CASE ms[i].role = "tool" /\ bs[i] = [ms[i] EXCEPT !.elided = TRUE]
    <3>1. ms[i] \in ToolMessage
      BY <2>1, <2>3, Kinds
    <3>2. /\ bs[i] \in ToolMessage /\ bs[i].role = ms[i].role /\ bs[i].call = ms[i].call
      BY <2>3, <3>1 DEF ToolMessage
    <3>3. bs[i] \in Message
      BY <3>2 DEF Message
    <3>4. MayBecome(ms[i], bs[i])
      BY <2>3 DEF MayBecome
    <3> QED BY <2>3, <3>2, <3>3, <3>4
  <2>4. bs[i] = ms[i] \/ (ms[i].role = "tool" /\ bs[i] = [ms[i] EXCEPT !.elided = TRUE])
    BY DEF Bounded, Whole
  <2> QED BY <2>2, <2>3, <2>4
<1> HIDE DEF bs
<1>4. bs \in [1 .. Len(ms) -> Message]
  <2>1. bs = [i \in DOMAIN ms |-> bs[i]]
    BY DEF bs, Bounded
  <2> QED BY <1>1, <1>3, <2>1
<1>5. bs \in Seq(Message) /\ Len(bs) = Len(ms)
  BY <1>1, <1>4
<1> QED BY <1>2, <1>3, <1>5 DEF bs

LEMMA BoundedTold ==
    ASSUME NEW ms \in Seq(Message), Told(ms, 0)
    PROVE  Told(Bounded(ms), 0)
<1> DEFINE bs == Bounded(ms)
<1>1. DOMAIN bs = DOMAIN ms /\ Len(bs) = Len(ms) /\ Asks(bs) = Asks(ms)
  BY BoundedKeeps DEF Asks
<1>2. \A a \in Asks(ms) : Due(bs, a) = Due(ms, a)
  BY BoundedKeeps DEF Asks, Due
<1>3. \A i \in DOMAIN ms : bs[i].role = ms[i].role /\ (ms[i].role = "tool" => bs[i].call = ms[i].call)
  BY BoundedKeeps
<1> HIDE DEF bs
<1>4. \A a \in Asks(bs) : Due(bs, a) <= Len(bs) + 0
  BY <1>1, <1>2 DEF Told
<1>5. \A i \in DOMAIN bs : bs[i].role = "tool" <=> \E a \in Asks(bs) : a < i /\ i <= Due(bs, a)
  BY <1>1, <1>2, <1>3 DEF Told
<1>6. ASSUME NEW a \in Asks(bs), NEW i \in DOMAIN bs, a < i, i <= Due(bs, a)
      PROVE  bs[i].call = <<a, i - a>>
  <2>1. ms[i].role = "tool" /\ ms[i].call = <<a, i - a>>
    BY <1>1, <1>2, <1>6 DEF Told
  <2> QED BY <1>1, <1>3, <2>1
<1>7. Told(bs, 0)
  BY <1>4, <1>5, <1>6 DEF Told
<1> QED BY <1>7 DEF bs

-----------------------------------------------------------------------------
(***************************************************************************)
(* The invariant: what has been said is told, but for what the calls that  *)
(* are pending owe; the system prompt is first.                            *)
(***************************************************************************)
SystemFirst(ms) == \A i \in DOMAIN ms : ms[i].role = "system" => i = 1

HistoryOK ==
    /\ messages \in Seq(Message) /\ pending \in Seq(Name)
    /\ phase \in {"prompt", "complete", "tools", "reboot", "dead"}
    /\ pending = <<>> <=> phase \notin {"tools", "reboot"}
    /\ Told(messages, Len(pending)) /\ SystemFirst(messages)
    /\ pending # <<>> => \E a : Waits(messages, Len(pending), a)

LEMMA AppendSystem ==
    ASSUME NEW ms \in Seq(Message), NEW m \in Message, SystemFirst(ms), m.role # "system"
    PROVE  SystemFirst(Append(ms, m))
BY Appended DEF SystemFirst

LEMMA EmptyPending == <<>> \in Seq(Name) /\ Len(<<>>) = 0
BY EmptySeq

(* A turn ends with the answer, and what is over the budget loses bodies. *)
LEMMA EndTurnOK ==
    ASSUME NEW ms \in Seq(Message), NEW above \in BOOLEAN, Told(ms, 0), SystemFirst(ms),
           EndTurn(ms, above)
    PROVE  HistoryOK'
<1> DEFINE all == Append(ms, Assistant(0))
<1>1. all \in Seq(Message) /\ Told(all, 0) /\ SystemFirst(all)
  BY AssistantKind, Appended, AppendPlain, AppendSystem
<1>2. messages' = Bounded(all) \/ messages' = all
  BY DEF EndTurn
<1>3. phase' = "prompt" /\ pending' = <<>>
  BY DEF EndTurn
<1> HIDE DEF all
<1>4. Bounded(all) \in Seq(Message) /\ Told(Bounded(all), 0) /\ SystemFirst(Bounded(all))
  BY <1>1, BoundedKeeps, BoundedTold DEF SystemFirst
<1>5. messages' \in Seq(Message) /\ Told(messages', 0) /\ SystemFirst(messages')
  BY <1>1, <1>2, <1>4
<1> QED BY <1>3, <1>5, EmptyPending DEF HistoryOK

LEMMA TailOf ==
    ASSUME NEW s \in Seq(Name), s # <<>>
    PROVE  /\ Tail(s) \in Seq(Name) /\ Len(s) \in Nat \ {0} /\ Len(Tail(s)) = Len(s) - 1
           /\ Tail(s) = <<>> <=> Len(s) - 1 = 0
<1>1. Tail(s) \in Seq(Name) /\ Len(s) \in Nat \ {0} /\ Len(Tail(s)) = Len(s) - 1
  BY EmptySeq, HeadTailProperties
<1>2. Tail(s) = <<>> <=> Len(Tail(s)) = 0
  BY <1>1, EmptySeq
<1> QED BY <1>1, <1>2

LEMMA AppendResultOK ==
    ASSUME HistoryOK, phase \in {"tools", "reboot"}, over \in BOOLEAN, AppendResult
    PROVE  HistoryOK'
<1> DEFINE n    == Len(pending)
           last == LastOf({i \in With("assistant") : messages[i].calls > 0})
           ms   == Append(messages, Result(last, messages[last].calls - Len(pending) + 1))
           left == Tail(pending)
<1>1. /\ messages \in Seq(Message) /\ n \in Nat \ {0} /\ left \in Seq(Name)
      /\ Len(left) = n - 1 /\ (left = <<>> <=> n - 1 = 0)
      /\ Told(messages, n) /\ SystemFirst(messages)
  BY TailOf DEF HistoryOK
<1>2. PICK a : Waits(messages, n, a)
  BY DEF HistoryOK
<1>3. last = a
  <2>1. LastOf({i \in Asks(messages) : messages[i].calls > 0}) = a
    BY <1>1, <1>2, WaitsIsLast
  <2> QED BY <2>1 DEF Asks, With
<1>4. IF StopsAt(left) THEN EndTurn(ms, over)
      ELSE /\ messages' = ms /\ pending' = left
           /\ phase' = IF left = <<>> THEN "complete" ELSE "tools"
  BY DEF AppendResult
<1>5. ms = Append(messages, Result(a, messages[a].calls - n + 1))
  BY <1>3
<1>6. ms \in Seq(Message) /\ Told(ms, n - 1) /\ Waits(ms, n - 1, a)
  <2> HIDE DEF n, ms
  <2> QED BY <1>1, <1>2, <1>5, AppendAnswer
<1>7. SystemFirst(ms)
  <2>1. a \in Nat /\ messages[a].calls - n + 1 \in Nat
    <3>1. a \in 1 .. Len(messages) /\ messages[a].calls \in Nat
      BY <1>1, <1>2, Kinds DEF Waits, Asks
    <3>2. Due(messages, a) = Len(messages) + n
      BY <1>2 DEF Waits
    <3> QED BY <1>1, <3>1, <3>2 DEF Due
  <2>2. /\ Result(a, messages[a].calls - n + 1) \in Message
        /\ Result(a, messages[a].calls - n + 1).role = "tool"
    BY <2>1, ResultKind
  <2> HIDE DEF n, ms
  <2> QED BY <1>1, <1>5, <2>2, AppendSystem
<1> HIDE DEF n, last, ms, left
<1>8. CASE StopsAt(left)
  <2>1. left = <<>> /\ n - 1 = 0
    BY <1>1, <1>8 DEF StopsAt
  <2>2. Told(ms, 0)
    BY <1>6, <2>1
  <2> QED BY <1>4, <1>6, <1>7, <1>8, <2>2, EndTurnOK
<1>9. CASE ~ StopsAt(left)
  <2>1. messages' = ms /\ pending' = left /\ phase' = IF left = <<>> THEN "complete" ELSE "tools"
    BY <1>4, <1>9
  <2>2. Told(messages', Len(pending')) /\ Waits(messages', Len(pending'), a)
    BY <1>1, <1>6, <2>1
  <2>3. messages' \in Seq(Message) /\ pending' \in Seq(Name) /\ SystemFirst(messages')
    BY <1>1, <1>6, <1>7, <2>1
  <2>4. /\ phase' \in {"prompt", "complete", "tools", "reboot", "dead"}
        /\ pending' = <<>> <=> phase' \notin {"tools", "reboot"}
    BY <2>1
  <2> QED BY <2>2, <2>3, <2>4 DEF HistoryOK
<1> QED BY <1>8, <1>9

LEMMA CompleteOK ==
    ASSUME HistoryOK, over \in BOOLEAN, NEW names \in CallList, NEW above \in BOOLEAN,
           Complete(names, above)
    PROVE  HistoryOK'
<1>1. phase = "complete" /\ pending = <<>>
  BY DEF Complete, HistoryOK
<1>2. messages \in Seq(Message) /\ Told(messages, 0) /\ SystemFirst(messages)
  BY <1>1, EmptyPending DEF HistoryOK
<1>3. PICK n \in 0 .. Parallel : names \in [1 .. n -> Name]
  BY DEF CallList
<1>4. names \in Seq(Name) /\ Len(names) \in Nat
  BY <1>3
<1>5. CASE names = <<>>
  <2>1. EndTurn(messages, over \/ above)
    BY <1>5 DEF Complete
  <2>2. (over \/ above) \in BOOLEAN
    OBVIOUS
  <2> QED BY <1>2, <2>1, <2>2, EndTurnOK
<1>6. CASE names # <<>>
  <2> DEFINE k == Len(names)
  <2>1. k \in Nat \ {0}
    BY <1>4, <1>6
  <2>2. messages' = Append(messages, Assistant(k)) /\ phase' = "tools" /\ pending' = names
    BY <1>6 DEF Complete
  <2>3. Told(messages', k) /\ Waits(messages', k, Len(messages) + 1)
    <3> HIDE DEF k
    <3> QED BY <1>2, <2>1, <2>2, AppendAsk
  <2>4. messages' \in Seq(Message) /\ SystemFirst(messages')
    <3>1. Assistant(k) \in Message /\ Assistant(k).role # "system"
      BY <1>4, AssistantKind
    <3> HIDE DEF k
    <3> QED BY <1>2, <2>2, <3>1, Appended, AppendSystem
  <2> QED BY <1>4, <1>6, <2>2, <2>3, <2>4 DEF HistoryOK
<1> QED BY <1>5, <1>6

LEMMA PromptOK ==
    ASSUME HistoryOK, Prompt
    PROVE  HistoryOK'
<1>1. pending = <<>> /\ messages' = Append(messages, User) /\ phase' = "complete"
      /\ pending' = pending
  BY DEF Prompt, HistoryOK
<1>2. messages \in Seq(Message) /\ Told(messages, 0) /\ SystemFirst(messages)
  BY <1>1, EmptyPending DEF HistoryOK
<1>3. User \in Message /\ User.role \notin {"tool", "assistant", "system"}
  BY UserKind
<1>4. messages' \in Seq(Message) /\ Told(messages', 0) /\ SystemFirst(messages')
  BY <1>1, <1>2, <1>3, Appended, AppendPlain, AppendSystem
<1> QED BY <1>1, <1>4, EmptyPending DEF HistoryOK

(* The system prompt, or nothing, is what a reset leaves. *)
SystemOnly(ms) ==
    \/ ms = <<>>
    \/ ms \in Seq(Message) /\ DOMAIN ms = {1} /\ Len(ms) = 1 /\ ms[1].role = "system"

LEMMA SystemOnlyTold ==
    ASSUME NEW ms, SystemOnly(ms)
    PROVE  ms \in Seq(Message) /\ Told(ms, 0) /\ SystemFirst(ms)
<1>1. CASE ms = <<>>
  BY <1>1 DEF Told, SystemFirst, Asks
<1>2. CASE ms # <<>>
  <2>1. ms \in Seq(Message) /\ DOMAIN ms = {1} /\ Len(ms) = 1 /\ ms[1].role = "system"
    BY <1>2 DEF SystemOnly
  <2> QED BY <2>1 DEF Told, SystemFirst, Asks
<1> QED BY <1>1, <1>2

LEMMA ResetLeaves ==
    ASSUME HistoryOK, Reset
    PROVE  SystemOnly(messages')
<1> DEFINE c == Cardinality(With("system"))
<1>1. messages \in Seq(Message) /\ SystemFirst(messages) /\ messages' = SubSeq(messages, 1, c)
  BY DEF Reset, HistoryOK
<1>2. CASE With("system") = {}
  <2>1. c = 0
    BY <1>2, FS_EmptySet
  <2>2. messages' = <<>>
    <3> HIDE DEF c
    <3> QED BY <1>1, <2>1
  <2> QED BY <2>2 DEF SystemOnly
<1>3. CASE With("system") # {}
  <2>1. With("system") = {1} /\ messages[1].role = "system" /\ Len(messages) >= 1
    BY <1>1, <1>3 DEF With, SystemFirst
  <2>2. c = 1
    BY <2>1, FS_Singleton
  <2>3. messages[1] \in Message
    BY <1>1, <2>1
  <2>4. SubSeq(messages, 1, 1) \in Seq(Message) /\ Len(SubSeq(messages, 1, 1)) = 1
        /\ SubSeq(messages, 1, 1)[1] = messages[1]
    BY <2>3, SubSeqProperties
  <2>5. DOMAIN SubSeq(messages, 1, 1) = {1}
    BY <2>4
  <2>6. messages' = SubSeq(messages, 1, 1)
    <3> HIDE DEF c
    <3> QED BY <1>1, <2>2
  <2> QED BY <2>1, <2>4, <2>5, <2>6 DEF SystemOnly
<1> QED BY <1>2, <1>3

LEMMA ResetOK ==
    ASSUME HistoryOK, Reset
    PROVE  HistoryOK'
<1>1. pending = <<>> /\ phase' = "prompt" /\ pending' = pending
  BY DEF Reset, HistoryOK
<1>2. messages' \in Seq(Message) /\ Told(messages', 0) /\ SystemFirst(messages')
  BY ResetLeaves, SystemOnlyTold
<1> QED BY <1>1, <1>2, EmptyPending DEF HistoryOK

LEMMA HistoryStep == HistoryOK /\ over \in BOOLEAN /\ [Next]_agentVars => HistoryOK'
<1> SUFFICES ASSUME HistoryOK, over \in BOOLEAN, [Next]_agentVars PROVE HistoryOK'
  OBVIOUS
<1>1. CASE Prompt
  BY <1>1, PromptOK
<1>2. CASE Reset
  BY <1>2, ResetOK
<1>3. ASSUME NEW names \in CallList, NEW above \in BOOLEAN, Complete(names, above)
      PROVE  HistoryOK'
  BY <1>3, CompleteOK
<1>4. CASE RequestFails
  BY <1>4 DEF RequestFails, HistoryOK
<1>5. CASE RunTool
  BY <1>5, AppendResultOK DEF RunTool
<1>6. CASE StartReboot
  BY <1>6 DEF StartReboot, HistoryOK
<1>7. CASE EndReboot
  BY <1>7, AppendResultOK DEF EndReboot
<1>8. CASE UNCHANGED loopVars
  BY <1>8 DEF loopVars, HistoryOK
<1>9. Reboot \/ Late \/ ((FrontEnd \/ Restart) /\ UNCHANGED loopVars) \/ UNCHANGED agentVars
        => UNCHANGED loopVars
  BY DEF Reboot, Late, agentVars
<1> QED BY <1>1, <1>2, <1>3, <1>4, <1>5, <1>6, <1>7, <1>8, <1>9 DEF Next

LEMMA InitMessages == Init => SystemOnly(messages)
<1> SUFFICES ASSUME Init, messages # <<>> PROVE SystemOnly(messages)
  BY DEF SystemOnly
<1> DEFINE m == [role |-> "system"]
<1>1. m \in Message /\ m.role = "system"
  BY DEF Message
<1>2. messages = <<m>>
  BY DEF Init
<1> HIDE DEF m
<1>3. messages \in Seq(Message) /\ DOMAIN messages = {1} /\ messages[1] = m /\ Len(messages) = 1
  BY <1>1, <1>2
<1> QED BY <1>1, <1>3 DEF SystemOnly

LEMMA InitHistory == Init => HistoryOK /\ over \in BOOLEAN
<1> SUFFICES ASSUME Init PROVE HistoryOK
  BY DEF Init
<1>1. phase = "prompt" /\ pending = <<>>
  BY DEF Init
<1>2. SystemOnly(messages)
  BY InitMessages
<1>3. messages \in Seq(Message) /\ Told(messages, 0) /\ SystemFirst(messages)
  BY <1>2, SystemOnlyTold
<1> QED BY <1>1, <1>3, EmptyPending DEF HistoryOK

LEMMA OverType == HistoryOK /\ over \in BOOLEAN /\ [Next]_agentVars => over' \in BOOLEAN
<1> SUFFICES ASSUME HistoryOK, over \in BOOLEAN, [Next]_agentVars PROVE over' \in BOOLEAN
  OBVIOUS
<1>1. ASSUME NEW names \in CallList, NEW above \in BOOLEAN, Complete(names, above)
      PROVE  over' \in BOOLEAN
  <2>1. over' \in {FALSE, over \/ above}
    BY <1>1 DEF Complete, EndTurn
  <2>2. (over \/ above) \in BOOLEAN
    OBVIOUS
  <2> QED BY <2>1, <2>2
<1>2. Prompt => over' = FALSE
  BY DEF Prompt
<1>3. AppendResult => over' \in {FALSE, over}
  BY DEF AppendResult, EndTurn
<1>4. Reset \/ RequestFails \/ StartReboot => over' = over
  BY DEF Reset, RequestFails, StartReboot
<1>5. Reboot \/ Late \/ ((FrontEnd \/ Restart) /\ UNCHANGED loopVars) \/ UNCHANGED agentVars
        => over' = over
  BY DEF Reboot, Late, agentVars, loopVars
<1> QED BY <1>1, <1>2, <1>3, <1>4, <1>5 DEF Next, RunTool, EndReboot

LEMMA HistoryAlways == Spec => []HistoryOK
<1>1. (HistoryOK /\ over \in BOOLEAN) /\ [Next]_agentVars => (HistoryOK /\ over \in BOOLEAN)'
  BY HistoryStep, OverType
<1> QED BY InitHistory, <1>1, PTL DEF Spec

(* EveryCallAnswered holds: when the model is asked, each call it made has *)
(* its result where the protocol wants it, however many are made at once.  *)
THEOREM CallsAreAnswered == Spec => []EveryCallAnswered
<1>1. HistoryOK => EveryCallAnswered
  <2> SUFFICES ASSUME HistoryOK, phase \in {"complete", "prompt"}
               PROVE  /\ With("tool") = UNION {a + 1 .. a + CallsOf(a) : a \in With("assistant")}
                      /\ \A a \in With("assistant") : \A i \in 1 .. CallsOf(a) :
                           messages[a + i].call = <<a, i>>
    BY DEF EveryCallAnswered
  <2>1. messages \in Seq(Message) /\ Told(messages, 0)
    BY EmptyPending DEF HistoryOK
  <2>2. /\ With("assistant") = Asks(messages) /\ Asks(messages) \subseteq 1 .. Len(messages)
        /\ Len(messages) \in Nat /\ DOMAIN messages = 1 .. Len(messages)
    BY <2>1 DEF With, Asks
  <2>3. \A a \in Asks(messages) : /\ CallsOf(a) \in Nat /\ Due(messages, a) = a + CallsOf(a)
                                  /\ a + CallsOf(a) <= Len(messages)
    BY <2>1, <2>2, Kinds DEF Told, Asks, Due, CallsOf
  <2>4. ASSUME NEW i \in With("tool")
        PROVE  \E a \in With("assistant") : i \in a + 1 .. a + CallsOf(a)
    <3>1. i \in 1 .. Len(messages) /\ messages[i].role = "tool"
      BY <2>2 DEF With
    <3>2. PICK a \in Asks(messages) : a < i /\ i <= Due(messages, a)
      BY <2>1, <2>2, <3>1 DEF Told
    <3>3. i \in a + 1 .. a + CallsOf(a)
      BY <2>2, <2>3, <3>1, <3>2
    <3> QED BY <2>2, <3>2, <3>3
  <2>5. ASSUME NEW a \in With("assistant"), NEW i \in a + 1 .. a + CallsOf(a)
        PROVE  i \in With("tool") /\ messages[i].call = <<a, i - a>>
    <3>1. i \in 1 .. Len(messages) /\ a < i /\ i <= Due(messages, a)
      BY <2>2, <2>3
    <3>2. messages[i].role = "tool" /\ messages[i].call = <<a, i - a>>
      BY <2>1, <2>2, <3>1 DEF Told
    <3> QED BY <2>2, <3>1, <3>2 DEF With
  <2>6. With("tool") = UNION {a + 1 .. a + CallsOf(a) : a \in With("assistant")}
    BY <2>4, <2>5
  <2>7. ASSUME NEW a \in With("assistant"), NEW i \in 1 .. CallsOf(a)
        PROVE  messages[a + i].call = <<a, i>>
    <3>1. a \in Nat /\ i \in Nat /\ a + i \in a + 1 .. a + CallsOf(a) /\ (a + i) - a = i
      BY <2>2, <2>3
    <3>2. messages[a + i].call = <<a, (a + i) - a>>
      BY <2>5, <3>1
    <3> QED BY <3>1, <3>2
  <2> QED BY <2>6, <2>7
<1> QED BY <1>1, HistoryAlways, PTL

-----------------------------------------------------------------------------
(***************************************************************************)
(* Nothing is dropped or moved.                                            *)
(***************************************************************************)
Kept(ms, ns) ==
    Len(ns) >= Len(ms) /\ \A i \in DOMAIN ms : MayBecome(ms[i], ns[i])

Extends(ms, ns) ==
    Len(ns) >= Len(ms) /\ \A i \in DOMAIN ms : ns[i] = ms[i]

LEMMA ExtendsIsKept ==
    ASSUME NEW ms, NEW ns, Extends(ms, ns)
    PROVE  Kept(ms, ns)
BY DEF Extends, Kept, MayBecome

LEMMA AppendExtends ==
    ASSUME NEW ms \in Seq(Message), NEW ns \in Seq(Message), NEW m \in Message, Extends(ms, ns)
    PROVE  Extends(ms, Append(ns, m))
BY Appended DEF Extends

LEMMA EndTurnKept ==
    ASSUME messages \in Seq(Message), NEW ns \in Seq(Message), Extends(messages, ns),
           NEW above, EndTurn(ns, above)
    PROVE  Kept(messages, messages')
<1> DEFINE all == Append(ns, Assistant(0))
<1>1. all \in Seq(Message) /\ Extends(messages, all)
  BY AssistantKind, Appended, AppendExtends
<1>2. messages' = all \/ messages' = Bounded(all)
  BY DEF EndTurn
<1> HIDE DEF all
<1>3. Kept(messages, Bounded(all))
  <2>1. /\ Len(all) \in Nat /\ Len(messages) \in Nat
        /\ DOMAIN all = 1 .. Len(all) /\ DOMAIN messages = 1 .. Len(messages)
    BY <1>1
  <2>2. Len(Bounded(all)) = Len(all) /\ \A i \in DOMAIN all : MayBecome(all[i], Bounded(all)[i])
    BY <1>1, BoundedKeeps
  <2>3. \A i \in DOMAIN messages : all[i] = messages[i] /\ i \in DOMAIN all
    BY <1>1, <2>1 DEF Extends
  <2> QED BY <1>1, <2>2, <2>3 DEF Kept, Extends
<1> QED BY <1>1, <1>2, <1>3, ExtendsIsKept

(* The result that AppendResult adds. *)
LEMMA NextResult ==
    ASSUME HistoryOK, phase \in {"tools", "reboot"}
    PROVE  LET a == LastOf({i \in With("assistant") : messages[i].calls > 0})
               m == Result(a, messages[a].calls - Len(pending) + 1)
           IN  m \in Message /\ m.role = "tool" /\ ~ m.elided
<1> DEFINE n    == Len(pending)
           last == LastOf({i \in With("assistant") : messages[i].calls > 0})
<1>1. messages \in Seq(Message) /\ n \in Nat \ {0} /\ Told(messages, n)
  BY TailOf DEF HistoryOK
<1>2. PICK a : Waits(messages, n, a)
  BY DEF HistoryOK
<1>3. last = a
  <2>1. LastOf({i \in Asks(messages) : messages[i].calls > 0}) = a
    BY <1>1, <1>2, WaitsIsLast
  <2> QED BY <2>1 DEF Asks, With
<1>4. a \in Nat /\ messages[a].calls - n + 1 \in Nat
  <2>1. a \in 1 .. Len(messages) /\ messages[a].calls \in Nat
    BY <1>1, <1>2, Kinds DEF Waits, Asks
  <2>2. Due(messages, a) = Len(messages) + n
    BY <1>2 DEF Waits
  <2> QED BY <1>1, <2>1, <2>2 DEF Due
<1> HIDE DEF last
<1> QED BY <1>3, <1>4, ResultKind DEF last

LEMMA AppendResultKept ==
    ASSUME HistoryOK, phase \in {"tools", "reboot"}, AppendResult
    PROVE  Kept(messages, messages')
<1> DEFINE a  == LastOf({i \in With("assistant") : messages[i].calls > 0})
           m  == Result(a, messages[a].calls - Len(pending) + 1)
           ms == Append(messages, m)
<1>1. messages \in Seq(Message) /\ Extends(messages, messages)
  BY DEF HistoryOK, Extends
<1>2. EndTurn(ms, over) \/ messages' = ms
  BY DEF AppendResult
<1>3. m \in Message
  BY NextResult
<1> HIDE DEF m
<1>4. ms \in Seq(Message) /\ Extends(messages, ms)
  BY <1>1, <1>3, Appended, AppendExtends
<1> HIDE DEF ms
<1> QED BY <1>1, <1>2, <1>4, EndTurnKept, ExtendsIsKept

LEMMA KeptStep ==
    HistoryOK /\ [Next]_agentVars => Reset \/ Kept(messages, messages') \/ UNCHANGED agentVars
<1> SUFFICES ASSUME HistoryOK, Next PROVE Reset \/ Kept(messages, messages')
  OBVIOUS
<1>1. messages \in Seq(Message) /\ Extends(messages, messages)
  BY DEF HistoryOK, Extends
<1>2. CASE Prompt
  <2>1. messages' = Append(messages, User)
    BY <1>2 DEF Prompt
  <2> QED BY <1>1, <2>1, UserKind, AppendExtends, ExtendsIsKept
<1>3. ASSUME NEW names \in CallList, NEW above \in BOOLEAN, Complete(names, above)
      PROVE  Kept(messages, messages')
  <2>1. CASE names = <<>>
    <3>1. EndTurn(messages, over \/ above)
      BY <1>3, <2>1 DEF Complete
    <3> QED BY <1>1, <3>1, EndTurnKept
  <2>2. CASE names # <<>>
    <3>1. PICK n \in 0 .. Parallel : names \in [1 .. n -> Name]
      BY DEF CallList
    <3>2. Len(names) \in Nat
      BY <3>1
    <3>3. messages' = Append(messages, Assistant(Len(names)))
      BY <1>3, <2>2 DEF Complete
    <3> QED BY <1>1, <3>2, <3>3, AssistantKind, AppendExtends, ExtendsIsKept
  <2> QED BY <2>1, <2>2
<1>4. CASE RunTool \/ EndReboot
  BY <1>4, AppendResultKept DEF RunTool, EndReboot
<1>5. CASE UNCHANGED messages
  BY <1>1, <1>5, ExtendsIsKept
<1>6. RequestFails \/ StartReboot \/ Reboot \/ Late \/ ((FrontEnd \/ Restart) /\ UNCHANGED loopVars)
        => UNCHANGED messages
  BY DEF RequestFails, StartReboot, Reboot, Late, loopVars
<1> QED BY <1>2, <1>3, <1>4, <1>5, <1>6 DEF Next

(* HistoryKept holds: but for a reset, a step only adds messages, and only *)
(* the body of a tool's result ever goes.                                  *)
THEOREM NothingIsDropped == Spec => HistoryKept
<1>1. HistoryOK /\ [Next]_agentVars =>
        [Reset \/ /\ Len(messages') >= Len(messages)
                  /\ \A i \in DOMAIN messages : MayBecome(messages[i], messages'[i])]_agentVars
  BY KeptStep DEF Kept
<1> QED BY <1>1, HistoryAlways, PTL DEF Spec, HistoryKept

-----------------------------------------------------------------------------
(***************************************************************************)
(* Bodies go oldest first, and the last Keep stay.                         *)
(***************************************************************************)
Tools(ms)    == {i \in DOMAIN ms : ms[i].role = "tool"}
Gone(ms)     == {i \in Tools(ms) : ms[i].elided}
Later(ms, i) == {j \in Tools(ms) : j > i}

OldestGone(ms) ==
    /\ \A i \in Gone(ms), j \in Tools(ms) : j < i => j \in Gone(ms)
    /\ \A i \in Gone(ms) : Cardinality(Later(ms, i)) >= Keep

LEMMA ToolsFinite ==
    ASSUME NEW ms \in Seq(Message), NEW S \in SUBSET DOMAIN ms
    PROVE  IsFiniteSet(S) /\ Cardinality(S) \in Nat
<1>1. DOMAIN ms = 1 .. Len(ms) /\ Len(ms) \in Int
  OBVIOUS
<1>2. IsFiniteSet(1 .. Len(ms))
  BY <1>1, FS_Interval
<1> QED BY <1>1, <1>2, FS_Subset, FS_CardinalityType

(* A message that comes last, its body whole, takes nothing away. *)
LEMMA AppendGone ==
    ASSUME NEW ms \in Seq(Message), NEW m \in Message, OldestGone(ms),
           m.role = "tool" => ~ m.elided
    PROVE  OldestGone(Append(ms, m)) /\ Gone(Append(ms, m)) = Gone(ms)
<1> USE BoundsAssumption
<1> DEFINE ns == Append(ms, m)
           l  == Len(ms)
<1>1. /\ l \in Nat /\ DOMAIN ms = 1 .. l /\ DOMAIN ns = 1 .. l + 1
      /\ ns[l + 1] = m /\ \A i \in 1 .. l : ns[i] = ms[i]
      /\ ns \in Seq(Message)
  BY Appended
<1> HIDE DEF ns, l
<1>2. Tools(ms) \subseteq Tools(ns) /\ \A i \in Tools(ns) : i \in Tools(ms) \/ i = l + 1
  BY <1>1 DEF Tools
<1>3. Gone(ns) = Gone(ms)
  BY <1>1, <1>2 DEF Gone, Tools
<1>4. ASSUME NEW i \in Gone(ns), NEW j \in Tools(ns), j < i PROVE j \in Gone(ns)
  <2>1. i \in 1 .. l
    BY <1>1, <1>3 DEF Gone, Tools
  <2>2. j \in Tools(ms)
    BY <1>1, <1>2, <1>4, <2>1
  <2> QED BY <1>3, <1>4, <2>2 DEF OldestGone
<1>5. ASSUME NEW i \in Gone(ns) PROVE Cardinality(Later(ns, i)) >= Keep
  <2>1. Later(ms, i) \subseteq Later(ns, i) /\ Later(ns, i) \subseteq DOMAIN ns
        /\ Later(ms, i) \subseteq DOMAIN ms
    BY <1>2 DEF Later, Tools
  <2>2. IsFiniteSet(Later(ns, i)) /\ Cardinality(Later(ns, i)) \in Nat
        /\ Cardinality(Later(ms, i)) \in Nat
    BY <1>1, <2>1, ToolsFinite
  <2>3. Cardinality(Later(ms, i)) <= Cardinality(Later(ns, i))
    BY <2>1, <2>2, FS_Subset
  <2>4. Cardinality(Later(ms, i)) >= Keep
    BY <1>3, <1>5 DEF OldestGone
  <2> QED BY <2>2, <2>3, <2>4
<1>6. OldestGone(ns)
  BY <1>4, <1>5 DEF OldestGone
<1> QED BY <1>3, <1>6 DEF ns

LEMMA BoundedGone ==
    ASSUME NEW ms \in Seq(Message), OldestGone(ms)
    PROVE  OldestGone(Bounded(ms))
<1> USE BoundsAssumption
<1> DEFINE bs == Bounded(ms)
<1>1. DOMAIN bs = DOMAIN ms /\ DOMAIN ms \subseteq Nat
      /\ \A i \in DOMAIN ms : bs[i].role = ms[i].role
  BY BoundedKeeps
<1>2. Tools(bs) = Tools(ms) /\ \A i \in Tools(ms) : ms[i] \in ToolMessage
  <2>1. \A i \in Tools(ms) : ms[i] \in Message
    BY DEF Tools
  <2> QED BY <1>1, <2>1, Kinds DEF Tools
<1>3. Whole(ms) = Tools(ms) \ Gone(ms)
  BY DEF Whole, Gone, Tools
<1>4. ASSUME NEW i \in Tools(ms)
      PROVE  i \in Gone(bs) <=> i \in Gone(ms) \/ (i \in Whole(ms) /\ Elide(ms, i))
  <2>1. CASE i \in Whole(ms) /\ Elide(ms, i)
    <3>1. bs[i] = [ms[i] EXCEPT !.elided = TRUE]
      BY <2>1 DEF Bounded, Tools
    <3>2. bs[i].elided
      BY <1>2, <3>1 DEF ToolMessage
    <3> QED BY <1>2, <2>1, <3>2 DEF Gone
  <2>2. CASE ~ (i \in Whole(ms) /\ Elide(ms, i))
    <3>1. bs[i] = ms[i]
      BY <2>2 DEF Bounded, Tools
    <3> QED BY <1>2, <2>2, <3>1 DEF Gone
  <2> QED BY <2>1, <2>2
<1>5. Gone(bs) \subseteq Tools(ms)
  BY <1>2 DEF Gone
<1> HIDE DEF bs
<1> DEFINE From(i) == {j \in Whole(ms) : j >= i}
<1>6. \A i : /\ From(i) \in SUBSET DOMAIN ms /\ Later(ms, i) \in SUBSET DOMAIN ms
             /\ Later(bs, i) = Later(ms, i)
  BY <1>2 DEF Whole, Later, Tools
<1>7. \A i : /\ IsFiniteSet(From(i)) /\ Cardinality(From(i)) \in Nat
             /\ IsFiniteSet(Later(ms, i)) /\ Cardinality(Later(ms, i)) \in Nat
  <2> HIDE DEF From
  <2> QED BY <1>6, ToolsFinite
<1>8. \A i : Elide(ms, i) <=> Cardinality(From(i)) > Keep
  BY DEF Elide
<1>9. ASSUME NEW i \in Gone(bs), NEW j \in Tools(bs), j < i PROVE j \in Gone(bs)
  <2>1. i \in Tools(ms) /\ j \in Tools(ms) /\ i \in Nat /\ j \in Nat
    BY <1>1, <1>2, <1>5 DEF Tools
  <2>2. CASE i \in Gone(ms)
    BY <1>4, <1>9, <2>1, <2>2 DEF OldestGone
  <2>3. CASE i \in Whole(ms) /\ Elide(ms, i)
    <3>1. From(i) \in SUBSET From(j)
      BY <1>1, <1>9, <2>1 DEF Whole
    <3>2. Cardinality(From(i)) <= Cardinality(From(j))
      <4> HIDE DEF From
      <4> QED BY <1>7, <3>1, FS_Subset
    <3>3. Cardinality(From(j)) > Keep
      <4> HIDE DEF From
      <4> QED BY <1>7, <1>8, <2>3, <3>2
    <3>4. Elide(ms, j)
      BY <1>8, <3>3
    <3> QED BY <1>3, <1>4, <2>1, <3>4
  <2> QED BY <1>4, <2>1, <2>2, <2>3
<1>10. ASSUME NEW i \in Gone(bs) PROVE Cardinality(Later(bs, i)) >= Keep
  <2>1. CASE i \in Gone(ms)
    BY <1>6, <2>1 DEF OldestGone
  <2>2. CASE i \in Whole(ms) /\ Elide(ms, i)
    <3>1. From(i) \ {i} \in SUBSET Later(ms, i)
      <4>1. i \in Nat /\ Whole(ms) \subseteq Nat /\ Whole(ms) \subseteq Tools(ms)
        BY <1>1, <1>3, <2>2 DEF Tools
      <4>2. ASSUME NEW j \in From(i) \ {i} PROVE j \in Tools(ms) /\ j > i
        BY <4>1
      <4> QED BY <4>2 DEF Later
    <3>2. i \in From(i)
      BY <1>1, <2>2 DEF Whole
    <3>3. Cardinality(From(i) \ {i}) = Cardinality(From(i)) - 1
      <4> HIDE DEF From
      <4> QED BY <1>7, <3>2, FS_RemoveElement
    <3>4. Cardinality(From(i) \ {i}) <= Cardinality(Later(ms, i))
      <4> HIDE DEF From
      <4> QED BY <1>7, <3>1, FS_Subset
    <3>5. Cardinality(From(i)) > Keep
      BY <1>8, <2>2
    <3> HIDE DEF From
    <3> QED BY <1>6, <1>7, <3>3, <3>4, <3>5
  <2> QED BY <1>4, <1>5, <2>1, <2>2
<1>11. OldestGone(bs)
  BY <1>9, <1>10 DEF OldestGone
<1> QED BY <1>11 DEF bs

(* During a turn no body goes, so those that went belong to earlier turns. *)
InTurn(ms) ==
    \E u \in DOMAIN ms :
      /\ ms[u].role = "user"
      /\ \A v \in DOMAIN ms : ms[v].role = "user" => v <= u
      /\ \A i \in Gone(ms) : i < u

GoneOK == OldestGone(messages) /\ (phase # "prompt" => InTurn(messages))

LEMMA PromptInTurn ==
    ASSUME NEW ms \in Seq(Message), OldestGone(ms)
    PROVE  InTurn(Append(ms, User))
<1> DEFINE ns == Append(ms, User)
           l  == Len(ms)
<1>1. User \in Message /\ User.role = "user"
  BY UserKind
<1>2. l \in Nat /\ DOMAIN ms = 1 .. l /\ DOMAIN ns = 1 .. l + 1 /\ ns[l + 1] = User
  BY <1>1, Appended
<1>3. Gone(ns) = Gone(ms)
  BY <1>1, AppendGone
<1>4. Gone(ms) \subseteq 1 .. l
  BY <1>2 DEF Gone, Tools
<1> HIDE DEF ns, l
<1>5. InTurn(ns)
  BY <1>1, <1>2, <1>3, <1>4 DEF InTurn
<1> QED BY <1>5 DEF ns

LEMMA AppendInTurn ==
    ASSUME NEW ms \in Seq(Message), NEW m \in Message, OldestGone(ms), InTurn(ms),
           m.role # "user", m.role = "tool" => ~ m.elided
    PROVE  InTurn(Append(ms, m))
<1> DEFINE ns == Append(ms, m)
           l  == Len(ms)
<1>1. /\ l \in Nat /\ DOMAIN ms = 1 .. l /\ DOMAIN ns = 1 .. l + 1 /\ ns[l + 1] = m
      /\ \A i \in 1 .. l : ns[i] = ms[i]
  BY Appended
<1>2. Gone(ns) = Gone(ms)
  BY AppendGone
<1> HIDE DEF ns, l
<1>3. InTurn(ns)
  BY <1>1, <1>2 DEF InTurn
<1> QED BY <1>3 DEF ns

LEMMA EndTurnGone ==
    ASSUME NEW ms \in Seq(Message), OldestGone(ms), NEW above, EndTurn(ms, above)
    PROVE  GoneOK'
<1> DEFINE all == Append(ms, Assistant(0))
<1>1. Assistant(0) \in Message /\ Assistant(0).role = "assistant"
  BY AssistantKind
<1>2. all \in Seq(Message) /\ OldestGone(all)
  BY <1>1, Appended, AppendGone
<1>3. (messages' = all \/ messages' = Bounded(all)) /\ phase' = "prompt"
  BY DEF EndTurn
<1> HIDE DEF all
<1> QED BY <1>2, <1>3, BoundedGone DEF GoneOK

LEMMA AppendResultGone ==
    ASSUME HistoryOK, GoneOK, phase \in {"tools", "reboot"}, AppendResult
    PROVE  GoneOK'
<1> DEFINE a  == LastOf({i \in With("assistant") : messages[i].calls > 0})
           m  == Result(a, messages[a].calls - Len(pending) + 1)
           ms == Append(messages, m)
<1>1. messages \in Seq(Message) /\ OldestGone(messages) /\ InTurn(messages)
  BY DEF HistoryOK, GoneOK
<1>2. EndTurn(ms, over) \/ messages' = ms
  BY DEF AppendResult
<1>3. m \in Message /\ m.role = "tool" /\ ~ m.elided
  BY NextResult
<1> HIDE DEF m
<1>4. ms \in Seq(Message) /\ OldestGone(ms) /\ InTurn(ms)
  BY <1>1, <1>3, Appended, AppendGone, AppendInTurn
<1> HIDE DEF ms
<1> QED BY <1>2, <1>4, EndTurnGone DEF GoneOK

LEMMA GoneStep == HistoryOK /\ GoneOK /\ [Next]_agentVars => GoneOK'
<1> SUFFICES ASSUME HistoryOK, GoneOK, [Next]_agentVars PROVE GoneOK'
  OBVIOUS
<1>0. messages \in Seq(Message) /\ OldestGone(messages)
  BY DEF HistoryOK, GoneOK
<1>1. CASE Prompt
  <2>1. messages' = Append(messages, User)
    BY <1>1 DEF Prompt
  <2>2. User \in Message /\ User.role = "user"
    BY UserKind
  <2> QED BY <1>0, <2>1, <2>2, AppendGone, PromptInTurn DEF GoneOK
<1>2. CASE Reset
  <2>1. phase' = "prompt" /\ SystemOnly(messages')
    BY <1>2, ResetLeaves DEF Reset
  <2>2. \A ms : SystemOnly(ms) => Gone(ms) = {}
    BY DEF SystemOnly, Gone, Tools
  <2> QED BY <2>1, <2>2 DEF GoneOK, OldestGone
<1>3. ASSUME NEW names \in CallList, NEW above \in BOOLEAN, Complete(names, above)
      PROVE  GoneOK'
  <2>1. CASE names = <<>>
    <3>1. EndTurn(messages, over \/ above)
      BY <1>3, <2>1 DEF Complete
    <3> QED BY <1>0, <3>1, EndTurnGone
  <2>2. CASE names # <<>>
    <3>1. PICK n \in 0 .. Parallel : names \in [1 .. n -> Name]
      BY DEF CallList
    <3>2. Len(names) \in Nat
      BY <3>1
    <3>3. messages' = Append(messages, Assistant(Len(names))) /\ InTurn(messages)
      BY <1>3, <2>2 DEF Complete, GoneOK
    <3>4. Assistant(Len(names)) \in Message /\ Assistant(Len(names)).role = "assistant"
      BY <3>2, AssistantKind
    <3> QED BY <1>0, <3>3, <3>4, AppendGone, AppendInTurn DEF GoneOK
  <2> QED BY <2>1, <2>2
<1>4. CASE RunTool \/ EndReboot
  BY <1>4, AppendResultGone DEF RunTool, EndReboot
<1>5. CASE messages' = messages /\ (phase' # "prompt" => phase # "prompt")
  BY <1>5 DEF GoneOK
<1>6. RequestFails \/ StartReboot => messages' = messages /\ phase # "prompt"
  BY DEF RequestFails, StartReboot
<1>7. Reboot \/ Late \/ ((FrontEnd \/ Restart) /\ UNCHANGED loopVars) \/ UNCHANGED agentVars
        => messages' = messages /\ phase' = phase
  BY DEF Reboot, Late, agentVars, loopVars
<1> QED BY <1>1, <1>2, <1>3, <1>4, <1>5, <1>6, <1>7 DEF Next

LEMMA InitGone == Init => GoneOK
<1> SUFFICES ASSUME Init PROVE GoneOK
  OBVIOUS
<1>1. phase = "prompt"
  BY DEF Init
<1>2. Gone(messages) = {}
  BY InitMessages DEF SystemOnly, Gone, Tools
<1> QED BY <1>1, <1>2 DEF GoneOK, OldestGone

(* OldestElided holds: only bodies of results go, the oldest first, none   *)
(* of the last Keep and none of the turn that is going on.                 *)
THEOREM OldestGoFirst == Spec => []OldestElided
<1>1. HistoryOK /\ GoneOK => OldestElided
  <2> SUFFICES ASSUME HistoryOK, GoneOK, NEW i \in With("tool"), messages[i].elided
               PROVE  /\ \A j \in With("tool") : j < i => messages[j].elided
                      /\ Cardinality({j \in With("tool") : j > i}) >= Keep
                      /\ phase # "prompt" => i < LastOf(With("user"))
    BY DEF OldestElided
  <2>1. With("tool") = Tools(messages) /\ i \in Gone(messages) /\ OldestGone(messages)
    BY DEF With, Tools, Gone, GoneOK
  <2>2. \A j \in With("tool") : j < i => messages[j].elided
    BY <2>1 DEF OldestGone, Gone
  <2>3. Cardinality({j \in With("tool") : j > i}) >= Keep
    BY <2>1 DEF OldestGone, Later
  <2>4. ASSUME phase # "prompt" PROVE i < LastOf(With("user"))
    <3>1. PICK u \in DOMAIN messages :
            /\ messages[u].role = "user"
            /\ \A v \in DOMAIN messages : messages[v].role = "user" => v <= u
            /\ \A k \in Gone(messages) : k < u
      BY <2>4 DEF GoneOK, InTurn
    <3>2. u \in With("user") /\ \A v \in With("user") : v <= u
      BY <3>1 DEF With
    <3>3. DOMAIN messages \subseteq Nat
      BY DEF HistoryOK
    <3>4. LastOf(With("user")) \in With("user") /\ \A v \in With("user") : v <= LastOf(With("user"))
      BY <3>2 DEF LastOf
    <3>5. LastOf(With("user")) = u
      <4>1. LastOf(With("user")) \in Nat /\ u \in Nat
        BY <3>2, <3>3, <3>4 DEF With
      <4>2. LastOf(With("user")) <= u /\ u <= LastOf(With("user"))
        BY <3>2, <3>4
      <4> QED BY <4>1, <4>2
    <3> QED BY <2>1, <3>1, <3>5
  <2> QED BY <2>2, <2>3, <2>4
<1> QED BY <1>1, InitGone, GoneStep, HistoryAlways, PTL DEF Spec
=============================================================================
