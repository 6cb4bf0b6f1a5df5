---------------------------- MODULE GuardedReboot ----------------------------
(***************************************************************************)
(* Rebooting a host: services/mcp-host-control plans and executes; a       *)
(* wrapper asks it for a plan, shows that to a person, and asks it to      *)
(* execute.  There are two wrappers: the tool in the chat front end        *)
(* (infra/openwebui/tools/reboot_guarded.py, "owui") and the one of        *)
(* scripts/agent.py ("cli").  They do not know of each other.              *)
(*                                                                         *)
(* A request may fail, its answer may be lost, and a request whose caller  *)
(* stopped waiting may still be served.  The service may be restarted with *)
(* another allow list.                                                     *)
(***************************************************************************)
EXTENDS Naturals

CONSTANTS
    Host            \* hypervisors

VARIABLES
    allow,          \* HOST_ALLOWLIST
    mock,           \* HOST_MOCK; without it nothing is ever executed
    call            \* client -> its call, or the last one

Client == {"owui", "cli"}
rebootVars == <<allow, mock, call>>

(* yes: it was approved; acts: how often the host was rebooted for it;     *)
(* late: an execution nobody waits for is under way; said: the answer.     *)
NoCall  == [pc |-> "idle", host |-> "", yes |-> FALSE, acts |-> 0, late |-> FALSE, said |-> ""]

RebootInit ==
    /\ allow \in SUBSET Host /\ mock \in BOOLEAN
    /\ call = [c \in Client |-> NoCall]

Service == <<allow, mock>>
Step(c, new) == call' = [call EXCEPT ![c] = new] /\ UNCHANGED Service
Say(c, s)    == [call[c] EXCEPT !.pc = "idle", !.said = s]

-----------------------------------------------------------------------------
(* The service: a dry run unless confirmed; then the allow list. *)
BugMayAct(h, confirm) == mock /\ h \in allow            \* mutant: acts on a dry run
MayAct(h, confirm)    == confirm /\ mock /\ h \in allow

Acted(k, confirm) == IF MayAct(k.host, confirm) THEN k.acts + 1 ELSE k.acts

(* One call at a time for each client; a late execution of the call before *)
(* is over by then.                                                        *)
BeginCall(c, h) ==
    /\ call[c].pc = "idle" /\ ~ call[c].late
    /\ Step(c, [NoCall EXCEPT !.pc = "plan", !.host = h])

(* The dry run is planned for any host, also one that is not allowed. *)
Planned(c) ==
    /\ call[c].pc = "plan"
    /\ Step(c, [call[c] EXCEPT !.pc = "confirm", !.acts = Acted(call[c], FALSE)])

PlanFails(c) == call[c].pc = "plan" /\ Step(c, Say(c, "no plan"))

-----------------------------------------------------------------------------
(* The person.  The front end's tool refuses to act without a session; in  *)
(* the terminal an input that ends is an error, and --yes approves.        *)
Approved(yes)    == yes

Decide(c, yes) ==
    /\ call[c].pc = "confirm"
    /\ Step(c, IF Approved(yes) THEN [call[c] EXCEPT !.pc = "exec", !.yes = yes]
               ELSE Say(c, "cancelled"))

NoSession(c) == call[c].pc = "confirm" /\ Step(c, Say(c, "no session"))

-----------------------------------------------------------------------------
(* The executing request and its answer. *)
Execute(c) ==
    /\ call[c].pc = "exec"
    /\ Step(c, [call[c] EXCEPT !.acts = Acted(call[c], TRUE),
                  !.pc = IF MayAct(call[c].host, TRUE) THEN "acted" ELSE "refused"])

BugAnswer(c) == "done"                  \* mutant: only the status is looked at
Answer(c)    == IF call[c].pc = "acted" THEN "done" ELSE "refused"

Answered(c) == call[c].pc \in {"acted", "refused"} /\ Step(c, Say(c, Answer(c)))

(* An error on the way is an exception for the terminal; the front end's   *)
(* tool also takes an error the gateway answers for a refusal.             *)
AnswerLost(c) ==
    /\ call[c].pc \in {"acted", "refused"}
    /\ \E s \in {"failed"} \cup (IF c = "owui" THEN {"refused"} ELSE {}) : Step(c, Say(c, s))

StopsWaiting(c) ==
    /\ call[c].pc = "exec"
    /\ \E late \in BOOLEAN : Step(c, [Say(c, "failed") EXCEPT !.late = late])

ExecuteLate(c) ==
    /\ call[c].late
    /\ Step(c, [call[c] EXCEPT !.late = FALSE, !.acts = Acted(call[c], TRUE)])

Restart ==
    /\ allow' \in SUBSET Host
    /\ UNCHANGED <<mock, call>>

CallStep(c) ==
    \/ Planned(c) \/ PlanFails(c)
    \/ \E yes \in BOOLEAN : Decide(c, yes)
    \/ NoSession(c)
    \/ Execute(c) \/ Answered(c) \/ AnswerLost(c) \/ StopsWaiting(c)

(* The front end: its tool is called by the model, any time. *)
FrontEnd ==
    \/ \E h \in Host : BeginCall("owui", h)
    \/ CallStep("owui")

-----------------------------------------------------------------------------
(* Every reboot was approved, by a decision of its own: no dry run acts,   *)
(* and nothing that is lost, late or given up acts a second time.          *)
OneRebootPerApproval ==
    \A c \in Client : call[c].acts <= (IF call[c].yes THEN 1 ELSE 0)

(* What a call says of itself is so: a reboot it reports has happened, and *)
(* one it reports cancelled has not, nor ever will.                        *)
SaysWhatHappened ==
    \A c \in Client :
      /\ call[c].said = "done" => call[c].acts = 1
      /\ call[c].said \in {"cancelled", "no session", "no plan"} => call[c].acts = 0 /\ ~ call[c].late
      /\ c = "cli" /\ call[c].said = "refused" => call[c].acts = 0
=============================================================================
