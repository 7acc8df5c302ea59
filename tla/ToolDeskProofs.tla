---------------------------- MODULE ToolDeskProofs ----------------------------
(***************************************************************************)
(* Proofs about ToolDesk and the lists of tools, for any number of calls,  *)
(* tickets, accounts and lines, any mix of retries, timeouts, lost         *)
(* acknowledgements and late commits.                                      *)
(*                                                                         *)
(* Inv says that whatever may still take effect on the tables is lawful:   *)
(* the transactions of running handlers and the abandoned ones. StepKinds  *)
(* sorts the actions into what they do to a job and to the tickets; each   *)
(* theorem after it goes by these kinds and has a strengthening of its own.*)
(***************************************************************************)
EXTENDS ToolDesk, TLAPS

----------------------------------------------------------------------------
(* The lists of tools.                                                     *)

\* A tool the desk knows that is offered in a phase goes by its own name and passes
\* the guard of that phase.
LEMMA OfferedAllowed ==
  ASSUME NEW p \in Phases, NEW c \in Categories \cup {NoCategory},
         NEW name \in OfferedTools(p, c), name \in ToolNames \cup DOMAIN Synonyms
  PROVE  Resolved(name) \in AllowedTools(p)
<1> USE DEF PhaseCompleteTool, WaitTool, TransferTool, NewIssueTool, CustomerLookup, Working
<1>1. name \notin DOMAIN Synonyms
  BY DEF OfferedTools, Synonyms, Phases, Categories, NoCategory, Effective,
     TechnicalLookups, LookupsOf, SalesAndBillingActions, ServiceActions,
     TechnicalActions, ActionsOf
<1>2. name \notin {"phase_complete", "wait_for_user", "report_new_issue"}
  BY <1>1 DEF ToolNames, StubTools, AccountTools, CatalogTools
<1>3. Effective(c) \in Categories
  BY DEF Effective, Categories, NoCategory
<1>4. LookupsOf(Effective(c)) \subseteq DiagnoseAllowed
  BY <1>3 DEF Categories, LookupsOf, TechnicalLookups, DiagnoseAllowed
<1>5. ActionsOf(Effective(c)) \subseteq ResolveAllowed
  BY <1>3 DEF Categories, ActionsOf, TechnicalActions, SalesAndBillingActions, ServiceActions,
              ResolveAllowed
<1>6. \/ name = "escalate_to_agent" /\ p # "TRIAGE"
      \/ name = "lookup_customer" /\ p \in Working \cup {"VERIFY"}
      \/ p \in Working /\ name \in LookupsOf(Effective(c))
      \/ p \in {"RESOLVE", "WRAP_UP"} /\ name \in ActionsOf(Effective(c))
  BY <1>2, Zenon DEF OfferedTools
<1>7. /\ "escalate_to_agent" \in DiagnoseAllowed /\ "lookup_customer" \in DiagnoseAllowed
      /\ DiagnoseAllowed \subseteq ResolveAllowed
  BY DEF DiagnoseAllowed, ResolveAllowed
<1>8. name \in AllowedTools(p)
  <2>1. CASE p = "GREETING"
    BY <1>6, <2>1 DEF AllowedTools
  <2>2. CASE p = "VERIFY"
    BY <1>6, <2>2 DEF AllowedTools
  <2>3. CASE p = "TRIAGE"
    BY <1>6, <2>3 DEF AllowedTools
  <2>4. CASE p = "DIAGNOSE"
    <3>1. AllowedTools(p) = DiagnoseAllowed
      BY <2>4 DEF AllowedTools
    <3> QED BY <1>4, <1>6, <1>7, <2>4, <3>1
  <2>5. CASE p \in {"RESOLVE", "WRAP_UP"}
    <3>1. AllowedTools(p) = ResolveAllowed
      BY <2>5 DEF AllowedTools
    <3> QED BY <1>4, <1>5, <1>6, <1>7, <2>5, <3>1
  <2> QED BY <2>1, <2>2, <2>3, <2>4, <2>5 DEF Phases
<1> QED BY <1>1, <1>8 DEF Resolved

LEMMA ResolvedType ==
  ASSUME NEW name \in ToolNames \cup DOMAIN Synonyms
  PROVE  Resolved(name) \in ToolNames
BY DEF Resolved, Synonyms, ToolNames, AccountTools

\* The list of tools of a phase whose instructions can be followed keeps them, with every
\* category the call can have there.
LEMMA InstructedOffered ==
  ASSUME NEW p \in Phases, NEW c \in Categories \cup {NoCategory},
         \/ p = "VERIFY" /\ c = NoCategory
         \/ p \in {"DIAGNOSE", "RESOLVE"}
         \/ p = "WRAP_UP" /\ Effective(c) = "technical_support"
  PROVE  InstructedTools(p, c) \subseteq OfferedTools(p, c)
<1> USE DEF PhaseCompleteTool, WaitTool, TransferTool, NewIssueTool, CustomerLookup, Working
<1> DEFINE cat == Effective(c)
<1>1. cat \in Categories /\ (c = "billing" => cat = "billing")
  BY DEF Effective, Categories, NoCategory
<1>2. DiagnoseNames(cat) \subseteq LookupsOf(cat) \cup {"phase_complete", "escalate_to_agent"}
  BY <1>1 DEF Categories, DiagnoseNames, LookupsOf, TechnicalLookups
<1>3. ResolveNames(cat) \subseteq LookupsOf(cat) \cup ActionsOf(cat)
                                   \cup {"phase_complete", "escalate_to_agent"}
  BY <1>1 DEF Categories, ResolveNames, LookupsOf, TechnicalLookups, ActionsOf, TechnicalActions,
              SalesAndBillingActions, ServiceActions
<1>4. BaseNames(c) \subseteq LookupsOf(cat) \cup {"lookup_customer", "wait_for_user"}
  BY <1>1 DEF BaseNames, LookupsOf
<1>5. CASE p = "VERIFY" /\ c = NoCategory
  <2>1. BaseNames(c) = {"lookup_customer", "wait_for_user"}
    BY <1>5 DEF BaseNames, NoCategory
  <2> QED BY <1>5, <2>1 DEF InstructedTools, PhaseNames, OfferedTools
<1>6. CASE p = "DIAGNOSE"
  BY <1>2, <1>4, <1>6 DEF InstructedTools, PhaseNames, OfferedTools
<1>7. CASE p = "RESOLVE"
  BY <1>3, <1>4, <1>7 DEF InstructedTools, PhaseNames, OfferedTools
<1>8. CASE p = "WRAP_UP" /\ cat = "technical_support"
  <2>1. LookupsOf(cat) = TechnicalLookups
    BY <1>8 DEF LookupsOf
  <2> QED BY <1>4, <1>8, <2>1
          DEF InstructedTools, PhaseNames, WrapUpNames, TechnicalLookups, OfferedTools
<1> QED BY <1>5, <1>6, <1>7, <1>8

----------------------------------------------------------------------------
(* The invariant.                                                          *)

\* A transaction that may take effect: it inserts a row for an account the model gave,
\* or changes a row that is there.
Lawful(tx) ==
  /\ tx \in Transaction
  /\ IsInsert(tx) => tx.args.account \in Accounts
  /\ ~IsInsert(tx) => tickets[tx.id] # NoRow

\* What the handler of s works on: only the first attempt is followed by a sleep, the
\* ticket it was given exists, a tool that was offered passes the guard of the phase that
\* offered it, and nothing has been answered yet.
JobSound(s) ==
  /\ job[s].pc = "backoff" => job[s].tries = 1
  /\ job[s].tool = "create_ticket" => job[s].args.account \in Accounts
  /\ (job[s].tool = "update_ticket" /\ job[s].args.id # NoTicket)
       => tickets[job[s].args.id] # NoRow
  /\ job[s].pc = "commit" => Lawful(job[s].tx)
  /\ job[s].from \in Phases => job[s].tool \in AllowedTools(job[s].from)
  /\ job[s].pc # "idle" => answer[s] = NoAnswer

AbandonedSound == \A entry \in abandoned : Lawful(entry[1])

Inv == TypeOK /\ (\A s \in Sessions : JobSound(s)) /\ AbandonedSound

\* The four groups of variables, and their types.
TalkTyped == /\ phase \in [Sessions -> Phases]
             /\ category \in [Sessions -> Categories \cup {NoCategory}]
             /\ over \in [Sessions -> BOOLEAN]

DeskTyped == /\ job \in [Sessions -> Job \cup {Idle}]
             /\ answer \in [Sessions -> Answer]
             /\ failures \in [Sessions -> 0..FailureLimit]
             /\ handoff \in [Sessions -> {"none", "due", "saved", "failed"}]

TableTyped == /\ tickets \in [TicketIds -> Row \cup {NoRow}]
              /\ abandoned \subseteq Transaction \X Sessions

GhostTyped == /\ made \in [Sessions -> Nat]
              /\ ackLost \in [Sessions -> BOOLEAN]
              /\ overtaken \in [Sessions -> BOOLEAN]

LEMMA Typed == TypeOK <=> TalkTyped /\ DeskTyped /\ TableTyped /\ GhostTyped
BY DEF TypeOK, TalkTyped, DeskTyped, TableTyped, GhostTyped

----------------------------------------------------------------------------
(* The building blocks of the actions.                                     *)

LEMMA JobFacts ==
  /\ Idle.pc = "idle" /\ Idle.tx = NoTransaction /\ Idle.tool = "none" /\ Idle.args = NoArgs
  /\ \A j \in Job : j.pc # "idle"
  /\ NoTransaction.id = NoTicket /\ NoTransaction \notin Transaction
  /\ NoArgs \in Args
BY DeskAssumption DEF Idle, Job, NoTransaction, Transaction, NoArgs, Args

LEMMA AtWork ==
  ASSUME DeskTyped, NEW s \in Sessions, job[s].pc # "idle"
  PROVE  job[s] \in Job
BY JobFacts DEF DeskTyped

LEMMA AnswerType ==
  /\ NoAnswer \in Answer /\ NoAnswer.kind = "none" /\ NoAnswer.id = NoTicket
  /\ \A kind \in {"none", "early", "found", "stranger"} :
       Says(kind) \in Answer /\ Says(kind).kind = kind /\ Says(kind).id = NoTicket
BY DEF NoAnswer, Answer, Says

LEMMA ReplyType ==
  ASSUME DeskTyped, NEW s \in Sessions, NEW reply \in Answer, Reply(s, reply)
  PROVE  job' \in [Sessions -> Job \cup {Idle}] /\ answer' \in [Sessions -> Answer]
BY DEF DeskTyped, Reply

LEMMA FailType ==
  ASSUME TalkTyped, DeskTyped, NEW s \in Sessions, Fail(s)
  PROVE  TalkTyped' /\ DeskTyped'
<1>1. job' \in [Sessions -> Job \cup {Idle}] /\ answer' \in [Sessions -> Answer]
  BY ReplyType, AnswerType DEF Fail
<1>2. failures' \in [Sessions -> 0..FailureLimit]
  BY DeskAssumption DEF DeskTyped, Fail
<1>3. over' \in [Sessions -> BOOLEAN]
  BY DEF TalkTyped, Fail
<1> QED BY <1>1, <1>2, <1>3 DEF Fail, TalkTyped, DeskTyped

LEMMA TransientErrorType ==
  ASSUME TalkTyped, DeskTyped, NEW s \in Sessions, job[s] \in Job, TransientError(s)
  PROVE  TalkTyped' /\ DeskTyped'
<1>1. CASE RetryLeft(s)
  <2>1. [job[s] EXCEPT !.pc = "backoff", !.tx = NoTransaction] \in Job
    BY DEF Job
  <2>2. job' = [job EXCEPT ![s] = [job[s] EXCEPT !.pc = "backoff", !.tx = NoTransaction]]
    BY <1>1 DEF TransientError, DeskTyped
  <2>3. job' \in [Sessions -> Job \cup {Idle}]
    BY <2>1, <2>2 DEF DeskTyped
  <2> QED BY <1>1, <2>3 DEF TransientError, TalkTyped, DeskTyped, talkVars
<1>2. CASE ~RetryLeft(s)
  BY <1>2, FailType DEF TransientError
<1> QED BY <1>1, <1>2

LEMMA AdvanceType ==
  ASSUME TalkTyped, NEW s \in Sessions, Advance(s)
  PROVE  phase' \in [Sessions -> Phases] /\ over' \in [Sessions -> BOOLEAN]
<1>1. Successor(s) \in Phases
  BY DEF Successor, Phases
<1> QED BY <1>1 DEF TalkTyped, Advance

LEMMA CommitType ==
  ASSUME TableTyped, GhostTyped, NEW tx, Lawful(tx), NEW owner \in Sessions, NEW s,
         Commit(tx, owner, s)
  PROVE  /\ tickets' \in [TicketIds -> Row \cup {NoRow}]
         /\ overtaken' \in [Sessions -> BOOLEAN]
         /\ \A id \in TicketIds : tickets[id] # NoRow => tickets'[id] # NoRow
<1>1. overtaken' \in [Sessions -> BOOLEAN]
  BY DEF Commit, GhostTyped
<1>2. tx.id \in TicketIds /\ tx.args.status \in Statuses \cup {NoStatus}
  BY DEF Lawful, Transaction, Args
<1>3. NoRow \notin Row
  BY DeskAssumption DEF NoRow, Row
<1>4. CASE IsInsert(tx)
  <2> DEFINE row == [account |-> tx.args.account, status |-> "open", resolvedAt |-> FALSE,
                     by |-> owner]
  <2>1. row \in Row
    BY <1>4, DeskAssumption DEF Lawful, Row
  <2>2. tickets' = [tickets EXCEPT ![tx.id] = row]
    BY <1>4 DEF Commit
  <2> HIDE DEF row
  <2> QED BY <1>1, <1>2, <1>3, <2>1, <2>2 DEF TableTyped
<1>5. CASE ~IsInsert(tx)
  <2>1. tickets[tx.id] \in Row
    BY <1>2, <1>5 DEF Lawful, TableTyped
  <2>2. Updated(tickets[tx.id], tx) \in Row
    BY <1>2, <2>1 DEF Updated, Row
  <2>3. tickets' = [tickets EXCEPT ![tx.id] = Updated(tickets[tx.id], tx)]
    BY <1>2, <1>5 DEF Commit, TableTyped
  <2> QED BY <1>1, <1>2, <1>3, <2>2, <2>3 DEF TableTyped
<1> QED BY <1>4, <1>5

----------------------------------------------------------------------------
(* The types, action by action.                                            *)

LEMMA ConversationTypes ==
  ASSUME TypeOK, NEW s \in Sessions, Conversation(s)
  PROVE  TypeOK'
<1>1. TalkTyped
  BY Typed
<1>2. CASE PhaseComplete(s)
  <2>1. phase' \in [Sessions -> Phases] /\ over' \in [Sessions -> BOOLEAN]
    BY <1>1, <1>2, AdvanceType DEF PhaseComplete
  <2>2. category' \in [Sessions -> Categories \cup {NoCategory}]
    BY <1>1, <1>2 DEF PhaseComplete, TalkTyped
  <2>3. UNCHANGED <<deskVars, tableVars, ghostVars>>
    BY <1>2 DEF PhaseComplete
  <2> QED BY <2>1, <2>2, <2>3 DEF TypeOK, deskVars, tableVars, ghostVars
<1>3. CASE TurnLimit(s)
  <2>1. phase' \in [Sessions -> Phases] /\ over' \in [Sessions -> BOOLEAN]
    BY <1>1, <1>3, AdvanceType DEF TurnLimit
  <2>2. UNCHANGED <<category, deskVars, tableVars, ghostVars>>
    BY <1>3 DEF TurnLimit
  <2> QED BY <2>1, <2>2 DEF TypeOK, deskVars, tableVars, ghostVars
<1>4. CASE ReportNewIssue(s)
  <2>1. phase' \in [Sessions -> Phases]
    BY <1>1, <1>4 DEF ReportNewIssue, TalkTyped, Phases
  <2>2. UNCHANGED <<category, over, deskVars, tableVars, ghostVars>>
    BY <1>4 DEF ReportNewIssue
  <2> QED BY <2>1, <2>2 DEF TypeOK, deskVars, tableVars, ghostVars
<1> QED BY <1>2, <1>3, <1>4 DEF Conversation

\* What the model may give a tool.
LEMMA ArgsType ==
  ASSUME TypeOK, NEW s \in Sessions, NEW tool, NEW args \in ArgsOf(s, tool)
  PROVE  /\ args \in Args
         /\ tool = "create_ticket" => args.account \in Accounts
         /\ tool = "update_ticket" /\ args.id # NoTicket => tickets[args.id] # NoRow
BY DeskAssumption DEF ArgsOf

\* The call that a new handler gets.
LEMMA CallMade ==
  ASSUME TypeOK, NEW s \in Sessions, ToolCall(s)
  PROVE  \E name \in ToolNames \cup DOMAIN Synonyms, args \in Args :
           /\ args \in ArgsOf(s, Resolved(name))
           /\ job'[s] \in Job
           /\ job' = [job EXCEPT ![s] = job'[s]]
           /\ job'[s].pc = "queued" /\ job'[s].tries = 1
           /\ job'[s].tool = Resolved(name) /\ job'[s].args = args
           /\ job'[s].from = IF name \in Offered(s) THEN phase[s] ELSE "none"
           /\ job'[s].tx = NoTransaction
<1>1. PICK name \in Repertoire[s] \cap (Offered(s) \cup DOMAIN Synonyms) :
        \E args \in ArgsOf(s, Resolved(name)) :
          job' = [job EXCEPT ![s] = [pc |-> "queued", tool |-> Resolved(name), args |-> args,
                                     from |-> IF name \in Offered(s) THEN phase[s] ELSE "none",
                                     tries |-> 1, tx |-> NoTransaction]]
  BY DEF ToolCall
<1>2. PICK args \in ArgsOf(s, Resolved(name)) :
          job' = [job EXCEPT ![s] = [pc |-> "queued", tool |-> Resolved(name), args |-> args,
                                     from |-> IF name \in Offered(s) THEN phase[s] ELSE "none",
                                     tries |-> 1, tx |-> NoTransaction]]
  BY <1>1
<1>3. name \in ToolNames \cup DOMAIN Synonyms
  BY DeskAssumption
<1>4. args \in Args /\ Resolved(name) \in ToolNames /\ phase[s] \in Phases
  BY <1>3, ArgsType, ResolvedType DEF TypeOK
<1> DEFINE new == [pc |-> "queued", tool |-> Resolved(name), args |-> args,
                   from |-> IF name \in Offered(s) THEN phase[s] ELSE "none",
                   tries |-> 1, tx |-> NoTransaction]
<1>5. job'[s] = new /\ job' = [job EXCEPT ![s] = job'[s]]
  BY <1>2 DEF TypeOK
<1>6. new \in Job
  BY <1>4 DEF Job
<1> QED BY <1>2, <1>3, <1>4, <1>5, <1>6

LEMMA ToolCallTypes ==
  ASSUME TypeOK, NEW s \in Sessions, ToolCall(s)
  PROVE  TypeOK'
<1>1. job' \in [Sessions -> Job \cup {Idle}]
  BY CallMade DEF TypeOK
<1>2. answer' \in [Sessions -> Answer]
  BY AnswerType DEF ToolCall, TypeOK
<1>3. GhostTyped'
  BY DEF ToolCall, TypeOK, GhostTyped
<1>4. UNCHANGED <<talkVars, failures, handoff, tableVars>>
  BY DEF ToolCall
<1> QED BY <1>1, <1>2, <1>3, <1>4 DEF TypeOK, GhostTyped, talkVars, tableVars

LEMMA HandlerTypes ==
  ASSUME TypeOK, NEW s \in Sessions, JobSound(s),
         Start(s) \/ Retry(s) \/ ToolTimesOut(s) \/ ReferAccepted(s) \/ ReferFails(s)
           \/ HandoffSettles(s)
  PROVE  TypeOK'
<1> USE DEF talkVars, tableVars, ghostVars
<1>1. TalkTyped /\ DeskTyped /\ TableTyped /\ GhostTyped
  BY Typed
<1>2. CASE Start(s)
  <2>1. job[s] \in Job
    BY <1>1, <1>2, AtWork DEF Start
  <2>2. job' \in [Sessions -> Job \cup {Idle}]
    BY <1>2, <2>1 DEF Start, TypeOK, Job
  <2> QED BY <1>2, <2>2 DEF Start, TypeOK
<1>3. CASE Retry(s)
  <2>1. job[s] \in Job /\ job[s].tries = 1
    BY <1>1, <1>3, AtWork DEF Retry, JobSound
  <2>2. [job[s] EXCEPT !.pc = "dispatch", !.tries = @ + 1] \in Job
    <3>1. job[s].tries + 1 \in 1..2
      BY <2>1
    <3> QED BY <2>1, <3>1 DEF Job
  <2>3. job' = [job EXCEPT ![s] = [job[s] EXCEPT !.pc = "dispatch", !.tries = @ + 1]]
    BY <1>3 DEF Retry, TypeOK
  <2>4. job' \in [Sessions -> Job \cup {Idle}]
    BY <2>2, <2>3 DEF TypeOK
  <2> QED BY <1>3, <2>4 DEF Retry, TypeOK
<1>4. CASE ToolTimesOut(s)
  <2>1. TalkTyped' /\ DeskTyped'
    BY <1>1, <1>4, FailType DEF ToolTimesOut
  <2>2. abandoned' \subseteq Transaction \X Sessions
    BY <1>4 DEF ToolTimesOut, TypeOK, JobSound, Lawful
  <2> QED BY <1>4, <2>1, <2>2 DEF ToolTimesOut, TypeOK, TalkTyped, DeskTyped
<1>5. CASE ReferAccepted(s)
  <2>1. job' \in [Sessions -> Job \cup {Idle}] /\ answer' \in [Sessions -> Answer]
    BY <1>1, <1>5, ReplyType, AnswerType DEF ReferAccepted
  <2> QED BY <1>5, <2>1 DEF ReferAccepted, TypeOK
<1>6. CASE ReferFails(s)
  <2>1. job[s] \in Job
    BY <1>1, <1>6, AtWork DEF ReferFails
  <2>2. TalkTyped' /\ DeskTyped'
    BY <1>1, <1>6, <2>1, FailType, TransientErrorType DEF ReferFails
  <2> QED BY <1>6, <2>2 DEF ReferFails, TypeOK, TalkTyped, DeskTyped
<1>7. CASE HandoffSettles(s)
  BY <1>7 DEF HandoffSettles, TypeOK
<1> QED BY <1>2, <1>3, <1>4, <1>5, <1>6, <1>7


\* What a lookup by phone may answer.
LEMMA LookedUp ==
  ASSUME TypeOK, NEW s \in Sessions, LookUpByPhone(s)
  PROVE  \E reply \in Answer :
           /\ Reply(s, reply) /\ reply.id = NoTicket
           /\ reply.kind \in {"none", "found", "stranger"}
           /\ reply.kind # "none" =>
                /\ CallerNumber[s] \in Numbers
                /\ \E number \in Candidates(CallerNumber[s]) :
                     IF reply.kind = "found" THEN reply.account \in CustomersAt(number)
                                             ELSE CustomersAt(number) = {}
<1>1. PICK number \in Numbers :
        Reply(s, IF CallerNumber[s] = NoNumber \/ number \notin Candidates(CallerNumber[s])
                 THEN NoAnswer
                 ELSE IF CustomersAt(number) = {} THEN Says("stranger")
                 ELSE [Says("found") EXCEPT !.account = CHOOSE a \in CustomersAt(number) : TRUE])
  BY DEF LookUpByPhone
<1> DEFINE found == CHOOSE a \in CustomersAt(number) : TRUE
<1>2. CASE CallerNumber[s] = NoNumber \/ number \notin Candidates(CallerNumber[s])
  BY <1>1, <1>2, AnswerType
<1>3. CASE /\ ~(CallerNumber[s] = NoNumber \/ number \notin Candidates(CallerNumber[s]))
           /\ CustomersAt(number) = {}
  <2>1. Reply(s, Says("stranger"))
    BY <1>1, <1>3
  <2>2. CallerNumber[s] \in Numbers
    BY <1>3, DeskAssumption
  <2> QED BY <1>3, <2>1, <2>2, AnswerType
<1>4. CASE /\ ~(CallerNumber[s] = NoNumber \/ number \notin Candidates(CallerNumber[s]))
           /\ CustomersAt(number) # {}
  <2>1. found \in CustomersAt(number)
    BY <1>4
  <2>2. found \in Accounts
    BY <2>1, DeskAssumption DEF CustomersAt
  <2> HIDE DEF found
  <2> DEFINE reply == [Says("found") EXCEPT !.account = found]
  <2>3. reply \in Answer /\ reply.id = NoTicket /\ reply.kind = "found" /\ reply.account = found
    BY <2>2 DEF Says, NoAnswer, Answer
  <2>4. Reply(s, reply)
    BY <1>1, <1>4 DEF found
  <2>5. CallerNumber[s] \in Numbers
    BY <1>4, DeskAssumption
  <2> QED BY <1>4, <2>1, <2>3, <2>4, <2>5
<1> QED BY <1>2, <1>3, <1>4

\* The transaction that a dispatch begins.
LEMMA Begun ==
  ASSUME TypeOK, NEW s \in Sessions, JobSound(s), BeginCreate(s) \/ BeginUpdate(s)
  PROVE  /\ job[s] \in Job /\ job[s].pc = "dispatch" /\ job'[s] \in Job
         /\ job' = [job EXCEPT ![s] = job'[s]]
         /\ job'[s].pc = "commit" /\ job'[s].tool = job[s].tool /\ job'[s].args = job[s].args
         /\ job'[s].from = job[s].from /\ job'[s].tries = job[s].tries
         /\ Lawful(job'[s].tx)
         /\ ~IsInsert(job'[s].tx) =>
              BeginUpdate(s) /\ job'[s].tx.loaded = tickets[job'[s].tx.id].status
<1> USE DEF IsInsert
<1>1. job[s] \in Job /\ job[s].pc = "dispatch" /\ job[s].args \in Args
  BY AtWork, Typed DEF BeginCreate, BeginUpdate, Runs, Job
<1>2. CASE BeginCreate(s)
  <2>1. PICK id \in TicketIds :
          job' = [job EXCEPT ![s].pc = "commit",
                             ![s].tx = [args |-> job[s].args, id |-> id, loaded |-> NoStatus]]
    BY <1>2 DEF BeginCreate
  <2> DEFINE tx == [args |-> job[s].args, id |-> id, loaded |-> NoStatus]
  <2>2. tx \in Transaction /\ IsInsert(tx) /\ tx.args.account \in Accounts
    BY <1>1, <1>2 DEF Transaction, BeginCreate, Runs, JobSound
  <2>3. Lawful(tx)
    BY <2>2 DEF Lawful
  <2> HIDE DEF tx
  <2> DEFINE new == [job[s] EXCEPT !.pc = "commit", !.tx = tx]
  <2>4. new \in Job /\ new.pc = "commit" /\ new.tool = job[s].tool /\ new.args = job[s].args
        /\ new.from = job[s].from /\ new.tries = job[s].tries /\ new.tx = tx
    BY <1>1, <2>2 DEF Job
  <2>5. job' = [job EXCEPT ![s] = new] /\ job'[s] = new
    BY <2>1 DEF TypeOK, tx
  <2> HIDE DEF new
  <2> QED BY <1>1, <2>2, <2>3, <2>4, <2>5
<1>3. CASE BeginUpdate(s)
  <2> DEFINE tx == [args |-> job[s].args, id |-> job[s].args.id,
                    loaded |-> tickets[job[s].args.id].status]
  <2>1. job[s].args.id \in TicketIds /\ tickets[job[s].args.id] # NoRow
    BY <1>1, <1>3 DEF BeginUpdate, Runs, JobSound, Args
  <2>2. tickets[job[s].args.id] \in Row
    BY <2>1 DEF TypeOK
  <2>3. tx \in Transaction /\ ~IsInsert(tx) /\ tx.loaded = tickets[tx.id].status
    BY <1>1, <2>1, <2>2, DeskAssumption DEF Transaction, Row
  <2>4. Lawful(tx)
    BY <2>1, <2>3 DEF Lawful
  <2> HIDE DEF tx
  <2> DEFINE new == [job[s] EXCEPT !.pc = "commit", !.tx = tx]
  <2>5. new \in Job /\ new.pc = "commit" /\ new.tool = job[s].tool /\ new.args = job[s].args
        /\ new.from = job[s].from /\ new.tries = job[s].tries /\ new.tx = tx
    BY <1>1, <2>3 DEF Job
  <2>6. job' = [job EXCEPT ![s] = new] /\ job'[s] = new
    BY <1>3 DEF BeginUpdate, TypeOK, tx
  <2> HIDE DEF new
  <2> QED BY <1>1, <1>3, <2>3, <2>4, <2>5, <2>6
<1> QED BY <1>2, <1>3

LEMMA DispatchTypes ==
  ASSUME TypeOK, NEW s \in Sessions, JobSound(s), Dispatch(s)
  PROVE  TypeOK'
<1> USE DEF talkVars, tableVars, ghostVars
<1>1. TalkTyped /\ DeskTyped /\ TableTyped /\ GhostTyped
  BY Typed
<1>2. CASE Blocked(s)
  <2>1. Says(IF job[s].from = phase[s] THEN "early" ELSE "none") \in Answer
    BY AnswerType
  <2>2. job' \in [Sessions -> Job \cup {Idle}] /\ answer' \in [Sessions -> Answer]
    BY <1>1, <1>2, <2>1, ReplyType DEF Blocked
  <2> QED BY <1>2, <2>2 DEF Blocked, TypeOK
<1>3. CASE DispatchRaises(s)
  <2>1. job[s] \in Job
    BY <1>1, <1>3, AtWork DEF DispatchRaises
  <2>2. TalkTyped' /\ DeskTyped'
    BY <1>1, <1>3, <2>1, FailType, TransientErrorType DEF DispatchRaises
  <2> QED BY <1>3, <2>2 DEF DispatchRaises, TypeOK, TalkTyped, DeskTyped
<1>4. CASE LookUpByPhone(s)
  <2>1. job' \in [Sessions -> Job \cup {Idle}] /\ answer' \in [Sessions -> Answer]
    BY <1>1, <1>4, LookedUp, ReplyType
  <2> QED BY <1>4, <2>1 DEF LookUpByPhone, TypeOK
<1>5. CASE ReadRows(s) \/ AskStub(s) \/ UpdateMissing(s)
  <2>1. Reply(s, NoAnswer) /\ UNCHANGED <<talkVars, failures, handoff, tableVars, ghostVars>>
    BY <1>5, Zenon DEF ReadRows, AskStub, UpdateMissing
  <2>2. job' \in [Sessions -> Job \cup {Idle}] /\ answer' \in [Sessions -> Answer]
    BY <1>1, <2>1, ReplyType, AnswerType
  <2> QED BY <2>1, <2>2 DEF TypeOK
<1>6. CASE BeginCreate(s)
  <2>1. job' \in [Sessions -> Job \cup {Idle}]
    BY <1>6, Begun DEF TypeOK
  <2> QED BY <1>6, <2>1 DEF BeginCreate, TypeOK
<1>7. CASE BeginUpdate(s)
  <2>1. job' \in [Sessions -> Job \cup {Idle}]
    BY <1>7, Begun DEF TypeOK
  <2> QED BY <1>7, <2>1 DEF BeginUpdate, TypeOK
<1>8. CASE BeginTransfer(s)
  <2>1. job[s] \in Job
    BY <1>1, <1>8, AtWork DEF BeginTransfer, Runs
  <2>2. job' \in [Sessions -> Job \cup {Idle}]
    BY <1>8, <2>1 DEF BeginTransfer, TypeOK, Job
  <2> QED BY <1>8, <2>2 DEF BeginTransfer, TypeOK
<1> QED BY <1>2, <1>3, <1>4, <1>5, <1>6, <1>7, <1>8 DEF Dispatch


LEMMA ToldType ==
  ASSUME NEW tx \in Transaction
  PROVE  /\ Told(tx) \in Answer /\ Told(tx).id = tx.id
         /\ IsInsert(tx) => /\ Told(tx).kind = "created" /\ Told(tx).status = NoStatus
                            /\ Told(tx).account = tx.args.account
         /\ ~IsInsert(tx) =>
              /\ Told(tx).kind = "updated"
              /\ Told(tx).status = IF tx.args.status = NoStatus THEN tx.loaded
                                                                ELSE tx.args.status
<1>1. tx.id \in TicketIds /\ tx.args \in Args /\ tx.loaded \in Statuses \cup {NoStatus}
  BY DEF Transaction
<1>2. CASE IsInsert(tx)
  <2>1. Told(tx) = [Says("created") EXCEPT !.id = tx.id, !.account = tx.args.account]
    BY <1>2 DEF Told
  <2> QED BY <1>1, <1>2, <2>1 DEF Says, NoAnswer, Answer, Args
<1>3. CASE ~IsInsert(tx)
  <2> DEFINE status == IF tx.args.status = NoStatus THEN tx.loaded ELSE tx.args.status
  <2>1. Told(tx) = [Says("updated") EXCEPT !.id = tx.id, !.status = status]
    BY <1>3 DEF Told
  <2>2. status \in Statuses \cup {NoStatus}
    BY <1>1 DEF Args
  <2> HIDE DEF status
  <2>3. /\ [Says("updated") EXCEPT !.id = tx.id, !.status = status] \in Answer
        /\ [Says("updated") EXCEPT !.id = tx.id, !.status = status].id = tx.id
        /\ [Says("updated") EXCEPT !.id = tx.id, !.status = status].kind = "updated"
        /\ [Says("updated") EXCEPT !.id = tx.id, !.status = status].status = status
    BY <1>1, <2>2 DEF Says, NoAnswer, Answer
  <2> QED BY <1>3, <2>1, <2>3 DEF status
<1> QED BY <1>2, <1>3

LEMMA TransactTypes ==
  ASSUME TypeOK, NEW s \in Sessions, JobSound(s), Transact(s)
  PROVE  TypeOK'
<1> USE DEF talkVars, tableVars, ghostVars
<1>1. TalkTyped /\ DeskTyped /\ TableTyped /\ GhostTyped
  BY Typed
<1>2. job[s] \in Job
  BY <1>1, AtWork DEF Transact, Committed, AckLost, CommitFails, NumberTaken
<1>3. ASSUME Count(s)  PROVE made' \in [Sessions -> Nat]
  BY <1>1, <1>3 DEF Count, GhostTyped
<1>4. CASE Committed(s)
  <2>1. Lawful(job[s].tx)
    BY <1>4 DEF Committed, JobSound
  <2>2. /\ tickets' \in [TicketIds -> Row \cup {NoRow}]
        /\ overtaken' \in [Sessions -> BOOLEAN]
    BY <1>1, <1>4, <2>1, CommitType DEF Committed
  <2>3. job' \in [Sessions -> Job \cup {Idle}] /\ answer' \in [Sessions -> Answer]
    BY <1>1, <1>4, <2>1, ReplyType, ToldType DEF Committed, Lawful
  <2> QED BY <1>3, <1>4, <2>2, <2>3 DEF Committed, TypeOK
<1>5. CASE AckLost(s)
  <2>1. Lawful(job[s].tx)
    BY <1>5 DEF AckLost, JobSound
  <2>2. /\ tickets' \in [TicketIds -> Row \cup {NoRow}]
        /\ overtaken' \in [Sessions -> BOOLEAN]
    BY <1>1, <1>5, <2>1, CommitType DEF AckLost
  <2>3. TalkTyped' /\ DeskTyped'
    BY <1>1, <1>2, <1>5, TransientErrorType DEF AckLost
  <2>4. ackLost' \in [Sessions -> BOOLEAN]
    BY <1>1, <1>5 DEF AckLost, GhostTyped
  <2> QED BY <1>3, <1>5, <2>2, <2>3, <2>4 DEF AckLost, TypeOK, TalkTyped, DeskTyped
<1>6. CASE CommitFails(s) \/ NumberTaken(s)
  <2>1. (TransientError(s) \/ Fail(s)) /\ UNCHANGED <<tableVars, ghostVars>>
    BY <1>6, Zenon DEF CommitFails, NumberTaken
  <2>2. TalkTyped' /\ DeskTyped'
    BY <1>1, <1>2, <2>1, FailType, TransientErrorType
  <2> QED BY <2>1, <2>2 DEF TypeOK, TalkTyped, DeskTyped
<1> QED BY <1>4, <1>5, <1>6 DEF Transact

LEMMA AbandonedTypes ==
  ASSUME TypeOK, AbandonedSound, AbandonedSettles
  PROVE  TypeOK'
<1> USE DEF talkVars, deskVars
<1>1. TableTyped /\ GhostTyped
  BY Typed
<1>2. PICK entry \in abandoned :
        /\ abandoned' = abandoned \ {entry}
        /\ \/ CanCommit(entry[1]) /\ Commit(entry[1], entry[2], NoSession)
           \/ UNCHANGED <<tickets, overtaken>>
        /\ UNCHANGED <<talkVars, deskVars, made, ackLost>>
  BY Zenon DEF AbandonedSettles
<1>3. Lawful(entry[1]) /\ entry[2] \in Sessions
  BY DEF AbandonedSound, TypeOK
<1>4. tickets' \in [TicketIds -> Row \cup {NoRow}] /\ overtaken' \in [Sessions -> BOOLEAN]
  BY <1>1, <1>2, <1>3, CommitType DEF TypeOK
<1> QED BY <1>2, <1>4 DEF TypeOK

LEMMA InitTypes == Init => TypeOK
<1> SUFFICES ASSUME Init  PROVE TypeOK
  OBVIOUS
<1>1. phase \in [Sessions -> Phases] /\ category \in [Sessions -> Categories \cup {NoCategory}]
  BY DEF Init, Phases, Categories, NoCategory
<1>2. over \in [Sessions -> BOOLEAN]
  BY DEF Init
<1>3. job \in [Sessions -> Job \cup {Idle}] /\ answer \in [Sessions -> Answer]
  BY AnswerType DEF Init
<1>4. failures \in [Sessions -> 0..FailureLimit]
  BY DeskAssumption DEF Init
<1>5. handoff \in [Sessions -> {"none", "due", "saved", "failed"}]
  BY DEF Init
<1>6. tickets \in [TicketIds -> Row \cup {NoRow}]
  <2>1. PICK a \in Customers :
          tickets = [id \in TicketIds |->
                       IF id \in Seeded
                       THEN [account |-> a, status |-> SeededStatus[id], resolvedAt |-> FALSE,
                             by |-> NoSession]
                       ELSE NoRow]
    BY DEF Init
  <2>2. ASSUME NEW id \in Seeded
        PROVE  [account |-> a, status |-> SeededStatus[id], resolvedAt |-> FALSE,
                by |-> NoSession] \in Row
    BY DeskAssumption DEF Row
  <2> QED BY <2>1, <2>2
<1>7. abandoned \subseteq Transaction \X Sessions /\ made \in [Sessions -> Nat]
  BY DEF Init
<1>8. ackLost \in [Sessions -> BOOLEAN] /\ overtaken \in [Sessions -> BOOLEAN]
  BY DEF Init
<1> QED BY <1>1, <1>2, <1>3, <1>4, <1>5, <1>6, <1>7, <1>8 DEF TypeOK

LEMMA NextTypes ==
  ASSUME Inv, [Next]_vars
  PROVE  TypeOK'
<1>1. ASSUME UNCHANGED vars  PROVE TypeOK'
  BY <1>1 DEF Inv, TypeOK, vars, talkVars, deskVars, tableVars, ghostVars
<1>2. CASE CallsOver
  BY <1>1, <1>2 DEF CallsOver
<1>3. CASE AbandonedSettles
  BY <1>3, AbandonedTypes DEF Inv
<1>4. ASSUME NEW s \in Sessions,
             \/ Conversation(s) \/ ToolCall(s) \/ Start(s) \/ Dispatch(s) \/ Transact(s)
             \/ Retry(s) \/ ToolTimesOut(s) \/ ReferAccepted(s) \/ ReferFails(s)
             \/ HandoffSettles(s)
      PROVE  TypeOK'
  <2>1. TypeOK /\ JobSound(s)
    BY DEF Inv
  <2> QED BY <1>4, <2>1, ConversationTypes, ToolCallTypes, DispatchTypes, TransactTypes,
             HandlerTypes
<1> QED BY <1>1, <1>2, <1>3, <1>4 DEF Next


----------------------------------------------------------------------------
(* The kinds of steps: what a step of s does to its job and to the tables. *)

\* The handler of s goes on with its tool call.
Goes(s) ==
  /\ job[s] \in Job /\ job'[s] \in Job /\ job' = [job EXCEPT ![s] = job'[s]]
  /\ job'[s].tool = job[s].tool /\ job'[s].args = job[s].args /\ job'[s].from = job[s].from
  /\ job[s].pc = "backoff" \/ job[s].tries = 2 => job'[s].tries = 2
  /\ job'[s].pc = "backoff" => job'[s].tries = 1
  /\ UNCHANGED answer

\* It ends without having written to the table.
Stops(s, reply) == job[s] \in Job /\ reply \in Answer /\ Reply(s, reply)

\* Nothing the tables or the handlers hold is written; an abandoned transaction may go.
Rests == UNCHANGED <<job, answer, tickets, ghostVars>> /\ abandoned' \subseteq abandoned

\* Up to the commit: loads what it is to update.
Moves(s) ==
  /\ Goes(s)
  /\ job'[s].pc = "commit" =>
       /\ Lawful(job'[s].tx)
       /\ ~IsInsert(job'[s].tx) => tickets[job'[s].tx.id].status = job'[s].tx.loaded
  /\ UNCHANGED <<tickets, abandoned, made, ackLost>>
  /\ \A t \in Sessions \ {s} : overtaken'[t] = overtaken[t]

\* The reply is of the caller's own lookup, or nothing depends on it.
Ends(s) ==
  \E reply \in Answer :
    /\ Stops(s, reply)
    /\ reply.id = NoTicket /\ reply.kind \in {"none", "found", "stranger"}
    /\ reply.kind # "none" =>
         /\ CallerNumber[s] \in Numbers
         /\ \E number \in Candidates(CallerNumber[s]) :
              IF reply.kind = "found" THEN reply.account \in CustomersAt(number)
                                      ELSE CustomersAt(number) = {}
    /\ \A entry \in abandoned' : entry \in abandoned \/ (job[s].pc = "commit"
                                                         /\ entry[1] = job[s].tx)
    /\ UNCHANGED <<tickets, ghostVars>>

\* s commits, whether it learns of it or not.
Commits(s) ==
  /\ job[s] \in Job /\ job[s].pc = "commit" /\ CanCommit(job[s].tx) /\ Lawful(job[s].tx)
  /\ Commit(job[s].tx, s, s) /\ Count(s)
  /\ \/ Stops(s, Told(job[s].tx)) /\ UNCHANGED ackLost
     \/ /\ Stops(s, NoAnswer) \/ (Goes(s) /\ job'[s].pc = "backoff")
        /\ ackLost' = [ackLost EXCEPT ![s] = TRUE]
  /\ UNCHANGED abandoned

CommitsLate ==
  \E entry \in abandoned :
    /\ CanCommit(entry[1]) /\ Lawful(entry[1]) /\ entry[2] \in Sessions
    /\ Commit(entry[1], entry[2], NoSession)
    /\ abandoned' \subseteq abandoned
    /\ UNCHANGED <<job, answer, made, ackLost>>

LEMMA ErrorStep ==
  ASSUME TypeOK, NEW s \in Sessions, job[s] \in Job, job[s].pc # "backoff", TransientError(s)
  PROVE  Stops(s, NoAnswer) \/ (Goes(s) /\ job'[s].pc = "backoff")
<1>1. CASE RetryLeft(s)
  <2> DEFINE new == [job[s] EXCEPT !.pc = "backoff", !.tx = NoTransaction]
  <2>1. /\ new \in Job /\ new.pc = "backoff" /\ new.tool = job[s].tool
        /\ new.args = job[s].args /\ new.from = job[s].from /\ new.tries = job[s].tries
    BY DEF Job
  <2>2. job' = [job EXCEPT ![s] = new] /\ job'[s] = new /\ UNCHANGED answer
    BY <1>1 DEF TransientError, TypeOK
  <2> HIDE DEF new
  <2> QED BY <1>1, <2>1, <2>2 DEF Goes, RetryLeft
<1>2. CASE ~RetryLeft(s)
  BY <1>2, AnswerType DEF TransientError, Fail, Stops
<1> QED BY <1>1, <1>2


LEMMA DispatchKinds ==
  ASSUME TypeOK, NEW s \in Sessions, JobSound(s), Dispatch(s)
  PROVE  Moves(s) \/ Ends(s)
<1> USE DEF tableVars, ghostVars
<1>1. job[s] \in Job /\ job[s].pc = "dispatch"
  BY AtWork, Typed DEF Dispatch, Blocked, DispatchRaises, LookUpByPhone, ReadRows, AskStub,
     BeginCreate, BeginUpdate, UpdateMissing, BeginTransfer, Runs
<1>2. ASSUME NEW reply \in Answer, reply.kind = "none", reply.id = NoTicket, Stops(s, reply),
             UNCHANGED <<tableVars, ghostVars>>
      PROVE  Ends(s)
  BY <1>2 DEF Ends
<1>3. CASE Blocked(s)
  <2>1. job[s].from # phase[s]
    BY <1>3 DEF Blocked, JobSound, TypeOK
  <2>2. Reply(s, Says("none")) /\ UNCHANGED <<tableVars, ghostVars>>
    BY <1>3, <2>1 DEF Blocked
  <2> QED BY <1>1, <1>2, <2>2, AnswerType DEF Stops
<1>4. CASE DispatchRaises(s)
  <2>1. CASE TransientError(s) /\ UNCHANGED <<tableVars, ghostVars>>
    <3>1. Stops(s, NoAnswer) \/ (Goes(s) /\ job'[s].pc = "backoff")
      BY <1>1, <2>1, ErrorStep
    <3> QED BY <1>2, <2>1, <3>1, AnswerType DEF Moves
  <2>2. CASE Fail(s) /\ UNCHANGED <<tableVars, ghostVars>>
    BY <1>1, <1>2, <2>2, AnswerType DEF Fail, Stops
  <2> QED BY <1>4, <2>1, <2>2 DEF DispatchRaises
<1>5. CASE LookUpByPhone(s)
  <2>1. UNCHANGED <<tableVars, ghostVars>>
    BY <1>5 DEF LookUpByPhone
  <2> QED BY <1>1, <1>5, <2>1, LookedUp DEF Ends, Stops
<1>6. CASE ReadRows(s) \/ AskStub(s) \/ UpdateMissing(s)
  <2>1. Reply(s, NoAnswer) /\ UNCHANGED <<tableVars, ghostVars>>
    BY <1>6, Zenon DEF ReadRows, AskStub, UpdateMissing
  <2> QED BY <1>1, <1>2, <2>1, AnswerType DEF Stops
<1>7. CASE BeginCreate(s) \/ BeginUpdate(s)
  <2>1. Goes(s)
    BY <1>7, Begun DEF Goes, BeginCreate, BeginUpdate
  <2>2. UNCHANGED <<tickets, abandoned, made, ackLost>>
    BY <1>7 DEF BeginCreate, BeginUpdate
  <2>3. \A t \in Sessions \ {s} : overtaken'[t] = overtaken[t]
    BY <1>7 DEF BeginCreate, BeginUpdate, TypeOK
  <2>4. /\ Lawful(job'[s].tx)
        /\ ~IsInsert(job'[s].tx) => tickets[job'[s].tx.id].status = job'[s].tx.loaded
    BY <1>7, Begun
  <2> QED BY <2>1, <2>2, <2>3, <2>4 DEF Moves
<1>8. CASE BeginTransfer(s)
  <2> DEFINE new == [job[s] EXCEPT !.pc = "refer"]
  <2>1. /\ new \in Job /\ new.pc = "refer" /\ new.tool = job[s].tool
        /\ new.args = job[s].args /\ new.from = job[s].from /\ new.tries = job[s].tries
    BY <1>1 DEF Job
  <2>2. job' = [job EXCEPT ![s] = new] /\ job'[s] = new /\ UNCHANGED answer
    BY <1>8 DEF BeginTransfer, TypeOK
  <2>3. UNCHANGED <<tableVars, ghostVars>>
    BY <1>8 DEF BeginTransfer
  <2> HIDE DEF new
  <2>4. Goes(s) /\ job'[s].pc = "refer"
    BY <1>1, <2>1, <2>2 DEF Goes
  <2> QED BY <2>3, <2>4 DEF Moves
<1> QED BY <1>3, <1>4, <1>5, <1>6, <1>7, <1>8 DEF Dispatch

LEMMA TransactKinds ==
  ASSUME TypeOK, NEW s \in Sessions, JobSound(s), Transact(s)
  PROVE  Moves(s) \/ Ends(s) \/ Commits(s)
<1> USE DEF tableVars, ghostVars
<1>1. job[s] \in Job /\ job[s].pc = "commit" /\ Lawful(job[s].tx)
  BY AtWork, Typed
     DEF Transact, Committed, AckLost, CommitFails, NumberTaken, JobSound
<1>2. ASSUME Stops(s, NoAnswer), UNCHANGED <<tableVars, ghostVars>>
      PROVE  Ends(s)
  BY <1>2, AnswerType DEF Ends
<1>3. CASE Committed(s)
  <2>1. Stops(s, Told(job[s].tx))
    BY <1>1, <1>3, ToldType DEF Committed, Stops, Lawful
  <2> QED BY <1>1, <1>3, <2>1 DEF Committed, Commits
<1>4. CASE AckLost(s)
  <2>1. Stops(s, NoAnswer) \/ (Goes(s) /\ job'[s].pc = "backoff")
    BY <1>1, <1>4, ErrorStep DEF AckLost
  <2> QED BY <1>1, <1>4, <2>1 DEF AckLost, Commits
<1>5. CASE CommitFails(s)
  <2>1. Stops(s, NoAnswer) \/ (Goes(s) /\ job'[s].pc = "backoff")
    BY <1>1, <1>5, ErrorStep DEF CommitFails
  <2>2. UNCHANGED <<tableVars, ghostVars>>
    BY <1>5 DEF CommitFails
  <2> QED BY <1>2, <2>1, <2>2 DEF Moves
<1>6. CASE NumberTaken(s)
  BY <1>1, <1>2, <1>6, AnswerType DEF NumberTaken, Fail, Stops
<1> QED BY <1>3, <1>4, <1>5, <1>6 DEF Transact

LEMMA HandlerKinds ==
  ASSUME TypeOK, NEW s \in Sessions, JobSound(s),
         Start(s) \/ Retry(s) \/ ToolTimesOut(s) \/ ReferAccepted(s) \/ ReferFails(s)
           \/ HandoffSettles(s)
  PROVE  Moves(s) \/ Ends(s) \/ Rests
<1> USE DEF tableVars, ghostVars
<1>1. ASSUME job[s] \in Job, Stops(s, NoAnswer), UNCHANGED <<tableVars, ghostVars>>
      PROVE  Ends(s)
  BY <1>1, AnswerType DEF Ends
<1>2. CASE Start(s)
  <2> DEFINE new == [job[s] EXCEPT !.pc = "dispatch"]
  <2>1. job[s] \in Job /\ job[s].pc = "queued"
    BY <1>2, AtWork, Typed DEF Start
  <2>2. /\ new \in Job /\ new.pc = "dispatch" /\ new.tool = job[s].tool
        /\ new.args = job[s].args /\ new.from = job[s].from /\ new.tries = job[s].tries
    BY <2>1 DEF Job
  <2>3. job' = [job EXCEPT ![s] = new] /\ job'[s] = new /\ UNCHANGED answer
    BY <1>2 DEF Start, TypeOK
  <2> HIDE DEF new
  <2>4. Goes(s) /\ job'[s].pc = "dispatch"
    BY <2>1, <2>2, <2>3 DEF Goes
  <2> QED BY <1>2, <2>4 DEF Start, Moves
<1>3. CASE Retry(s)
  <2> DEFINE new == [job[s] EXCEPT !.pc = "dispatch", !.tries = 2]
  <2>1. job[s] \in Job /\ job[s].pc = "backoff" /\ job[s].tries = 1
    BY <1>3, AtWork, Typed DEF Retry, JobSound
  <2>2. /\ new \in Job /\ new.pc = "dispatch" /\ new.tool = job[s].tool
        /\ new.args = job[s].args /\ new.from = job[s].from /\ new.tries = 2
    <3>1. 2 \in 1..2
      OBVIOUS
    <3>2. new \in Job
      BY <2>1, <3>1 DEF Job
    <3>3. /\ new.pc = "dispatch" /\ new.tool = job[s].tool /\ new.args = job[s].args
          /\ new.from = job[s].from /\ new.tries = 2
      BY <2>1 DEF Job
    <3> QED BY <3>2, <3>3
  <2>3. job' = [job EXCEPT ![s] = new] /\ job'[s] = new /\ UNCHANGED answer
    <3>1. job' = [job EXCEPT ![s] = [job[s] EXCEPT !.pc = "dispatch", !.tries = job[s].tries + 1]]
      BY <1>3 DEF Retry, TypeOK
    <3>2. job[s].tries + 1 = 2
      BY <2>1
    <3> QED BY <1>3, <3>1, <3>2 DEF Retry, TypeOK
  <2> HIDE DEF new
  <2>4. Goes(s) /\ job'[s].pc = "dispatch"
    BY <2>1, <2>2, <2>3 DEF Goes
  <2> QED BY <1>3, <2>4 DEF Retry, Moves
<1>4. CASE ToolTimesOut(s)
  <2>1. job[s] \in Job
    BY <1>4, AtWork, Typed DEF ToolTimesOut, TimerRuns
  <2>2. Stops(s, NoAnswer) /\ UNCHANGED <<tickets, ghostVars>>
    BY <1>4, <2>1, AnswerType DEF ToolTimesOut, Fail, Stops
  <2>3. \A entry \in abandoned' : entry \in abandoned \/ (job[s].pc = "commit"
                                                         /\ entry[1] = job[s].tx)
    BY <1>4 DEF ToolTimesOut
  <2> QED BY <2>2, <2>3, AnswerType DEF Ends
<1>5. CASE ReferAccepted(s)
  <2>1. job[s] \in Job
    BY <1>5, AtWork, Typed DEF ReferAccepted
  <2> QED BY <1>1, <1>5, <2>1, AnswerType DEF ReferAccepted, Stops
<1>6. CASE ReferFails(s)
  <2>1. job[s] \in Job /\ job[s].pc = "refer"
    BY <1>6, AtWork, Typed DEF ReferFails
  <2>2. UNCHANGED <<tableVars, ghostVars>>
    BY <1>6 DEF ReferFails
  <2>3. Stops(s, NoAnswer) \/ (Goes(s) /\ job'[s].pc = "backoff")
    BY <1>6, <2>1, ErrorStep, AnswerType DEF ReferFails, Fail, Stops
  <2> QED BY <1>1, <2>1, <2>2, <2>3 DEF Moves
<1>7. CASE HandoffSettles(s)
  BY <1>7 DEF HandoffSettles, Rests
<1> QED BY <1>2, <1>3, <1>4, <1>5, <1>6, <1>7

\* Every step is of one of these kinds.
LEMMA StepKinds ==
  ASSUME Inv, [Next]_vars
  PROVE  \/ Rests
         \/ CommitsLate
         \/ \E s \in Sessions : ToolCall(s) \/ Moves(s) \/ Ends(s) \/ Commits(s)
<1> USE DEF talkVars, deskVars, tableVars, ghostVars
<1>1. ASSUME UNCHANGED vars  PROVE Rests
  BY <1>1 DEF vars, Rests
<1>2. CASE CallsOver
  BY <1>1, <1>2 DEF CallsOver
<1>3. CASE AbandonedSettles
  <2>1. PICK entry \in abandoned :
          /\ abandoned' = abandoned \ {entry}
          /\ \/ CanCommit(entry[1]) /\ Commit(entry[1], entry[2], NoSession)
             \/ UNCHANGED <<tickets, overtaken>>
          /\ UNCHANGED <<talkVars, deskVars, made, ackLost>>
    BY <1>3, Zenon DEF AbandonedSettles
  <2>2. Lawful(entry[1]) /\ entry[2] \in Sessions
    BY DEF Inv, AbandonedSound, TypeOK
  <2>3. CASE UNCHANGED <<tickets, overtaken>>
    BY <2>1, <2>3 DEF Rests
  <2>4. CASE CanCommit(entry[1]) /\ Commit(entry[1], entry[2], NoSession)
    BY <2>1, <2>2, <2>4 DEF CommitsLate
  <2> QED BY <2>1, <2>3, <2>4
<1>4. ASSUME NEW s \in Sessions, Conversation(s)  PROVE Rests
  BY <1>4 DEF Conversation, PhaseComplete, TurnLimit, ReportNewIssue, Rests
<1>5. ASSUME NEW s \in Sessions,
             \/ Conversation(s) \/ ToolCall(s) \/ Start(s) \/ Dispatch(s) \/ Transact(s)
             \/ Retry(s) \/ ToolTimesOut(s) \/ ReferAccepted(s) \/ ReferFails(s)
             \/ HandoffSettles(s)
      PROVE  Rests \/ ToolCall(s) \/ Moves(s) \/ Ends(s) \/ Commits(s)
  <2>1. TypeOK /\ JobSound(s)
    BY DEF Inv
  <2> QED BY <1>4, <1>5, <2>1, DispatchKinds, TransactKinds, HandlerKinds
<1> QED BY <1>1, <1>2, <1>3, <1>5 DEF Next


----------------------------------------------------------------------------
(* The invariant holds, and with it the types.                             *)

\* A commit writes one row. A row that is there stays, with its account and its author.
LEMMA CommitEffect ==
  ASSUME TypeOK, NEW tx, Lawful(tx), CanCommit(tx), NEW owner \in Sessions, NEW s,
         Commit(tx, owner, s)
  PROVE  /\ tx.id \in TicketIds
         /\ \A id \in TicketIds : id # tx.id => tickets'[id] = tickets[id]
         /\ IsInsert(tx) => tickets'[tx.id] = [account |-> tx.args.account, status |-> "open",
                                               resolvedAt |-> FALSE, by |-> owner]
         /\ ~IsInsert(tx) => /\ tickets[tx.id] \in Row
                             /\ tickets'[tx.id] = Updated(tickets[tx.id], tx)
         /\ \A id \in TicketIds : tickets[id] # NoRow =>
              /\ tickets'[id] # NoRow
              /\ tickets'[id].account = tickets[id].account
              /\ tickets'[id].by = tickets[id].by
         /\ \A t \in Sessions :
              /\ overtaken[t] => overtaken'[t]
              /\ t # s /\ tx.id \in {job[t].tx.id, answer[t].id} => overtaken'[t]
<1>1. tx.id \in TicketIds
  BY DEF Lawful, Transaction
<1>2. \A id \in TicketIds : id # tx.id => tickets'[id] = tickets[id]
  BY DEF Commit, TypeOK
<1>3. IsInsert(tx) => tickets'[tx.id] = [account |-> tx.args.account, status |-> "open",
                                         resolvedAt |-> FALSE, by |-> owner]
  BY <1>1 DEF Commit, TypeOK
<1>4. ASSUME ~IsInsert(tx)
      PROVE  tickets[tx.id] \in Row /\ tickets'[tx.id] = Updated(tickets[tx.id], tx)
  BY <1>1, <1>4 DEF Commit, TypeOK, Lawful
<1>5. ASSUME NEW id \in TicketIds, tickets[id] # NoRow
      PROVE  /\ tickets'[id] # NoRow
             /\ tickets'[id].account = tickets[id].account
             /\ tickets'[id].by = tickets[id].by
  <2>1. CASE id # tx.id
    BY <1>2, <1>5, <2>1
  <2>2. CASE id = tx.id
    <3>1. ~IsInsert(tx)
      BY <1>5, <2>2 DEF CanCommit
    <3>2. /\ Updated(tickets[id], tx).account = tickets[id].account
          /\ Updated(tickets[id], tx).by = tickets[id].by
      BY <1>4, <2>2, <3>1 DEF Updated, Row
    <3>3. tickets[id].account # NoAccount
      BY <1>4, <2>2, <3>1, DeskAssumption DEF Row
    <3> QED BY <1>4, <2>2, <3>1, <3>2, <3>3 DEF NoRow
  <2> QED BY <2>1, <2>2
<1>6. \A t \in Sessions :
        /\ overtaken[t] => overtaken'[t]
        /\ t # s /\ tx.id \in {job[t].tx.id, answer[t].id} => overtaken'[t]
  BY DEF Commit
<1> QED BY <1>1, <1>2, <1>3, <1>4, <1>5, <1>6

LEMMA RowsStay ==
  ASSUME Inv, [Next]_vars, NEW id \in TicketIds, tickets[id] # NoRow
  PROVE  /\ tickets'[id] # NoRow
         /\ tickets'[id].account = tickets[id].account
         /\ tickets'[id].by = tickets[id].by
<1>1. TypeOK
  BY DEF Inv
<1>2. CASE Rests
  BY <1>2 DEF Rests
<1>3. CASE CommitsLate
  BY <1>1, <1>3, CommitEffect DEF CommitsLate
<1>4. ASSUME NEW s \in Sessions, ToolCall(s) \/ Moves(s) \/ Ends(s)
      PROVE  tickets' = tickets
  BY <1>4 DEF ToolCall, Moves, Ends, tableVars
<1>5. ASSUME NEW s \in Sessions, Commits(s)
      PROVE  /\ tickets'[id] # NoRow
             /\ tickets'[id].account = tickets[id].account
             /\ tickets'[id].by = tickets[id].by
  BY <1>1, <1>5, CommitEffect DEF Commits
<1> QED BY <1>2, <1>3, <1>4, <1>5, StepKinds

\* What may take effect now may take effect later.
LEMMA LawfulStays ==
  ASSUME Inv, [Next]_vars, NEW tx, Lawful(tx)
  PROVE  Lawful(tx)'
BY RowsStay DEF Lawful, Transaction

LEMMA AbandonedStep ==
  ASSUME Inv, [Next]_vars
  PROVE  AbandonedSound'
<1>1. TypeOK /\ AbandonedSound /\ \A s \in Sessions : JobSound(s)
  BY DEF Inv
<1>2. ASSUME NEW entry \in abandoned'
      PROVE  entry \in abandoned \/ \E s \in Sessions : job[s].pc = "commit"
                                                        /\ entry[1] = job[s].tx
  <2>1. CASE Rests
    BY <2>1 DEF Rests
  <2>2. CASE CommitsLate
    BY <2>2 DEF CommitsLate
  <2>3. ASSUME NEW s \in Sessions, ToolCall(s) \/ Moves(s) \/ Commits(s)
        PROVE  abandoned' = abandoned
    BY <2>3 DEF ToolCall, Moves, Commits, tableVars
  <2>4. ASSUME NEW s \in Sessions, Ends(s)
        PROVE  entry \in abandoned \/ (job[s].pc = "commit" /\ entry[1] = job[s].tx)
    BY <2>4 DEF Ends
  <2> QED BY <2>1, <2>2, <2>3, <2>4, StepKinds
<1>3. ASSUME NEW entry \in abandoned'
      PROVE  Lawful(entry[1])
  BY <1>1, <1>2, <1>3 DEF AbandonedSound, JobSound
<1> QED BY <1>3, LawfulStays DEF AbandonedSound


\* A step of s leaves the other sessions alone, but for what it writes to the table.
LEMMA OthersUntouched ==
  ASSUME Inv, NEW s \in Sessions, ToolCall(s) \/ Moves(s) \/ Ends(s) \/ Commits(s),
         NEW t \in Sessions, t # s
  PROVE  UNCHANGED <<job[t], answer[t], made[t], ackLost[t]>>
<1>1. TypeOK
  BY DEF Inv
<1>2. CASE ToolCall(s)
  BY <1>1, <1>2 DEF ToolCall, TypeOK
<1>3. CASE Moves(s)
  BY <1>1, <1>3 DEF Moves, Goes, TypeOK
<1>4. CASE Ends(s)
  BY <1>1, <1>4 DEF Ends, Stops, Reply, ghostVars, TypeOK
<1>5. CASE Commits(s)
  BY <1>1, <1>5 DEF Commits, Stops, Goes, Reply, Count, TypeOK
<1> QED BY <1>2, <1>3, <1>4, <1>5

\* The job of a session that a step leaves alone stays sound.
LEMMA UntouchedStep ==
  ASSUME Inv, [Next]_vars, NEW t \in Sessions, job'[t] = job[t], answer'[t] = answer[t]
  PROVE  JobSound(t)'
<1>1. TypeOK /\ JobSound(t)
  BY DEF Inv
<1>2. job[t] \in Job => job[t].args \in Args
  BY DEF Job
<1>3. ASSUME job[t].tool = "update_ticket", job[t].args.id # NoTicket
      PROVE  tickets'[job[t].args.id] # NoRow
  <2>1. job[t] \in Job
    BY <1>1, <1>3, JobFacts DEF TypeOK
  <2>2. job[t].args.id \in TicketIds
    BY <1>2, <1>3, <2>1 DEF Args
  <2> QED BY <1>1, <1>3, <2>2, RowsStay DEF JobSound
<1>4. ASSUME job[t].pc = "commit"
      PROVE  Lawful(job[t].tx)'
  BY <1>1, <1>4, LawfulStays DEF JobSound, Lawful
<1> QED BY <1>1, <1>3, <1>4 DEF JobSound

LEMMA GoesStep ==
  ASSUME Inv, [Next]_vars, NEW s \in Sessions, Goes(s),
         job'[s].pc = "commit" => Lawful(job'[s].tx)
  PROVE  JobSound(s)'
<1>1. TypeOK /\ JobSound(s)
  BY DEF Inv
<1>2. ASSUME job[s].tool = "update_ticket", job[s].args.id # NoTicket
      PROVE  tickets'[job[s].args.id] # NoRow
  <2>1. job[s].args.id \in TicketIds
    BY <1>2 DEF Args, Goes, Job
  <2> QED BY <1>1, <1>2, <2>1, RowsStay DEF JobSound
<1>3. ASSUME job'[s].pc = "commit"
      PROVE  Lawful(job[s].tx)'
  BY <1>3, LawfulStays DEF Lawful
<1>4. answer'[s] = NoAnswer
  BY <1>1, JobFacts DEF Goes, JobSound
<1> QED BY <1>1, <1>2, <1>3, <1>4 DEF JobSound, Goes

LEMMA StopsStep ==
  ASSUME Inv, [Next]_vars, NEW s \in Sessions, NEW reply, Stops(s, reply)
  PROVE  JobSound(s)'
<1>1. job'[s] = Idle
  BY DEF Inv, TypeOK, Stops, Reply
<1> QED BY <1>1, JobFacts DEF JobSound, Idle, Phases

LEMMA ToolCallStep ==
  ASSUME Inv, [Next]_vars, NEW s \in Sessions, ToolCall(s)
  PROVE  JobSound(s)'
<1>1. TypeOK
  BY DEF Inv
<1>2. PICK name \in ToolNames \cup DOMAIN Synonyms, args \in Args :
           /\ args \in ArgsOf(s, Resolved(name))
           /\ job'[s] \in Job
           /\ job' = [job EXCEPT ![s] = job'[s]]
           /\ job'[s].pc = "queued" /\ job'[s].tries = 1
           /\ job'[s].tool = Resolved(name) /\ job'[s].args = args
           /\ job'[s].from = IF name \in Offered(s) THEN phase[s] ELSE "none"
           /\ job'[s].tx = NoTransaction
  BY <1>1, CallMade
<1>3. tickets' = tickets /\ answer'[s] = NoAnswer
  BY <1>1 DEF ToolCall, tableVars, TypeOK
<1>4. ASSUME job'[s].from \in Phases
      PROVE  job'[s].tool \in AllowedTools(job'[s].from)
  <2>1. name \in OfferedTools(phase[s], category[s]) /\ job'[s].from = phase[s]
    BY <1>2, <1>4 DEF Offered, Phases
  <2>2. phase[s] \in Phases /\ category[s] \in Categories \cup {NoCategory}
    BY <1>1 DEF TypeOK
  <2> QED BY <1>2, <2>1, <2>2, OfferedAllowed
<1>5. /\ Resolved(name) = "create_ticket" => args.account \in Accounts
      /\ Resolved(name) = "update_ticket" /\ args.id # NoTicket => tickets[args.id] # NoRow
  BY <1>1, <1>2, ArgsType
<1> QED BY <1>2, <1>3, <1>4, <1>5 DEF JobSound

LEMMA InvHolds == Spec => []Inv
<1>1. Init => Inv
  <2> SUFFICES ASSUME Init  PROVE Inv
    OBVIOUS
  <2>1. \A s \in Sessions : JobSound(s)
    BY JobFacts DEF Init, JobSound, Idle, Phases
  <2>2. AbandonedSound
    BY DEF Init, AbandonedSound
  <2> QED BY <2>1, <2>2, InitTypes DEF Inv
<1>2. ASSUME Inv, [Next]_vars  PROVE Inv'
  <2>1. TypeOK' /\ AbandonedSound'
    BY <1>2, NextTypes, AbandonedStep
  <2>2. ASSUME NEW t \in Sessions  PROVE JobSound(t)'
    <3>1. CASE job'[t] = job[t] /\ answer'[t] = answer[t]
      BY <1>2, <3>1, UntouchedStep
    <3>2. CASE Rests \/ CommitsLate
      BY <3>1, <3>2 DEF Rests, CommitsLate
    <3>3. ASSUME NEW s \in Sessions, ToolCall(s) \/ Moves(s) \/ Ends(s) \/ Commits(s)
          PROVE  JobSound(t)'
      <4>1. CASE t = s
        <5>1. CASE ToolCall(s)
          BY <1>2, <4>1, <5>1, ToolCallStep
        <5>2. CASE Moves(s)
          BY <1>2, <4>1, <5>2, GoesStep DEF Moves
        <5>3. CASE Ends(s)
          BY <1>2, <4>1, <5>3, StopsStep DEF Ends
        <5>4. CASE Commits(s)
          BY <1>2, <4>1, <5>4, StopsStep, GoesStep DEF Commits
        <5> QED BY <3>3, <5>1, <5>2, <5>3, <5>4
      <4>2. CASE t # s
        BY <1>2, <3>1, <3>3, <4>2, OthersUntouched
      <4> QED BY <4>1, <4>2
    <3> QED BY <1>2, <3>2, <3>3, StepKinds
  <2> QED BY <2>1, <2>2 DEF Inv
<1> QED BY <1>1, <1>2, PTL DEF Spec

\* Every variable of the desk keeps its type, whatever the calls, the database and the
\* transactions left behind do.
THEOREM TypeCorrect == Spec => []TypeOK
<1>1. Inv => TypeOK
  BY DEF Inv
<1> QED BY <1>1, InvHolds, PTL


----------------------------------------------------------------------------
(* The phase guard and the instructions.                                   *)

\* What an answer that a step gives may be.
LEMMA NewAnswer ==
  ASSUME Inv, [Next]_vars, NEW t \in Sessions
  PROVE  \/ answer'[t] = answer[t]
         \/ answer'[t] = NoAnswer
         \/ Ends(t) /\ answer'[t].kind \in {"none", "found", "stranger"}
         \/ Commits(t) /\ answer'[t] = Told(job[t].tx)
<1>1. TypeOK
  BY DEF Inv
<1>2. CASE Rests \/ CommitsLate
  BY <1>2 DEF Rests, CommitsLate
<1>3. ASSUME NEW s \in Sessions, ToolCall(s) \/ Moves(s) \/ Ends(s) \/ Commits(s), t # s
      PROVE  answer'[t] = answer[t]
  BY <1>3, OthersUntouched
<1>4. CASE ToolCall(t)
  BY <1>1, <1>4 DEF ToolCall, TypeOK
<1>5. CASE Moves(t)
  BY <1>5 DEF Moves, Goes
<1>6. CASE Ends(t)
  BY <1>1, <1>6 DEF Ends, Stops, Reply, TypeOK
<1>7. CASE Commits(t)
  BY <1>1, <1>7 DEF Commits, Goes, Stops, Reply, TypeOK
<1> QED BY <1>2, <1>3, <1>4, <1>5, <1>6, <1>7, StepKinds

\* A tool offered in the current phase passes the phase guard: whatever the caller's
\* categories and the phases on the way, the two lists of the code agree.
THEOREM GuardLetsOfferedToolsRun == Spec => []OfferedToolsRun
<1>1. Init => OfferedToolsRun
  BY AnswerType DEF Init, OfferedToolsRun
<1>2. ASSUME Inv, OfferedToolsRun, [Next]_vars  PROVE OfferedToolsRun'
  <2>1. ASSUME NEW t \in Sessions, Commits(t)  PROVE Told(job[t].tx).kind # "early"
    BY <2>1, ToldType DEF Commits, Lawful
  <2> QED BY <1>2, <2>1, NewAnswer, AnswerType DEF OfferedToolsRun
<1> QED BY <1>1, <1>2, InvHolds, PTL DEF Spec

\* Only TRIAGE gives a call its category, and no call goes back behind it.
EarlyUncategorised ==
  \A s \in Sessions : phase[s] \in {"GREETING", "VERIFY"} => category[s] = NoCategory

LEMMA CategoryStep ==
  ASSUME TypeOK, EarlyUncategorised, [Next]_vars
  PROVE  EarlyUncategorised'
<1>1. CASE UNCHANGED <<phase, category>>
  BY <1>1 DEF EarlyUncategorised
<1>2. ASSUME NEW s \in Sessions,
             Advance(s) \/ (phase' = [phase EXCEPT ![s] = "TRIAGE"]),
             \/ phase[s] = "TRIAGE" /\ \E c \in Categories :
                                         category' = [category EXCEPT ![s] = c]
             \/ UNCHANGED category
      PROVE  EarlyUncategorised'
  <2>1. phase \in [Sessions -> Phases] /\ category \in [Sessions -> Categories \cup {NoCategory}]
    BY DEF TypeOK
  <2>2. \A t \in Sessions \ {s} : phase'[t] = phase[t] /\ category'[t] = category[t]
    BY <1>2, <2>1 DEF Advance
  <2>3. phase'[s] \in {"GREETING", "VERIFY"}
          => phase[s] \in {"GREETING", "VERIFY"} /\ phase[s] # "TRIAGE"
    BY <1>2, <2>1 DEF Advance, Successor, Phases
  <2>4. phase'[s] \in {"GREETING", "VERIFY"} => category'[s] = NoCategory
    BY <1>2, <2>3 DEF EarlyUncategorised
  <2> QED BY <2>2, <2>4 DEF EarlyUncategorised
<1>3. ASSUME NEW s \in Sessions, Conversation(s)  PROVE EarlyUncategorised'
  BY <1>2, <1>3, Zenon DEF Conversation, PhaseComplete, TurnLimit, ReportNewIssue
<1>4. ASSUME NEW s \in Sessions, TransientError(s) \/ Fail(s)  PROVE UNCHANGED <<phase, category>>
  BY <1>4 DEF TransientError, Fail, talkVars
<1>5. ASSUME NEW s \in Sessions, Dispatch(s) \/ Transact(s)  PROVE UNCHANGED <<phase, category>>
  BY <1>4, <1>5, Zenon
     DEF Dispatch, Blocked, DispatchRaises, LookUpByPhone, ReadRows, AskStub, BeginCreate,
         BeginUpdate, UpdateMissing, BeginTransfer, Transact, Committed, AckLost, CommitFails,
         NumberTaken, talkVars
<1>6. ASSUME NEW s \in Sessions, ReferFails(s) \/ ToolTimesOut(s)
      PROVE  UNCHANGED <<phase, category>>
  BY <1>4, <1>6, Zenon DEF ReferFails, ToolTimesOut
<1>7. ASSUME NEW s \in Sessions,
             ToolCall(s) \/ Start(s) \/ Retry(s) \/ ReferAccepted(s) \/ HandoffSettles(s)
      PROVE  UNCHANGED <<phase, category>>
  BY <1>7 DEF ToolCall, Start, Retry, ReferAccepted, HandoffSettles, talkVars
<1>8. ASSUME AbandonedSettles \/ CallsOver \/ UNCHANGED vars
      PROVE  UNCHANGED <<phase, category>>
  <2>1. CASE AbandonedSettles
    BY <2>1, Zenon DEF AbandonedSettles, talkVars
  <2>2. CASE UNCHANGED vars
    BY <2>2 DEF vars, talkVars
  <2> QED BY <1>8, <2>1, <2>2 DEF CallsOver
<1>9. CASE Next
  <2>1. CASE \E s \in Sessions :
               \/ Conversation(s) \/ ToolCall(s) \/ Start(s) \/ Dispatch(s) \/ Transact(s)
               \/ Retry(s) \/ ToolTimesOut(s) \/ ReferAccepted(s) \/ ReferFails(s)
               \/ HandoffSettles(s)
    BY <1>1, <1>3, <1>5, <1>6, <1>7, <2>1, Zenon
  <2> QED BY <1>1, <1>8, <1>9, <2>1, Zenon DEF Next
<1> QED BY <1>1, <1>8, <1>9, Zenon

\* In VERIFY, DIAGNOSE and RESOLVE, and in WRAP_UP for technical issues, the model is told
\* to call no tool that its session.update leaves out, whatever way the call came there.
THEOREM InstructionsKept == Spec => []InstructedToolsOffered
<1>1. Init => EarlyUncategorised
  BY DEF Init, EarlyUncategorised
<1>2. ASSUME TypeOK, EarlyUncategorised  PROVE InstructedToolsOffered
  <2> SUFFICES ASSUME NEW s \in Sessions, Followable(s)
               PROVE  InstructedTools(phase[s], category[s]) \subseteq Offered(s)
    BY DEF InstructedToolsOffered
  <2>1. phase[s] \in Phases /\ category[s] \in Categories \cup {NoCategory}
    BY <1>2 DEF TypeOK
  <2>2. phase[s] = "VERIFY" => category[s] = NoCategory
    BY <1>2 DEF EarlyUncategorised
  <2> QED BY <2>1, <2>2, InstructedOffered DEF Followable, Offered
<1> QED BY <1>1, <1>2, CategoryStep, TypeCorrect, PTL DEF Spec

----------------------------------------------------------------------------
(* The tickets that were announced.                                        *)

\* A number that was read back is a ticket's, and a created ticket is the caller's.
AnnouncedSound == AnnouncedTicketExists /\ \A s \in Sessions :
  answer[s].kind \in {"created", "updated"} => answer[s].id \in TicketIds

LEMMA AnnouncedStep ==
  ASSUME Inv, AnnouncedSound, [Next]_vars
  PROVE  AnnouncedSound'
<1>1. TypeOK
  BY DEF Inv
<1> SUFFICES ASSUME NEW t \in Sessions
             PROVE  /\ answer'[t].kind \in {"created", "updated"} => answer'[t].id \in TicketIds
                    /\ answer'[t].kind = "created" =>
                         /\ tickets'[answer'[t].id].account = answer'[t].account
                         /\ tickets'[answer'[t].id].by = t
  BY DEF AnnouncedSound, AnnouncedTicketExists
<1>2. CASE answer'[t] = answer[t]
  <2>1. ASSUME answer[t].kind = "created"
        PROVE  answer[t].id \in TicketIds /\ tickets[answer[t].id] # NoRow
    BY <2>1, DeskAssumption DEF AnnouncedSound, AnnouncedTicketExists, NoRow
  <2> QED BY <1>2, <2>1, RowsStay DEF AnnouncedSound, AnnouncedTicketExists
<1>3. CASE answer'[t] = NoAnswer \/ answer'[t].kind \in {"none", "found", "stranger"}
  BY <1>3, AnswerType
<1>4. CASE Commits(t) /\ answer'[t] = Told(job[t].tx)
  <2> DEFINE tx == job[t].tx
  <2>1. Lawful(tx) /\ CanCommit(tx) /\ Commit(tx, t, t) /\ tx \in Transaction
    BY <1>4 DEF Commits, Lawful
  <2>2. /\ tx.id \in TicketIds
        /\ IsInsert(tx) => tickets'[tx.id] = [account |-> tx.args.account, status |-> "open",
                                              resolvedAt |-> FALSE, by |-> t]
    BY <1>1, <2>1, CommitEffect
  <2>3. IsInsert(tx) => tickets'[tx.id].account = tx.args.account /\ tickets'[tx.id].by = t
    BY <2>2
  <2> QED BY <1>4, <2>1, <2>2, <2>3, ToldType
<1> QED BY <1>2, <1>3, <1>4, NewAnswer

\* The ticket whose number is read back to the caller is in the table for good, for the
\* account it was asked for.
THEOREM AnnouncedTicketsExist == Spec => []AnnouncedTicketExists
<1>1. Init => AnnouncedSound
  BY AnswerType DEF Init, AnnouncedSound, AnnouncedTicketExists
<1>2. Inv /\ AnnouncedSound /\ [Next]_vars => AnnouncedSound'
  BY AnnouncedStep
<1>3. AnnouncedSound => AnnouncedTicketExists
  BY DEF AnnouncedSound
<1> QED BY <1>1, <1>2, <1>3, InvHolds, PTL DEF Spec

----------------------------------------------------------------------------
(* One ticket per request.                                                 *)

\* What the current tool call of s has committed so far: nothing on the first attempt,
\* and on the second at most what the first committed without learning of it.
CountSound(s) ==
  made[s] <= IF job[s].pc = "idle" THEN IF ackLost[s] THEN 2 ELSE 1
             ELSE IF (job[s].pc = "backoff" \/ job[s].tries = 2) /\ ackLost[s] THEN 1 ELSE 0

LEMMA CountStep ==
  ASSUME Inv, [Next]_vars, NEW t \in Sessions, CountSound(t)
  PROVE  CountSound(t)'
<1>1. TypeOK /\ JobSound(t) /\ made[t] \in Nat /\ ackLost[t] \in BOOLEAN
  BY DEF Inv, TypeOK
<1>2. CASE UNCHANGED <<job[t], made[t], ackLost[t]>>
  BY <1>2 DEF CountSound
<1>3. CASE Rests \/ CommitsLate
  BY <1>2, <1>3 DEF Rests, CommitsLate, ghostVars
<1>4. CASE ToolCall(t)
  <2>1. made'[t] = 0 /\ ackLost'[t] = FALSE
    BY <1>1, <1>4 DEF ToolCall, TypeOK
  <2> QED BY <2>1 DEF CountSound
<1>5. CASE Moves(t)
  <2>1. job[t].pc # "idle" /\ job'[t].pc # "idle"
    BY <1>5, JobFacts DEF Moves, Goes
  <2> QED BY <1>1, <1>5, <2>1 DEF Moves, Goes, CountSound
<1>6. CASE Ends(t)
  <2>1. job'[t].pc = "idle" /\ job[t].pc # "idle"
    BY <1>1, <1>6, JobFacts DEF Ends, Stops, Reply, TypeOK
  <2> QED BY <1>1, <1>6, <2>1 DEF Ends, CountSound, ghostVars
<1>7. CASE Commits(t)
  <2>1. made'[t] \in Nat /\ made'[t] <= made[t] + 1
    BY <1>1, <1>7 DEF Commits, Count, TypeOK
  <2>2. job[t].pc = "commit"
    BY <1>7 DEF Commits
  <2>3. made[t] <= IF job[t].tries = 2 /\ ackLost[t] THEN 1 ELSE 0
    BY <2>2 DEF CountSound
  <2>4. CASE Stops(t, Told(job[t].tx)) /\ UNCHANGED ackLost
    <3>1. job'[t].pc = "idle"
      BY <1>1, <2>4, JobFacts DEF Stops, Reply, TypeOK
    <3> QED BY <1>1, <2>1, <2>3, <2>4, <3>1 DEF CountSound
  <2>5. CASE Stops(t, NoAnswer) /\ ackLost' = [ackLost EXCEPT ![t] = TRUE]
    <3>1. job'[t].pc = "idle" /\ ackLost'[t]
      BY <1>1, <2>5, JobFacts DEF Stops, Reply, TypeOK
    <3> QED BY <1>1, <2>1, <2>3, <3>1 DEF CountSound
  <2>6. CASE Goes(t) /\ job'[t].pc = "backoff" /\ ackLost' = [ackLost EXCEPT ![t] = TRUE]
    <3>1. job[t].tries # 2 /\ ackLost'[t]
      BY <1>1, <2>6 DEF Goes, TypeOK
    <3> QED BY <1>1, <2>1, <2>3, <2>6, <3>1 DEF CountSound
  <2> QED BY <1>7, <2>4, <2>5, <2>6 DEF Commits
<1>8. ASSUME NEW s \in Sessions, ToolCall(s) \/ Moves(s) \/ Ends(s) \/ Commits(s), t # s
      PROVE  CountSound(t)'
  BY <1>2, <1>8, OthersUntouched
<1> QED BY <1>3, <1>4, <1>5, <1>6, <1>7, <1>8, StepKinds

\* One create_ticket makes one ticket, or two when an acknowledgement was lost, for all
\* retries, timeouts and failures.
THEOREM OneTicket == Spec => []OneTicketPerRequest
<1> DEFINE Counted == \A s \in Sessions : CountSound(s)
<1>1. Init => Counted
  BY JobFacts DEF Init, CountSound
<1>2. Inv /\ Counted /\ [Next]_vars => Counted'
  BY CountStep
<1>3. Inv /\ Counted => OneTicketPerRequest
  <2> SUFFICES ASSUME Inv, Counted, NEW s \in Sessions
               PROVE  made[s] <= IF ackLost[s] THEN 2 ELSE 1
    BY DEF OneTicketPerRequest
  <2> QED BY DEF CountSound, Inv, TypeOK
<1> QED BY <1>1, <1>2, <1>3, InvHolds, PTL DEF Spec

----------------------------------------------------------------------------
(* What was read back.                                                     *)

\* As long as nobody else has written to the ticket that s loaded or was told of, its
\* status is the one loaded, or read back.
ReadSound(s) ==
  /\ answer[s].kind \in {"created", "updated"} => answer[s].id \in TicketIds
  /\ job[s].pc = "commit" /\ ~IsInsert(job[s].tx) /\ ~overtaken[s]
       => tickets[job[s].tx.id].status = job[s].tx.loaded
  /\ answer[s].kind = "updated" /\ ~overtaken[s]
       => tickets[answer[s].id].status = answer[s].status

\* Another's commit to another ticket leaves it so, and one to this ticket is noted.
LEMMA OvertakenStep ==
  ASSUME Inv, NEW t \in Sessions, ReadSound(t), job'[t] = job[t], answer'[t] = answer[t],
         NEW tx, Lawful(tx), CanCommit(tx), NEW owner \in Sessions, NEW s, s # t,
         Commit(tx, owner, s)
  PROVE  ReadSound(t)'
<1>1. TypeOK /\ JobSound(t)
  BY DEF Inv
<1>2. CASE overtaken'[t]
  BY <1>2 DEF ReadSound
<1>3. CASE ~overtaken'[t]
  <2>1. ~overtaken[t] /\ tx.id # job[t].tx.id /\ tx.id # answer[t].id
    BY <1>3 DEF Commit
  <2>2. \A id \in TicketIds : id # tx.id => tickets'[id] = tickets[id]
    BY <1>1, CommitEffect
  <2>3. job[t].pc = "commit" => job[t].tx.id \in TicketIds
    BY <1>1 DEF JobSound, Lawful, Transaction
  <2> QED BY <2>1, <2>2, <2>3 DEF ReadSound, IsInsert
<1> QED BY <1>2, <1>3

LEMMA ReadStep ==
  ASSUME Inv, [Next]_vars, NEW t \in Sessions, ReadSound(t)
  PROVE  ReadSound(t)'
<1>1. TypeOK /\ JobSound(t)
  BY DEF Inv
<1>2. CASE UNCHANGED <<job[t], answer[t], tickets, overtaken[t]>>
  BY <1>2 DEF ReadSound, IsInsert
<1>3. CASE Rests
  BY <1>2, <1>3 DEF Rests, ghostVars
<1>4. CASE CommitsLate
  <2>1. NoSession # t
    BY DeskAssumption
  <2>2. job'[t] = job[t] /\ answer'[t] = answer[t]
    BY <1>4 DEF CommitsLate
  <2>3. PICK entry \in abandoned :
          /\ CanCommit(entry[1]) /\ Lawful(entry[1]) /\ entry[2] \in Sessions
          /\ Commit(entry[1], entry[2], NoSession)
    BY <1>4 DEF CommitsLate
  <2> QED BY <2>1, <2>2, <2>3, OvertakenStep
<1>5. ASSUME NEW s \in Sessions, ToolCall(s) \/ Moves(s) \/ Ends(s) \/ Commits(s), t # s
      PROVE  ReadSound(t)'
  <2>1. UNCHANGED <<job[t], answer[t]>>
    BY <1>5, OthersUntouched
  <2>2. CASE ToolCall(s) \/ Moves(s) \/ Ends(s)
    <3>1. tickets' = tickets /\ overtaken'[t] = overtaken[t]
      BY <1>1, <1>5, <2>2 DEF ToolCall, Moves, Ends, tableVars, ghostVars, TypeOK
    <3> QED BY <1>2, <2>1, <3>1
  <2>3. CASE Commits(s)
    <3>1. Lawful(job[s].tx) /\ CanCommit(job[s].tx) /\ Commit(job[s].tx, s, s)
      BY <2>3 DEF Commits
    <3> QED BY <1>5, <2>1, <3>1, OvertakenStep
  <2> QED BY <1>5, <2>2, <2>3
<1>6. CASE ToolCall(t)
  <2>1. job'[t].pc = "queued" /\ answer'[t] = NoAnswer
    BY <1>1, <1>6, CallMade DEF ToolCall, TypeOK
  <2> QED BY <2>1, AnswerType DEF ReadSound
<1>7. CASE Moves(t)
  <2>1. answer'[t] = NoAnswer
    BY <1>1, <1>7, JobFacts DEF Moves, Goes, JobSound
  <2>2. /\ job'[t].pc = "commit" /\ ~IsInsert(job'[t].tx)
             => tickets[job'[t].tx.id].status = job'[t].tx.loaded
        /\ tickets' = tickets
    BY <1>7 DEF Moves
  <2> QED BY <2>1, <2>2, AnswerType DEF ReadSound, IsInsert
<1>8. CASE Ends(t)
  <2>1. job'[t].pc = "idle" /\ answer'[t].kind \in {"none", "found", "stranger"}
    BY <1>1, <1>8, JobFacts DEF Ends, Stops, Reply, TypeOK
  <2> QED BY <2>1 DEF ReadSound
<1>9. CASE Commits(t)
  <2> DEFINE tx == job[t].tx
  <2>1. job[t].pc = "commit" /\ Lawful(tx) /\ CanCommit(tx) /\ Commit(tx, t, t) /\ tx \in Transaction
    BY <1>9 DEF Commits, Lawful
  <2>2. CASE Stops(t, Told(tx))
    <3>1. job'[t].pc = "idle" /\ answer'[t] = Told(tx)
      BY <1>1, <2>2, JobFacts DEF Stops, Reply, TypeOK
    <3>2. overtaken[t] => overtaken'[t]
      BY <1>1, <2>1, CommitEffect
    <3>3. CASE IsInsert(tx)
      <4>1. tickets'[tx.id].status = "open" /\ tx.id \in TicketIds
        <5>1. /\ tickets'[tx.id] = [account |-> tx.args.account, status |-> "open",
                                    resolvedAt |-> FALSE, by |-> t]
              /\ tx.id \in TicketIds
          BY <1>1, <2>1, <3>3, CommitEffect
        <5> QED BY <5>1
      <4>2. answer'[t].kind = "created" /\ answer'[t].id = tx.id /\ answer'[t].status = NoStatus
        BY <2>1, <3>1, <3>3, ToldType
      <4> QED BY <3>1, <4>1, <4>2 DEF ReadSound
    <3>4. CASE ~IsInsert(tx)
      <4>1. /\ tx.id \in TicketIds /\ tickets[tx.id] \in Row
            /\ tickets'[tx.id] = Updated(tickets[tx.id], tx)
        BY <1>1, <2>1, <3>4, CommitEffect
      <4>2. tickets'[tx.id].status = IF tx.args.status \in {NoStatus, tx.loaded}
                                     THEN tickets[tx.id].status ELSE tx.args.status
        BY <4>1 DEF Updated, Row
      <4>3. /\ answer'[t].kind = "updated" /\ answer'[t].id = tx.id
            /\ answer'[t].status = IF tx.args.status = NoStatus THEN tx.loaded ELSE tx.args.status
        BY <2>1, <3>1, <3>4, ToldType
      <4>4. ~overtaken'[t] => tickets[tx.id].status = tx.loaded
        BY <2>1, <3>2, <3>4 DEF ReadSound
      <4> QED BY <3>1, <4>1, <4>2, <4>3, <4>4 DEF ReadSound
    <3> QED BY <3>3, <3>4
  <2>3. CASE Stops(t, NoAnswer)
    <3>1. job'[t].pc = "idle" /\ answer'[t] = NoAnswer
      BY <1>1, <2>3, JobFacts DEF Stops, Reply, TypeOK
    <3> QED BY <3>1, AnswerType DEF ReadSound
  <2>4. CASE Goes(t) /\ job'[t].pc = "backoff"
    <3>1. answer'[t] = NoAnswer
      BY <1>1, <2>4, JobFacts DEF Goes, JobSound
    <3> QED BY <2>4, <3>1, AnswerType DEF ReadSound
  <2> QED BY <1>9, <2>2, <2>3, <2>4 DEF Commits
<1> QED BY <1>3, <1>4, <1>5, <1>6, <1>7, <1>8, <1>9, StepKinds

LEMMA ReadHolds == Spec => [](\A s \in Sessions : ReadSound(s))
<1>1. Init => \A s \in Sessions : ReadSound(s)
  BY AnswerType, JobFacts DEF Init, ReadSound
<1>2. Inv /\ (\A s \in Sessions : ReadSound(s)) /\ [Next]_vars
        => (\A s \in Sessions : ReadSound(s))'
  BY ReadStep
<1> QED BY <1>1, <1>2, InvHolds, PTL DEF Spec

\* The status read back to the caller is the ticket's until someone else writes to it,
\* though the UPDATE names only what differs from the row that was loaded.
THEOREM ReadBack == Spec => []ReadBackHolds
<1>1. (\A s \in Sessions : ReadSound(s)) => ReadBackHolds
  BY DEF ReadSound, ReadBackHolds
<1> QED BY <1>1, ReadHolds, PTL

----------------------------------------------------------------------------
(* Dates and numbers.                                                      *)

LEMMA DatedStep ==
  ASSUME TypeOK, DoneTicketsAreDated, NEW tx, Lawful(tx), CanCommit(tx),
         NEW owner \in Sessions, NEW s, Commit(tx, owner, s)
  PROVE  DoneTicketsAreDated'
<1> SUFFICES ASSUME NEW id \in TicketIds, tickets'[id].status \in Done,
                    ~(id \in Seeded /\ SeededStatus[id] \in Done)
             PROVE  tickets'[id].resolvedAt
  BY DEF DoneTicketsAreDated
<1>1. CASE id # tx.id
  <2>1. tickets'[id] = tickets[id]
    BY <1>1 DEF Commit, TypeOK
  <2> QED BY <2>1 DEF DoneTicketsAreDated
<1>2. CASE id = tx.id /\ IsInsert(tx)
  <2>1. tickets'[id] = [account |-> tx.args.account, status |-> "open", resolvedAt |-> FALSE,
                        by |-> owner]
    BY <1>2, CommitEffect
  <2>2. tickets'[id].status = "open"
    BY <2>1
  <2> QED BY <2>2 DEF Done
<1>3. CASE id = tx.id /\ ~IsInsert(tx)
  <2>1. tickets[id] \in Row /\ tickets'[id] = Updated(tickets[id], tx)
    BY <1>3, CommitEffect
  <2>2. /\ tickets'[id].status = IF tx.args.status \in {NoStatus, tx.loaded}
                                 THEN tickets[id].status ELSE tx.args.status
        /\ tickets'[id].resolvedAt <=> tickets[id].resolvedAt \/ tx.args.status \in Done
    BY <2>1 DEF Updated, Row
  <2> QED BY <2>2 DEF DoneTicketsAreDated
<1> QED BY <1>1, <1>2, <1>3

\* A ticket that a call resolved or closed says when.
THEOREM DoneTicketsDated == Spec => []DoneTicketsAreDated
<1>1. Init => DoneTicketsAreDated
  <2> SUFFICES ASSUME Init, NEW id \in TicketIds, tickets[id].status \in Done,
                      ~(id \in Seeded /\ SeededStatus[id] \in Done)
               PROVE  FALSE
    BY DEF DoneTicketsAreDated
  <2>1. PICK a \in Customers :
          tickets = [i \in TicketIds |->
                       IF i \in Seeded
                       THEN [account |-> a, status |-> SeededStatus[i], resolvedAt |-> FALSE,
                             by |-> NoSession]
                       ELSE NoRow]
    BY DEF Init
  <2>2. tickets[id].status = IF id \in Seeded THEN SeededStatus[id] ELSE NoStatus
    BY <2>1 DEF NoRow
  <2> QED BY <2>2, DeskAssumption
<1>2. ASSUME Inv, DoneTicketsAreDated, [Next]_vars  PROVE DoneTicketsAreDated'
  <2>1. TypeOK
    BY <1>2 DEF Inv
  <2>2. CASE tickets' = tickets
    BY <1>2, <2>2 DEF DoneTicketsAreDated
  <2>3. CASE CommitsLate
    BY <1>2, <2>1, <2>3, DatedStep DEF CommitsLate
  <2>4. ASSUME NEW s \in Sessions, Commits(s)  PROVE DoneTicketsAreDated'
    BY <1>2, <2>1, <2>4, DatedStep DEF Commits
  <2>5. ASSUME NEW s \in Sessions, Rests \/ ToolCall(s) \/ Moves(s) \/ Ends(s)
        PROVE  tickets' = tickets
    BY <2>5 DEF Rests, ToolCall, Moves, Ends, tableVars
  <2>6. Rests => tickets' = tickets
    BY DEF Rests
  <2> QED BY <1>2, <2>2, <2>3, <2>4, <2>5, <2>6, StepKinds
<1> QED BY <1>1, <1>2, InvHolds, PTL DEF Spec

\* A number and its forms are of one line, and a customer on that line is found.
LEMMA CandidatesOfOneLine ==
  ASSUME NEW number \in Numbers
  PROVE  /\ \A candidate \in Candidates(number) :
              candidate \in Numbers /\ candidate.line = number.line
         /\ \A a \in Customers :
              PhoneOf[a].line = number.line <=> PhoneOf[a] \in Candidates(number)
<1>1. \A candidate \in Candidates(number) :
        candidate \in Numbers /\ candidate.line = number.line
  BY DEF Numbers, Candidates, Form, Forms
<1>2. ASSUME NEW a \in Customers, PhoneOf[a].line = number.line
      PROVE  PhoneOf[a] = Form(number, "e164")
  BY <1>2, DeskAssumption DEF Numbers, Form, Forms
<1> QED BY <1>1, <1>2 DEF Candidates

\* A lookup by the caller's own number finds who has that line, or that nobody has it.
THEOREM OwnNumberFound == Spec => []OwnNumberIsFound
<1>1. Init => OwnNumberIsFound
  BY AnswerType DEF Init, OwnNumberIsFound
<1>2. ASSUME Inv, OwnNumberIsFound, [Next]_vars  PROVE OwnNumberIsFound'
  <2>1. TypeOK
    BY <1>2 DEF Inv
  <2> SUFFICES ASSUME NEW t \in Sessions
               PROVE  /\ answer'[t].kind = "found" =>
                           PhoneOf[answer'[t].account].line = CallerNumber[t].line
                      /\ answer'[t].kind = "stranger" =>
                           \A a \in Customers : PhoneOf[a].line # CallerNumber[t].line
    BY DEF OwnNumberIsFound
  <2>2. CASE Ends(t) /\ answer'[t].kind \in {"found", "stranger"}
    <3>1. PICK reply \in Answer :
            /\ answer'[t] = reply
            /\ reply.kind # "none" =>
                 /\ CallerNumber[t] \in Numbers
                 /\ \E number \in Candidates(CallerNumber[t]) :
                      IF reply.kind = "found" THEN reply.account \in CustomersAt(number)
                                              ELSE CustomersAt(number) = {}
      BY <2>1, <2>2 DEF Ends, Stops, Reply, TypeOK
    <3>2. PICK number \in Candidates(CallerNumber[t]) :
            IF reply.kind = "found" THEN reply.account \in CustomersAt(number)
                                    ELSE CustomersAt(number) = {}
      BY <2>2, <3>1
    <3>3. number \in Numbers /\ number.line = CallerNumber[t].line
      BY <2>2, <3>1, CandidatesOfOneLine
    <3>4. CustomersAt(number) = {a \in Customers : PhoneOf[a].line = CallerNumber[t].line}
      BY <3>3, CandidatesOfOneLine DEF CustomersAt
    <3> QED BY <3>1, <3>2, <3>4
  <2>3. CASE answer'[t] = answer[t]
    BY <1>2, <2>3 DEF OwnNumberIsFound
  <2>4. CASE answer'[t] = NoAnswer \/ answer'[t].kind = "none"
    BY <2>4, AnswerType
  <2>5. CASE Commits(t) /\ answer'[t] = Told(job[t].tx)
    BY <2>5, ToldType DEF Commits, Lawful
  <2> QED BY <1>2, <2>2, <2>3, <2>4, <2>5, NewAnswer
<1> QED BY <1>1, <1>2, InvHolds, PTL DEF Spec
================================================================================
