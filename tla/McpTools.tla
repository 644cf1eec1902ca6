------------------------------- MODULE McpTools -------------------------------
(***************************************************************************)
(* The MCP server: an AI client calls tools with a personal API token, and *)
(* the tools call the handlers the apps use.  One call is one HTTP request *)
(* through the gate `call_tool`, which compares the token's scope with the *)
(* tool's annotation, runs the tool and writes a row of mcpAuditLog.       *)
(*                                                                         *)
(* The handlers are those of BikeRecords, with the apps' own requests      *)
(* running beside them; the tools that reach its tables are modelled.      *)
(***************************************************************************)
EXTENDS BikeRecords

CONSTANT MaxAudit    \* bound: no call starts when the log has this many different rows

ASSUME MaxAuditAssumption == MaxAudit \in Nat

VARIABLES
    calls,       \* tool calls in flight, each in the handler slot of its name
    audit,       \* mcpAuditLog: what it says of each call, equal rows being one
    owed         \* ghost: rows that tool calls inserted and no audit row tells of

mcpVars == <<calls, audit, owed>>

ReadTools == {"list_issues", "list_expenses"}
WriteTools == {"create_issue", "update_issue_status", "add_expense"}

Scopes == {"read", "write"}

NoCall == [pc |-> "none", tool |-> "none", scope |-> "none", key |-> None,
           row |-> None, outcome |-> "none"]

McpInit ==
    /\ Init
    /\ calls = [r \in Requests |-> NoCall]
    /\ audit = {}
    /\ owed = {}

---------------------------------------------------------------------------
(* The gate.                                                                *)

Answered(r, outcome, row) ==
    calls' = [calls EXCEPT ![r].pc = "audit", ![r].outcome = outcome, ![r].row = row]

(* A tool without an annotation would count as one that writes.             *)
IsReadOnly(tool) == tool \in ReadTools

(* A live token was authenticated: the principal is a copy with its scope,  *)
(* and the gate looks at nothing that others change.                        *)
CallTool(r, tool, scope) ==
    LET c == [NoCall EXCEPT !.tool = tool, !.scope = scope]
        answered(outcome) == [c EXCEPT !.pc = "audit", !.outcome = outcome] IN
    /\ calls[r] = NoCall /\ req[r].pc = "idle"
    /\ Cardinality(audit) < MaxAudit
    /\ calls' = [calls EXCEPT ![r] =
          IF tool \notin ReadTools \union WriteTools THEN answered("error")
          ELSE IF ~IsReadOnly(tool) /\ scope # "write" THEN answered("denied")
          ELSE [c EXCEPT !.pc = "tool"]]
    /\ UNCHANGED <<vars, audit, owed>>

Runs(r, tool) == calls[r].pc = "tool" /\ calls[r].tool = tool

(* validate.rs or the handler refuses the arguments, or a statement fails.  *)
ToolFails(r) ==
    /\ calls[r].pc = "tool"
    /\ Answered(r, "error", None)
    /\ req' = [req EXCEPT ![r] = Idle]
    /\ UNCHANGED <<rows, outdated, audit, owed>>

Told(log) == {e.row : e \in log}

(* Mutant: only calls that succeeded or were denied are written down.       *)
AuditWithoutErrors(r) ==
    /\ calls[r].pc = "audit"
    /\ audit' = IF calls[r].outcome = "error" THEN audit
                ELSE audit \union {[calls[r] EXCEPT !.pc = "none"]}
    /\ owed' = owed \ Told(audit')
    /\ calls' = [calls EXCEPT ![r] = NoCall]
    /\ UNCHANGED vars

Audit(r) ==
    /\ calls[r].pc = "audit"
    /\ audit' = audit \union {[calls[r] EXCEPT !.pc = "none"]}
    /\ owed' = owed \ Told(audit')
    /\ calls' = [calls EXCEPT ![r] = NoCall]
    /\ UNCHANGED vars

(* The process stops, the call is dropped or the audit row cannot be        *)
(* written, which is only logged: nobody owes one then.                     *)
CutOff(r) ==
    /\ calls[r] # NoCall
    /\ owed' = owed \ {calls[r].row}
    /\ calls' = [calls EXCEPT ![r] = NoCall]
    /\ req' = [req EXCEPT ![r] = Idle]
    /\ UNCHANGED <<rows, outdated, audit>>

---------------------------------------------------------------------------
(* The tools.                                                               *)

ListIssues(r) ==
    /\ Runs(r, "list_issues")
    /\ Answered(r, "ok", None)
    /\ UNCHANGED <<vars, audit, owed>>
ListExpenses(r) ==
    /\ Runs(r, "list_expenses")
    /\ Answered(r, "ok", None)
    /\ UNCHANGED <<vars, audit, owed>>

(* The statement that inserts may be refused by the unique index; the one   *)
(* that reads the new row back may fail as well.                            *)
Inserts(r, text) ==
    \E w \in Rows, outcome \in {"ok", "error"} :
       /\ Insert(r, w, text, None)
       /\ IF KeyIsFree(req[r])
          THEN owed' = owed \union {w} /\ Answered(r, outcome, w)
          ELSE UNCHANGED owed /\ Answered(r, "error", None)
       /\ UNCHANGED audit

(* The idempotency key becomes the clientId; no markup is ever sent.        *)
CreateIssueFor(r, k) ==
    /\ Runs(r, "create_issue")
    /\ \/ \E w \in Of("issue") :
             /\ req[r].pc = "idle"
             /\ k # None /\ rows[w].key = k
             /\ calls' = [calls EXCEPT ![r].pc = "audit", ![r].outcome = "ok",
                                      ![r].row = w, ![r].key = k]
             /\ UNCHANGED <<vars, audit, owed>>
       \/ /\ IF k = None THEN WithoutKey(r, "issue") ELSE LookUpKey(r, "issue", k)
          /\ calls' = [calls EXCEPT ![r].key = k]
          /\ UNCHANGED <<audit, owed>>

CreateIssue(r, text) == Runs(r, "create_issue") /\ Inserts(r, text)

(* The body carries a status only: text and markup are written back as read.*)
UpdateIssueStatus(r) ==
    /\ Runs(r, "update_issue_status")
    /\ \/ /\ \E w \in Of("issue") : ReadRow(r, w)
          /\ UNCHANGED mcpVars
       \/ /\ Write(r, "issue", req[r].text, FALSE, None)
          /\ Answered(r, "ok", None)
          /\ UNCHANGED <<audit, owed>>

AddExpense(r, text) ==
    /\ Runs(r, "add_expense")
    /\ \/ WithoutKey(r, "expense") /\ UNCHANGED mcpVars
       \/ Inserts(r, text)

---------------------------------------------------------------------------
Tool(r) ==
    \/ ListIssues(r) \/ ListExpenses(r) \/ UpdateIssueStatus(r)
    \/ \E k \in Keys \union {None} : CreateIssueFor(r, k)
    \/ \E text \in Texts \union {None} : CreateIssue(r, text) \/ AddExpense(r, text)

Call(r) ==
    \/ \E tool \in ReadTools \union WriteTools \union {"unknown"}, scope \in Scopes :
          CallTool(r, tool, scope)
    \/ Tool(r) \/ ToolFails(r) \/ Audit(r) \/ CutOff(r)

(* The apps' own requests.                                                  *)
AppRequest(r) ==
    /\ calls[r] = NoCall
    /\ Create(r) \/ Update(r) \/ Reorder(r) \/ HangUp(r)
    /\ UNCHANGED mcpVars

McpNext ==
    \/ \E r \in Requests : Call(r) \/ AppRequest(r)
    \/ \E w \in Rows : (SoftDelete(w) \/ HardDelete(w)) /\ UNCHANGED mcpVars

McpSpec == McpInit /\ [][McpNext]_<<vars, mcpVars>>

---------------------------------------------------------------------------
(* Properties.                                                              *)

(* An idempotency key names one row: every call that was told its issue was *)
(* created got the same one, however often and however close together an AI *)
(* client repeats it, after errors and cut-off calls, beside the apps.      *)
RetriesAgree ==
    \A a, b \in audit :
       /\ {a.tool, b.tool} = {"create_issue"}
       /\ {a.outcome, b.outcome} = {"ok"}
       /\ a.key = b.key /\ a.key # None
       => a.row = b.row

(* Whatever a tool call inserted is in the audit log, or the call that will *)
(* write it there is still in flight: one that may write, even when it      *)
(* answers with an error.  Only a call that is cut off leaves a row without.*)
WritesAreAudited ==
    \A w \in owed : \E r \in Requests : calls[r].row = w /\ calls[r].scope = "write"
=============================================================================
