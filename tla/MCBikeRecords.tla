---------------------------- MODULE MCBikeRecords -----------------------------
(* Small instances of BikeRecords and McpTools for TLC.  The tables share   *)
(* no row and no statement, so a history is about one of them; tool calls   *)
(* reach two of them, and those histories are of two rows without texts.    *)
EXTENDS McpTools, TLC

VARIABLE about

Symmetry ==
    Permutations(Rows) \union Permutations(Texts) \union Permutations(Keys)
    \union Permutations(Requests)

Histories ==
    {[table |-> t, called |-> FALSE] : t \in Tables}
    \union {[table |-> t, called |-> TRUE] : t \in {"issue", "expense"}}

Reached(table) ==
    IF table = "issue" THEN {"none", "list_issues", "create_issue", "update_issue_status"}
    ELSE {"none", "list_expenses", "add_expense", "unknown"}

MCInit == McpInit /\ about \in Histories

MCNext ==
    /\ UNCHANGED about
    /\ McpNext
    /\ ~about.called => UNCHANGED mcpVars
    /\ \A r \in Requests : req'[r].table \in {"none", about.table}
    /\ about.called =>
          /\ \A r \in Requests : calls'[r].tool \in Reached(about.table)
          /\ Cardinality({w \in Rows : rows'[w] # NoRow}) <= 2
          /\ \A w \in Rows : rows'[w].text = None

MCSpec == MCInit /\ [][MCNext]_<<vars, mcpVars, about>>
=============================================================================
