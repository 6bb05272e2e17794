---------------------------- MODULE LoopsCampaigns ----------------------------
(***************************************************************************)
(* Loops campaigns: list them, fetch the content of those that are due,    *)
(* and have the AI choose from the sent ones what may be published, once.  *)
(* The assets run one after the other, each reading and writing            *)
(* loops.campaigns.                                                        *)
(***************************************************************************)
EXTENDS Naturals, FiniteSets

CONSTANTS
    Campaigns,
    Drafts,         \* versions of a text, 1 .. n; 0 is the empty string
    BatchLimit,     \* DEBUG_AI_ANALYSIS_LIMIT
    BatchSize,      \* AI_BATCH_SIZE
    MaxFaults

VARIABLES
    api,            \* campaign -> [status, text] at Loops
    table,          \* campaign -> [status, text]; "absent", or "" before the first fetch
    fresh,          \* campaigns whose content_last_fetched_at is recent enough
    analysed,       \* campaign -> version the AI answered for, 0 for none
    pc,             \* "idle", "fetch", "text", "due", "ai" or "store"
    todo,           \* campaigns to fetch, then to analyse
    current,        \* {} or the campaign at hand with the status read
    records,        \* what the running asset will store
    faults

vars == <<api, table, fresh, analysed, pc, todo, current, records, faults>>

Unsent == {"Draft", "Scheduled"}

Init ==
    /\ api = [c \in Campaigns |-> [status |-> "Draft", text |-> 1]]
    /\ table = [c \in Campaigns |-> [status |-> "absent", text |-> 0]]
    /\ fresh = {} /\ analysed = [c \in Campaigns |-> 0]
    /\ pc = "idle" /\ todo = {} /\ current = {} /\ records = {} /\ faults = 0

-----------------------------------------------------------------------------
(* People at Loops: a sent campaign does not change any more.              *)

Write(c) ==
    /\ api[c].status \in Unsent
    /\ \E t \in Drafts : t > api[c].text /\ api' = [api EXCEPT ![c].text = t]
    /\ UNCHANGED <<table, fresh, analysed, pc, todo, current, records, faults>>

SendOut(c) ==
    /\ api[c].status \in Unsent
    /\ api' = [api EXCEPT ![c].status = "Sent"]
    /\ UNCHANGED <<table, fresh, analysed, pc, todo, current, records, faults>>

(* Six hours for what is not sent, a day to 90 days for what is.           *)
Elapse(c) ==
    /\ c \in fresh /\ fresh' = fresh \ {c}
    /\ UNCHANGED <<api, table, analysed, pc, todo, current, records, faults>>

-----------------------------------------------------------------------------

(* loops_campaigns_to_warehouse adds what is new and touches no content;   *)
(* then loops_campaigns_needing_content_fetch.                             *)
Begin ==
    /\ pc = "idle"
    /\ table' = [c \in Campaigns |-> IF table[c].status = "absent"
                                     THEN [status |-> "", text |-> 0] ELSE table[c]]
    /\ todo' = Campaigns \ fresh
    /\ pc' = "fetch" /\ current' = {} /\ records' = {}
    /\ UNCHANGED <<api, fresh, analysed, faults>>

StatusFirst(c) == [id |-> c, status |-> api[c].status]

(* _resolve_email_message_id_from_campaign                                 *)
ReadStatus ==
    /\ pc = "fetch" /\ current = {}
    /\ \E c \in todo : todo' = todo \ {c} /\ current' = {StatusFirst(c)}
    /\ pc' = "text"
    /\ UNCHANGED <<api, table, fresh, analysed, records, faults>>

Rest(r) == IF "status" \in DOMAIN r
           THEN [id |-> r.id, status |-> r.status, text |-> api[r.id].text]
           ELSE [id |-> r.id, status |-> api[r.id].status, text |-> r.text]

(* _fetch_email_message_by_id and _fetch_email_html: without HTML the      *)
(* record has the empty string, with another error there is none.          *)
ReadText ==
    /\ pc = "text"
    /\ \E r \in current :
           \/ records' = records \cup {Rest(r)} /\ faults' = faults
           \/ /\ faults < MaxFaults /\ faults' = faults + 1
              /\ records' \in {records, records \cup {[Rest(r) EXCEPT !.text = 0]}}
    /\ pc' = "fetch" /\ current' = {}
    /\ UNCHANGED <<api, table, fresh, analysed, todo>>

Of(c) == CHOOSE r \in records : r.id = c
Recorded == {r.id : r \in records}

(* loops_campaign_contents_to_warehouse                                    *)
StoreContents ==
    /\ pc = "fetch" /\ todo = {}
    /\ table' = [c \in Campaigns |->
                   IF c \in Recorded
                   THEN [status |-> Of(c).status, text |-> Of(c).text]
                   ELSE table[c]]
    /\ fresh' = fresh \cup Recorded
    /\ pc' = "due" /\ records' = {}
    /\ UNCHANGED <<api, analysed, todo, current, faults>>

(* loops_campaigns_needing_publishable_content_analysis                    *)
Due ==
    LET due == {c \in Campaigns :
                  table[c].status = "Sent" /\ table[c].text # 0 /\ analysed[c] = 0}
    IN  /\ pc = "due" /\ pc' = "ai"
        /\ \E S \in SUBSET due :
              /\ Cardinality(S) <= BatchLimit
              /\ S = due \/ Cardinality(S) = BatchLimit
              /\ todo' = S
        /\ UNCHANGED <<api, table, fresh, analysed, current, records, faults>>

(* _process_campaign_with_ai, which reads the text of the query's result.  *)
Answer(c) == [id |-> c, text |-> table[c].text]

(* loops_campaign_publishable_content: the campaigns of a batch are with   *)
(* the AI together, and those that fail leave no record.                   *)
Analyse ==
    /\ pc = "ai" /\ todo # {}
    /\ \E batch \in SUBSET todo, failed \in SUBSET todo :
           /\ Cardinality(batch) <= BatchSize
           /\ batch = todo \/ Cardinality(batch) = BatchSize
           /\ failed \subseteq batch /\ faults' = faults + Cardinality(failed)
           /\ faults' <= MaxFaults
           /\ records' = records \cup {Answer(c) : c \in batch \ failed}
           /\ todo' = todo \ batch
    /\ UNCHANGED <<api, table, fresh, analysed, pc, current>>

(* loops_campaign_publishable_content_to_warehouse prepares its rows and   *)
(* upserts them, in batches that are committed together.                   *)
PrepareAnalysis ==
    /\ pc = "ai" /\ todo = {} /\ pc' = "store"
    /\ UNCHANGED <<api, table, fresh, analysed, todo, current, records, faults>>

StoreAnalysis ==
    /\ pc = "store" /\ pc' = "idle" /\ records' = {}
    /\ analysed' = [c \in Campaigns |-> IF c \in Recorded THEN Of(c).text
                                                          ELSE analysed[c]]
    /\ UNCHANGED <<api, table, fresh, todo, current, faults>>

FailRun ==
    /\ pc # "idle" /\ faults < MaxFaults /\ faults' = faults + 1
    /\ pc' = "idle" /\ todo' = {} /\ current' = {} /\ records' = {}
    /\ UNCHANGED <<api, table, fresh, analysed>>

Run ==
    \/ Begin \/ ReadStatus \/ ReadText \/ StoreContents \/ Due \/ Analyse
    \/ PrepareAnalysis \/ StoreAnalysis

Next == Run \/ FailRun \/ \E c \in Campaigns : Write(c) \/ SendOut(c) \/ Elapse(c)

Spec == Init /\ [][Next]_vars /\ WF_vars(Run) /\ \A c \in Campaigns : WF_vars(Elapse(c))

-----------------------------------------------------------------------------

TypeOK ==
    /\ \A c \in Campaigns : /\ api[c].status \in Unsent \cup {"Sent"} /\ api[c].text \in Drafts
                            /\ table[c].status \in Unsent \cup {"Sent", "absent", ""}
                            /\ {table[c].text, analysed[c]} \subseteq Drafts \cup {0}
    /\ fresh \subseteq Campaigns /\ todo \subseteq Campaigns /\ Cardinality(current) <= 1
    /\ pc \in {"idle", "fetch", "text", "due", "ai", "store"} /\ faults \in 0 .. MaxFaults

(* What is offered for publication is the text that was sent, never a      *)
(* draft that was still being written when it was fetched.                 *)
NoDraftPublished ==
    \A c \in Campaigns : analysed[c] # 0 => api[c].status = "Sent" /\ analysed[c] = api[c].text

(* Every sent campaign is analysed some day.                               *)
SentIsAnalysed == \A c \in Campaigns : api[c].status = "Sent" ~> analysed[c] # 0
=============================================================================
