--------------------------- MODULE WizardSession ---------------------------
(* Dashbored's wizard: a session on the server that holds the states of    *)
(* several wizards, read when a request comes in and written back when it  *)
(* is answered if it was modified, with no lock between.  Of a session it  *)
(* keeps what handlers decide by or others may overwrite.                  *)
EXTENDS Naturals, Sequences, FiniteSets

CONSTANTS
    Requests,   \* worker threads
    Wids,       \* ids of wizards
    Sources,    \* databases and bases to introspect
    MaxWizards, \* states a session keeps
    MaxRequests \* requests in all

VARIABLES
    store,    \* the session as the session store has it
    req,      \* the request of each thread: {} or {what it loaded}
    prs,      \* wizards GitHub has a pull request of
    intended, \* had every request worked on the session as it stood
    since,    \* of each wizard written: those written after its last write
    reset,    \* those reset since
    raced,    \* some request wrote back a session changed under it
    count

vars == <<store, req, prs, intended, since, reset, raced, count>>

Fields == {"program", "source", "url", "base", "schema",
           "tables", "sync", "dau", "pr"}
Blank == [f \in Fields |-> ""]
Empty == [user |-> FALSE, token |-> FALSE, flash |-> FALSE, wizards |-> <<>>]

Flash == [flash |-> TRUE]

\* d.update(new)
Over(new, d) ==
    [f \in DOMAIN new \cup DOMAIN d |-> IF f \in DOMAIN new THEN new[f] ELSE d[f]]

WithWid(wizards, w) == {i \in DOMAIN wizards : wizards[i].wid = w}

\* wizard_state(): a read of an unknown wizard sees an empty one.
State(s, w) ==
    IF WithWid(s.wizards, w) = {} THEN Blank
    ELSE s.wizards[CHOOSE i \in WithWid(s.wizards, w) : TRUE].state

Without(wizards, w) ==
    IF WithWid(wizards, w) = {} THEN wizards
    ELSE LET k == CHOOSE i \in WithWid(wizards, w) : TRUE
         IN  [i \in 1 .. Len(wizards) - 1 |->
                 IF i < k THEN wizards[i] ELSE wizards[i + 1]]

\* save_wizard: the wizard goes to the end and those before the last
\* MaxWizards are evicted.
Saved(s, w, f) ==
    LET all == Append(Without(s.wizards, w),
                      [wid |-> w, state |-> Over(f, State(s, w))])
        stale == IF Len(all) > MaxWizards THEN Len(all) - MaxWizards ELSE 0
    IN  [s EXCEPT !.wizards = [i \in 1 .. Len(all) - stale |-> all[i + stale]]]

TypeOK ==
    /\ \A s \in {store, intended} :
        /\ {s.user, s.token, s.flash} \subseteq BOOLEAN
        /\ Len(s.wizards) <= MaxWizards
        /\ \A i \in DOMAIN s.wizards :
            WithWid(s.wizards, s.wizards[i].wid) = {i}
    /\ \A r \in Requests : \A q \in req[r] : q.wid \in Wids
    /\ prs \subseteq Wids /\ reset \subseteq Wids
    /\ DOMAIN since \subseteq Wids
    /\ \A w \in DOMAIN since : since[w] \subseteq DOMAIN since \ {w}
    /\ raced \in BOOLEAN /\ count \in 0 .. MaxRequests

Init ==
    /\ store = Empty /\ intended = Empty
    /\ req = [r \in Requests |-> {}]
    /\ prs = {} /\ since = <<>> /\ reset = {}
    /\ raced = FALSE /\ count = 0

-----------------------------------------------------------------------------
(* A request is taken up: the session is loaded, and require_auth lets it  *)
(* pass.  When the membership of a gap-years user was due for another      *)
(* look, the answer is put into the session, which counts as a change.     *)
Load(r, w) ==
    /\ req[r] = {} /\ store.user /\ count < MaxRequests
    /\ \E again \in BOOLEAN :
        req' = [req EXCEPT ![r] =
            {[wid |-> w, session |-> store, modified |-> again, stale |-> FALSE]}]
    /\ count' = count + 1
    /\ UNCHANGED <<store, prs, intended, since, reset, raced>>

\* Whether the session is written back: SESSION_REFRESH_EACH_REQUEST is off.
MustSave(q) == q.modified

\* The sessions a request changes: its own, and the one it should have had.
Around(q) == {q.session, intended}

\* The answer to request q, which makes of a session s change[s].
Answer(r, q, change) ==
    /\ store' = IF MustSave(q) THEN change[q.session] ELSE store
    /\ req' = [x \in Requests |->
        IF x = r THEN {}
        ELSE {[p EXCEPT !.stale = @ \/ MustSave(q)] : p \in req[x]}]
    /\ intended' = IF q.modified THEN change[intended] ELSE intended
    /\ raced' = (raced \/ (q.modified /\ q.stale))
    /\ UNCHANGED count

\* An answer that saves the fields f of its wizard and the keys of more.
Save(r, q, f, more) ==
    /\ Answer(r, [q EXCEPT !.modified = TRUE],
              [s \in Around(q) |-> Over(more, Saved(s, q.wid, f))])
    /\ since' = [w \in DOMAIN since \cup {q.wid} |->
                    IF w = q.wid THEN {} ELSE since[w] \cup {q.wid}]
    /\ reset' = reset \ {q.wid}

\* An answer that touches no wizard.
Put(r, q, more) ==
    /\ Answer(r, [q EXCEPT !.modified = @ \/ more # <<>>],
              [s \in Around(q) |-> Over(more, s)])
    /\ UNCHANGED <<since, reset, prs>>

(* A redirect, or a page: showing what was flashed takes it out of the     *)
(* session, so that even a read writes the session it loaded back.         *)
Read(r) ==
    \E q \in req[r] :
        \/ Put(r, q, <<>>)
        \/ q.session.flash /\ Put(r, q, [flash |-> FALSE])

(* Forms that cannot be used, links to a wizard that is gone, what the     *)
(* generator, sops or GitHub refuse: nothing but the message is kept.      *)
Refuse(r) == \E q \in req[r] : Put(r, q, Flash)

(* /introspect: what was entered is saved before the database is dialled,  *)
(* so a failure leaves an earlier schema beside the new URL.               *)
Introspect(r) ==
    \E q \in req[r], u \in Sources :
        LET postgres == [program |-> "p", source |-> "postgres"]
            dialled == Over([url |-> u], postgres)
        IN  /\ UNCHANGED prs
            /\ \/ Save(r, q, [postgres EXCEPT !.source = "airtable"], <<>>)
               \/ Save(r, q, postgres, Flash)
               \/ Save(r, q, dialled, Flash)
               \/ Save(r, q, Over([schema |-> u], dialled), <<>>)

\* refresh_airtable_token: a new token in the session, or None.
RefreshAirtableToken == {[token |-> TRUE], <<>>}
Dropped == [flash |-> TRUE, token |-> FALSE]

(* GET /airtable-bases: a token that Airtable refuses is refreshed, and    *)
(* dropped when it cannot be or the new one is refused too.                *)
Bases(r) ==
    \E q \in req[r], new \in RefreshAirtableToken :
        /\ q.session.token
        /\ \/ new # <<>> /\ Put(r, q, new)
           \/ Put(r, q, Dropped)

(* POST /airtable-bases: the base is saved, and its schema if the token or *)
(* the refreshed one can read it; a refreshed one that cannot is kept.     *)
PickBase(r) ==
    \E q \in req[r], b \in Sources, new \in RefreshAirtableToken :
        /\ \/ q.session.token /\ Save(r, q, [base |-> b, schema |-> b], <<>>)
           \/ new # <<>> /\ Save(r, q, [base |-> b, schema |-> b], new)
           \/ new # <<>> /\ Save(r, q, [base |-> b], Over(Flash, new))
           \/ new = <<>> /\ Save(r, q, [base |-> b], Dropped)
        /\ UNCHANGED prs

(* The forms of the later pages save what they were given. *)
Submit(r) ==
    \E q \in req[r], f \in {"tables", "sync", "dau"} :
        /\ Save(r, q, [g \in {f} |-> "x"], <<>>)
        /\ UNCHANGED prs

\* create_pr has what it needs: a program, and a URL to encrypt.
Ready(q) ==
    LET ws == State(q.session, q.wid)
    IN  ws.program # "" /\ (ws.source = "airtable" \/ ws.url # "")

(* /pr: GitHub opens the pull request, then the session forgets the        *)
(* connection URL and the tokens.                                          *)
CreatePr(r) ==
    \E q \in req[r] :
        /\ Ready(q)
        /\ prs' = prs \cup {q.wid}
        /\ Save(r, q, [url |-> "", pr |-> "x"], [token |-> FALSE])

(* /reset marks the session as modified though the wizard was unknown.     *)
Reset(r) ==
    \E q \in req[r] :
        /\ Answer(r, [q EXCEPT !.modified = TRUE],
                  [s \in Around(q) |-> [s EXCEPT !.wizards = Without(@, q.wid)]])
        /\ reset' = reset \cup {q.wid}
        /\ UNCHANGED <<since, prs>>

(* Membership was found to be revoked: the session is cleared. *)
Revoke(r) ==
    \E q \in req[r] :
        /\ q.modified
        /\ Answer(r, q, [s \in Around(q) |-> Over(Flash, Empty)])
        /\ since' = <<>> /\ reset' = {}
        /\ UNCHANGED prs

(* The worker is killed while it waits for GitHub: the pull request may be *)
(* there, the session does not know.                                       *)
Die(r) ==
    \E q \in req[r] :
        /\ req' = [req EXCEPT ![r] = {}]
        /\ prs' \in {prs} \cup (IF Ready(q) THEN {prs \cup {q.wid}} ELSE {})
        /\ UNCHANGED <<store, intended, since, reset, raced, count>>

(* Signing in, connecting Airtable and signing out are over at once.       *)
Access(user, token) ==
    /\ LET Change(s) ==
               IF user THEN [s EXCEPT !.user = TRUE, !.token = token] ELSE Over(Flash, Empty)
       IN  store' = Change(store) /\ intended' = Change(intended)
    /\ count < MaxRequests
    /\ req' = [r \in Requests |-> {[q EXCEPT !.stale = TRUE] : q \in req[r]}]
    /\ since' = (IF user THEN since ELSE <<>>)
    /\ reset' = (IF user THEN reset ELSE {})
    /\ count' = count + 1
    /\ UNCHANGED <<prs, raced>>

Login == ~store.user /\ Access(TRUE, FALSE)
AirtableCallback == store.user /\ Access(TRUE, TRUE)
Logout == store.user /\ Access(FALSE, FALSE)

Next ==
    \/ \E r \in Requests :
        \/ \E w \in Wids : Load(r, w)
        \/ Read(r) \/ Refuse(r) \/ Introspect(r) \/ Bases(r) \/ PickBase(r) \/ Submit(r)
        \/ CreatePr(r) \/ Reset(r) \/ Revoke(r) \/ Die(r)
    \/ Login \/ AirtableCallback \/ Logout

Spec == Init /\ [][Next]_vars

-----------------------------------------------------------------------------
(* A write that was acknowledged stays: unless two requests that modify    *)
(* the session overlap, it is what it would be had they come one by one,   *)
(* however long others only read it meanwhile.                             *)
WritesKept == ~raced => store = intended

(* Of the wizards that were not reset the last MaxWizards written are all  *)
(* in the session: an eviction takes the one that was left alone longest.  *)
RecentKept ==
    ~raced => \A w \in DOMAIN since \ reset :
        Cardinality(since[w]) < MaxWizards => WithWid(store.wizards, w) # {}
=============================================================================
