------------------------------ MODULE McpSessions -----------------------------
(* Signing in to warehouse-mcp.  A client's request waits as a pending       *)
(* session, the person at the login form turns it into a code, the client    *)
(* turns the code into a token that carries the person's name.  Sessions and *)
(* codes live in memory, several requests are under way at once, and a       *)
(* restart loses them; a token holds as long as AUTH_TOKEN does.             *)
EXTENDS Naturals, Sequences

CONSTANTS
    Clients,        \* registered clients
    People,         \* who signs in
    SessionTtl, CodeTtl,
    MaxRequests,    \* bound: sign-ins begun
    MaxClock        \* bound: the clock

VARIABLES
    now,
    requests,       \* history: the client of each sign-in, and when it began
    pending,        \* _pending_auth: the sign-ins at the login form, and since when
    codes,          \* _oauth_codes: the sign-ins with a code, since when and whose
    granted         \* history: the tokens given out

vars == <<now, requests, pending, codes, granted>>

Empty == [r \in {} |-> 0]
Without(f, r) == [x \in DOMAIN f \ {r} |-> f[x]]
With(f, r, v) == [x \in DOMAIN f \cup {r} |-> IF x = r THEN v ELSE f[x]]

TypeOK ==
    /\ now \in 0 .. MaxClock /\ Len(requests) <= MaxRequests
    /\ DOMAIN pending \cup DOMAIN codes \subseteq DOMAIN requests
    /\ DOMAIN pending \cap DOMAIN codes = {}
    /\ \A r \in DOMAIN codes : codes[r] \in [at : 0 .. now, who : People]
    /\ \A i \in DOMAIN granted :
           granted[i] \in [request : DOMAIN requests, client : Clients,
                           who : People, at : 0 .. now]

Init ==
    /\ now = 0 /\ requests = <<>> /\ granted = <<>>
    /\ pending = Empty /\ codes = Empty

Tick ==
    /\ now < MaxClock /\ now' = now + 1
    /\ UNCHANGED <<requests, pending, codes, granted>>

(* GET /authorize: the login form.                                           *)
Authorize(client) ==
    /\ Len(requests) < MaxRequests
    /\ requests' = Append(requests, [client |-> client, at |-> now])
    /\ pending' = With(pending, Len(requests'), now)
    /\ UNCHANGED <<now, codes, granted>>

SessionExpired(r) == now > pending[r] + SessionTtl

(* POST /authorize with the right token.                                     *)
Complete(r, person) ==
    /\ r \in DOMAIN pending
    /\ pending' = Without(pending, r)
    /\ codes' = IF SessionExpired(r) THEN codes
                ELSE With(codes, r, [at |-> now, who |-> person])
    /\ UNCHANGED <<now, requests, granted>>

(* ... with a wrong one: the session goes back, as old as it was.            *)
Mistype(r) ==
    /\ r \in DOMAIN pending
    /\ pending' = IF SessionExpired(r) THEN Without(pending, r) ELSE pending
    /\ UNCHANGED <<now, requests, codes, granted>>

ExchangeKeeping(r, client) ==
    /\ r \in DOMAIN codes
    /\ ~ (now > codes[r].at + CodeTtl \/ requests[r].client # client)
    /\ Len(granted) < MaxRequests
    /\ granted' = Append(granted, [request |-> r, client |-> client,
                                   who |-> codes[r].who, at |-> now])
    /\ UNCHANGED <<now, requests, pending, codes>>

(* POST /token: the code is spent whatever comes of it.                      *)
Exchange(r, client) ==
    /\ r \in DOMAIN codes
    /\ codes' = Without(codes, r)
    /\ granted' = IF now > codes[r].at + CodeTtl \/ requests[r].client # client
                  THEN granted
                  ELSE Append(granted, [request |-> r, client |-> client,
                                        who |-> codes[r].who, at |-> now])
    /\ UNCHANGED <<now, requests, pending>>

Restart ==
    /\ pending' = Empty /\ codes' = Empty
    /\ UNCHANGED <<now, requests, granted>>

Next ==
    \/ Tick \/ Restart
    \/ \E client \in Clients : Authorize(client)
    \/ \E r \in DOMAIN requests :
          \/ Mistype(r)
          \/ \E person \in People : Complete(r, person)
          \/ \E client \in Clients : Exchange(r, client)

Spec == Init /\ [][Next]_vars

-----------------------------------------------------------------------------
(* A sign-in ends in at most one token.                                      *)
OneToken ==
    \A i \in DOMAIN granted, j \in DOMAIN granted :
        granted[i].request = granted[j].request => i = j

(* It goes to the client that asked, while that client may still be waiting: *)
(* no number of attempts at the form and no restart makes a sign-in last.    *)
TokenInTime ==
    \A i \in DOMAIN granted :
        LET asked == requests[granted[i].request]
        IN  /\ granted[i].client = asked.client
            /\ granted[i].at <= asked.at + SessionTtl + CodeTtl
=============================================================================
