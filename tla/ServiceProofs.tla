---------------------------- MODULE ServiceProofs ----------------------------
(* AccessKept and RequestsServed of MCAssets: who gets a token, and what   *)
(* the two web services make of the requests they get, for every value of  *)
(* the constants of QuickBooks, warehouse-mcp and Dashbored.               *)
EXTENDS MCAssets, FiniteSetTheorems, SequenceTheorems, TLAPS

(***************************************************************************)
(* Numbers, and the lists they make in their order.                        *)
(***************************************************************************)

\* How many come before i in the list of S.
Rank(S, i) == Cardinality({j \in S : j < i})

LEMMA RankType ==
  ASSUME NEW S \in SUBSET Int, IsFiniteSet(S), NEW i \in S
  PROVE  Rank(S, i) \in 0 .. Cardinality(S) - 1
<1> DEFINE T == {j \in S : j < i}
<1>1. T \in SUBSET S /\ i \notin T
  OBVIOUS
<1>2. IsFiniteSet(T) /\ Cardinality(T) <= Cardinality(S) /\ (Cardinality(S) = Cardinality(T) => S = T)
  BY <1>1, FS_Subset
<1>3. Cardinality(T) \in Nat /\ Cardinality(S) \in Nat
  BY <1>2, FS_CardinalityType
<1>4. QED BY <1>1, <1>2, <1>3 DEF Rank

LEMMA RankGrows ==
  ASSUME NEW S \in SUBSET Int, IsFiniteSet(S), NEW i \in S, NEW j \in S, i < j
  PROVE  Rank(S, i) < Rank(S, j)
<1> DEFINE T == {k \in S : k < i}
           U == {k \in S : k < j}
<1>1. U \in SUBSET S /\ T \in SUBSET U /\ i \in U /\ i \notin T
  <2>1. \A k \in S : k < i => k < j
    OBVIOUS
  <2>2. ~(i < i)
    OBVIOUS
  <2>3. QED BY <2>1, <2>2
<1>2. IsFiniteSet(U)
  BY <1>1, FS_Subset
<1>3. IsFiniteSet(T) /\ Cardinality(T) <= Cardinality(U) /\ (Cardinality(U) = Cardinality(T) => U = T)
  BY <1>1, <1>2, FS_Subset
<1>4. Cardinality(T) \in Nat /\ Cardinality(U) \in Nat
  BY <1>2, <1>3, FS_CardinalityType
<1>5. QED BY <1>1, <1>3, <1>4 DEF Rank

\* Every rank below the length of the list is taken.
LEMMA RankTaken ==
  ASSUME NEW S \in SUBSET Int, IsFiniteSet(S), NEW k \in 0 .. Cardinality(S) - 1
  PROVE  \E i \in S : Rank(S, i) = k
<1> DEFINE T == 0 .. Cardinality(S) - 1
           f == [i \in S |-> Rank(S, i)]
<1>1. Cardinality(S) \in Nat
  BY FS_CardinalityType
<1>2. IsFiniteSet(T) /\ Cardinality(T) = Cardinality(S)
  BY <1>1, FS_Interval
<1>3. f \in Injection(S, T)
  <2>1. f \in [S -> T]
    BY RankType
  <2>2. ASSUME NEW i \in S, NEW j \in S, i # j PROVE f[i] # f[j]
    <3>1. CASE i < j
      <4>1. Rank(S, i) < Rank(S, j) /\ Rank(S, i) \in Int /\ Rank(S, j) \in Int
        BY <3>1, <1>1, RankGrows, RankType
      <4>2. QED BY <4>1
    <3>2. CASE j < i
      <4>1. Rank(S, j) < Rank(S, i) /\ Rank(S, i) \in Int /\ Rank(S, j) \in Int
        BY <3>2, <1>1, RankGrows, RankType
      <4>2. QED BY <4>1
    <3>3. QED BY <2>2, <3>1, <3>2
  <2>3. QED BY <2>1, <2>2 DEF Injection, IsInjective
<1>4. f \in Surjection(S, T)
  BY <1>2, <1>3, FS_Injection
<1>5. QED BY <1>4 DEF Surjection

\* The first of them.
LEMMA FirstExists ==
  ASSUME NEW S \in SUBSET Int, IsFiniteSet(S), S # {}
  PROVE  \E m \in S : \A i \in S : m <= i
<1>1. Cardinality(S) \in Nat /\ Cardinality(S) # 0
  BY FS_CardinalityType, FS_EmptySet
<1>2. PICK m \in S : Rank(S, m) = 0
  BY <1>1, RankTaken
<1>3. ASSUME NEW i \in S, ~(m <= i) PROVE FALSE
  <2>1. i < m
    BY <1>3
  <2>2. Rank(S, i) < 0 /\ Rank(S, i) \in 0 .. Cardinality(S) - 1
    BY <1>2, <2>1, RankGrows, RankType
  <2>3. QED BY <1>1, <2>2
<1>4. QED BY <1>3

(***************************************************************************)
(* QuickBooks: the TokenManager and the threads that share it.             *)
(***************************************************************************)

Threads == BookEntities \cup {BookMain}
Places == {"idle", "syncing", "ask", "refused", "refresh", "persist", "again", "done", "failed"}

BooksTyped ==
    /\ booksPc \in [Threads -> Places]
    /\ booksHeld \in [BookEntities -> Nat]
    /\ issued \in Nat /\ access \in Nat /\ access <= issued
    /\ \A e \in BookEntities : booksHeld[e] <= issued
    /\ excused \in Int

\* The lock of the TokenManager covers the POST and the INSERT.
OneHolder == \A t \in Threads : booksPc[t] \in {"refresh", "persist"} => holder = t

\* The entities are at work only between the first refresh and the sweep.
MainFirst == booksPc[BookMain] # "syncing" => \A e \in BookEntities : booksPc[e] = "idle"

\* Only the newest access token may be valid, and who refreshes has seen it
\* refused, so that it is not: a thread that was refused with an older one
\* finds that access has moved on.
NewestOnly ==
    /\ valid \subseteq {access}
    /\ \A e \in BookEntities : booksPc[e] = "refused" => booksHeld[e] \notin valid
    /\ \A t \in Threads : booksPc[t] = "refresh" => valid = {}

\* Without a valid token there was a start or an expiry no refresh has answered.
Excused ==
    /\ excused >= 0
    /\ booksPc[BookMain] # "idle" /\ valid = {} => excused >= 1

\* What is about to be stored is accepted, and so is what was stored last.
NotLost ==
    /\ \A t \in Threads : booksPc[t] = "persist" => access \in alive
    /\ Books!NotLockedOut

BooksInv == BooksTyped /\ OneHolder /\ MainFirst /\ NewestOnly /\ Excused /\ NotLost


LEMMA BooksStart == Books!Init => BooksInv
<1> SUFFICES ASSUME Books!Init PROVE BooksInv
  OBVIOUS
<1> USE DEF Books!Init, Threads, Books!Threads
<1>1. BooksTyped
  BY DEF BooksTyped, Places
<1>2. OneHolder /\ MainFirst /\ NewestOnly
  BY DEF OneHolder, MainFirst, NewestOnly
<1>3. Excused /\ NotLost
  BY DEF Excused, NotLost, Books!NotLockedOut, Books!Accepted
<1>4. QED BY <1>1, <1>2, <1>3 DEF BooksInv

LEMMA BooksStep == BooksInv /\ [Books!Next]_books => BooksInv'
<1> SUFFICES ASSUME BooksInv, [Books!Next]_books PROVE BooksInv'
  OBVIOUS
<1> USE BooksAssumption DEF Threads, Books!Threads
<1>a. BooksTyped /\ OneHolder /\ MainFirst /\ NewestOnly /\ Excused /\ NotLost
  BY DEF BooksInv
<1> DEFINE Others == UNCHANGED <<alive, valid, booksStored, seed, access, issued, unsaved, excused,
                                 holder, booksPc, booksHeld>>
<1>1. ASSUME NEW e \in BookEntities, NEW i \in BookIds, Books!Remove(e, i) PROVE BooksInv'
  <2>1. Others
    BY <1>1 DEF Books!Remove, Books!tokens, Books!paging
  <2>2. QED BY <1>a, <2>1 DEF BooksInv, BooksTyped, OneHolder, MainFirst, NewestOnly, Excused, NotLost,
                              Books!NotLockedOut, Books!Accepted
<1>2. ASSUME NEW a \in valid, Books!Expire(a) PROVE BooksInv'
  <2> USE <1>2 DEF Books!Expire, Books!data, Books!paging
  <2>1. BooksTyped' /\ OneHolder' /\ MainFirst'
    BY <1>a DEF BooksTyped, OneHolder, MainFirst
  <2>2. NewestOnly'
    BY <1>a DEF NewestOnly
  <2>3. Excused'
    BY <1>a DEF Excused, BooksTyped
  <2>4. NotLost'
    BY <1>a DEF NotLost, Books!NotLockedOut, Books!Accepted
  <2>5. QED BY <2>1, <2>2, <2>3, <2>4 DEF BooksInv
<1>3. CASE Books!Reauthorize
  <2> USE <1>3 DEF Books!Reauthorize, Books!data, Books!paging, Books!Running
  <2>1. BooksTyped' /\ OneHolder' /\ MainFirst' /\ NewestOnly' /\ Excused'
    BY <1>a DEF BooksTyped, OneHolder, MainFirst, NewestOnly, Excused
  <2>2. NotLost'
    BY <1>a DEF NotLost, Books!NotLockedOut, Books!Accepted
  <2>3. QED BY <2>1, <2>2 DEF BooksInv
<1>4. CASE Books!Begin
  <2> USE <1>4 DEF Books!Begin, Books!paging, Books!Running
  <2>1. BooksTyped'
    BY <1>a DEF BooksTyped, Places
  <2>2. \A e \in BookEntities : booksPc[e] = "idle" /\ booksPc'[e] = "idle"
    BY <1>a DEF BooksTyped, MainFirst
  <2>3. OneHolder' /\ MainFirst'
    BY <1>a, <2>2 DEF BooksTyped, OneHolder, MainFirst
  <2>4. NewestOnly' /\ Excused'
    BY <1>a, <2>2 DEF BooksTyped, NewestOnly, Excused
  <2>5. NotLost'
    BY <1>a, <2>2 DEF BooksTyped, NotLost, Books!NotLockedOut, Books!Accepted
  <2>6. QED BY <2>1, <2>3, <2>4, <2>5 DEF BooksInv
<1>5. CASE Books!Finish \/ Books!Crash
  <2>1. /\ booksPc' = [t \in Threads |-> "idle"] /\ booksHeld' = [e \in BookEntities |-> 0]
        /\ UNCHANGED <<alive, valid, booksStored, seed, access, issued, excused>>
        /\ unsaved \/ (\E t \in Threads : booksPc[t] = "persist") => unsaved'
    <3>1. CASE Books!Crash
      BY <3>1 DEF Books!Crash
    <3>2. CASE Books!Finish
      <4>1. \A t \in Threads : booksPc[t] # "persist"
        BY <3>2 DEF Books!Finish
      <4>2. QED BY <3>2, <4>1 DEF Books!Finish, Books!tokens
    <3>3. QED BY <1>5, <3>1, <3>2
  <2>2. BooksTyped' /\ OneHolder' /\ MainFirst'
    BY <1>a, <2>1 DEF BooksTyped, Places, OneHolder, MainFirst
  <2>3. NewestOnly' /\ Excused'
    BY <1>a, <2>1 DEF NewestOnly, Excused
  <2>4. NotLost'
    BY <1>a, <2>1 DEF NotLost, Books!NotLockedOut, Books!Accepted
  <2>5. QED BY <2>2, <2>3, <2>4 DEF BooksInv
<1>6. ASSUME NEW t \in Threads, Books!Refresh(t) PROVE BooksInv'
  <2> USE <1>6 DEF Books!data, Books!paging
  <2>1. /\ booksPc[t] = "refresh" /\ valid = {} /\ booksPc[BookMain] # "idle"
        /\ excused >= 1 /\ booksPc \in [Threads -> Places] /\ holder = t
        /\ \A u \in Threads \ {t} : booksPc[u] \notin {"refresh", "persist"}
    BY <1>a DEF BooksTyped, NewestOnly, MainFirst, Excused, OneHolder, Books!Refresh
  <2>2. CASE Books!Accepted # {}
    <3>1. /\ issued' = issued + 1 /\ issued' \in alive' /\ valid' = {issued'} /\ access' = issued'
          /\ excused' = excused - 1 /\ booksPc' = [booksPc EXCEPT ![t] = "persist"]
          /\ holder' = t /\ booksHeld' = booksHeld
      BY <2>1, <2>2 DEF Books!Refresh
    <3>2. BooksTyped'
      BY <1>a, <2>1, <3>1 DEF BooksTyped, Places
    <3>3. OneHolder' /\ MainFirst'
      BY <1>a, <2>1, <3>1 DEF OneHolder, MainFirst
    <3>4. NewestOnly'
      BY <1>a, <2>1, <3>1 DEF NewestOnly, BooksTyped
    <3>5. Excused'
      BY <1>a, <2>1, <3>1 DEF Excused, BooksTyped
    <3>6. NotLost'
      BY <2>1, <3>1 DEF NotLost, Books!NotLockedOut
    <3>7. QED BY <3>2, <3>3, <3>4, <3>5, <3>6 DEF BooksInv
  <2>3. CASE Books!Accepted = {}
    <3>1. /\ booksPc' = [booksPc EXCEPT ![t] = IF t = BookMain THEN "idle" ELSE "failed"]
          /\ holder' = "none"
          /\ UNCHANGED <<alive, valid, booksStored, seed, access, issued, unsaved, excused, booksHeld>>
      BY <2>1, <2>3 DEF Books!Refresh
    <3>2. BooksTyped'
      BY <1>a, <2>1, <3>1 DEF BooksTyped, Places
    <3>3. OneHolder' /\ MainFirst'
      BY <1>a, <2>1, <3>1 DEF OneHolder, MainFirst
    <3>4. NewestOnly' /\ Excused'
      BY <1>a, <2>1, <3>1 DEF NewestOnly, Excused
    <3>5. unsaved
      BY <1>a, <2>1, <2>3 DEF NotLost, Books!NotLockedOut
    <3>6. NotLost'
      BY <1>a, <2>1, <3>1, <3>5 DEF NotLost, Books!NotLockedOut
    <3>7. QED BY <3>2, <3>3, <3>4, <3>6 DEF BooksInv
  <2>4. QED BY <2>2, <2>3

<1>7. ASSUME NEW t \in Threads, Books!Persist(t) PROVE BooksInv'
  <2>1. /\ booksPc[t] = "persist" /\ holder = t /\ access \in alive /\ booksPc \in [Threads -> Places]
        /\ \A u \in Threads \ {t} : booksPc[u] \notin {"refresh", "persist"}
    BY <1>a, <1>7 DEF Books!Persist, NotLost, OneHolder, BooksTyped
  <2>2. /\ booksStored' = access /\ unsaved' = FALSE /\ holder' = "none"
        /\ booksPc' = [u \in Threads |-> IF t = BookMain THEN (IF u = BookMain THEN "syncing" ELSE "ask")
                                         ELSE IF u = t THEN "again" ELSE booksPc[u]]
        /\ booksHeld' = [e \in BookEntities |-> IF e = t THEN access ELSE booksHeld[e]]
        /\ UNCHANGED <<alive, valid, seed, access, issued, excused>>
    BY <1>7 DEF Books!Persist, Books!data
  <2>3. BooksTyped'
    BY <1>a, <2>1, <2>2 DEF BooksTyped, Places
  <2>4. OneHolder'
    BY <2>1, <2>2 DEF OneHolder
  <2>5. t # BookMain => booksPc[BookMain] = "syncing"
    BY <1>a, <2>1 DEF MainFirst
  <2>6. MainFirst'
    BY <2>2, <2>5 DEF MainFirst
  <2>7. NewestOnly' /\ Excused'
    BY <1>a, <2>1, <2>2, <2>5 DEF NewestOnly, Excused
  <2>8. NotLost'
    BY <2>1, <2>2 DEF NotLost, Books!NotLockedOut, Books!Accepted
  <2>9. QED BY <2>3, <2>4, <2>6, <2>7, <2>8 DEF BooksInv
<1>8. ASSUME NEW t \in Threads, Books!PersistFails(t) PROVE BooksInv'
  <2>1. /\ booksPc[t] = "persist" /\ booksPc \in [Threads -> Places]
        /\ \A u \in Threads \ {t} : booksPc[u] \notin {"refresh", "persist"}
    BY <1>a, <1>8 DEF Books!PersistFails, OneHolder, BooksTyped
  <2>2. /\ booksPc' = [booksPc EXCEPT ![t] = IF t = BookMain THEN "idle" ELSE "failed"]
        /\ unsaved' /\ UNCHANGED <<alive, valid, booksStored, seed, access, issued, excused, booksHeld>>
    BY <1>8 DEF Books!PersistFails, Books!data, Books!paging
  <2>3. BooksTyped' /\ OneHolder'
    BY <1>a, <2>1, <2>2 DEF BooksTyped, Places, OneHolder
  <2>4. MainFirst' /\ NewestOnly' /\ Excused'
    BY <1>a, <2>1, <2>2 DEF MainFirst, NewestOnly, Excused
  <2>5. NotLost'
    BY <2>1, <2>2 DEF NotLost, Books!NotLockedOut
  <2>6. QED BY <2>3, <2>4, <2>5 DEF BooksInv
<1>9. ASSUME NEW e \in BookEntities, Books!HandleUnauthorized(e) PROVE BooksInv'
  <2>1. /\ booksPc[e] = "refused" /\ holder = "none" /\ booksPc[BookMain] = "syncing"
        /\ booksPc \in [Threads -> Places] /\ booksHeld \in [BookEntities -> Nat]
        /\ \A t \in Threads : booksPc[t] \notin {"refresh", "persist"}
        /\ UNCHANGED <<alive, valid, booksStored, seed, access, issued, unsaved, excused>>
    BY <1>a, <1>9 DEF Books!HandleUnauthorized, Books!data, Books!tokens, MainFirst, OneHolder, BooksTyped
  <2>2. NotLost'
    <3>1. \A t \in Threads : booksPc'[t] # "persist"
      BY <1>9, <2>1 DEF Books!HandleUnauthorized
    <3>2. QED BY <1>a, <2>1, <3>1 DEF NotLost, Books!NotLockedOut, Books!Accepted
  <2>3. CASE access = booksHeld[e]
    <3>1. holder' = e /\ booksPc' = [booksPc EXCEPT ![e] = "refresh"] /\ booksHeld' = booksHeld
      BY <1>9, <2>3 DEF Books!HandleUnauthorized
    <3>2. valid = {}
      BY <1>a, <2>1, <2>3 DEF NewestOnly
    <3>3. BooksTyped' /\ OneHolder' /\ MainFirst'
      BY <1>a, <2>1, <3>1 DEF BooksTyped, Places, OneHolder, MainFirst
    <3>4. NewestOnly' /\ Excused'
      BY <1>a, <2>1, <3>1, <3>2 DEF NewestOnly, Excused
    <3>5. QED BY <2>2, <3>3, <3>4 DEF BooksInv
  <2>4. CASE access # booksHeld[e]
    <3>1. /\ booksHeld' = [booksHeld EXCEPT ![e] = access]
          /\ booksPc' = [booksPc EXCEPT ![e] = "again"]
      BY <1>9, <2>4 DEF Books!HandleUnauthorized
    <3>2. BooksTyped'
      BY <1>a, <2>1, <3>1 DEF BooksTyped, Places
    <3>3. OneHolder' /\ MainFirst'
      BY <2>1, <3>1 DEF OneHolder, MainFirst
    <3>4. NewestOnly' /\ Excused'
      BY <1>a, <2>1, <3>1 DEF NewestOnly, Excused
    <3>5. QED BY <2>2, <3>2, <3>3, <3>4 DEF BooksInv
  <2>5. QED BY <2>3, <2>4
<1>10. ASSUME NEW e \in BookEntities, Books!Call(e) \/ Books!FailEntity(e) PROVE BooksInv'
  <2>1. /\ booksPc[e] \in {"ask", "again"} /\ booksPc[BookMain] = "syncing"
        /\ booksPc \in [Threads -> Places] /\ booksHeld \in [BookEntities -> Nat]
        /\ UNCHANGED <<alive, valid, booksStored, seed, access, issued, unsaved, excused, holder>>
    BY <1>a, <1>10 DEF Books!Call, Books!FailEntity, Books!data, Books!tokens, MainFirst, BooksTyped
  <2>2. PICK p \in {"ask", "done", "refused", "failed"}, h \in {0, access, booksHeld[e]} :
           /\ booksPc' = [booksPc EXCEPT ![e] = p] /\ booksHeld' = [booksHeld EXCEPT ![e] = h]
           /\ p = "refused" => h \notin valid
    BY <1>10, <2>1 DEF Books!Call, Books!FailEntity, Books!paging
  <2>3. BooksTyped'
    BY <1>a, <2>1, <2>2 DEF BooksTyped, Places
  <2>4. OneHolder' /\ MainFirst' /\ NewestOnly' /\ Excused'
    BY <1>a, <2>1, <2>2 DEF OneHolder, MainFirst, NewestOnly, Excused
  <2>5. NotLost'
    <3>1. \A t \in Threads : booksPc'[t] = "persist" <=> booksPc[t] = "persist"
      BY <2>1, <2>2
    <3>2. QED BY <1>a, <2>1, <3>1 DEF NotLost, Books!NotLockedOut, Books!Accepted
  <2>6. QED BY <2>3, <2>4, <2>5 DEF BooksInv
<1>11. CASE UNCHANGED books
  BY <1>a, <1>11 DEF books, BooksInv, BooksTyped, OneHolder, MainFirst, NewestOnly, Excused, NotLost,
                     Books!NotLockedOut, Books!Accepted
<1>12. QED
  BY <1>1, <1>2, <1>3, <1>4, <1>5, <1>6, <1>7, <1>8, <1>9, <1>10, <1>11 DEF Books!Next

(***************************************************************************)
(* warehouse-mcp: a sign-in is at the form, or has a code, or is over.     *)
(***************************************************************************)

Requests == [client : LoginClients, at : Nat]
Tokens == [request : Nat, client : LoginClients, who : LoginPeople, at : Nat]

LoginTyped == loginNow \in Nat /\ requests \in Seq(Requests) /\ granted \in Seq(Tokens)

AtTheForm == \A r \in DOMAIN pending : r \in DOMAIN requests /\ pending[r] = requests[r].at

WithCode ==
    \A r \in DOMAIN codes :
        /\ r \in DOMAIN requests /\ r \notin DOMAIN pending
        /\ codes[r].who \in LoginPeople /\ codes[r].at \in Nat
        /\ codes[r].at <= requests[r].at + LoginSessionTtl

\* A sign-in that gave a token has neither a session nor a code left.
Over ==
    \A i \in DOMAIN granted :
        /\ granted[i].request \in DOMAIN requests
        /\ granted[i].request \notin DOMAIN pending \cup DOMAIN codes

LoginInv == LoginTyped /\ AtTheForm /\ WithCode /\ Over /\ Login!OneToken /\ Login!TokenInTime

LEMMA LoginStart == Login!Init => LoginInv
BY DEF Login!Init, Login!Empty, LoginInv, LoginTyped, AtTheForm, WithCode, Over,
       Login!OneToken, Login!TokenInTime

LEMMA LoginStep == LoginInv /\ [Login!Next]_login => LoginInv'
<1> SUFFICES ASSUME LoginInv, [Login!Next]_login PROVE LoginInv'
  OBVIOUS
<1> USE LoginAssumption
<1>a. LoginTyped /\ AtTheForm /\ WithCode /\ Over /\ Login!OneToken /\ Login!TokenInTime
  BY DEF LoginInv
<1>b. \A r \in DOMAIN requests : requests[r] \in Requests
  BY <1>a DEF LoginTyped
<1>1. ASSUME UNCHANGED <<requests, granted>>, loginNow' \in Nat,
             \A r \in DOMAIN pending' : r \in DOMAIN pending /\ pending'[r] = pending[r],
             \A r \in DOMAIN codes' : \/ r \in DOMAIN codes /\ codes'[r] = codes[r]
                                      \/ /\ r \in DOMAIN pending /\ loginNow <= pending[r] + LoginSessionTtl
                                         /\ \E who \in LoginPeople : codes'[r] = [at |-> loginNow, who |-> who],
             DOMAIN pending' \cap DOMAIN codes' = {}
      PROVE  LoginInv'
  \* Nobody begins to sign in or gets a token.
  <2>1. LoginTyped' /\ AtTheForm' /\ Over' /\ Login!OneToken' /\ Login!TokenInTime'
    BY <1>a, <1>1 DEF LoginTyped, AtTheForm, Over, Login!OneToken, Login!TokenInTime
  <2>2. WithCode'
    <3> SUFFICES ASSUME NEW r \in DOMAIN codes'
                 PROVE  /\ r \in DOMAIN requests /\ r \notin DOMAIN pending'
                        /\ codes'[r].who \in LoginPeople /\ codes'[r].at \in Nat
                        /\ codes'[r].at <= requests[r].at + LoginSessionTtl
      BY <1>1 DEF WithCode
    <3>1. CASE r \in DOMAIN codes /\ codes'[r] = codes[r]
      BY <1>a, <1>1, <3>1 DEF WithCode
    <3>2. CASE ~(r \in DOMAIN codes /\ codes'[r] = codes[r])
      <4>1. PICK who \in LoginPeople : codes'[r] = [at |-> loginNow, who |-> who]
        BY <1>1, <3>2
      <4>2. r \in DOMAIN pending /\ loginNow <= pending[r] + LoginSessionTtl
        BY <1>1, <3>2
      <4>3. QED BY <1>a, <1>1, <4>1, <4>2 DEF LoginTyped, AtTheForm
    <3>3. QED BY <3>1, <3>2
  <2>3. QED BY <2>1, <2>2 DEF LoginInv
<1>2. CASE Login!Tick \/ Login!Restart \/ UNCHANGED login
  BY <1>a, <1>1, <1>2 DEF Login!Tick, Login!Restart, Login!Empty, login, LoginTyped, WithCode
<1>3. ASSUME NEW client \in LoginClients, Login!Authorize(client) PROVE LoginInv'
  <2> DEFINE r == Len(requests) + 1
  <2>1. /\ requests' = Append(requests, [client |-> client, at |-> loginNow])
        /\ requests' \in Seq(Requests) /\ DOMAIN requests' = DOMAIN requests \cup {r}
        /\ r \notin DOMAIN requests /\ requests'[r].at = loginNow
        /\ \A q \in DOMAIN requests : requests'[q] = requests[q]
        /\ UNCHANGED <<loginNow, codes, granted>>
    BY <1>a, <1>3 DEF Login!Authorize, LoginTyped, Requests
  <2>2. pending' = [q \in DOMAIN pending \cup {r} |-> IF q = r THEN loginNow ELSE pending[q]]
    BY <1>a, <1>3, <2>1 DEF Login!Authorize, Login!With, LoginTyped
  <2> HIDE DEF r
  <2>3. r \notin DOMAIN pending \cup DOMAIN codes
    BY <1>a, <2>1 DEF AtTheForm, WithCode
  <2>4. LoginTyped' /\ AtTheForm'
    BY <1>a, <2>1, <2>2, <2>3 DEF LoginTyped, AtTheForm
  <2>5. WithCode'
    BY <1>a, <2>1, <2>2, <2>3 DEF WithCode
  <2>6. Over'
    BY <1>a, <2>1, <2>2 DEF Over
  <2>7. Login!OneToken' /\ Login!TokenInTime'
    BY <1>a, <2>1 DEF Over, Login!OneToken, Login!TokenInTime
  <2>8. QED BY <2>4, <2>5, <2>6, <2>7 DEF LoginInv
<1>4. ASSUME NEW r \in DOMAIN requests,
             Login!Mistype(r) \/ \E person \in LoginPeople : Login!Complete(r, person)
      PROVE  LoginInv'
  <2>1. r \in DOMAIN pending /\ loginNow \in Nat /\ pending[r] \in Nat /\ r \notin DOMAIN codes
    BY <1>a, <1>b, <1>4 DEF Login!Complete, Login!Mistype, LoginTyped, AtTheForm, WithCode, Requests
  <2>2. CASE Login!Mistype(r)
    BY <1>1, <1>a, <2>1, <2>2 DEF Login!Mistype, Login!Without, WithCode
  <2>3. ASSUME NEW person \in LoginPeople, Login!Complete(r, person) PROVE LoginInv'
    <3>1. pending' = [q \in DOMAIN pending \ {r} |-> pending[q]] /\ UNCHANGED <<loginNow, requests, granted>>
      BY <2>3 DEF Login!Complete, Login!Without
    <3>2. CASE loginNow > pending[r] + LoginSessionTtl
      <4>1. codes' = codes
        BY <2>3, <3>2 DEF Login!Complete, Login!SessionExpired
      <4>2. QED BY <1>1, <1>a, <2>1, <3>1, <4>1 DEF WithCode
    <3>3. CASE ~(loginNow > pending[r] + LoginSessionTtl)
      <4>1. codes' = [q \in DOMAIN codes \cup {r} |-> IF q = r THEN [at |-> loginNow, who |-> person] ELSE codes[q]]
        BY <2>3, <3>3 DEF Login!Complete, Login!SessionExpired, Login!With
      <4>2. loginNow <= pending[r] + LoginSessionTtl
        BY <2>1, <3>3
      <4>3. QED BY <1>1, <1>a, <2>1, <3>1, <4>1, <4>2 DEF WithCode
    <3>4. QED BY <3>2, <3>3
  <2>4. QED BY <1>4, <2>2, <2>3
<1>5. ASSUME NEW r \in DOMAIN requests, NEW client \in LoginClients, Login!Exchange(r, client) PROVE LoginInv'
  <2>1. /\ r \in DOMAIN codes /\ codes' = [q \in DOMAIN codes \ {r} |-> codes[q]]
        /\ UNCHANGED <<loginNow, requests, pending>>
    BY <1>5 DEF Login!Exchange, Login!Without
  <2>2. CASE granted' = granted
    BY <1>1, <1>a, <2>1, <2>2 DEF LoginTyped, WithCode
  <2>3. CASE granted' # granted
    <3> DEFINE token == [request |-> r, client |-> client, who |-> codes[r].who, at |-> loginNow]
               k == Len(granted) + 1
    <3>1. /\ granted' = Append(granted, token) /\ requests[r].client = client
          /\ ~(loginNow > codes[r].at + LoginCodeTtl)
      BY <2>3, <1>5 DEF Login!Exchange
    <3>2. /\ r \in Nat /\ loginNow \in Nat /\ codes[r].at \in Nat /\ codes[r].who \in LoginPeople
          /\ requests[r].at \in Nat /\ codes[r].at <= requests[r].at + LoginSessionTtl
      BY <1>a, <1>b, <2>1 DEF LoginTyped, WithCode, Requests
    <3>3. loginNow <= requests[r].at + LoginSessionTtl + LoginCodeTtl
      BY <3>1, <3>2
    <3>4. token \in Tokens
      BY <3>2 DEF Tokens
    <3>5. token.request = r /\ token.client = client /\ token.at = loginNow
      OBVIOUS
    <3> HIDE DEF token
    <3>6. /\ granted' \in Seq(Tokens) /\ DOMAIN granted' = DOMAIN granted \cup {k}
          /\ k \notin DOMAIN granted /\ granted'[k] = token
          /\ \A i \in DOMAIN granted : granted'[i] = granted[i]
      BY <1>a, <3>1, <3>4 DEF LoginTyped
    <3> HIDE DEF k
    <3>7. LoginTyped' /\ AtTheForm' /\ WithCode'
      BY <1>a, <2>1, <3>6 DEF LoginTyped, AtTheForm, WithCode
    <3>8. Over'
      BY <1>a, <2>1, <3>5, <3>6 DEF Over, WithCode
    <3>9. Login!OneToken'
      BY <1>a, <2>1, <3>5, <3>6 DEF Over, Login!OneToken
    <3>10. Login!TokenInTime'
      BY <1>a, <2>1, <3>1, <3>3, <3>5, <3>6 DEF Login!TokenInTime
    <3>11. QED BY <3>7, <3>8, <3>9, <3>10 DEF LoginInv
  <2>4. QED BY <2>2, <2>3
<1>6. QED
  BY <1>2, <1>3, <1>4, <1>5 DEF Login!Next

(***************************************************************************)
(* The parts together: a behaviour exercises one of them.                  *)
(***************************************************************************)

AccessInv == (part = "books" => BooksInv) /\ (part = "login" => LoginInv)

(* A token is used once and in time: threads of the QuickBooks sync that   *)
(* see the same expiry refresh once, a live refresh token is kept unless a *)
(* crash or a failed INSERT lost it, and a sign-in at warehouse-mcp gives  *)
(* at most one token, to the client that asked, while it may be waiting.   *)
THEOREM TokensKept == Spec => []AccessKept
<1>1. Init => AccessInv
  BY BooksStart, LoginStart DEF Init, AccessInv
<1>2. AccessInv /\ [Next]_vars => AccessInv'
  <2> SUFFICES ASSUME AccessInv, [Next]_vars PROVE AccessInv'
    OBVIOUS
  <2>1. part' = part /\ (part = "books" => [Books!Next]_books) /\ (part = "login" => [Login!Next]_login)
    BY DEF Next, vars
  <2>2. QED BY <2>1, BooksStep, LoginStep DEF AccessInv
<1>3. AccessInv => AccessKept
  BY DEF AccessInv, AccessKept, BooksInv, LoginInv, Excused, NotLost, Books!OneRefreshPerExpiry
<1>4. QED BY <1>1, <1>2, <1>3, PTL DEF Spec

(***************************************************************************)
(* Dashbored: a commit takes nothing of its base away, and a branch is of  *)
(* the submission that made it.                                            *)
(***************************************************************************)

Content == [PullFiles -> SUBSET PullPrograms]
Trees == UNION {[F -> SUBSET PullPrograms] : F \in SUBSET PullFiles}

PullTyped ==
    /\ pullMain \in Content /\ base \in [PullSubmissions -> Content]
    /\ tree \in [PullSubmissions -> Trees]
    /\ pullPhase \in [PullSubmissions -> Pull!Phases]
    /\ refs \in [Pull!Heads -> {Null} \cup Pull!Commit]
    /\ pullPrs \in [Pull!Heads -> {"none", "open", "merged", "closed"}]

\* The base is read before the files, and main grows.
Grown ==
    \A s \in PullSubmissions :
        /\ \A f \in PullFiles : base[s][f] \subseteq pullMain[f]
        /\ \A f \in DOMAIN tree[s] : base[s][f] \subseteq tree[s][f]
        /\ pullPhase[s] \in {"idle", "check", "base"} => DOMAIN tree[s] = {}
        /\ pullPhase[s] = "ref" => DOMAIN tree[s] = PullFiles

Adding ==
    \A h \in Pull!Heads : refs[h] # Null =>
        \A f \in PullFiles : refs[h].base[f] \subseteq refs[h].tree[f]

\* Who is about to delete a branch has made it.
Owned ==
    /\ \A s \in PullSubmissions : pullPhase[s] \in {"pr", "rollback"} =>
          refs[Pull!Head(s)] # Null /\ refs[Pull!Head(s)].by = s
    /\ \A h \in Pull!Heads : pullPrs[h] = "open" => refs[h] # Null

PullInv == PullTyped /\ Grown /\ Adding /\ Owned

\* What a step may never do.
PullKept ==
    /\ \A f \in PullFiles : pullMain[f] \subseteq pullMain'[f]
    /\ \A h \in Pull!Heads : refs[h] # Null /\ refs'[h] = Null =>
          pullPhase[refs[h].by] = "rollback"

LEMMA EmptyTree == <<>> \in Trees /\ DOMAIN <<>> = {}
<1>1. <<>> \in [{} -> SUBSET PullPrograms] /\ {} \in SUBSET PullFiles
  OBVIOUS
<1>2. QED BY <1>1 DEF Trees

LEMMA PullBegin == Pull!Init => PullInv
<1> SUFFICES ASSUME Pull!Init PROVE PullInv
  OBVIOUS
<1> USE DEF Pull!Init, Pull!Nothing
<1>1. PullTyped
  BY EmptyTree DEF PullTyped, Content, Pull!Phases
<1>2. Grown
  <2>1. DOMAIN <<>> = {}
    BY EmptyTree
  <2>2. QED BY <2>1 DEF Grown
<1>3. Adding /\ Owned
  BY DEF Adding, Owned
<1>4. QED BY <1>1, <1>2, <1>3 DEF PullInv

LEMMA HeadType == \A s \in PullSubmissions : Pull!Head(s) \in Pull!Heads
BY DEF Pull!Heads

\* What happens to a submission, and what happens to a branch.
ReadsKept ==
    /\ base' \in [PullSubmissions -> Content] /\ tree' \in [PullSubmissions -> Trees]
    /\ pullPhase' \in [PullSubmissions -> Pull!Phases]
    /\ Grown'

\* A submission that gives up, or is done, forgets what it has read.
LEMMA ForgetStep ==
  ASSUME PullInv, NEW s \in PullSubmissions, Pull!Forget(s),
         NEW p \in Pull!Phases \ {"ref"}, pullPhase' = [pullPhase EXCEPT ![s] = p]
  PROVE  pullMain' = pullMain => ReadsKept
<1> SUFFICES ASSUME pullMain' = pullMain PROVE ReadsKept
  OBVIOUS
<1>a. PullTyped /\ Grown
  BY DEF PullInv
<1>1. /\ base' = [base EXCEPT ![s] = Pull!Nothing] /\ tree' = [tree EXCEPT ![s] = <<>>]
      /\ Pull!Nothing \in Content /\ \A f \in PullFiles : Pull!Nothing[f] = {}
  BY DEF Pull!Forget, Pull!Nothing, Content
<1>2. base' \in [PullSubmissions -> Content] /\ tree' \in [PullSubmissions -> Trees]
  BY <1>a, <1>1, EmptyTree DEF PullTyped
<1>3. pullPhase' \in [PullSubmissions -> Pull!Phases]
  BY <1>a DEF PullTyped
<1>4. ASSUME NEW t \in PullSubmissions, t # s
      PROVE  base'[t] = base[t] /\ tree'[t] = tree[t] /\ pullPhase'[t] = pullPhase[t]
  BY <1>a, <1>1, <1>4 DEF PullTyped
<1>5. base'[s] = Pull!Nothing /\ DOMAIN tree'[s] = {} /\ pullPhase'[s] # "ref"
  <2>1. tree'[s] = <<>>
    BY <1>a, <1>1 DEF PullTyped
  <2>2. QED BY <1>a, <1>1, <2>1, EmptyTree DEF PullTyped
<1>6. Grown'
  BY <1>a, <1>1, <1>4, <1>5 DEF Grown
<1>7. QED BY <1>2, <1>3, <1>6 DEF ReadsKept

\* A step of one submission at GitHub that only reads.
LEMMA ReadStep ==
  ASSUME PullInv, ReadsKept, UNCHANGED <<pullMain, refs, pullPrs>>,
         \A t \in PullSubmissions : pullPhase'[t] \in {"pr", "rollback"} => pullPhase[t] \in {"pr", "rollback"}
  PROVE  PullInv' /\ PullKept
<1>1. PullTyped' /\ Adding' /\ Owned'
  BY HeadType DEF PullInv, PullTyped, Adding, Owned, ReadsKept
<1>2. QED BY <1>1 DEF PullInv, PullKept, ReadsKept

LEMMA CreateStep ==
  ASSUME PullInv, NEW s \in PullSubmissions,
         Pull!Submit(s) \/ Pull!Check(s) \/ Pull!ReadBase(s) \/
         (/\ UNCHANGED <<pullMain, refs, pullPrs>>
          /\ Pull!EnsureFork(s) \/ Pull!Look(s) \/ Pull!Fetch(s) \/ Pull!MakeCommit(s))
  PROVE  PullInv' /\ PullKept
<1>a. PullTyped /\ Grown
  BY DEF PullInv
<1>1. UNCHANGED <<pullMain, refs, pullPrs>>
  BY DEF Pull!Submit, Pull!Check, Pull!ReadBase
<1>2. ASSUME NEW p \in Pull!Phases \ {"ref", "pr", "rollback"}, pullPhase' = [pullPhase EXCEPT ![s] = p],
             Pull!Forget(s)
      PROVE  PullInv' /\ PullKept
  <2>1. ReadsKept
    BY <1>1, <1>2, ForgetStep
  <2>2. \A t \in PullSubmissions : pullPhase'[t] \in {"pr", "rollback"} => pullPhase[t] \in {"pr", "rollback"}
    BY <1>a, <1>2 DEF PullTyped
  <2>3. QED BY <1>1, <2>1, <2>2, ReadStep
<1>3. ASSUME NEW p \in Pull!Phases \ {"pr", "rollback"}, pullPhase' = [pullPhase EXCEPT ![s] = p],
             UNCHANGED <<base, tree>>,
             p \in {"idle", "check", "base"} => DOMAIN tree[s] = {}, p = "ref" => DOMAIN tree[s] = PullFiles
      PROVE  PullInv' /\ PullKept
  <2>1. \A t \in PullSubmissions : pullPhase'[t] = IF t = s THEN p ELSE pullPhase[t]
    BY <1>a, <1>3 DEF PullTyped
  <2>2. pullPhase' \in [PullSubmissions -> Pull!Phases]
    BY <1>a, <1>3 DEF PullTyped
  <2>3. Grown'
    BY <1>a, <1>1, <1>3, <2>1 DEF Grown
  <2>4. ReadsKept
    BY <1>a, <1>3, <2>2, <2>3 DEF ReadsKept, PullTyped
  <2>5. QED BY <1>1, <2>1, <2>4, ReadStep
<1> USE DEF Pull!Goto, Pull!Phases
<1>4. CASE Pull!Submit(s) \/ Pull!Check(s)
  <2>1. \E p \in {"check", "idle", "base"} : pullPhase' = [pullPhase EXCEPT ![s] = p]
    BY <1>4 DEF Pull!Submit, Pull!Check
  <2>2. UNCHANGED <<base, tree>> /\ pullPhase[s] \in {"idle", "check"}
    BY <1>4 DEF Pull!Submit, Pull!Check
  <2>3. DOMAIN tree[s] = {}
    BY <1>a, <2>2 DEF Grown
  <2>4. QED BY <1>3, <2>1, <2>2, <2>3
<1>5. CASE Pull!ReadBase(s)
  <2>1. /\ pullPhase[s] = "base" /\ pullPhase' = [pullPhase EXCEPT ![s] = "fork"]
        /\ base' = [base EXCEPT ![s] = pullMain] /\ tree' = tree
    BY <1>5 DEF Pull!ReadBase
  <2>2. /\ base' \in [PullSubmissions -> Content] /\ pullPhase' \in [PullSubmissions -> Pull!Phases]
        /\ \A t \in PullSubmissions : /\ base'[t] = IF t = s THEN pullMain ELSE base[t]
                                      /\ pullPhase'[t] = IF t = s THEN "fork" ELSE pullPhase[t]
    BY <1>a, <2>1 DEF PullTyped
  <2>3. DOMAIN tree[s] = {}
    BY <1>a, <2>1 DEF Grown
  <2>4. Grown'
    BY <1>a, <1>1, <2>1, <2>2, <2>3 DEF Grown
  <2>5. ReadsKept
    BY <1>a, <2>1, <2>2, <2>4 DEF ReadsKept, PullTyped
  <2>6. QED BY <1>1, <2>2, <2>5, ReadStep
<1>6. CASE Pull!EnsureFork(s)
  <2>1. \/ /\ UNCHANGED <<base, tree>>
           /\ \E p \in {"look", "wait"} : pullPhase' = [pullPhase EXCEPT ![s] = p]
        \/ Pull!Forget(s) /\ pullPhase' = [pullPhase EXCEPT ![s] = "idle"]
    BY <1>6 DEF Pull!EnsureFork
  <2>2. QED BY <1>2, <1>3, <2>1
<1>7. CASE Pull!Look(s)
  <2>1. \/ /\ UNCHANGED <<base, tree>> /\ pullPhase' = [pullPhase EXCEPT ![s] = "fetch"]
        \/ Pull!Forget(s) /\ pullPhase' = [pullPhase EXCEPT ![s] = "idle"]
    BY <1>7 DEF Pull!Look
  <2>2. QED BY <1>2, <1>3, <2>1
<1>8. CASE Pull!MakeCommit(s)
  <2>1. \/ /\ UNCHANGED <<base, tree>> /\ pullPhase' = [pullPhase EXCEPT ![s] = "ref"]
           /\ DOMAIN tree[s] = PullFiles
        \/ Pull!Forget(s) /\ pullPhase' = [pullPhase EXCEPT ![s] = "idle"]
    BY <1>8 DEF Pull!MakeCommit
  <2>2. QED BY <1>2, <1>3, <2>1
<1>9. CASE Pull!Fetch(s)
  <2>1. PICK f \in PullFiles \ DOMAIN tree[s] :
           IF Pull!Refuses(s, f)
           THEN pullPhase' = [pullPhase EXCEPT ![s] = "idle"] /\ Pull!Forget(s)
           ELSE /\ tree' = [tree EXCEPT ![s] =
                     [g \in DOMAIN @ \cup {f} |-> IF g = f THEN Pull!Patched(s, f) ELSE @[g]]]
                /\ UNCHANGED <<pullPhase, base>>
    BY <1>9 DEF Pull!Fetch
  <2>2. CASE Pull!Refuses(s, f)
    BY <1>2, <2>1, <2>2
  <2>3. CASE ~Pull!Refuses(s, f)
    <3> DEFINE grown == [g \in DOMAIN tree[s] \cup {f} |-> IF g = f THEN Pull!Patched(s, f) ELSE tree[s][g]]
    <3>1. tree' = [tree EXCEPT ![s] = grown] /\ UNCHANGED <<pullPhase, base>>
      BY <2>1, <2>3
    <3>2. PICK F \in SUBSET PullFiles : tree[s] \in [F -> SUBSET PullPrograms]
      BY <1>a DEF PullTyped, Trees
    <3>3. pullMain[f] \subseteq Pull!Patched(s, f) /\ Pull!Patched(s, f) \subseteq PullPrograms
      BY <1>a, PullAssumption DEF Pull!Patched, PullTyped, Content
    <3>4. grown \in [F \cup {f} -> SUBSET PullPrograms] /\ F \cup {f} \in SUBSET PullFiles
      BY <3>2, <3>3
    <3>5. grown \in Trees
      BY <3>4 DEF Trees
    <3>6. \A g \in DOMAIN grown : base[s][g] \subseteq grown[g]
      BY <1>a, <3>3 DEF Grown
    <3> HIDE DEF grown
    <3>7. tree' \in [PullSubmissions -> Trees] /\ \A t \in PullSubmissions : tree'[t] = IF t = s THEN grown ELSE tree[t]
      BY <1>a, <3>1, <3>5 DEF PullTyped
    <3>8. pullPhase[s] = "fetch"
      BY <1>9 DEF Pull!Fetch
    <3>9. Grown'
      BY <1>a, <1>1, <3>1, <3>6, <3>7, <3>8 DEF Grown
    <3>10. ReadsKept
      BY <1>a, <3>1, <3>7, <3>9 DEF ReadsKept, PullTyped
    <3>11. QED BY <1>1, <3>1, <3>10, ReadStep
  <2>4. QED BY <2>2, <2>3
<1>10. QED BY <1>4, <1>5, <1>6, <1>7, <1>8, <1>9

\* The branch is made: by the only one that is then about to open it.
LEMMA BranchStep ==
  ASSUME PullInv, NEW s \in PullSubmissions, pullPhase[s] = "ref", refs[Pull!Head(s)] = Null,
         UNCHANGED <<pullMain, pullPrs>>, ReadsKept,
         refs' = [refs EXCEPT ![Pull!Head(s)] = [by |-> s, base |-> base[s], tree |-> tree[s]]],
         \A t \in PullSubmissions \ {s} : pullPhase'[t] = pullPhase[t]
  PROVE  PullInv' /\ PullKept
<1>a. PullTyped /\ Grown /\ Adding /\ Owned
  BY DEF PullInv
<1> DEFINE commit == [by |-> s, base |-> base[s], tree |-> tree[s]]
<1>1. PICK F \in SUBSET PullFiles : tree[s] \in [F -> SUBSET PullPrograms]
  BY <1>a DEF PullTyped, Trees
<1>2. tree[s] \in Content /\ DOMAIN tree[s] = PullFiles
  BY <1>a, <1>1 DEF Grown, Content
<1>3. commit \in Pull!Commit /\ commit # Null
  <2>1. commit \in Pull!Commit
    BY <1>a, <1>2 DEF PullTyped, Content, Pull!Commit, Pull!Content
  <2>2. QED BY <2>1, PullAssumption DEF Pull!Commit, Pull!Content
<1>4. commit.by = s /\ \A f \in PullFiles : commit.base[f] \subseteq commit.tree[f]
  BY <1>a, <1>2 DEF Grown
<1> HIDE DEF commit
<1>5. refs' = [refs EXCEPT ![Pull!Head(s)] = commit]
  BY DEF commit
<1>6. /\ refs' \in [Pull!Heads -> {Null} \cup Pull!Commit]
      /\ \A h \in Pull!Heads : refs'[h] = IF h = Pull!Head(s) THEN commit ELSE refs[h]
  BY <1>a, <1>3, <1>5 DEF PullTyped
<1>7. PullTyped' /\ Adding' /\ PullKept
  BY <1>a, <1>3, <1>4, <1>6 DEF PullTyped, Adding, ReadsKept, PullKept
<1>8. Owned'
  <2>1. ASSUME NEW t \in PullSubmissions, pullPhase'[t] \in {"pr", "rollback"}
        PROVE  refs'[Pull!Head(t)] # Null /\ refs'[Pull!Head(t)].by = t
    <3>1. CASE t = s
      BY <1>3, <1>4, <1>6, <3>1, HeadType
    <3>2. CASE t # s
      <4>1. refs[Pull!Head(t)] # Null /\ refs[Pull!Head(t)].by = t
        BY <1>a, <2>1, <3>2 DEF Owned
      <4>2. QED BY <1>6, <4>1, HeadType
    <3>3. QED BY <3>1, <3>2
  <2>2. \A h \in Pull!Heads : pullPrs'[h] = "open" => refs'[h] # Null
    BY <1>a, <1>3, <1>6 DEF Owned
  <2>3. QED BY <2>1, <2>2 DEF Owned
<1>9. QED BY <1>7, <1>8 DEF PullInv, ReadsKept

\* A submission that is done, gives up or is left to roll back.
LEMMA LeaveStep ==
  ASSUME PullInv, NEW s \in PullSubmissions, Pull!Forget(s), NEW p \in {"idle", "rollback"},
         pullPhase' = [pullPhase EXCEPT ![s] = p], p = "rollback" => pullPhase[s] = "pr",
         UNCHANGED <<pullMain, refs>>, pullPrs' \in [Pull!Heads -> {"none", "open", "merged", "closed"}],
         \A h \in Pull!Heads : pullPrs'[h] = "open" => pullPrs[h] = "open" \/ refs[h] # Null
  PROVE  PullInv' /\ PullKept
<1>a. PullTyped /\ Grown /\ Adding /\ Owned
  BY DEF PullInv
<1>1. ReadsKept
  BY ForgetStep DEF Pull!Phases
<1>2. \A t \in PullSubmissions : pullPhase'[t] \in {"pr", "rollback"} => pullPhase[t] \in {"pr", "rollback"}
  BY <1>a DEF PullTyped
<1>3. PullTyped' /\ Adding' /\ Owned'
  BY <1>a, <1>1, <1>2, HeadType DEF PullTyped, Adding, Owned, ReadsKept
<1>4. QED BY <1>1, <1>3 DEF PullInv, PullKept, ReadsKept

\* The branch goes: whoever deletes it has made it, and has no other.
LEMMA DeleteStep ==
  ASSUME PullInv, NEW s \in PullSubmissions, Pull!DeleteRef(s), UNCHANGED pullMain
  PROVE  PullInv' /\ PullKept
<1>a. PullTyped /\ Grown /\ Adding /\ Owned
  BY DEF PullInv
<1>1. /\ pullPhase[s] = "rollback" /\ pullPhase' = [pullPhase EXCEPT ![s] = "idle"] /\ Pull!Forget(s)
      /\ refs' = [refs EXCEPT ![Pull!Head(s)] = Null]
      /\ pullPrs' = [pullPrs EXCEPT ![Pull!Head(s)] = IF @ = "open" THEN "closed" ELSE @]
  BY DEF Pull!DeleteRef, Pull!Goto
<1>2. ReadsKept
  BY <1>1, ForgetStep DEF Pull!Phases
<1>3. refs[Pull!Head(s)].by = s
  BY <1>a, <1>1 DEF Owned
<1>4. /\ refs' \in [Pull!Heads -> {Null} \cup Pull!Commit]
      /\ pullPrs' \in [Pull!Heads -> {"none", "open", "merged", "closed"}]
      /\ \A h \in Pull!Heads : h # Pull!Head(s) => refs'[h] = refs[h] /\ pullPrs'[h] = pullPrs[h]
      /\ refs'[Pull!Head(s)] = Null /\ pullPrs'[Pull!Head(s)] # "open"
  BY <1>a, <1>1, HeadType DEF PullTyped
<1>5. PullTyped' /\ Adding' /\ PullKept
  BY <1>a, <1>1, <1>2, <1>3, <1>4 DEF PullTyped, Adding, ReadsKept, PullKept
<1>6. Owned'
  <2>1. ASSUME NEW t \in PullSubmissions, pullPhase'[t] \in {"pr", "rollback"}
        PROVE  refs'[Pull!Head(t)] # Null /\ refs'[Pull!Head(t)].by = t
    <3>1. t # s /\ pullPhase[t] \in {"pr", "rollback"}
      BY <1>a, <1>1, <2>1 DEF PullTyped
    <3>2. refs[Pull!Head(t)] # Null /\ refs[Pull!Head(t)].by = t
      BY <1>a, <3>1 DEF Owned
    <3>3. Pull!Head(t) # Pull!Head(s)
      BY <1>3, <3>1, <3>2
    <3>4. QED BY <1>4, <3>2, <3>3, HeadType
  <2>2. \A h \in Pull!Heads : pullPrs'[h] = "open" => refs'[h] # Null
    BY <1>a, <1>4 DEF Owned
  <2>3. QED BY <2>1, <2>2 DEF Owned
<1>7. QED BY <1>2, <1>5, <1>6 DEF PullInv, ReadsKept

\* Others add to main; a merge takes nothing away, for its commit does not.
LEMMA MainStep ==
  ASSUME PullInv, (\E h \in Pull!Heads : Pull!Merge(h)) \/ (\E p \in PullPrograms : Pull!AddByHand(p))
  PROVE  PullInv' /\ PullKept
<1>a. PullTyped /\ Grown /\ Adding /\ Owned
  BY DEF PullInv
<1> DEFINE Adds == /\ UNCHANGED <<refs, pullPhase, base, tree>> /\ pullMain' \in Content
                   /\ \A f \in PullFiles : pullMain[f] \subseteq pullMain'[f]
                   /\ pullPrs' \in [Pull!Heads -> {"none", "open", "merged", "closed"}]
                   /\ \A h \in Pull!Heads : pullPrs'[h] = "open" => pullPrs[h] = "open"
<1>1. Adds
  <2>1. ASSUME NEW h \in Pull!Heads, Pull!Merge(h) PROVE Adds
    <3>1. /\ UNCHANGED <<refs, pullPhase, base, tree>> /\ pullPrs[h] = "open"
          /\ pullPrs' = [pullPrs EXCEPT ![h] = "merged"]
          /\ pullMain' = [f \in PullFiles |-> (pullMain[f] \cup (refs[h].tree[f] \ refs[h].base[f]))
                                              \ (refs[h].base[f] \ refs[h].tree[f])]
      BY <2>1 DEF Pull!Merge
    <3>2. refs[h] # Null /\ refs[h] \in Pull!Commit
      BY <1>a, <3>1 DEF Owned, PullTyped
    <3>3. refs[h].tree \in Content /\ \A f \in PullFiles : refs[h].base[f] \subseteq refs[h].tree[f]
      BY <1>a, <3>2 DEF Adding, Pull!Commit, Pull!Content, Content
    <3>4. /\ pullPrs' \in [Pull!Heads -> {"none", "open", "merged", "closed"}]
          /\ \A g \in Pull!Heads : pullPrs'[g] = "open" => pullPrs[g] = "open"
      BY <1>a, <3>1 DEF PullTyped
    <3>5. pullMain' \in Content /\ \A f \in PullFiles : pullMain[f] \subseteq pullMain'[f]
      BY <1>a, <3>1, <3>3 DEF PullTyped, Content
    <3>6. QED BY <3>1, <3>4, <3>5
  <2>2. ASSUME NEW p \in PullPrograms, Pull!AddByHand(p) PROVE Adds
    BY <1>a, <2>2 DEF Pull!AddByHand, PullTyped, Content
  <2>3. QED BY <2>1, <2>2
<1>2. PullTyped' /\ Adding' /\ PullKept
  BY <1>a, <1>1 DEF PullTyped, Adding, PullKept
<1>3. Grown'
  <2>1. \A s \in PullSubmissions : \A f \in PullFiles : base[s][f] \subseteq pullMain'[f]
    BY <1>a, <1>1 DEF Grown
  <2>2. QED BY <1>a, <1>1, <2>1 DEF Grown
<1>4. Owned'
  BY <1>a, <1>1 DEF Owned
<1>5. QED BY <1>2, <1>3, <1>4 DEF PullInv

LEMMA PullStep ==
  ASSUME PullInv, [Pull!Next]_pull
  PROVE  PullInv' /\ PullKept
<1>a. PullTyped /\ Grown /\ Adding /\ Owned
  BY DEF PullInv
<1>b. ASSUME NEW s \in PullSubmissions, NEW p \in Pull!Phases, pullPhase' = [pullPhase EXCEPT ![s] = p]
      PROVE  pullPhase' \in [PullSubmissions -> Pull!Phases] /\ \A t \in PullSubmissions : pullPhase'[t] = IF t = s THEN p ELSE pullPhase[t]
  BY <1>a, <1>b DEF PullTyped
<1> USE DEF Pull!Phases
<1>1. ASSUME NEW s \in PullSubmissions, Pull!Create(s) PROVE PullInv' /\ PullKept
  <2>1. pullMain' = pullMain
    BY <1>1 DEF Pull!Create
  <2>2. CASE UNCHANGED <<refs, pullPrs>> /\ (Pull!EnsureFork(s) \/ Pull!Look(s) \/ Pull!Fetch(s) \/ Pull!MakeCommit(s))
    BY <2>1, <2>2, CreateStep
  <2>3. CASE Pull!CreateRef(s) /\ UNCHANGED pullPrs
    <3>1. CASE refs[Pull!Head(s)] = Null
      <4>1. /\ pullPhase[s] = "ref" /\ pullPhase' = [pullPhase EXCEPT ![s] = "pr"] /\ UNCHANGED <<base, tree>>
            /\ refs' = [refs EXCEPT ![Pull!Head(s)] = [by |-> s, base |-> base[s], tree |-> tree[s]]]
        BY <2>3, <3>1 DEF Pull!CreateRef, Pull!Goto
      <4>2. ReadsKept
        <5>1. Grown'
          BY <1>a, <1>b, <2>1, <4>1 DEF Grown
        <5>2. QED BY <1>a, <1>b, <4>1, <5>1 DEF ReadsKept, PullTyped
      <4>3. \A t \in PullSubmissions \ {s} : pullPhase'[t] = pullPhase[t]
        BY <1>b, <4>1
      <4>4. QED BY <2>1, <2>3, <3>1, <4>1, <4>2, <4>3, BranchStep
    <3>2. CASE refs[Pull!Head(s)] # Null
      <4>1. pullPhase' = [pullPhase EXCEPT ![s] = "idle"] /\ Pull!Forget(s) /\ UNCHANGED refs
        BY <2>3, <3>2 DEF Pull!CreateRef, Pull!Goto
      <4>2. QED BY <1>a, <2>1, <2>3, <4>1, LeaveStep DEF PullTyped
    <3>3. QED BY <3>1, <3>2
  <2>4. CASE Pull!OpenPr(s) /\ UNCHANGED refs
    <3>1. /\ pullPhase[s] = "pr" /\ pullPhase' = [pullPhase EXCEPT ![s] = "idle"] /\ Pull!Forget(s)
          /\ pullPrs' = [pullPrs EXCEPT ![Pull!Head(s)] = "open"]
      BY <2>4 DEF Pull!OpenPr, Pull!Goto
    <3>2. refs[Pull!Head(s)] # Null
      BY <1>a, <3>1 DEF Owned
    <3>3. /\ pullPrs' \in [Pull!Heads -> {"none", "open", "merged", "closed"}]
          /\ \A h \in Pull!Heads : pullPrs'[h] = "open" => pullPrs[h] = "open" \/ refs[h] # Null
      BY <1>a, <3>1, <3>2 DEF PullTyped
    <3>4. QED BY <2>1, <2>4, <3>1, <3>3, LeaveStep
  <2>5. CASE Pull!DeleteRef(s)
    BY <2>1, <2>5, DeleteStep
  <2>6. QED BY <1>1, <2>2, <2>3, <2>4, <2>5 DEF Pull!Create
<1>2. ASSUME NEW s \in PullSubmissions, Pull!Fault(s) PROVE PullInv' /\ PullKept
  <2>1. pullMain' = pullMain
    BY <1>2 DEF Pull!Fault
  <2>2. CASE Pull!Fail(s) \/ Pull!Leave(s)
    <3>1. /\ UNCHANGED <<refs, pullPrs>> /\ Pull!Forget(s)
          /\ \E p \in {"idle", "rollback"} : /\ pullPhase' = [pullPhase EXCEPT ![s] = p]
                                             /\ p = "rollback" => pullPhase[s] = "pr"
      BY <2>2 DEF Pull!Fail, Pull!Leave, Pull!Goto, Pull!AfterFailure
    <3>2. QED BY <1>a, <2>1, <3>1, LeaveStep DEF PullTyped
  <2>3. ASSUME pullPhase[s] = "ref", refs[Pull!Head(s)] = Null, UNCHANGED pullPrs, Pull!Forget(s),
               refs' = [refs EXCEPT ![Pull!Head(s)] = [by |-> s, base |-> base[s], tree |-> tree[s]]],
               pullPhase' = [pullPhase EXCEPT ![s] = "idle"]
        PROVE  PullInv' /\ PullKept
    <3>1. ReadsKept
      BY <2>1, <2>3, ForgetStep
    <3>2. \A t \in PullSubmissions \ {s} : pullPhase'[t] = pullPhase[t]
      BY <1>b, <2>3
    <3>3. QED BY <2>1, <2>3, <3>1, <3>2, BranchStep
  <2>4. ASSUME pullPhase[s] = "pr", UNCHANGED refs, Pull!Forget(s),
               pullPrs' = [pullPrs EXCEPT ![Pull!Head(s)] = "open"],
               pullPhase' = [pullPhase EXCEPT ![s] = "rollback"]
        PROVE  PullInv' /\ PullKept
    <3>1. refs[Pull!Head(s)] # Null
      BY <1>a, <2>4 DEF Owned
    <3>2. /\ pullPrs' \in [Pull!Heads -> {"none", "open", "merged", "closed"}]
          /\ \A h \in Pull!Heads : pullPrs'[h] = "open" => pullPrs[h] = "open" \/ refs[h] # Null
      BY <1>a, <2>4, <3>1 DEF PullTyped
    <3>3. QED BY <2>1, <2>4, <3>2, LeaveStep
  <2>5. QED BY <1>2, <2>2, <2>3, <2>4 DEF Pull!Fault, Pull!LoseAnswer, Pull!Goto
<1>3. CASE \E s \in PullSubmissions : Pull!Submit(s) \/ Pull!Check(s) \/ Pull!ReadBase(s)
  BY <1>3, CreateStep
<1>4. CASE (\E h \in Pull!Heads : Pull!Merge(h)) \/ (\E p \in PullPrograms : Pull!AddByHand(p))
  BY <1>4, MainStep
<1>5. ASSUME UNCHANGED <<pullMain, refs, pullPrs, pullPhase, base, tree>> PROVE PullInv' /\ PullKept
  BY <1>5 DEF PullInv, PullTyped, Grown, Adding, Owned, PullKept
<1>6. CASE UNCHANGED pull \/ \E u \in Pull!Users : Pull!ForkReady(u)
  BY <1>5, <1>6 DEF pull, Pull!ForkReady
<1>7. QED
  BY <1>1, <1>2, <1>3, <1>4, <1>6 DEF Pull!Next

\* What a submission has patched, and what its branch has, adds its program.
Own ==
    /\ \A s \in PullSubmissions : \A f \in DOMAIN tree[s] : tree[s][f] \ pullMain[f] \subseteq {PullProgram[s]}
    /\ \A h \in Pull!Heads : refs[h] # Null => \A f \in PullFiles : refs[h].tree[f] \ pullMain[f] \subseteq {h[2]}

OwnInv == PullInv /\ Own /\ Pull!NoStrayBranch

LEMMA OwnKeeps == OwnInv => Pull!AddsItsOwn /\ Pull!NoStrayBranch
BY DEF OwnInv, Own, PullInv, Owned, Pull!AddsItsOwn

LEMMA OwnBegin == Pull!Init => OwnInv
<1> SUFFICES ASSUME Pull!Init PROVE OwnInv
  OBVIOUS
<1>1. \A s \in PullSubmissions : DOMAIN tree[s] = {}
  BY EmptyTree DEF Pull!Init
<1>2. \A h \in Pull!Heads : refs[h] = Null
  BY DEF Pull!Init
<1>3. QED BY <1>1, <1>2, PullBegin DEF OwnInv, Own, Pull!NoStrayBranch

\* What a step makes of what a submission has patched.
TreesMoved ==
    \A s \in PullSubmissions :
        \/ tree'[s] \in {tree[s], <<>>}
        \/ \E f \in PullFiles : tree'[s] =
              [g \in DOMAIN tree[s] \cup {f} |-> IF g = f THEN Pull!Patched(s, f) ELSE tree[s][g]]

\* What it makes of the branches.
RefsMoved ==
    \A h \in Pull!Heads :
        \/ refs'[h] \in {refs[h], Null}
        \/ \E s \in PullSubmissions :
              /\ h = Pull!Head(s) /\ pullPhase[s] = "ref" /\ refs'[h].tree = tree[s]
              /\ pullPhase'[s] = "pr" \/ h \in lost'

\* Who is done with a branch has opened its pull request, or deleted or lost it.
NoneLeft ==
    /\ lost \subseteq lost'
    /\ \A h \in Pull!Heads : pullPrs[h] \in {"open", "merged"} =>
          pullPrs'[h] \in {"open", "merged"} \/ refs'[h] = Null
    /\ \A s \in PullSubmissions :
          pullPhase[s] \in {"pr", "rollback"} /\ pullPhase'[s] \notin {"pr", "rollback"} =>
             \/ refs'[Pull!Head(s)] = Null \/ pullPrs'[Pull!Head(s)] = "open"
             \/ Pull!Head(s) \in lost'

Moved == TreesMoved /\ RefsMoved /\ NoneLeft

LEMMA OwnMoved ==
  ASSUME OwnInv, PullInv', PullKept, Moved
  PROVE  OwnInv'
<1>a. PullTyped /\ Grown
  BY DEF OwnInv, PullInv
<1>b. \A f \in PullFiles : pullMain[f] \subseteq pullMain'[f]
  BY DEF PullKept
<1>c. \A s \in PullSubmissions : Pull!Head(s) \in Pull!Heads /\ Pull!Head(s)[2] = PullProgram[s]
  BY HeadType DEF Pull!Head
<1>d. \A s \in PullSubmissions : DOMAIN tree[s] \subseteq PullFiles
  BY <1>a DEF PullTyped, Trees
<1>1. ASSUME NEW s \in PullSubmissions, NEW f \in DOMAIN tree'[s]
      PROVE  tree'[s][f] \ pullMain'[f] \subseteq {PullProgram[s]}
  <2>1. CASE tree'[s] = tree[s]
    BY <1>1, <1>b, <1>d, <2>1 DEF OwnInv, Own
  <2>2. CASE tree'[s] = <<>>
    BY <1>1, <2>2, EmptyTree
  <2>3. ASSUME NEW e \in PullFiles, tree'[s] =
              [g \in DOMAIN tree[s] \cup {e} |-> IF g = e THEN Pull!Patched(s, e) ELSE tree[s][g]]
        PROVE  tree'[s][f] \ pullMain'[f] \subseteq {PullProgram[s]}
    BY <1>1, <1>b, <1>d, <2>3 DEF OwnInv, Own, Pull!Patched
  <2>4. QED BY <2>1, <2>2, <2>3 DEF Moved, TreesMoved
<1>2. ASSUME NEW h \in Pull!Heads, refs'[h] # Null, NEW f \in PullFiles
      PROVE  refs'[h].tree[f] \ pullMain'[f] \subseteq {h[2]}
  <2>1. CASE refs'[h] = refs[h]
    BY <1>2, <1>b, <2>1 DEF OwnInv, Own
  <2>2. ASSUME NEW s \in PullSubmissions, h = Pull!Head(s), pullPhase[s] = "ref", refs'[h].tree = tree[s]
        PROVE  refs'[h].tree[f] \ pullMain'[f] \subseteq {h[2]}
    <3>1. f \in DOMAIN tree[s]
      BY <1>a, <2>2 DEF Grown
    <3>2. QED BY <1>b, <1>c, <2>2, <3>1 DEF OwnInv, Own
  <2>3. QED BY <1>2, <2>1, <2>2 DEF Moved, RefsMoved
<1>3. Own'
  BY <1>1, <1>2 DEF Own
<1>4. ASSUME NEW h \in Pull!Heads, refs'[h] # Null
      PROVE  \/ pullPrs'[h] \in {"open", "merged"} \/ h \in lost'
             \/ \E s \in PullSubmissions : Pull!Head(s) = h /\ pullPhase'[s] \in {"pr", "rollback"}
  <2>1. CASE refs[h] # Null
    BY <1>4, <2>1 DEF OwnInv, Pull!NoStrayBranch, Moved, NoneLeft
  <2>2. CASE refs[h] = Null
    BY <1>4, <2>2 DEF Moved, RefsMoved
  <2>3. QED BY <2>1, <2>2
<1>5. QED BY <1>3, <1>4 DEF OwnInv, Pull!NoStrayBranch

LEMMA StepMoves ==
  ASSUME PullInv, [Pull!Next]_pull
  PROVE  Moved
<1>a. PullTyped
  BY DEF PullInv
<1>b. ASSUME NEW s \in PullSubmissions, NEW p \in Pull!Phases, pullPhase' = [pullPhase EXCEPT ![s] = p]
      PROVE  \A t \in PullSubmissions : pullPhase'[t] = IF t = s THEN p ELSE pullPhase[t]
  BY <1>a, <1>b DEF PullTyped
<1>f. ASSUME NEW s \in PullSubmissions, Pull!Forget(s) PROVE TreesMoved
  BY <1>a, <1>f DEF PullTyped, Pull!Forget, TreesMoved
<1>u. tree' = tree => TreesMoved
  BY DEF TreesMoved
<1>r. refs' = refs => RefsMoved
  BY DEF RefsMoved
<1>l. ASSUME NEW s \in PullSubmissions, NEW p \in Pull!Phases, pullPhase' = [pullPhase EXCEPT ![s] = p],
             pullPhase[s] \notin {"pr", "rollback"} \/ p \in {"pr", "rollback"},
             pullPrs' = pullPrs, lost \subseteq lost'
      PROVE  NoneLeft
  BY <1>b, <1>l DEF NoneLeft
<1>h. \A s \in PullSubmissions : Pull!Head(s) \in Pull!Heads
  BY HeadType
<1> USE DEF Pull!Phases
<1>1. ASSUME NEW s \in PullSubmissions, Pull!Create(s) PROVE Moved
  <2>1. lost' = lost
    BY <1>1 DEF Pull!Create
  <2>2. CASE UNCHANGED <<refs, pullPrs>> /\ (Pull!EnsureFork(s) \/ Pull!Look(s) \/ Pull!MakeCommit(s))
    <3>1. tree' = tree \/ Pull!Forget(s)
      BY <2>2 DEF Pull!EnsureFork, Pull!Look, Pull!MakeCommit
    <3>2. \E p \in Pull!Phases : pullPhase' = [pullPhase EXCEPT ![s] = p] /\ pullPhase[s] \notin {"pr", "rollback"}
      BY <2>2 DEF Pull!EnsureFork, Pull!Look, Pull!MakeCommit, Pull!Goto
    <3>3. QED BY <1>f, <1>u, <1>r, <1>l, <2>1, <2>2, <3>1, <3>2 DEF Moved
  <2>3. CASE UNCHANGED <<refs, pullPrs>> /\ Pull!Fetch(s)
    <3>1. PICK f \in PullFiles \ DOMAIN tree[s] :
             IF Pull!Refuses(s, f)
             THEN pullPhase' = [pullPhase EXCEPT ![s] = "idle"] /\ Pull!Forget(s)
             ELSE /\ tree' = [tree EXCEPT ![s] =
                       [g \in DOMAIN @ \cup {f} |-> IF g = f THEN Pull!Patched(s, f) ELSE @[g]]]
                  /\ UNCHANGED <<pullPhase, base>>
      BY <2>3 DEF Pull!Fetch, Pull!Goto
    <3>2. pullPhase[s] = "fetch"
      BY <2>3 DEF Pull!Fetch
    <3>3. CASE Pull!Refuses(s, f)
      BY <1>f, <1>r, <1>l, <2>1, <2>3, <3>1, <3>2, <3>3 DEF Moved
    <3>4. CASE ~Pull!Refuses(s, f)
      <4> DEFINE grown == [g \in DOMAIN tree[s] \cup {f} |-> IF g = f THEN Pull!Patched(s, f) ELSE tree[s][g]]
      <4>1. tree' = [tree EXCEPT ![s] = grown] /\ pullPhase' = pullPhase
        BY <3>1, <3>4
      <4>2. \A t \in PullSubmissions : tree'[t] = IF t = s THEN grown ELSE tree[t]
        BY <1>a, <4>1 DEF PullTyped
      <4>3. TreesMoved
        BY <4>2 DEF TreesMoved
      <4>4. NoneLeft
        BY <2>1, <2>3, <4>1 DEF NoneLeft
      <4>5. QED BY <1>r, <2>3, <4>3, <4>4 DEF Moved
    <3>5. QED BY <3>3, <3>4
  <2>4. CASE Pull!CreateRef(s) /\ UNCHANGED pullPrs
    <3>1. CASE refs[Pull!Head(s)] = Null
      <4>1. /\ pullPhase[s] = "ref" /\ pullPhase' = [pullPhase EXCEPT ![s] = "pr"] /\ UNCHANGED <<base, tree>>
            /\ refs' = [refs EXCEPT ![Pull!Head(s)] = [by |-> s, base |-> base[s], tree |-> tree[s]]]
        BY <2>4, <3>1 DEF Pull!CreateRef, Pull!Goto
      <4>2. pullPhase'[s] = "pr"
        BY <1>a, <4>1 DEF PullTyped
      <4>3. RefsMoved
        BY <1>a, <1>h, <4>1, <4>2 DEF RefsMoved, PullTyped
      <4>4. QED BY <1>u, <1>l, <2>1, <2>4, <4>1, <4>3 DEF Moved
    <3>2. CASE refs[Pull!Head(s)] # Null
      <4>1. pullPhase' = [pullPhase EXCEPT ![s] = "idle"] /\ Pull!Forget(s) /\ UNCHANGED refs /\ pullPhase[s] = "ref"
        BY <2>4, <3>2 DEF Pull!CreateRef, Pull!Goto
      <4>2. QED BY <1>f, <1>r, <1>l, <2>1, <2>4, <4>1 DEF Moved
    <3>3. QED BY <3>1, <3>2
  <2>5. CASE Pull!OpenPr(s) /\ UNCHANGED refs
    <3>1. /\ pullPhase[s] = "pr" /\ pullPhase' = [pullPhase EXCEPT ![s] = "idle"] /\ Pull!Forget(s)
          /\ pullPrs' = [pullPrs EXCEPT ![Pull!Head(s)] = "open"]
      BY <2>5 DEF Pull!OpenPr, Pull!Goto
    <3>2. \A h \in Pull!Heads : pullPrs'[h] = IF h = Pull!Head(s) THEN "open" ELSE pullPrs[h]
      BY <1>a, <3>1 DEF PullTyped
    <3>3. NoneLeft
      <4>1. \A t \in PullSubmissions : t # s => pullPhase'[t] = pullPhase[t]
        BY <1>a, <3>1 DEF PullTyped
      <4>2. pullPrs'[Pull!Head(s)] = "open"
        BY <1>h, <3>2
      <4>3. \A h \in Pull!Heads : pullPrs[h] \in {"open", "merged"} => pullPrs'[h] \in {"open", "merged"}
        BY <3>2
      <4>4. QED BY <2>1, <4>1, <4>2, <4>3 DEF NoneLeft
    <3>4. QED BY <1>f, <1>r, <2>5, <3>1, <3>3 DEF Moved
  <2>6. CASE Pull!DeleteRef(s)
    <3>1. /\ pullPhase' = [pullPhase EXCEPT ![s] = "idle"] /\ Pull!Forget(s)
          /\ refs' = [refs EXCEPT ![Pull!Head(s)] = Null]
          /\ pullPrs' = [pullPrs EXCEPT ![Pull!Head(s)] = IF @ = "open" THEN "closed" ELSE @]
      BY <2>6 DEF Pull!DeleteRef, Pull!Goto
    <3>2. /\ \A h \in Pull!Heads : h # Pull!Head(s) => refs'[h] = refs[h] /\ pullPrs'[h] = pullPrs[h]
          /\ refs'[Pull!Head(s)] = Null
      BY <1>a, <1>h, <3>1 DEF PullTyped
    <3>3. NoneLeft
      BY <1>b, <2>1, <3>1, <3>2 DEF NoneLeft
    <3>4. RefsMoved
      BY <3>2 DEF RefsMoved
    <3>5. QED BY <1>f, <3>1, <3>3, <3>4 DEF Moved
  <2>7. QED BY <1>1, <2>2, <2>3, <2>4, <2>5, <2>6 DEF Pull!Create
<1>2. ASSUME NEW s \in PullSubmissions, Pull!Fault(s) PROVE Moved
  <2>1. CASE Pull!Fail(s)
    <3>1. /\ UNCHANGED <<refs, pullPrs, lost>> /\ Pull!Forget(s)
          /\ \E p \in Pull!Phases : /\ pullPhase' = [pullPhase EXCEPT ![s] = p]
                                    /\ pullPhase[s] \notin {"pr", "rollback"} \/ p \in {"pr", "rollback"}
      BY <2>1 DEF Pull!Fail, Pull!Goto, Pull!AfterFailure
    <3>2. QED BY <1>f, <1>r, <1>l, <3>1 DEF Moved
  <2>2. CASE Pull!Leave(s)
    <3>1. /\ UNCHANGED <<refs, pullPrs>> /\ Pull!Forget(s) /\ pullPhase' = [pullPhase EXCEPT ![s] = "idle"]
          /\ lost' = lost \cup {Pull!Head(s)}
      BY <2>2 DEF Pull!Leave, Pull!Goto
    <3>2. NoneLeft
      BY <1>b, <3>1 DEF NoneLeft
    <3>3. QED BY <1>f, <1>r, <3>1, <3>2 DEF Moved
  <2>3. ASSUME pullPhase[s] = "ref", UNCHANGED pullPrs, Pull!Forget(s), lost' = lost \cup {Pull!Head(s)},
               refs' = [refs EXCEPT ![Pull!Head(s)] = [by |-> s, base |-> base[s], tree |-> tree[s]]],
               pullPhase' = [pullPhase EXCEPT ![s] = "idle"]
        PROVE  Moved
    <3>1. RefsMoved
      BY <1>a, <1>h, <2>3 DEF RefsMoved, PullTyped
    <3>2. QED BY <1>f, <1>l, <2>3, <3>1 DEF Moved
  <2>4. ASSUME pullPhase[s] = "pr", UNCHANGED <<refs, lost>>, Pull!Forget(s),
               pullPrs' = [pullPrs EXCEPT ![Pull!Head(s)] = "open"],
               pullPhase' = [pullPhase EXCEPT ![s] = "rollback"]
        PROVE  Moved
    <3>1. \A h \in Pull!Heads : pullPrs'[h] = IF h = Pull!Head(s) THEN "open" ELSE pullPrs[h]
      BY <1>a, <2>4 DEF PullTyped
    <3>2. NoneLeft
      BY <1>b, <2>4, <3>1 DEF NoneLeft
    <3>3. QED BY <1>f, <1>r, <2>4, <3>2 DEF Moved
  <2>5. QED BY <1>2, <2>1, <2>2, <2>3, <2>4 DEF Pull!Fault, Pull!LoseAnswer, Pull!Goto
<1>3. ASSUME NEW s \in PullSubmissions, Pull!Submit(s) \/ Pull!Check(s) \/ Pull!ReadBase(s) PROVE Moved
  <2>1. /\ UNCHANGED <<refs, pullPrs, lost, tree>>
        /\ \E p \in Pull!Phases : /\ pullPhase' = [pullPhase EXCEPT ![s] = p]
                                  /\ pullPhase[s] \notin {"pr", "rollback"}
    BY <1>3 DEF Pull!Submit, Pull!Check, Pull!ReadBase, Pull!Goto
  <2>2. QED BY <1>u, <1>r, <1>l, <2>1 DEF Moved
<1>4. ASSUME NEW h \in Pull!Heads, Pull!Merge(h) PROVE Moved
  <2>1. UNCHANGED <<refs, lost, tree, pullPhase>> /\ pullPrs' = [pullPrs EXCEPT ![h] = "merged"]
    BY <1>4 DEF Pull!Merge
  <2>2. \A g \in Pull!Heads : pullPrs'[g] = IF g = h THEN "merged" ELSE pullPrs[g]
    BY <1>a, <2>1 DEF PullTyped
  <2>3. NoneLeft
    BY <2>1, <2>2 DEF NoneLeft
  <2>4. QED BY <1>u, <1>r, <2>1, <2>3 DEF Moved
<1>5. ASSUME UNCHANGED <<refs, pullPrs, pullPhase, tree, lost>> PROVE Moved
  BY <1>5 DEF Moved, TreesMoved, RefsMoved, NoneLeft
<1>6. CASE UNCHANGED pull \/ (\E u \in Pull!Users : Pull!ForkReady(u)) \/ \E p \in PullPrograms : Pull!AddByHand(p)
  BY <1>5, <1>6 DEF pull, Pull!ForkReady, Pull!AddByHand
<1>7. QED BY <1>1, <1>2, <1>3, <1>4, <1>6 DEF Pull!Next

LEMMA OwnStep == OwnInv /\ [Pull!Next]_pull => OwnInv'
<1> SUFFICES ASSUME OwnInv, [Pull!Next]_pull PROVE OwnInv'
  OBVIOUS
<1>1. PullInv' /\ PullKept /\ Moved
  BY PullStep, StepMoves DEF OwnInv
<1>2. QED BY <1>1, OwnMoved

(***************************************************************************)
(* warehouse-mcp: the pool of connections, and the cache of results its    *)
(* clients page through.                                                   *)
(***************************************************************************)

Entries == [id : Nat, at : Nat, size : Nat]
Calls == [phase : Query!Phases, attempt : Nat, refused : {0, 1}]
Pages == [id : Nat, offset : Nat, rows : Seq(Nat), more : BOOLEAN]
Holders == {c \in QueryClients : call[c].phase = "running"}

QueryTyped ==
    /\ queryNow \in Nat /\ free \in Nat /\ results \in Seq(Entries)
    /\ call \in [QueryClients -> Calls] /\ queryPage \in [QueryClients -> Pages]

\* Results are numbered as they come, and the cache has some of them.
Numbered ==
    /\ \A k \in DOMAIN results : results[k].id = k
    /\ queryCache \subseteq {results[k] : k \in DOMAIN results}

Connected == IsFiniteSet(Holders) /\ free + Cardinality(Holders) = QueryPool

NotRefused == \A c \in QueryClients : call[c].phase # "idle" => call[c].refused = 0

\* What the cache still has of those that have not expired.
Kept ==
    /\ Cardinality(queryCache) <= CacheEntries
    /\ \A k \in DOMAIN results :
          k + CacheEntries > Len(results) /\ Query!Live(results[k]) => results[k] \in queryCache

\* A page begins where the rows read so far end.
Reading(p) ==
    p.id # 0 =>
        /\ p.id \in DOMAIN results /\ p.rows = [i \in 1 .. Len(p.rows) |-> i]
        /\ p.more => Len(p.rows) = p.offset /\ p.offset < results[p.id].size
        /\ ~ p.more => Len(p.rows) = results[p.id].size

QueryInv ==
    /\ QueryTyped /\ Numbered /\ Connected /\ NotRefused /\ Kept
    /\ \A c \in QueryClients : Reading(queryPage[c])

LEMMA QueryLimits == CacheEntries \in Nat \ {0} /\ CacheTtl \in Nat /\ QueryPool \in Nat /\ MaxQueryRows \in Nat
BY QueryAssumption

LEMMA CardinalityOfQuery == \A S : Query!Cardinality(S) = Cardinality(S)
BY Zenon DEF Cardinality, Query!Cardinality

LEMMA NumberedWithin ==
  ASSUME NEW S, NEW a \in Nat, NEW b \in Nat, a <= b + 1,
         \A e \in S : e.id \in a .. b, \A d, e \in S : d.id = e.id => d = e
  PROVE  IsFiniteSet(S) /\ Cardinality(S) <= b + 1 - a
<1> DEFINE f == [e \in S |-> e.id]
<1>1. f \in Injection(S, a .. b)
  BY DEF Injection, IsInjective
<1>2. IsFiniteSet(a .. b) /\ Cardinality(a .. b) = b + 1 - a
  BY FS_Interval
<1> HIDE DEF f
<1>3. IsFiniteSet(S) /\ Cardinality(S) <= Cardinality(a .. b)
  BY <1>1, <1>2, FS_Injection
<1>4. QED BY <1>2, <1>3

LEMMA CacheIsFinite ==
  ASSUME QueryTyped, Numbered
  PROVE  /\ IsFiniteSet(queryCache) /\ queryCache \subseteq Entries
         /\ \A e \in queryCache : e.id \in DOMAIN results /\ results[e.id] = e
<1>1. DOMAIN results = 1 .. Len(results) /\ Len(results) \in Nat
  BY DEF QueryTyped
<1>2. \A e \in queryCache : e \in Entries /\ e.id \in 1 .. Len(results) /\ results[e.id] = e
  BY <1>1 DEF QueryTyped, Numbered
<1>3. IsFiniteSet(queryCache)
  BY <1>1, <1>2, NumberedWithin
<1>4. QED BY <1>1, <1>2, <1>3

LEMMA QueryKeeps == QueryInv => Query!NoConnectionLeaks /\ Query!RefusedOnce /\ Query!CacheKeepsRecent /\ Query!PagesInOrder
<1> SUFFICES ASSUME QueryInv
             PROVE  Query!NoConnectionLeaks /\ Query!RefusedOnce /\ Query!CacheKeepsRecent /\ Query!PagesInOrder
  OBVIOUS
<1> USE DEF QueryInv
<1>1. Query!NoConnectionLeaks
  BY CardinalityOfQuery DEF Query!NoConnectionLeaks, Connected, Holders
<1>2. Query!RefusedOnce
  BY DEF Query!RefusedOnce, QueryTyped, Calls
<1>3. Query!CacheKeepsRecent
  <2>1. Query!Cardinality(queryCache) <= CacheEntries
    BY CardinalityOfQuery DEF Kept
  <2>2. ASSUME NEW k \in DOMAIN results, k + CacheEntries > Query!stored, Query!Live(results[k])
        PROVE  \E e \in queryCache : e.id = k
    BY <2>2 DEF Kept, Numbered, Query!stored
  <2>3. QED BY <2>1, <2>2 DEF Query!CacheKeepsRecent
<1>4. Query!PagesInOrder
  BY DEF Query!PagesInOrder, Reading
<1>5. QED BY <1>1, <1>2, <1>3, <1>4

LEMMA QueryStart == Query!Init => QueryInv
<1> SUFFICES ASSUME Query!Init PROVE QueryInv
  OBVIOUS
<1> USE DEF Query!Init
<1>1. QueryTyped
  BY QueryLimits DEF QueryTyped, Entries, Calls, Pages, Query!Phases, Query!Idle, Query!Nothing
<1>2. Numbered
  BY DEF Numbered
<1>3. Holders = {}
  BY DEF Holders, Query!Idle
<1>4. Connected
  BY <1>3, FS_EmptySet, QueryLimits DEF Connected
<1>5. NotRefused /\ \A c \in QueryClients : Reading(queryPage[c])
  BY DEF NotRefused, Reading, Query!Idle, Query!Nothing
<1>6. Kept
  BY FS_EmptySet, QueryLimits DEF Kept
<1>7. QED BY <1>1, <1>2, <1>4, <1>5, <1>6 DEF QueryInv

InUse(phase) == IF phase = "running" THEN 1 ELSE 0

LEMMA HoldersCounted ==
  ASSUME QueryTyped, Connected, NEW c \in QueryClients, NEW d \in Calls,
         call' = [call EXCEPT ![c] = d],
         free' = free + InUse(call[c].phase) - InUse(d.phase)
  PROVE  Connected'
<1>1. IsFiniteSet(Holders) /\ Cardinality(Holders) \in Nat /\ free \in Nat /\ free + Cardinality(Holders) = QueryPool
  BY FS_CardinalityType DEF Connected, QueryTyped
<1>2. Holders' = IF d.phase = "running" THEN Holders \cup {c} ELSE Holders \ {c}
  BY DEF Holders, QueryTyped
<1>3. c \in Holders <=> call[c].phase = "running"
  BY DEF Holders
<1>4. IsFiniteSet(Holders') /\ Cardinality(Holders') = Cardinality(Holders) - InUse(call[c].phase) + InUse(d.phase)
  <2>1. CASE d.phase = "running"
    <3>1. Holders' = Holders \cup {c}
      BY <1>2, <2>1
    <3>2. IsFiniteSet(Holders') /\ Cardinality(Holders') = IF c \in Holders THEN Cardinality(Holders) ELSE Cardinality(Holders) + 1
      BY <1>1, <3>1, FS_AddElement
    <3>3. QED BY <1>1, <1>3, <2>1, <3>2 DEF InUse
  <2>2. CASE d.phase # "running"
    <3>1. Holders' = Holders \ {c}
      BY <1>2, <2>2
    <3>2. IsFiniteSet(Holders') /\ Cardinality(Holders') = IF c \in Holders THEN Cardinality(Holders) - 1 ELSE Cardinality(Holders)
      BY <1>1, <3>1, FS_RemoveElement
    <3>3. QED BY <1>1, <1>3, <2>2, <3>2 DEF InUse
  <2>3. QED BY <2>1, <2>2
<1>5. InUse(call[c].phase) \in Nat /\ InUse(d.phase) \in Nat
  BY DEF InUse
<1>6. free' + Cardinality(Holders') = QueryPool
  BY <1>1, <1>4, <1>5
<1>7. QED BY <1>4, <1>6 DEF Connected

LEMMA CallMoves ==
  ASSUME QueryInv, NEW c \in QueryClients, NEW d \in Calls,
         UNCHANGED queryNow, UNCHANGED queryCache, UNCHANGED results, UNCHANGED queryPage,
         call' = [call EXCEPT ![c] = d], d.phase # "idle" => d.refused = 0,
         free' \in Nat, free' = free + InUse(call[c].phase) - InUse(d.phase)
  PROVE  QueryInv'
<1>1. QueryTyped /\ Numbered /\ Connected /\ NotRefused /\ Kept /\ \A x \in QueryClients : Reading(queryPage[x])
  BY DEF QueryInv
<1>2. QueryTyped' /\ NotRefused'
  BY <1>1 DEF QueryTyped, NotRefused
<1>3. Numbered' /\ Kept' /\ (\A x \in QueryClients : Reading(queryPage[x]))'
  BY <1>1 DEF Numbered, Kept, Reading, Query!Live
<1>4. Connected'
  BY <1>1, HoldersCounted
<1>5. QED BY <1>2, <1>3, <1>4 DEF QueryInv

\* The rows 1 .. n, and how many a page of a result of size rows adds to them.
UpTo(n) == [i \in 1 .. n |-> i]
RowsOf(start, limit, size) == IF start + limit < size THEN limit ELSE size - start

LEMMA UpToLen == \A n \in Nat : UpTo(n) \in Seq(Nat) /\ Len(UpTo(n)) = n
BY DEF UpTo

LEMMA UpToGrows ==
  ASSUME NEW m \in Nat, NEW k \in Nat
  PROVE  Len([i \in 1 .. k |-> m + i]) = k /\ UpTo(m) \o [i \in 1 .. k |-> m + i] = UpTo(m + k)
<1> DEFINE more == [i \in 1 .. k |-> m + i]
<1>1. more \in Seq(Nat) /\ Len(more) = k /\ \A i \in 1 .. k : more[i] = m + i
  OBVIOUS
<1>2. UpTo(m) \in Seq(Nat) /\ Len(UpTo(m)) = m /\ UpTo(m + k) \in Seq(Nat) /\ Len(UpTo(m + k)) = m + k
  BY UpToLen
<1> HIDE DEF more
<1>3. UpTo(m) \o more \in Seq(Nat) /\ Len(UpTo(m) \o more) = m + k
      /\ \A i \in 1 .. m + k : (UpTo(m) \o more)[i] = IF i <= m THEN UpTo(m)[i] ELSE more[i - m]
  <2>1. /\ UpTo(m) \o more \in Seq(Nat) /\ Len(UpTo(m) \o more) = Len(UpTo(m)) + Len(more)
        /\ \A i \in 1 .. Len(UpTo(m)) + Len(more) :
              (UpTo(m) \o more)[i] = IF i <= Len(UpTo(m)) THEN UpTo(m)[i] ELSE more[i - Len(UpTo(m))]
    BY <1>1, <1>2, ConcatProperties
  <2>2. QED BY <1>1, <1>2, <2>1
<1>4. \A i \in 1 .. m + k : (UpTo(m) \o more)[i] = UpTo(m + k)[i]
  BY <1>1, <1>3 DEF UpTo
<1>5. UpTo(m) \o more = UpTo(m + k)
  BY <1>2, <1>3, <1>4, SeqEqual
<1>6. QED BY <1>1, <1>5 DEF more

LEMMA NextRows ==
  ASSUME NEW start \in Nat, NEW limit \in Nat, NEW size \in Nat, start < size
  PROVE  LET n == RowsOf(start, limit, size)
         IN  /\ n \in Nat /\ start + n \in Nat /\ start + limit \in Nat
             /\ start + n < size => n = limit
             /\ ~ (start + n < size) => start + n = size
BY DEF RowsOf

LEMMA QueryStep == QueryInv /\ [Query!Next]_query => QueryInv'
<1> SUFFICES ASSUME QueryInv, [Query!Next]_query PROVE QueryInv'
  OBVIOUS
<1>a. QueryTyped /\ Numbered /\ Connected /\ NotRefused /\ Kept /\ \A c \in QueryClients : Reading(queryPage[c])
  BY DEF QueryInv
<1>b. /\ DOMAIN results = 1 .. Len(results) /\ Len(results) \in Nat
      /\ \A k \in DOMAIN results : results[k] \in Entries
      /\ \A c \in QueryClients : call[c] \in Calls /\ queryPage[c] \in Pages
      /\ queryNow \in Nat /\ free \in Nat
  BY <1>a DEF QueryTyped
<1>1. CASE UNCHANGED query
  BY <1>a, <1>1 DEF query, QueryInv, QueryTyped, Numbered, Connected, Holders, NotRefused, Kept, Reading, Query!Live
<1>2. CASE Query!Tick
  <2>1. UNCHANGED <<free, call, queryCache, results, queryPage, queryFaults>> /\ queryNow' = queryNow + 1
    BY <1>2 DEF Query!Tick
  <2>2. QueryTyped'
    BY <1>a, <2>1 DEF QueryTyped
  <2>3. Kept'
    <3>1. \A k \in DOMAIN results : Query!Live(results[k])' => Query!Live(results[k])
      BY <1>b, <2>1, QueryLimits DEF Query!Live, Entries
    <3>2. QED BY <1>a, <2>1, <3>1 DEF Kept
  <2>4. Numbered' /\ Connected' /\ NotRefused' /\ (\A c \in QueryClients : Reading(queryPage[c]))'
    BY <1>a, <2>1 DEF Numbered, Connected, Holders, NotRefused, Reading
  <2>5. QED BY <2>2, <2>3, <2>4 DEF QueryInv
<1>4. ASSUME NEW c \in QueryClients,
             Query!Ask(c) \/ Query!Acquire(c) \/ Query!PoolTimeout(c) \/ Query!Retry(c) \/ Query!Lose(c) \/ Query!Refuse(c)
      PROVE  QueryInv'
  <2>1. DOMAIN call = QueryClients /\ call[c] \in Calls /\ (call[c].phase # "idle" => call[c].refused = 0)
    BY <1>a DEF QueryTyped, NotRefused
  <2>2. CASE Query!Ask(c)
    <3> DEFINE d == [Query!Idle EXCEPT !.phase = "waiting", !.attempt = 1]
    <3>1. call[c].phase = "idle" /\ UNCHANGED queryNow /\ UNCHANGED queryCache /\ UNCHANGED results /\ UNCHANGED queryPage
      BY <2>1, <2>2 DEF Query!Ask
    <3>2. d \in Calls /\ d.phase = "waiting" /\ d.refused = 0
      BY <2>1, <3>1 DEF Calls, Query!Phases, Query!Idle
    <3>3. call' = [call EXCEPT ![c] = d] /\ free' = free
      BY <2>1, <2>2 DEF Query!Ask
    <3> HIDE DEF d
    <3>4. free' \in Nat /\ free' = free + InUse(call[c].phase) - InUse(d.phase)
      BY <1>b, <3>1, <3>2, <3>3 DEF InUse
    <3>5. d.phase # "idle" => d.refused = 0
      BY <2>1, <3>1, <3>2
    <3>6. QED BY <3>1, <3>2, <3>3, <3>4, <3>5, CallMoves
  <2>3. CASE Query!Acquire(c)
    <3> DEFINE d == [call[c] EXCEPT !.phase = "running"]
    <3>1. call[c].phase = "waiting" /\ free > 0 /\ UNCHANGED queryNow /\ UNCHANGED queryCache /\ UNCHANGED results /\ UNCHANGED queryPage
      BY <2>1, <2>3 DEF Query!Acquire
    <3>2. d \in Calls /\ d.phase = "running" /\ d.refused = call[c].refused
      BY <2>1, <3>1 DEF Calls, Query!Phases, Query!Idle
    <3>3. call' = [call EXCEPT ![c] = d] /\ free' = free - 1
      BY <2>1, <2>3 DEF Query!Acquire
    <3> HIDE DEF d
    <3>4. free' \in Nat /\ free' = free + InUse(call[c].phase) - InUse(d.phase)
      BY <1>b, <3>1, <3>2, <3>3 DEF InUse
    <3>5. d.phase # "idle" => d.refused = 0
      BY <2>1, <3>1, <3>2
    <3>6. QED BY <3>1, <3>2, <3>3, <3>4, <3>5, CallMoves
  <2>4. CASE Query!PoolTimeout(c)
    <3> DEFINE d == [call[c] EXCEPT !.phase = "idle"]
    <3>1. call[c].phase = "waiting" /\ UNCHANGED queryNow /\ UNCHANGED queryCache /\ UNCHANGED results /\ UNCHANGED queryPage
      BY <2>1, <2>4 DEF Query!PoolTimeout
    <3>2. d \in Calls /\ d.phase = "idle"
      BY <2>1, <3>1 DEF Calls, Query!Phases, Query!Idle
    <3>3. call' = [call EXCEPT ![c] = d] /\ free' = free
      BY <2>1, <2>4 DEF Query!PoolTimeout
    <3> HIDE DEF d
    <3>4. free' \in Nat /\ free' = free + InUse(call[c].phase) - InUse(d.phase)
      BY <1>b, <3>1, <3>2, <3>3 DEF InUse
    <3>5. d.phase # "idle" => d.refused = 0
      BY <2>1, <3>1, <3>2
    <3>6. QED BY <3>1, <3>2, <3>3, <3>4, <3>5, CallMoves
  <2>5. CASE Query!Retry(c)
    <3> DEFINE d == [call[c] EXCEPT !.phase = "waiting", !.attempt = call[c].attempt + 1]
    <3>1. call[c].phase = "backoff" /\ UNCHANGED queryNow /\ UNCHANGED queryCache /\ UNCHANGED results /\ UNCHANGED queryPage
      BY <2>1, <2>5 DEF Query!Retry
    <3>2. d \in Calls /\ d.phase = "waiting" /\ d.refused = call[c].refused
      <4>1. call[c].attempt + 1 \in Nat
        BY <2>1 DEF Calls
      <4>2. QED BY <2>1, <4>1 DEF Calls, Query!Phases
    <3>3. call' = [call EXCEPT ![c] = d] /\ free' = free
      BY <2>1, <2>5 DEF Query!Retry
    <3> HIDE DEF d
    <3>4. free' \in Nat /\ free' = free + InUse(call[c].phase) - InUse(d.phase)
      BY <1>b, <3>1, <3>2, <3>3 DEF InUse
    <3>5. d.phase # "idle" => d.refused = 0
      BY <2>1, <3>1, <3>2
    <3>6. QED BY <3>1, <3>2, <3>3, <3>4, <3>5, CallMoves
  <2>6. CASE Query!Lose(c)
    <3> DEFINE d == [call[c] EXCEPT !.phase = IF call[c].attempt < QueryAttempts THEN "backoff" ELSE "idle"]
    <3>1. call[c].phase = "running" /\ UNCHANGED queryNow /\ UNCHANGED queryCache /\ UNCHANGED results /\ UNCHANGED queryPage
      BY <2>1, <2>6 DEF Query!Lose
    <3>2. d \in Calls /\ d.phase \in {"backoff", "idle"} /\ d.refused = call[c].refused
      BY <2>1, <3>1 DEF Calls, Query!Phases, Query!Idle
    <3>3. call' = [call EXCEPT ![c] = d] /\ free' = free + 1
      BY <2>1, <2>6 DEF Query!Lose
    <3> HIDE DEF d
    <3>4. free' \in Nat /\ free' = free + InUse(call[c].phase) - InUse(d.phase)
      BY <1>b, <3>1, <3>2, <3>3 DEF InUse
    <3>5. d.phase # "idle" => d.refused = 0
      BY <2>1, <3>1, <3>2
    <3>6. QED BY <3>1, <3>2, <3>3, <3>4, <3>5, CallMoves
  <2>7. CASE Query!Refuse(c)
    <3> DEFINE d == [call[c] EXCEPT !.refused = call[c].refused + 1, !.phase = "idle"]
    <3>1. call[c].phase = "running" /\ UNCHANGED queryNow /\ UNCHANGED queryCache /\ UNCHANGED results /\ UNCHANGED queryPage
      BY <2>1, <2>7 DEF Query!Refuse
    <3>2. d \in Calls /\ d.phase = "idle"
      <4>1. call[c].refused + 1 = 1
        BY <2>1, <3>1
      <4>2. QED BY <2>1, <4>1 DEF Calls, Query!Phases
    <3>3. call' = [call EXCEPT ![c] = d] /\ free' = free + 1
      BY <2>1, <2>7 DEF Query!Refuse
    <3> HIDE DEF d
    <3>4. free' \in Nat /\ free' = free + InUse(call[c].phase) - InUse(d.phase)
      BY <1>b, <3>1, <3>2, <3>3 DEF InUse
    <3>5. d.phase # "idle" => d.refused = 0
      BY <2>1, <3>1, <3>2
    <3>6. QED BY <3>1, <3>2, <3>3, <3>4, <3>5, CallMoves
  <2>8. QED BY <1>4, <2>2, <2>3, <2>4, <2>5, <2>6, <2>7
<1>5. ASSUME NEW c \in QueryClients, NEW size \in 0 .. MaxQueryRows, NEW preview \in 1 .. 2,
             Query!Answer(c, size, preview)
      PROVE  QueryInv'
  <2> DEFINE entry == [id |-> Len(results) + 1, at |-> queryNow, size |-> size]
             live == {e \in queryCache : Query!Live(e)}
             opening == [id |-> entry.id, offset |-> preview, rows |-> Query!Rows(entry, 0, preview),
                       more |-> size > preview]
             d == [call[c] EXCEPT !.phase = "idle"]
  <2>1. /\ call[c].phase = "running" /\ free' = free + 1 /\ UNCHANGED queryNow
        /\ call' = [call EXCEPT ![c] = d]
        /\ results' = Append(results, entry)
        /\ queryCache' = Query!Evicted(live) \cup {entry}
        /\ queryPage' = [queryPage EXCEPT ![c] = opening]
    BY <1>5 DEF Query!Answer, Query!stored
  <2>2. d \in Calls /\ d.phase = "idle"
    BY <1>b DEF Calls, Query!Phases
  <2>3. entry \in Entries /\ size \in Nat /\ preview \in Nat
    BY <1>b, QueryLimits DEF Entries
  <2>4. /\ results' \in Seq(Entries) /\ Len(results') = Len(results) + 1
        /\ DOMAIN results' = 1 .. Len(results) + 1 /\ results'[Len(results) + 1] = entry
        /\ \A k \in DOMAIN results : results'[k] = results[k]
    BY <1>a, <2>1, <2>3 DEF QueryTyped
  <2>5. /\ opening \in Pages /\ opening.id = Len(results) + 1 /\ opening.offset = preview
        /\ opening.rows = [i \in 1 .. Len(opening.rows) |-> i]
        /\ Len(opening.rows) = (IF preview < size THEN preview ELSE size)
        /\ opening.more = (size > preview)
    <3>1. Query!Rows(entry, 0, preview) = [i \in 1 .. (IF preview < size THEN preview ELSE size) |-> i]
      BY <2>3 DEF Query!Rows
    <3> DEFINE n == IF preview < size THEN preview ELSE size
    <3>2. n \in Nat
      BY <2>3
    <3>3. \A m \in Nat : [i \in 1 .. m |-> i] \in Seq(Nat) /\ Len([i \in 1 .. m |-> i]) = m
      OBVIOUS
    <3>4. opening.rows = [i \in 1 .. n |-> i] /\ opening.rows \in Seq(Nat) /\ Len(opening.rows) = n
      BY <3>1, <3>2, <3>3
    <3>5. opening \in Pages
      BY <1>b, <2>3, <3>4 DEF Pages
    <3>6. QED BY <3>4, <3>5
  <2> HIDE DEF opening, d
  <2>6. QueryTyped' /\ NotRefused'
    <3>1. queryPage' \in [QueryClients -> Pages]
      BY <1>a, <2>1, <2>5 DEF QueryTyped
    <3>2. call' \in [QueryClients -> Calls] /\ free' \in Nat
      BY <1>a, <1>b, <2>1, <2>2 DEF QueryTyped
    <3>3. NotRefused'
      BY <1>a, <2>1, <2>2 DEF NotRefused, QueryTyped
    <3>4. QED BY <1>b, <2>1, <2>4, <3>1, <3>2, <3>3 DEF QueryTyped
  <2>7. Connected'
    <3>1. free' = free + InUse(call[c].phase) - InUse(d.phase)
      BY <1>b, <2>1, <2>2 DEF InUse
    <3>2. QED BY <1>a, <2>1, <2>2, <3>1, HoldersCounted
  <2>8. ASSUME NEW x \in QueryClients PROVE Reading(queryPage[x])'
    <3>1. CASE x = c
      <4>1. queryPage'[x] = opening /\ opening.id \in DOMAIN results' /\ results'[opening.id].size = size
        BY <1>a, <1>b, <2>1, <2>4, <2>5, <3>1 DEF QueryTyped
      <4>2. QED BY <4>1, <2>3, <2>5 DEF Reading
    <3>2. CASE x # c
      <4>1. queryPage'[x] = queryPage[x] /\ Reading(queryPage[x])
        BY <1>a, <2>1, <3>2 DEF QueryTyped
      <4>2. QED BY <1>b, <2>4, <4>1 DEF Reading
    <3>3. QED BY <3>1, <3>2
  <2>9. Query!Evicted(live) \subseteq live /\ live \subseteq queryCache
    BY DEF Query!Evicted
  <2>10. Numbered'
    <3>1. \A e \in queryCache : \E k \in DOMAIN results : e = results[k]
      BY <1>a DEF Numbered
    <3>2. \A e \in queryCache' : \E k \in DOMAIN results' : e = results'[k]
      BY <1>b, <2>1, <2>4, <2>9, <3>1
    <3>3. \A k \in DOMAIN results' : results'[k].id = k
      BY <1>a, <1>b, <2>4 DEF Numbered
    <3>4. QED BY <3>2, <3>3 DEF Numbered
  <2>11. IsFiniteSet(live) /\ Cardinality(live) \in Nat /\ Cardinality(live) <= CacheEntries
         /\ \A e \in live : e \in Entries /\ e.id \in 1 .. Len(results) /\ results[e.id] = e
    <3>1. IsFiniteSet(queryCache) /\ Cardinality(queryCache) <= CacheEntries
      BY <1>a, CacheIsFinite DEF Kept
    <3>2. IsFiniteSet(live) /\ Cardinality(live) <= Cardinality(queryCache)
      BY <2>9, <3>1, FS_Subset
    <3>3. Cardinality(live) \in Nat /\ Cardinality(queryCache) \in Nat
      BY <3>1, <3>2, FS_CardinalityType
    <3>4. QED BY <1>a, <1>b, <2>9, <3>1, <3>2, <3>3, CacheIsFinite, QueryLimits
  <2> DEFINE spared == Query!Evicted(live)
  <2>12. IsFiniteSet(spared) /\ Cardinality(spared) \in Nat /\ Cardinality(spared) < CacheEntries
         /\ \A e \in live \ spared : /\ Cardinality(live) = CacheEntries
                                   /\ \A f \in live : e.id <= f.id
    <3>1. CASE Cardinality(live) < CacheEntries
      <4>1. spared = live
        <5>1. ~(Query!Cardinality(live) >= CacheEntries)
          BY <2>11, <3>1, CardinalityOfQuery, QueryLimits
        <5>2. QED BY <5>1 DEF Query!Evicted
      <4>2. QED BY <2>11, <3>1, <4>1
    <3>2. CASE Cardinality(live) >= CacheEntries
      <4> DEFINE ranks == {e.id : e \in live}
      <4>1. Cardinality(live) = CacheEntries /\ live # {}
        BY <2>11, <3>2, QueryLimits, FS_EmptySet
      <4>2. spared = {e \in live : \E older \in live : older.id < e.id}
        BY <2>11, <3>2, CardinalityOfQuery DEF Query!Evicted
      <4>3. PICK o \in live : \A f \in live : o.id <= f.id
        <5>1. ranks \in SUBSET Int /\ ranks # {} /\ ranks \subseteq 1 .. Len(results)
          BY <2>11, <4>1
        <5>2. IsFiniteSet(ranks)
          <6>1. IsFiniteSet(1 .. Len(results))
            BY <1>b, FS_Interval
          <6> HIDE DEF ranks
          <6>2. QED BY <5>1, <6>1, FS_Subset
        <5>3. PICK m \in ranks : \A i \in ranks : m <= i
          BY <5>1, <5>2, FirstExists
        <5>4. QED BY <5>3
      <4>4. o \notin spared
        <5>1. \A f \in live : f.id \in Int /\ ~ (f.id < o.id)
          BY <2>11, <4>3
        <5>2. QED BY <4>2, <5>1
      <4>5. IsFiniteSet(live \ {o}) /\ Cardinality(live \ {o}) = CacheEntries - 1
        BY <2>11, <4>1, <4>3, FS_RemoveElement
      <4>6. IsFiniteSet(spared) /\ Cardinality(spared) <= CacheEntries - 1 /\ Cardinality(spared) \in Nat
        <5>1. spared \subseteq live \ {o}
          BY <2>9, <4>4
        <5>2. QED BY <4>5, <5>1, FS_Subset, FS_CardinalityType
      <4>7. \A e \in live \ spared : \A f \in live : e.id <= f.id
        BY <2>11, <4>2
      <4>8. QED BY <4>1, <4>6, <4>7, QueryLimits
    <3>3. QED BY <2>11, <3>1, <3>2, QueryLimits
  <2> HIDE DEF spared
  <2>13. Kept'
    <3>1. Cardinality(queryCache') <= CacheEntries
      <4>1. queryCache' = spared \cup {entry}
        BY <2>1 DEF spared
      <4>2. Cardinality(queryCache') \in {Cardinality(spared), Cardinality(spared) + 1}
        BY <2>12, <4>1, FS_AddElement
      <4>3. QED BY <2>12, <4>2, QueryLimits
    <3>2. ASSUME NEW k \in DOMAIN results', k + CacheEntries > Len(results'), Query!Live(results[k])',
                 results'[k] \notin queryCache'
          PROVE  FALSE
      <4>1. k \in DOMAIN results /\ results'[k] = results[k] /\ k + CacheEntries > Len(results) + 1
        BY <1>b, <2>1, <2>4, <3>2
      <4>2. Query!Live(results[k])
        BY <2>1, <3>2, <4>1 DEF Query!Live
      <4>3. results[k] \in live
        <5>1. k + CacheEntries > Len(results)
          BY <1>b, <4>1, QueryLimits
        <5>2. QED BY <1>a, <4>1, <4>2, <5>1 DEF Kept
      <4>4. results[k] \notin spared
        BY <2>1, <3>2, <4>1 DEF spared
      <4>5. results[k].id = k
        BY <1>a, <4>1 DEF Numbered
      <4>6. Cardinality(live) = CacheEntries /\ \A f \in live : f.id \in k .. Len(results)
        <5>1. Cardinality(live) = CacheEntries /\ \A f \in live : k <= f.id
          BY <2>12, <4>3, <4>4, <4>5
        <5>2. QED BY <1>b, <2>11, <4>1, <5>1
      <4>7. \A f, g \in live : f.id = g.id => f = g
        BY <2>11
      <4>8. Cardinality(live) <= Len(results) + 1 - k
        <5>1. k \in Nat /\ k <= Len(results) + 1
          BY <1>b, <4>1
        <5> HIDE DEF live
        <5>2. QED BY <1>b, <4>6, <4>7, <5>1, NumberedWithin
      <4>9. QED BY <1>b, <4>1, <4>6, <4>8, QueryLimits
    <3>3. QED BY <3>1, <3>2 DEF Kept
  <2>14. QED BY <2>6, <2>7, <2>8, <2>10, <2>13 DEF QueryInv
<1>6. ASSUME NEW c \in QueryClients, NEW limit \in 1 .. 2, Query!GetRows(c, limit) PROVE QueryInv'
  <2> DEFINE p == queryPage[c]
  <2>1. PICK e \in queryCache :
           /\ e.id = p.id /\ p.id # 0 /\ p.more
           /\ queryPage' = [queryPage EXCEPT
                 ![c].rows = p.rows \o Query!Rows(e, p.offset, limit),
                 ![c].offset = p.offset + limit,
                 ![c].more = p.offset + Len(Query!Rows(e, p.offset, limit)) < e.size]
           /\ UNCHANGED <<queryNow, free, call, queryCache, results>>
    BY <1>6, <1>b DEF Query!GetRows, Query!NextOffset
  <2>2. e \in Entries /\ results[p.id] = e /\ p \in Pages /\ limit \in Nat
    BY <1>a, <1>b, <2>1, CacheIsFinite
  <2>3. Len(p.rows) = p.offset /\ p.offset < e.size /\ p.rows = [i \in 1 .. p.offset |-> i]
        /\ p.offset \in Nat /\ e.size \in Nat /\ p.id \in DOMAIN results
    BY <1>a, <2>1, <2>2 DEF Reading, Entries, Pages
  <2> DEFINE n == RowsOf(p.offset, limit, e.size)
             q == [p EXCEPT !.rows = UpTo(p.offset + n), !.offset = p.offset + limit,
                            !.more = p.offset + n < e.size]
  <2>4. /\ n \in Nat /\ p.offset + n \in Nat /\ p.offset + limit \in Nat
        /\ p.offset + n < e.size => n = limit
        /\ ~ (p.offset + n < e.size) => p.offset + n = e.size
    BY <2>2, <2>3, NextRows
  <2>5. Len(Query!Rows(e, p.offset, limit)) = n
        /\ p.rows \o Query!Rows(e, p.offset, limit) = UpTo(p.offset + n)
    <3>1. Query!Rows(e, p.offset, limit) = [i \in 1 .. n |-> p.offset + i]
      BY DEF Query!Rows, RowsOf
    <3>2. p.rows = UpTo(p.offset)
      BY <2>3 DEF UpTo
    <3> HIDE DEF n
    <3>3. /\ Len([i \in 1 .. n |-> p.offset + i]) = n
          /\ UpTo(p.offset) \o [i \in 1 .. n |-> p.offset + i] = UpTo(p.offset + n)
      BY <2>3, <2>4, UpToGrows
    <3>4. QED BY <3>1, <3>2, <3>3
  <2>6. queryPage' = [queryPage EXCEPT ![c] = q]
    BY <1>a, <2>1, <2>2, <2>5 DEF QueryTyped, Pages
  <2>7. q \in Pages /\ q.id = p.id /\ q.offset = p.offset + limit /\ q.more = (p.offset + n < e.size)
        /\ q.rows = UpTo(p.offset + n)
    <3> HIDE DEF n
    <3>1. UpTo(p.offset + n) \in Seq(Nat) /\ (p.offset + n < e.size) \in BOOLEAN
      BY <2>4, UpToLen
    <3>2. QED BY <2>2, <2>4, <3>1 DEF Pages
  <2> HIDE DEF n, q
  <2>8. Len(q.rows) = p.offset + n /\ q.rows = [i \in 1 .. Len(q.rows) |-> i]
    <3>1. Len(UpTo(p.offset + n)) = p.offset + n
      BY <2>4, UpToLen
    <3>2. QED BY <2>7, <3>1 DEF UpTo
  <2>9. (q.more => Len(q.rows) = q.offset /\ q.offset < e.size) /\ (~ q.more => Len(q.rows) = e.size)
    BY <2>4, <2>7, <2>8
  <2>10. QueryTyped'
    BY <1>a, <2>1, <2>6, <2>7 DEF QueryTyped
  <2>11. Numbered' /\ Connected' /\ NotRefused' /\ Kept'
    BY <1>a, <2>1 DEF Numbered, Connected, Holders, NotRefused, Kept, Query!Live
  <2>12. ASSUME NEW x \in QueryClients PROVE Reading(queryPage[x])'
    <3>1. CASE x = c
      <4>1. queryPage'[x] = q /\ results' = results
        BY <1>a, <2>1, <2>6, <3>1 DEF QueryTyped
      <4>2. QED BY <4>1, <2>2, <2>3, <2>7, <2>8, <2>9 DEF Reading
    <3>2. CASE x # c
      BY <1>a, <2>1, <2>6, <3>2 DEF Reading, QueryTyped
    <3>3. QED BY <3>1, <3>2
  <2>13. QED BY <2>10, <2>11, <2>12 DEF QueryInv
<1>7. ASSUME NEW c \in QueryClients, Query!NotFound(c) PROVE QueryInv'
  <2>1. /\ ~ \E e \in queryCache : e.id = queryPage[c].id /\ Query!Live(e)
        /\ queryCache' = {e \in queryCache : e.id # queryPage[c].id}
        /\ queryPage' = [queryPage EXCEPT ![c] = Query!Nothing]
        /\ UNCHANGED <<queryNow, free, call, results>>
    BY <1>7 DEF Query!NotFound
  <2>2. Query!Nothing \in Pages /\ Query!Nothing.id = 0
    BY DEF Query!Nothing, Pages
  <2>3. QueryTyped'
    BY <1>a, <2>1, <2>2 DEF QueryTyped
  <2>4. Numbered' /\ Connected' /\ NotRefused'
    BY <1>a, <2>1 DEF Numbered, Connected, Holders, NotRefused
  <2>5. ASSUME NEW x \in QueryClients PROVE Reading(queryPage[x])'
    BY <1>a, <2>1, <2>2 DEF Reading, QueryTyped
  <2>6. Kept'
    <3>1. IsFiniteSet(queryCache) /\ queryCache' \subseteq queryCache
      BY <1>a, <2>1, CacheIsFinite
    <3>2. Cardinality(queryCache') <= Cardinality(queryCache) /\ Cardinality(queryCache') \in Nat
          /\ Cardinality(queryCache) \in Nat
      BY <3>1, FS_Subset, FS_CardinalityType
    <3>3. Cardinality(queryCache') <= CacheEntries
      BY <1>a, <3>2, QueryLimits DEF Kept
    <3>4. \A k \in DOMAIN results : Query!Live(results[k])' <=> Query!Live(results[k])
      BY <2>1 DEF Query!Live
    <3>5. QED BY <1>a, <2>1, <3>3, <3>4 DEF Kept
  <2>7. QED BY <2>3, <2>4, <2>5, <2>6 DEF QueryInv
<1>8. QED BY <1>1, <1>2, <1>4, <1>5, <1>6, <1>7 DEF Query!Next, Query!Query

(***************************************************************************)
(* Dashbored: the session, and the requests that work on copies of it.     *)
(***************************************************************************)

Values == {"", "p", "x", "airtable", "postgres"} \cup WizardSources
Slots == [wid : WizardIds, state : [Wizard!Fields -> Values]]
Sessions == [user : BOOLEAN, token : BOOLEAN, flash : BOOLEAN, wizards : Seq(Slots)]
Requested == [wid : WizardIds, session : Sessions, modified : BOOLEAN, stale : BOOLEAN]

\* What a request may put into its wizard, and into the session beside it.
Updates == UNION {[F -> Values] : F \in SUBSET Wizard!Fields}
Marks == UNION {[F -> BOOLEAN] : F \in SUBSET {"user", "token", "flash"}}

WizardTyped ==
    /\ store \in Sessions /\ intended \in Sessions
    /\ req \in [WizardRequests -> SUBSET Requested]
    /\ raced \in BOOLEAN
    /\ DOMAIN wizardSince \subseteq WizardIds
    /\ \A w \in DOMAIN wizardSince :
          /\ IsFiniteSet(wizardSince[w]) /\ w \notin wizardSince[w]

\* A request has the session as it stands, or knows that it has not.
Fresh == \A r \in WizardRequests : \A q \in req[r] : q.stale = FALSE => q.session = store

\* The wizards of a session stand in the order of their last writes, after.
Ordered(ws, after) ==
    \A a \in DOMAIN ws :
        /\ ws[a].wid \in DOMAIN after
        /\ \A b \in DOMAIN ws : a < b => ws[b].wid \in after[ws[a].wid]

Has(ws, w) == \E i \in DOMAIN ws : ws[i].wid = w

\* Who is not in the session has been reset, or others were written since.
Present(ws, after, unset) ==
    \A w \in DOMAIN after \ unset : Cardinality(after[w]) < WizardsKept => Has(ws, w)

Listed(ws, after, unset) ==
    Len(ws) <= WizardsKept /\ Ordered(ws, after) /\ Present(ws, after, unset)

Undisturbed ==
    raced = FALSE => store = intended /\ Listed(store.wizards, wizardSince, reset)

WizardInv == WizardTyped /\ Fresh /\ Undisturbed

LEMMA CardinalityOfWizard == \A S : Wizard!Cardinality(S) = Cardinality(S)
BY Zenon DEF Cardinality, Wizard!Cardinality

LEMMA WizardKeeps == WizardInv => Wizard!WritesKept /\ Wizard!RecentKept
<1> SUFFICES ASSUME WizardInv PROVE Wizard!WritesKept /\ Wizard!RecentKept
  OBVIOUS
<1>1. Wizard!WritesKept
  BY DEF WizardInv, WizardTyped, Undisturbed, Wizard!WritesKept
<1>2. ASSUME raced = FALSE, NEW w \in DOMAIN wizardSince \ reset, Wizard!Cardinality(wizardSince[w]) < WizardsKept
      PROVE  Wizard!WithWid(store.wizards, w) # {}
  <2>1. Has(store.wizards, w)
    BY <1>2, CardinalityOfWizard DEF WizardInv, Undisturbed, Listed, Present
  <2>2. QED BY <2>1 DEF Has, Wizard!WithWid
<1>3. Wizard!RecentKept
  BY <1>2 DEF Wizard!RecentKept, WizardInv, WizardTyped
<1>4. QED BY <1>1, <1>3

LEMMA WizardStart == Wizard!Init => WizardInv
<1> SUFFICES ASSUME Wizard!Init PROVE WizardInv
  OBVIOUS
<1> USE DEF Wizard!Init
<1>1. Wizard!Empty \in Sessions /\ Wizard!Empty.wizards = <<>>
  BY DEF Wizard!Empty, Sessions
<1>2. req = [r \in WizardRequests |-> {}] /\ wizardSince = <<>> /\ store = Wizard!Empty /\ intended = Wizard!Empty /\ raced = FALSE
  OBVIOUS
<1>5. req \in [WizardRequests -> SUBSET Requested] /\ \A r \in WizardRequests : req[r] = {}
  BY <1>2
<1>6. DOMAIN wizardSince = {}
  BY <1>2
<1>7. WizardTyped /\ Fresh
  BY <1>1, <1>2, <1>5, <1>6 DEF WizardTyped, Fresh
<1>3. Undisturbed
  BY <1>1, <1>6, WizardAssumption DEF Undisturbed, Listed, Ordered, Present
<1>4. QED BY <1>7, <1>3 DEF WizardInv

\* d.update(e) of a session keeps its keys, and the wizards unless e has them.
LEMMA MarkedSession ==
  ASSUME NEW s \in Sessions, NEW e \in Marks
  PROVE  Wizard!Over(e, s) \in Sessions /\ Wizard!Over(e, s).wizards = s.wizards
<1>1. PICK F \in SUBSET {"user", "token", "flash"} : e \in [F -> BOOLEAN]
  BY DEF Marks
<1>2. DOMAIN s = {"user", "token", "flash", "wizards"} /\ DOMAIN e = F
  BY <1>1 DEF Sessions
<1> DEFINE t == Wizard!Over(e, s)
<1>3. DOMAIN t = {"user", "token", "flash", "wizards"}
      /\ \A f \in DOMAIN t : t[f] = IF f \in F THEN e[f] ELSE s[f]
  BY <1>2 DEF Wizard!Over
<1>4. t = [user |-> t["user"], token |-> t["token"], flash |-> t["flash"], wizards |-> t["wizards"]]
  BY <1>3 DEF Wizard!Over
<1> HIDE DEF t
<1>5. t["user"] \in BOOLEAN /\ t["token"] \in BOOLEAN /\ t["flash"] \in BOOLEAN /\ t["wizards"] = s.wizards
  BY <1>1, <1>3 DEF Sessions
<1>6. s.wizards \in Seq(Slots)
  BY DEF Sessions
<1>7. t \in Sessions
  BY <1>4, <1>5, <1>6 DEF Sessions
<1>8. QED BY <1>5, <1>7 DEF t

\* One wizard less, and the others in their order.
LEMMA WithoutOne ==
  ASSUME NEW ws \in Seq(Slots), NEW after, Ordered(ws, after), \A w \in DOMAIN after : w \notin after[w],
         NEW w
  PROVE  LET rest == Wizard!Without(ws, w)
         IN  /\ rest \in Seq(Slots) /\ Len(rest) <= Len(ws)
             /\ Ordered(rest, after) /\ \A i \in DOMAIN rest : rest[i].wid # w
             /\ \A v : Has(ws, v) /\ v # w => Has(rest, v)
<1> DEFINE rest == Wizard!Without(ws, w)
           n == Len(ws)
<1>a. n \in Nat /\ DOMAIN ws = 1 .. n /\ \A i \in 1 .. n : ws[i] \in Slots
  OBVIOUS
<1>1. CASE Wizard!WithWid(ws, w) = {}
  <2>1. rest = ws
    BY <1>1 DEF Wizard!Without
  <2>2. \A i \in DOMAIN ws : ws[i].wid # w
    BY <1>1 DEF Wizard!WithWid
  <2>3. QED BY <1>a, <2>1, <2>2
<1>2. CASE Wizard!WithWid(ws, w) # {}
  <2> DEFINE k == CHOOSE i \in Wizard!WithWid(ws, w) : TRUE
  <2>1. k \in 1 .. n /\ ws[k].wid = w
    BY <1>2, <1>a DEF Wizard!WithWid
  <2>2. rest = [i \in 1 .. n - 1 |-> IF i < k THEN ws[i] ELSE ws[i + 1]]
    BY <1>2 DEF Wizard!Without
  <2> HIDE DEF k, rest, n
  <2>3. n - 1 \in Nat /\ k \in Nat
    BY <1>a, <2>1
  <2> DEFINE At(i) == IF i < k THEN i ELSE i + 1
  <2>4. \A i \in 1 .. n - 1 : At(i) \in 1 .. n /\ At(i) # k /\ rest[i] = ws[At(i)]
    BY <1>a, <2>1, <2>2, <2>3
  <2>5. \A i, j \in 1 .. n - 1 : i < j => At(i) < At(j)
    BY <2>3, <1>a
  <2>6. \A j \in 1 .. n : j # k => \E i \in 1 .. n - 1 : At(i) = j
    <3> SUFFICES ASSUME NEW j \in 1 .. n, j # k PROVE \E i \in 1 .. n - 1 : At(i) = j
      OBVIOUS
    <3>1. CASE j < k
      <4>1. j \in 1 .. n - 1 /\ At(j) = j
        BY <1>a, <2>1, <3>1
      <4>2. QED BY <4>1
    <3>2. CASE k < j
      <4>1. j - 1 \in 1 .. n - 1 /\ At(j - 1) = j
        BY <1>a, <2>1, <2>3, <3>2
      <4>2. QED BY <4>1
    <3>3. QED BY <1>a, <2>1, <3>1, <3>2
  <2> HIDE DEF At
  <2>7. rest \in Seq(Slots) /\ Len(rest) = n - 1 /\ DOMAIN rest = 1 .. n - 1
    <3>1. \A i \in 1 .. n - 1 : rest[i] \in Slots
      BY <1>a, <2>4
    <3>2. rest \in [1 .. n - 1 -> Slots]
      BY <2>2, <3>1
    <3>3. QED BY <2>3, <3>2
  <2>8. \A a, b \in 1 .. n : a < b => ws[a].wid # ws[b].wid
    BY <1>a DEF Ordered
  <2>9. \A a \in 1 .. n : a # k => ws[a].wid # w
    BY <1>a, <2>1, <2>8
  <2>10. \A i \in DOMAIN rest : rest[i].wid # w
    BY <2>4, <2>7, <2>9
  <2>11. Ordered(rest, after)
    <3>1. \A i \in 1 .. n - 1 : rest[i].wid \in DOMAIN after
      BY <1>a, <2>4 DEF Ordered
    <3>2. ASSUME NEW i \in 1 .. n - 1, NEW j \in 1 .. n - 1, i < j PROVE rest[j].wid \in after[rest[i].wid]
      BY <1>a, <2>4, <2>5, <3>2 DEF Ordered
    <3>3. QED BY <2>7, <3>1, <3>2 DEF Ordered
  <2>12. \A v : Has(ws, v) /\ v # w => Has(rest, v)
    <3> SUFFICES ASSUME NEW v, NEW j \in 1 .. n, ws[j].wid = v, v # w PROVE Has(rest, v)
      BY <1>a DEF Has
    <3>1. PICK i \in 1 .. n - 1 : At(i) = j
      BY <2>1, <2>6
    <3>2. rest[i].wid = v /\ i \in DOMAIN rest
      BY <2>4, <2>7, <3>1
    <3>3. QED BY <3>2 DEF Has
  <2>13. Len(rest) <= n
    BY <1>a, <2>7
  <2>14. QED BY <2>7, <2>10, <2>11, <2>12, <2>13 DEF rest, n
<1>3. QED BY <1>1, <1>2

LEMMA SlotsWithout ==
  ASSUME NEW ws \in Seq(Slots), NEW w
  PROVE  Wizard!Without(ws, w) \in Seq(Slots)
<1> DEFINE n == Len(ws)
<1>a. n \in Nat /\ DOMAIN ws = 1 .. n /\ \A i \in 1 .. n : ws[i] \in Slots
  OBVIOUS
<1>1. CASE Wizard!WithWid(ws, w) = {}
  BY <1>1 DEF Wizard!Without
<1>2. CASE Wizard!WithWid(ws, w) # {}
  <2> DEFINE k == CHOOSE i \in Wizard!WithWid(ws, w) : TRUE
             rest == Wizard!Without(ws, w)
  <2>1. k \in 1 .. n
    BY <1>2, <1>a DEF Wizard!WithWid
  <2>2. rest = [i \in 1 .. n - 1 |-> IF i < k THEN ws[i] ELSE ws[i + 1]]
    BY <1>2 DEF Wizard!Without
  <2> HIDE DEF k, rest, n
  <2>3. n - 1 \in Nat /\ k \in Nat
    BY <1>a, <2>1
  <2>4. \A i \in 1 .. n - 1 : rest[i] \in Slots
    <3> TAKE i \in 1 .. n - 1
    <3>1. i \in 1 .. n /\ i + 1 \in 1 .. n
      BY <1>a, <2>3
    <3>2. QED BY <1>a, <2>2, <3>1
  <2>5. rest \in [1 .. n - 1 -> Slots]
    BY <2>2, <2>4
  <2>6. QED BY <2>3, <2>5 DEF rest
<1>3. QED BY <1>1, <1>2

\* The state of a wizard, brought up to date.
LEMMA UpdatedState ==
  ASSUME NEW s \in Sessions, NEW w, NEW f \in Updates
  PROVE  Wizard!Over(f, Wizard!State(s, w)) \in [Wizard!Fields -> Values]
<1>1. Wizard!State(s, w) \in [Wizard!Fields -> Values]
  <2>1. s.wizards \in Seq(Slots)
    BY DEF Sessions
  <2>2. CASE Wizard!WithWid(s.wizards, w) = {}
    BY <2>2 DEF Wizard!State, Wizard!Blank, Values
  <2>3. CASE Wizard!WithWid(s.wizards, w) # {}
    <3> DEFINE k == CHOOSE i \in Wizard!WithWid(s.wizards, w) : TRUE
    <3>1. k \in DOMAIN s.wizards
      BY <2>3 DEF Wizard!WithWid
    <3> HIDE DEF k
    <3>2. s.wizards[k] \in Slots
      BY <2>1, <3>1
    <3>3. Wizard!State(s, w) = s.wizards[k].state
      BY <2>3 DEF Wizard!State, k
    <3>4. QED BY <3>2, <3>3 DEF Slots
  <2>4. QED BY <2>2, <2>3
<1>2. PICK F \in SUBSET Wizard!Fields : f \in [F -> Values]
  BY DEF Updates
<1> DEFINE d == Wizard!State(s, w)
<1> HIDE DEF d
<1>3. d \in [Wizard!Fields -> Values]
  BY <1>1 DEF d
<1>4. DOMAIN f \cup DOMAIN d = Wizard!Fields
  BY <1>2, <1>3
<1>5. Wizard!Over(f, d) \in [Wizard!Fields -> Values]
  BY <1>2, <1>3, <1>4 DEF Wizard!Over
<1>6. QED BY <1>5 DEF d

LEMMA UpToSeq ==
  ASSUME NEW S, NEW m \in Nat, NEW f \in [1 .. m -> S]
  PROVE  f \in Seq(S) /\ Len(f) = m /\ DOMAIN f = 1 .. m
OBVIOUS

\* A sequence with one more at its end, less the first when that is too many.
LEMMA TrimmedSlots ==
  ASSUME NEW rest \in Seq(Slots), NEW slot \in Slots, NEW top \in Nat \ {0}, Len(rest) <= top
  PROVE  LET all == Append(rest, slot)
             over == IF Len(all) > top THEN Len(all) - top ELSE 0
             trimmed == [i \in 1 .. Len(all) - over |-> all[i + over]]
         IN  /\ Len(all) = Len(rest) + 1 /\ all[Len(all)] = slot
             /\ \A i \in 1 .. Len(rest) : all[i] = rest[i]
             /\ over \in {0, 1} /\ (over = 1 => Len(all) = top + 1)
             /\ trimmed \in Seq(Slots) /\ Len(trimmed) = Len(all) - over /\ Len(trimmed) <= top /\ Len(trimmed) >= 1
             /\ \A i \in DOMAIN trimmed : i + over \in 1 .. Len(all) /\ trimmed[i] = all[i + over]
<1> DEFINE all == Append(rest, slot)
           over == IF Len(all) > top THEN Len(all) - top ELSE 0
           trimmed == [i \in 1 .. Len(all) - over |-> all[i + over]]
<1>1. Len(all) = Len(rest) + 1 /\ Len(rest) \in Nat /\ all[Len(all)] = slot
      /\ (\A i \in 1 .. Len(rest) : all[i] = rest[i]) /\ \A i \in 1 .. Len(all) : all[i] \in Slots
  OBVIOUS
<1> HIDE DEF all
<1>2. over \in {0, 1} /\ (over = 1 => Len(all) = top + 1) /\ (over = 0 => Len(all) <= top)
  BY <1>1
<1> HIDE DEF over
<1> DEFINE m == Len(all) - over
<1>3. m \in Nat /\ m <= top /\ m >= 1 /\ \A i \in 1 .. m : i + over \in 1 .. Len(all)
  BY <1>1, <1>2
<1> HIDE DEF m
<1>4. trimmed = [i \in 1 .. m |-> all[i + over]]
  BY DEF m
<1> HIDE DEF trimmed
<1>5. trimmed \in [1 .. m -> Slots]
  BY <1>1, <1>3, <1>4
<1>6. trimmed \in Seq(Slots) /\ Len(trimmed) = m /\ DOMAIN trimmed = 1 .. m
  BY <1>3, <1>5, UpToSeq
<1>7. /\ Len(all) = Len(rest) + 1 /\ all[Len(all)] = slot
      /\ \A i \in 1 .. Len(rest) : all[i] = rest[i]
      /\ over \in {0, 1} /\ (over = 1 => Len(all) = top + 1)
      /\ trimmed \in Seq(Slots) /\ Len(trimmed) = Len(all) - over /\ Len(trimmed) <= top /\ Len(trimmed) >= 1
      /\ \A i \in DOMAIN trimmed : i + over \in 1 .. Len(all) /\ trimmed[i] = all[i + over]
  BY <1>1, <1>2, <1>3, <1>4, <1>6 DEF m
<1>8. QED BY <1>7 DEF all, over, trimmed

\* As many wizards were written after the first of them as stand behind it.
LEMMA BehindFirst ==
  ASSUME NEW n \in Nat \ {0}, NEW names \in [1 .. n + 1 -> WizardIds], NEW S, IsFiniteSet(S),
         \A a, b \in 1 .. n + 1 : a < b => names[a] # names[b],
         \A b \in 2 .. n + 1 : names[b] \in S
  PROVE  Cardinality(S) >= n
<1> DEFINE f == [b \in 2 .. n + 1 |-> names[b]]
<1>1. f \in Injection(2 .. n + 1, S)
  <2>1. f \in [2 .. n + 1 -> S]
    OBVIOUS
  <2>2. ASSUME NEW a \in 2 .. n + 1, NEW b \in 2 .. n + 1, f[a] = f[b] PROVE a = b
    <3>1. names[a] = names[b] /\ a \in 1 .. n + 1 /\ b \in 1 .. n + 1
      BY <2>2
    <3>2. ~(a < b) /\ ~(b < a)
      BY <3>1
    <3>3. QED BY <3>2
  <2> HIDE DEF f
  <2>3. QED BY <2>1, <2>2 DEF Injection, IsInjective
<1> HIDE DEF f
<1>2. Cardinality(2 .. n + 1) <= Cardinality(S)
  BY <1>1, FS_Injection
<1>3. Cardinality(2 .. n + 1) = n
  <2>1. Cardinality(2 .. n + 1) = IF 2 > n + 1 THEN 0 ELSE (n + 1) - 2 + 1
    BY FS_Interval
  <2>2. QED BY <2>1
<1>4. Cardinality(S) \in Nat
  BY FS_CardinalityType
<1>5. QED BY <1>2, <1>3, <1>4

\* What a write of w to the session makes of when the others were written.
Written(after, w) ==
    [v \in DOMAIN after \cup {w} |-> IF v = w THEN {} ELSE after[v] \cup {w}]

AfterTyped(after) == \A v \in DOMAIN after : IsFiniteSet(after[v]) /\ v \notin after[v]

LEMMA SavedSlots ==
  ASSUME NEW s \in Sessions, NEW w \in WizardIds, NEW f \in Updates
  PROVE  Wizard!Saved(s, w, f) \in Sessions
<1> DEFINE rest == Wizard!Without(s.wizards, w)
           slot == [wid |-> w, state |-> Wizard!Over(f, Wizard!State(s, w))]
           all == Append(rest, slot)
           over == IF Len(all) > WizardsKept THEN Len(all) - WizardsKept ELSE 0
           trimmed == [i \in 1 .. Len(all) - over |-> all[i + over]]
<1>1. s.wizards \in Seq(Slots)
  BY DEF Sessions
<1>2. rest \in Seq(Slots)
  BY <1>1, SlotsWithout
<1>3. slot \in Slots
  BY UpdatedState DEF Slots
<1>4. Wizard!Saved(s, w, f) = [s EXCEPT !.wizards = trimmed]
  BY DEF Wizard!Saved
<1> HIDE DEF rest, slot
<1>5. Len(all) \in Nat /\ (\A i \in 1 .. Len(all) : all[i] \in Slots) /\ Len(all) >= 1
  BY <1>2, <1>3
<1> HIDE DEF all
<1>6. over \in Nat /\ Len(all) - over \in Nat
  BY <1>5, WizardAssumption
<1> HIDE DEF over
<1>7. \A i \in 1 .. Len(all) - over : all[i + over] \in Slots
  BY <1>5, <1>6
<1>8. trimmed \in [1 .. Len(all) - over -> Slots]
  BY <1>7
<1>9. trimmed \in Seq(Slots)
  BY <1>6, <1>8, UpToSeq
<1> HIDE DEF trimmed
<1>10. QED BY <1>4, <1>9 DEF Sessions

LEMMA SavedListed ==
  ASSUME NEW s \in Sessions, NEW w \in WizardIds, NEW f \in Updates, NEW after, NEW unset,
         AfterTyped(after), DOMAIN after \subseteq WizardIds, Listed(s.wizards, after, unset)
  PROVE  Listed(Wizard!Saved(s, w, f).wizards, Written(after, w), unset \ {w})
<1> DEFINE rest == Wizard!Without(s.wizards, w)
           slot == [wid |-> w, state |-> Wizard!Over(f, Wizard!State(s, w))]
           all == Append(rest, slot)
           over == IF Len(all) > WizardsKept THEN Len(all) - WizardsKept ELSE 0
           trimmed == [i \in 1 .. Len(all) - over |-> all[i + over]]
           n == Len(rest)
           later == Written(after, w)
<1>1. s.wizards \in Seq(Slots) /\ Len(s.wizards) <= WizardsKept /\ Ordered(s.wizards, after)
      /\ Present(s.wizards, after, unset)
  BY DEF Sessions, Listed
<1>2. \A v \in DOMAIN after : v \notin after[v]
  BY DEF AfterTyped
<1>3. /\ rest \in Seq(Slots) /\ Len(rest) <= Len(s.wizards)
      /\ Ordered(rest, after) /\ \A i \in DOMAIN rest : rest[i].wid # w
      /\ \A v : Has(s.wizards, v) /\ v # w => Has(rest, v)
  BY <1>1, <1>2, WithoutOne
<1>4. slot \in Slots /\ slot.wid = w
  BY UpdatedState DEF Slots
<1>5. Wizard!Saved(s, w, f).wizards = trimmed
  <2>1. Wizard!Saved(s, w, f) = [s EXCEPT !.wizards = trimmed]
    BY DEF Wizard!Saved
  <2> HIDE DEF trimmed
  <2>2. QED BY <2>1 DEF Sessions
<1> HIDE DEF rest, slot
<1>6. n \in Nat /\ n <= WizardsKept /\ DOMAIN rest = 1 .. n /\ WizardsKept \in Nat \ {0}
  BY <1>1, <1>3, WizardAssumption
<1>a. rest \in Seq(Slots) /\ slot \in Slots /\ WizardsKept \in Nat \ {0} /\ Len(rest) <= WizardsKept
  BY <1>3, <1>4, <1>6
<1>b. /\ Len(all) = Len(rest) + 1 /\ all[Len(all)] = slot
      /\ \A i \in 1 .. Len(rest) : all[i] = rest[i]
      /\ over \in {0, 1} /\ (over = 1 => Len(all) = WizardsKept + 1)
      /\ trimmed \in Seq(Slots) /\ Len(trimmed) = Len(all) - over /\ Len(trimmed) <= WizardsKept /\ Len(trimmed) >= 1
      /\ \A i \in DOMAIN trimmed : i + over \in 1 .. Len(all) /\ trimmed[i] = all[i + over]
  BY <1>a, TrimmedSlots
<1> HIDE DEF all, over, trimmed
<1>7. /\ Len(all) = n + 1 /\ all[Len(all)] = slot
      /\ \A i \in 1 .. n : all[i] = rest[i]
      /\ over \in {0, 1} /\ (over = 1 => Len(all) = WizardsKept + 1)
      /\ trimmed \in Seq(Slots) /\ Len(trimmed) = Len(all) - over /\ Len(trimmed) <= WizardsKept /\ Len(trimmed) >= 1
      /\ \A i \in DOMAIN trimmed : i + over \in 1 .. Len(all) /\ trimmed[i] = all[i + over]
  BY <1>b
<1> HIDE DEF n
<1>8. DOMAIN trimmed = 1 .. n + 1 - over /\ DOMAIN all = 1 .. n + 1 /\ all[n + 1] = slot
      /\ \A i \in 1 .. n : all[i] = rest[i]
  <2>1. DOMAIN all = 1 .. n + 1
    BY <1>3, <1>4, <1>6 DEF all, n
  <2>2. DOMAIN trimmed = 1 .. Len(trimmed)
    <3>1. trimmed \in Seq(Slots)
      BY <1>7
    <3>2. QED BY ONLY <3>1
  <2>3. Len(trimmed) = n + 1 - over
    BY <1>6, <1>7
  <2>4. all[n + 1] = slot /\ \A i \in 1 .. n : all[i] = rest[i]
    BY <1>6, <1>7
  <2>5. QED BY <2>1, <2>2, <2>3, <2>4
<1>9. DOMAIN later = DOMAIN after \cup {w} /\ later[w] = {}
      /\ \A v \in DOMAIN after : v # w => later[v] = after[v] \cup {w}
  BY DEF Written
<1> HIDE DEF later
<1>10. \A i \in 1 .. n : rest[i].wid \in DOMAIN after /\ rest[i].wid # w
       /\ \A j \in 1 .. n : i < j => rest[j].wid \in after[rest[i].wid]
  BY <1>3, <1>6 DEF Ordered
<1>11. Ordered(all, later)
  <2>1. \A a \in 1 .. n + 1 : all[a].wid \in DOMAIN later
    BY <1>4, <1>6, <1>8, <1>9, <1>10
  <2>2. ASSUME NEW a \in 1 .. n + 1, NEW b \in 1 .. n + 1, a < b PROVE all[b].wid \in later[all[a].wid]
    <3>1. a \in 1 .. n /\ all[a] = rest[a]
      BY <1>6, <1>8, <2>2
    <3>2. later[all[a].wid] = after[rest[a].wid] \cup {w}
      BY <1>9, <1>10, <3>1
    <3>3. CASE b = n + 1
      BY <1>4, <1>8, <3>2, <3>3
    <3>4. CASE b \in 1 .. n
      BY <1>8, <1>10, <2>2, <3>1, <3>2, <3>4
    <3>5. QED BY <1>6, <3>3, <3>4
  <2>3. QED BY <1>8, <2>1, <2>2 DEF Ordered
<1>12. Ordered(trimmed, later)
  <2>1. \A i \in DOMAIN trimmed : i \in Int /\ i + over \in DOMAIN all /\ trimmed[i] = all[i + over]
    BY <1>6, <1>7, <1>8
  <2>2. \A i, j \in DOMAIN trimmed : i < j => i + over < j + over
    BY <1>7, <2>1
  <2>3. QED BY <1>11, <2>1, <2>2 DEF Ordered
<1>13. Present(trimmed, later, unset \ {w})
  <2> SUFFICES ASSUME NEW v \in DOMAIN later \ (unset \ {w}), Cardinality(later[v]) < WizardsKept
               PROVE  Has(trimmed, v)
    BY DEF Present
  <2>0. \A i \in 1 .. n + 1 : i > over => i - over \in DOMAIN trimmed /\ trimmed[i - over] = all[i]
    <3> TAKE i \in 1 .. n + 1
    <3> HAVE i > over
    <3>1. i - over \in DOMAIN trimmed /\ (i - over) + over = i
      BY <1>6, <1>7, <1>8
    <3>2. QED BY <1>7, <3>1
  <2>1. CASE v = w
    <3>1. n + 1 \in 1 .. n + 1 /\ (n + 1 > over)
      BY <1>6, <1>7
    <3>2. QED BY <1>4, <1>8, <2>0, <2>1, <3>1 DEF Has
  <2>2. CASE v # w
    <3>1. v \in DOMAIN after \ unset /\ later[v] = after[v] \cup {w}
      BY <1>9, <2>2
    <3>2. IsFiniteSet(after[v]) /\ IsFiniteSet(later[v])
      <4>1. IsFiniteSet(after[v])
        BY <3>1 DEF AfterTyped
      <4>2. QED BY <3>1, <4>1, FS_AddElement
    <3>3. Cardinality(after[v]) <= Cardinality(later[v])
      BY <3>1, <3>2, FS_Subset
    <3>4. Cardinality(after[v]) < WizardsKept
      <4>1. Cardinality(after[v]) \in Nat /\ Cardinality(later[v]) \in Nat
        BY <3>2, FS_CardinalityType
      <4>2. QED BY <1>6, <3>3, <4>1
    <3>5. Has(rest, v)
      BY <1>1, <1>3, <2>2, <3>1, <3>4 DEF Present
    <3>6. PICK i \in 1 .. n : rest[i].wid = v
      BY <1>6, <3>5 DEF Has
    <3>7. i > over
      <4> SUFFICES ASSUME ~(i > over) PROVE FALSE
        OBVIOUS
      <4>1. i = 1 /\ over = 1 /\ n = WizardsKept
        BY <1>6, <1>7
      <4> DEFINE names == [b \in 1 .. WizardsKept + 1 |-> all[b].wid]
      <4>2. \A b \in 1 .. WizardsKept + 1 : names[b] = all[b].wid /\ b \in DOMAIN all
        BY <1>8, <4>1
      <4>3. names \in [1 .. WizardsKept + 1 -> WizardIds]
        BY <1>9, <1>11, <4>2 DEF Ordered
      <4> HIDE DEF names
      <4>4. \A a, b \in 1 .. WizardsKept + 1 : a < b => names[b] \in later[names[a]]
        BY <1>11, <4>2 DEF Ordered
      <4>5. \A u \in DOMAIN later : u \notin later[u]
        BY <1>2, <1>9
      <4>6. \A a \in 1 .. WizardsKept + 1 : names[a] \in DOMAIN later
        BY <1>11, <4>2 DEF Ordered
      <4>7. \A a, b \in 1 .. WizardsKept + 1 : a < b => names[a] # names[b]
        BY <4>4, <4>5, <4>6
      <4>8. names[1] = v /\ 1 \in 1 .. WizardsKept + 1
        BY <1>6, <1>8, <3>6, <4>1, <4>2
      <4>9. \A b \in 2 .. WizardsKept + 1 : names[b] \in later[v]
        <5> TAKE b \in 2 .. WizardsKept + 1
        <5>1. b \in 1 .. WizardsKept + 1 /\ 1 < b
          BY <1>6
        <5>2. QED BY <4>4, <4>8, <5>1
      <4>10. Cardinality(later[v]) >= WizardsKept
        BY <1>6, <3>2, <4>3, <4>7, <4>9, BehindFirst
      <4>11. Cardinality(later[v]) \in Nat
        BY <3>2, FS_CardinalityType
      <4>12. QED BY <1>6, <4>10, <4>11
    <3>8. i \in 1 .. n + 1 /\ all[i] = rest[i]
      BY <1>6, <1>8
    <3>9. QED BY <2>0, <3>6, <3>7, <3>8 DEF Has
  <2>3. QED BY <2>1, <2>2
<1>14. QED BY <1>5, <1>7, <1>12, <1>13 DEF Listed, later

FreshTyped ==
    req \in [WizardRequests -> SUBSET Requested] /\ Fresh

\* The answer to q that makes of each session around it what change says.
LEMMA Answered ==
  ASSUME WizardInv, NEW r \in WizardRequests, NEW q \in req[r],
         NEW m \in BOOLEAN, NEW p, p = [q EXCEPT !.modified = m],
         NEW change, Wizard!Answer(r, p, change),
         change[q.session] \in Sessions, change[intended] \in Sessions
  PROVE  /\ store' \in Sessions /\ intended' \in Sessions /\ raced' \in BOOLEAN
         /\ FreshTyped'
         /\ raced' = FALSE =>
              /\ raced = FALSE
              /\ m = TRUE => /\ q.session = store /\ store = intended
                             /\ store' = change[store] /\ intended' = change[store]
              /\ m = FALSE => store' = store /\ intended' = intended
<1>1. q \in Requested /\ req \in [WizardRequests -> SUBSET Requested] /\ store \in Sessions /\ intended \in Sessions
      /\ raced \in BOOLEAN
  BY DEF WizardInv, WizardTyped
<1>2. p \in Requested /\ p.session = q.session /\ p.stale = q.stale /\ p.modified = m
  BY <1>1 DEF Requested
<1>3. /\ store' = IF p.modified THEN change[p.session] ELSE store
      /\ req' = [x \in WizardRequests |->
             IF x = r THEN {} ELSE {[o EXCEPT !.stale = @ \/ p.modified] : o \in req[x]}]
      /\ intended' = IF p.modified THEN change[intended] ELSE intended
      /\ raced' = (raced \/ (p.modified /\ p.stale))
  BY DEF Wizard!Answer, Wizard!MustSave
<1>4. store' \in Sessions /\ intended' \in Sessions
  BY <1>1, <1>2, <1>3
<1>5. raced' \in BOOLEAN /\ (raced' = FALSE => raced = FALSE /\ (m = TRUE => q.stale = FALSE))
  BY <1>1, <1>2, <1>3 DEF Requested
<1>6. ASSUME raced' = FALSE
      PROVE  /\ raced = FALSE
             /\ m = TRUE => /\ q.session = store /\ store = intended
                            /\ store' = change[store] /\ intended' = change[store]
             /\ m = FALSE => store' = store /\ intended' = intended
  <2>1. raced = FALSE /\ store = intended
    BY <1>5, <1>6 DEF WizardInv, Undisturbed
  <2>2. CASE m = TRUE
    BY <1>2, <1>3, <1>5, <1>6, <2>1, <2>2 DEF WizardInv, Fresh
  <2>3. CASE m = FALSE
    BY <1>2, <1>3, <2>1, <2>3
  <2>4. QED BY <2>1, <2>2, <2>3
<1>7. FreshTyped'
  <2>1. ASSUME NEW o \in Requested
        PROVE  /\ [o EXCEPT !.stale = @ \/ p.modified] \in Requested
               /\ p.modified = TRUE => [o EXCEPT !.stale = @ \/ p.modified].stale = TRUE
               /\ p.modified = FALSE => [o EXCEPT !.stale = @ \/ p.modified] = o
    <3>1. o.stale \in BOOLEAN /\ o.wid \in WizardIds /\ o.session \in Sessions /\ o.modified \in BOOLEAN
          /\ o = [wid |-> o.wid, session |-> o.session, modified |-> o.modified, stale |-> o.stale]
      BY DEF Requested
    <3>2. p.modified \in BOOLEAN
      BY <1>2
    <3>3. [o EXCEPT !.stale = @ \/ p.modified]
          = [wid |-> o.wid, session |-> o.session, modified |-> o.modified, stale |-> (o.stale \/ p.modified)]
      BY <3>1
    <3>4. (o.stale \/ p.modified) \in BOOLEAN
      BY Zenon
    <3>5. p.modified = TRUE => (o.stale \/ p.modified) = TRUE
      BY Zenon
    <3>6. p.modified = FALSE => (o.stale \/ p.modified) = o.stale
      BY <3>1
    <3>7. QED BY <3>1, <3>3, <3>4, <3>5, <3>6 DEF Requested
  <2>2. \A x \in WizardRequests : req'[x] \subseteq Requested
    BY <1>1, <1>3, <2>1
  <2>3. ASSUME NEW x \in WizardRequests, NEW o \in req'[x], o.stale = FALSE PROVE o.session = store'
    <3>1. x # r
      BY <1>3, <2>3
    <3>2. PICK o_ \in req[x] : o = [o_ EXCEPT !.stale = @ \/ p.modified]
      BY <1>3, <2>3, <3>1
    <3>3. o_ \in Requested
      BY <1>1, <3>2
    <3>4. p.modified = FALSE
      BY <1>2, <2>1, <2>3, <3>2, <3>3
    <3>5. o = o_ /\ store' = store
      BY <1>3, <2>1, <3>2, <3>3, <3>4
    <3>6. QED BY <2>3, <3>5 DEF WizardInv, Fresh
  <2>4. req' \in [WizardRequests -> SUBSET Requested]
    BY <1>3, <2>2
  <2>5. QED BY <2>3, <2>4 DEF FreshTyped, Fresh
<1>8. QED BY <1>4, <1>5, <1>6, <1>7

LEMMA WrittenTyped ==
  ASSUME WizardTyped, NEW w \in WizardIds
  PROVE  /\ DOMAIN Written(wizardSince, w) \subseteq WizardIds
         /\ AfterTyped(Written(wizardSince, w))
<1>1. \A v \in DOMAIN wizardSince : IsFiniteSet(wizardSince[v] \cup {w}) /\ v \notin wizardSince[v]
  BY FS_AddElement DEF WizardTyped
<1>2. IsFiniteSet({})
  BY FS_EmptySet
<1>3. DOMAIN Written(wizardSince, w) = DOMAIN wizardSince \cup {w}
  BY DEF Written
<1>4. DOMAIN Written(wizardSince, w) \subseteq WizardIds
  BY <1>3 DEF WizardTyped
<1>5. ASSUME NEW v \in DOMAIN Written(wizardSince, w)
      PROVE  IsFiniteSet(Written(wizardSince, w)[v]) /\ v \notin Written(wizardSince, w)[v]
  BY <1>1, <1>2, <1>3 DEF Written
<1>6. QED BY <1>4, <1>5 DEF AfterTyped

\* An answer that saves fields of its wizard keeps the invariant.
LEMMA SaveKeeps ==
  ASSUME WizardInv, NEW r \in WizardRequests, NEW q \in req[r], NEW f \in Updates, NEW e \in Marks,
         Wizard!Save(r, q, f, e)
  PROVE  WizardInv'
<1> DEFINE p == [q EXCEPT !.modified = TRUE]
           change == [s \in {q.session, intended} |-> Wizard!Over(e, Wizard!Saved(s, q.wid, f))]
<1>1. q \in Requested /\ q.wid \in WizardIds /\ q.session \in Sessions /\ intended \in Sessions
  BY DEF WizardInv, WizardTyped, Requested
<1>2. Wizard!Answer(r, p, change) /\ wizardSince' = Written(wizardSince, q.wid) /\ reset' = reset \ {q.wid}
  <2>1. p.session = q.session
    BY <1>1 DEF Requested
  <2>2. QED BY <2>1 DEF Wizard!Save, Wizard!Around, Written
<1>3. \A s \in Sessions : Wizard!Saved(s, q.wid, f) \in Sessions
  BY <1>1, SavedSlots
<1>4. \A s \in Sessions : /\ Wizard!Over(e, Wizard!Saved(s, q.wid, f)) \in Sessions
                          /\ Wizard!Over(e, Wizard!Saved(s, q.wid, f)).wizards = Wizard!Saved(s, q.wid, f).wizards
  BY <1>3, MarkedSession
<1>5. change[q.session] \in Sessions /\ change[intended] \in Sessions
      /\ change[q.session] = Wizard!Over(e, Wizard!Saved(q.session, q.wid, f))
  BY <1>1, <1>4
<1> HIDE DEF p, change
<1>6. /\ store' \in Sessions /\ intended' \in Sessions /\ raced' \in BOOLEAN
      /\ FreshTyped'
      /\ raced' = FALSE => /\ raced = FALSE
                           /\ q.session = store /\ store = intended
                           /\ store' = change[store] /\ intended' = change[store]
  BY <1>2, <1>5, Answered DEF p
<1>7. ASSUME raced' = FALSE
      PROVE  store' = intended' /\ Listed(store'.wizards, wizardSince', reset')
  <2>1. Listed(store.wizards, wizardSince, reset) /\ store \in Sessions
    BY <1>6, <1>7 DEF WizardInv, WizardTyped, Undisturbed
  <2>2. AfterTyped(wizardSince) /\ DOMAIN wizardSince \subseteq WizardIds
    BY DEF WizardInv, WizardTyped, AfterTyped
  <2>3. Listed(Wizard!Saved(store, q.wid, f).wizards, Written(wizardSince, q.wid), reset \ {q.wid})
    BY <1>1, <2>1, <2>2, SavedListed
  <2>4. store'.wizards = Wizard!Saved(store, q.wid, f).wizards
    BY <1>4, <1>5, <1>6, <1>7, <2>1
  <2>5. QED BY <1>2, <1>6, <1>7, <2>3, <2>4
<1>8. DOMAIN wizardSince' \subseteq WizardIds /\ AfterTyped(wizardSince')
  BY <1>1, <1>2, WrittenTyped DEF WizardInv
<1>9. QED BY <1>6, <1>7, <1>8 DEF WizardInv, WizardTyped, AfterTyped, FreshTyped, Undisturbed

\* An answer that leaves the wizards alone keeps it too.
LEMMA PutKeeps ==
  ASSUME WizardInv, NEW r \in WizardRequests, NEW q \in req[r], NEW e \in Marks, Wizard!Put(r, q, e)
  PROVE  WizardInv'
<1> DEFINE m == (q.modified \/ e # <<>>)
           p == [q EXCEPT !.modified = m]
           change == [s \in {q.session, intended} |-> Wizard!Over(e, s)]
<1>1. q \in Requested /\ q.session \in Sessions /\ intended \in Sessions
  BY DEF WizardInv, WizardTyped, Requested
<1>2. m \in BOOLEAN
  BY Zenon
<1>3. Wizard!Answer(r, p, change) /\ wizardSince' = wizardSince /\ reset' = reset
  <2>1. p = [q EXCEPT !.modified = @ \/ e # <<>>] /\ p.session = q.session
    BY <1>1 DEF Requested
  <2>2. QED BY <2>1 DEF Wizard!Put, Wizard!Around
<1>4. \A s \in Sessions : /\ Wizard!Over(e, s) \in Sessions
                          /\ Wizard!Over(e, s).wizards = s.wizards
  BY MarkedSession
<1>5. change[q.session] \in Sessions /\ change[intended] \in Sessions
      /\ change[q.session] = Wizard!Over(e, q.session)
  BY <1>1, <1>4
<1>p. p = [q EXCEPT !.modified = m]
  OBVIOUS
<1> HIDE DEF p, change, m
<1>6. /\ store' \in Sessions /\ intended' \in Sessions /\ raced' \in BOOLEAN
      /\ FreshTyped'
      /\ raced' = FALSE => /\ raced = FALSE
                           /\ m = TRUE => /\ q.session = store /\ store = intended
                                          /\ store' = change[store] /\ intended' = change[store]
                           /\ m = FALSE => store' = store /\ intended' = intended
  BY <1>2, <1>3, <1>5, <1>p, Answered
<1>7. ASSUME raced' = FALSE
      PROVE  store' = intended' /\ Listed(store'.wizards, wizardSince', reset')
  <2>1. Listed(store.wizards, wizardSince, reset) /\ store \in Sessions /\ store = intended
    BY <1>6, <1>7 DEF WizardInv, WizardTyped, Undisturbed
  <2>2. store' = intended' /\ store'.wizards = store.wizards
    BY <1>2, <1>4, <1>5, <1>6, <1>7, <2>1
  <2>3. QED BY <1>3, <2>1, <2>2
<1>8. QED BY <1>3, <1>6, <1>7 DEF WizardInv, WizardTyped, FreshTyped, Undisturbed

LEMMA ResetKeeps ==
  ASSUME WizardInv, NEW r \in WizardRequests, Wizard!Reset(r)
  PROVE  WizardInv'
<1>0. PICK q \in req[r] :
        /\ Wizard!Answer(r, [q EXCEPT !.modified = TRUE],
               [s \in {q.session, intended} |-> [s EXCEPT !.wizards = Wizard!Without(@, q.wid)]])
        /\ reset' = reset \cup {q.wid} /\ wizardSince' = wizardSince
  <2>1. \A q \in req[r] : [q EXCEPT !.modified = TRUE].session = q.session
    BY DEF WizardInv, WizardTyped, Requested
  <2>2. QED BY <2>1 DEF Wizard!Reset, Wizard!Around
<1> DEFINE p == [q EXCEPT !.modified = TRUE]
           change == [s \in {q.session, intended} |-> [s EXCEPT !.wizards = Wizard!Without(@, q.wid)]]
<1>1. q \in Requested /\ q.wid \in WizardIds /\ q.session \in Sessions /\ intended \in Sessions
  BY DEF WizardInv, WizardTyped, Requested
<1>2. Wizard!Answer(r, p, change)
  BY <1>0
<1>3. \A s \in Sessions : /\ [s EXCEPT !.wizards = Wizard!Without(@, q.wid)] \in Sessions
                          /\ [s EXCEPT !.wizards = Wizard!Without(@, q.wid)].wizards = Wizard!Without(s.wizards, q.wid)
  <2> TAKE s \in Sessions
  <2>1. Wizard!Without(s.wizards, q.wid) \in Seq(Slots)
    BY SlotsWithout DEF Sessions
  <2>2. QED BY <2>1 DEF Sessions
<1>5. change[q.session] \in Sessions /\ change[intended] \in Sessions
      /\ change[q.session] = [q.session EXCEPT !.wizards = Wizard!Without(@, q.wid)]
  BY <1>1, <1>3
<1> HIDE DEF p, change
<1>6. /\ store' \in Sessions /\ intended' \in Sessions /\ raced' \in BOOLEAN
      /\ FreshTyped'
      /\ raced' = FALSE => /\ raced = FALSE
                           /\ q.session = store /\ store = intended
                           /\ store' = change[store] /\ intended' = change[store]
  BY <1>2, <1>5, Answered DEF p
<1>7. ASSUME raced' = FALSE
      PROVE  store' = intended' /\ Listed(store'.wizards, wizardSince', reset')
  <2>1. Listed(store.wizards, wizardSince, reset) /\ store \in Sessions
    BY <1>6, <1>7 DEF WizardInv, WizardTyped, Undisturbed
  <2> DEFINE rest == Wizard!Without(store.wizards, q.wid)
  <2>2. store'.wizards = rest /\ store' = intended'
    BY <1>3, <1>5, <1>6, <1>7, <2>1
  <2>3. /\ rest \in Seq(Slots) /\ Len(rest) <= Len(store.wizards)
        /\ Ordered(rest, wizardSince)
        /\ \A v : Has(store.wizards, v) /\ v # q.wid => Has(rest, v)
    <3>1. store.wizards \in Seq(Slots) /\ Ordered(store.wizards, wizardSince)
      BY <2>1 DEF Sessions, Listed
    <3>2. \A w \in DOMAIN wizardSince : w \notin wizardSince[w]
      BY DEF WizardInv, WizardTyped
    <3>3. QED BY <3>1, <3>2, WithoutOne
  <2> HIDE DEF rest
  <2>4. Present(rest, wizardSince, reset \cup {q.wid})
    BY <2>1, <2>3 DEF Listed, Present
  <2>5. Len(rest) <= WizardsKept
    <3>1. store.wizards \in Seq(Slots)
      BY <2>1 DEF Sessions
    <3>2. Len(store.wizards) \in Nat /\ Len(rest) \in Nat
      BY <2>3, <3>1
    <3>3. QED BY <2>1, <2>3, <3>2, WizardAssumption DEF Listed
  <2>6. QED BY <1>0, <2>2, <2>3, <2>4, <2>5 DEF Listed
<1>8. QED BY <1>0, <1>6, <1>7 DEF WizardInv, WizardTyped, FreshTyped, Undisturbed

LEMMA Flags ==
  ASSUME NEW v \in BOOLEAN
  PROVE  [flash |-> v] \in Marks /\ [token |-> v] \in Marks /\ <<>> \in Marks
<1>1. [flash |-> v] \in [{"flash"} -> BOOLEAN]
  OBVIOUS
<1>2. [token |-> v] \in [{"token"} -> BOOLEAN]
  OBVIOUS
<1>3. <<>> \in [{} -> BOOLEAN]
  OBVIOUS
<1>4. {"flash"} \in SUBSET {"user", "token", "flash"} /\ {"token"} \in SUBSET {"user", "token", "flash"}
      /\ {} \in SUBSET {"user", "token", "flash"}
  OBVIOUS
<1>5. QED BY <1>1, <1>2, <1>3, <1>4 DEF Marks

LEMMA FlashAndToken ==
  ASSUME NEW u \in BOOLEAN, NEW v \in BOOLEAN PROVE [flash |-> u, token |-> v] \in Marks
<1>1. [flash |-> u, token |-> v] \in [{"flash", "token"} -> BOOLEAN]
  OBVIOUS
<1>2. {"flash", "token"} \in SUBSET {"user", "token", "flash"}
  OBVIOUS
<1>3. QED BY <1>1, <1>2 DEF Marks

LEMMA OverMarks ==
  ASSUME NEW a \in Marks, NEW b \in Marks PROVE Wizard!Over(a, b) \in Marks
<1>1. PICK F \in SUBSET {"user", "token", "flash"} : a \in [F -> BOOLEAN]
  BY DEF Marks
<1>2. PICK G \in SUBSET {"user", "token", "flash"} : b \in [G -> BOOLEAN]
  BY DEF Marks
<1>3. Wizard!Over(a, b) \in [F \cup G -> BOOLEAN]
  BY <1>1, <1>2 DEF Wizard!Over
<1>4. F \cup G \in SUBSET {"user", "token", "flash"}
  OBVIOUS
<1>5. QED BY <1>3, <1>4 DEF Marks

LEMMA OverUpdates ==
  ASSUME NEW a \in Updates, NEW b \in Updates PROVE Wizard!Over(a, b) \in Updates
<1>1. PICK F \in SUBSET Wizard!Fields : a \in [F -> Values]
  BY DEF Updates
<1>2. PICK G \in SUBSET Wizard!Fields : b \in [G -> Values]
  BY DEF Updates
<1>3. Wizard!Over(a, b) \in [F \cup G -> Values]
  BY <1>1, <1>2 DEF Wizard!Over
<1>4. F \cup G \in SUBSET Wizard!Fields
  OBVIOUS
<1>5. QED BY <1>3, <1>4 DEF Updates

LEMMA OneUpdate ==
  ASSUME NEW f \in Wizard!Fields, NEW v \in Values PROVE [g \in {f} |-> v] \in Updates
<1>1. [g \in {f} |-> v] \in [{f} -> Values] /\ {f} \in SUBSET Wizard!Fields
  OBVIOUS
<1>2. QED BY <1>1 DEF Updates

\* What the forms save.
LEMMA Entered ==
  ASSUME NEW u \in Values, NEW v \in Values
  PROVE  /\ [program |-> u, source |-> v] \in Updates /\ [url |-> u, pr |-> v] \in Updates
         /\ [base |-> u, schema |-> v] \in Updates /\ [base |-> u] \in Updates
         /\ [url |-> u] \in Updates /\ [schema |-> u] \in Updates
<1>1. /\ {"program", "source"} \in SUBSET Wizard!Fields /\ {"url", "pr"} \in SUBSET Wizard!Fields
      /\ {"base", "schema"} \in SUBSET Wizard!Fields /\ {"base"} \in SUBSET Wizard!Fields
      /\ {"url"} \in SUBSET Wizard!Fields /\ {"schema"} \in SUBSET Wizard!Fields
  BY DEF Wizard!Fields
<1>2. [program |-> u, source |-> v] \in [{"program", "source"} -> Values]
  OBVIOUS
<1>3. [url |-> u, pr |-> v] \in [{"url", "pr"} -> Values]
  OBVIOUS
<1>4. [base |-> u, schema |-> v] \in [{"base", "schema"} -> Values]
  OBVIOUS
<1>5. [base |-> u] \in [{"base"} -> Values]
  OBVIOUS
<1>6. [url |-> u] \in [{"url"} -> Values]
  OBVIOUS
<1>7. [schema |-> u] \in [{"schema"} -> Values]
  OBVIOUS
<1>8. QED BY <1>1, <1>2, <1>3, <1>4, <1>5, <1>6, <1>7 DEF Updates

\* A session that is cleared has no wizards, and none were written.
LEMMA Cleared ==
  LET fresh == Wizard!Over(Wizard!Flash, Wizard!Empty)
  IN  fresh \in Sessions /\ fresh.wizards = <<>> /\ Listed(<<>>, <<>>, {})
<1>1. Wizard!Empty \in Sessions /\ Wizard!Empty.wizards = <<>>
  BY DEF Wizard!Empty, Sessions
<1>2. Wizard!Flash \in Marks
  BY Flags DEF Wizard!Flash
<1>3. Listed(<<>>, <<>>, {})
  <2>1. DOMAIN <<>> = {} /\ Len(<<>>) = 0
    OBVIOUS
  <2>2. QED BY <2>1, WizardAssumption DEF Listed, Ordered, Present
<1>4. QED BY <1>1, <1>2, <1>3, MarkedSession

LEMMA RevokeKeeps ==
  ASSUME WizardInv, NEW r \in WizardRequests, Wizard!Revoke(r)
  PROVE  WizardInv'
<1> DEFINE fresh == Wizard!Over(Wizard!Flash, Wizard!Empty)
<1>0. PICK q \in req[r] :
        /\ q.modified
        /\ Wizard!Answer(r, q, [s \in {q.session, intended} |-> fresh])
        /\ wizardSince' = <<>> /\ reset' = {}
  BY DEF Wizard!Revoke, Wizard!Around
<1> DEFINE change == [s \in {q.session, intended} |-> fresh]
<1>1. q \in Requested /\ q.session \in Sessions /\ intended \in Sessions
  BY DEF WizardInv, WizardTyped, Requested
<1>2. q = [q EXCEPT !.modified = TRUE]
  BY <1>0, <1>1 DEF Requested
<1>3. fresh \in Sessions /\ fresh.wizards = <<>> /\ Listed(<<>>, <<>>, {})
  BY Cleared
<1> HIDE DEF fresh
<1>4. Wizard!Answer(r, q, change) /\ change[q.session] = fresh /\ change[intended] = fresh
  BY <1>0
<1> HIDE DEF change
<1>5. change[q.session] \in Sessions /\ change[intended] \in Sessions
  BY <1>3, <1>4
<1>6. /\ store' \in Sessions /\ intended' \in Sessions /\ raced' \in BOOLEAN
      /\ FreshTyped'
      /\ raced' = FALSE => /\ raced = FALSE
                           /\ q.session = store /\ store = intended
                           /\ store' = change[store] /\ intended' = change[store]
  BY <1>2, <1>4, <1>5, Answered
<1>7. ASSUME raced' = FALSE
      PROVE  store' = intended' /\ Listed(store'.wizards, wizardSince', reset')
  BY <1>0, <1>3, <1>4, <1>6, <1>7
<1>8. DOMAIN wizardSince' = {}
  BY <1>0
<1>9. QED BY <1>6, <1>7, <1>8 DEF WizardInv, WizardTyped, FreshTyped, Undisturbed

LEMMA LoadKeeps ==
  ASSUME WizardInv, NEW r \in WizardRequests, NEW w \in WizardIds, Wizard!Load(r, w)
  PROVE  WizardInv'
<1>1. PICK again \in BOOLEAN : req' = [req EXCEPT ![r] =
            {[wid |-> w, session |-> store, modified |-> again, stale |-> FALSE]}]
  BY DEF Wizard!Load
<1>2. UNCHANGED <<store, intended, wizardSince, reset, raced>>
  BY DEF Wizard!Load
<1> DEFINE q == [wid |-> w, session |-> store, modified |-> again, stale |-> FALSE]
<1>3. q \in Requested /\ q.session = store
  BY DEF WizardInv, WizardTyped, Requested
<1> HIDE DEF q
<1>4. req' = [req EXCEPT ![r] = {q}]
  BY <1>1 DEF q
<1>5. FreshTyped'
  <2>1. req' \in [WizardRequests -> SUBSET Requested]
    BY <1>3, <1>4 DEF WizardInv, WizardTyped
  <2>2. \A x \in WizardRequests : req'[x] = IF x = r THEN {q} ELSE req[x]
    BY <1>4 DEF WizardInv, WizardTyped
  <2>3. \A x \in WizardRequests : \A o \in req'[x] : o.stale = FALSE => o.session = store'
    BY <1>2, <1>3, <2>2 DEF WizardInv, Fresh
  <2>4. QED BY <2>1, <2>3 DEF FreshTyped, Fresh
<1>6. QED BY <1>2, <1>5 DEF WizardInv, WizardTyped, FreshTyped, Undisturbed

LEMMA DieKeeps ==
  ASSUME WizardInv, NEW r \in WizardRequests, Wizard!Die(r)
  PROVE  WizardInv'
<1>1. req' = [req EXCEPT ![r] = {}] /\ UNCHANGED <<store, intended, wizardSince, reset, raced>>
  BY DEF Wizard!Die
<1>2. req' \in [WizardRequests -> SUBSET Requested] /\ \A x \in WizardRequests : req'[x] \subseteq req[x]
  BY <1>1 DEF WizardInv, WizardTyped
<1>3. FreshTyped'
  BY <1>1, <1>2 DEF FreshTyped, WizardInv, Fresh
<1>4. QED BY <1>1, <1>3 DEF WizardInv, WizardTyped, FreshTyped, Undisturbed

LEMMA AccessKeeps ==
  ASSUME WizardInv, NEW user \in BOOLEAN, NEW token \in BOOLEAN, Wizard!Access(user, token)
  PROVE  WizardInv'
<1> DEFINE fresh == Wizard!Over(Wizard!Flash, Wizard!Empty)
           change(s) == IF user THEN [s EXCEPT !.user = TRUE, !.token = token] ELSE fresh
<1>1. store \in Sessions /\ intended \in Sessions /\ req \in [WizardRequests -> SUBSET Requested]
  BY DEF WizardInv, WizardTyped
<1>2. /\ store' = change(store) /\ intended' = change(intended)
      /\ req' = [r \in WizardRequests |-> {[q EXCEPT !.stale = TRUE] : q \in req[r]}]
      /\ wizardSince' = (IF user THEN wizardSince ELSE <<>>)
      /\ reset' = (IF user THEN reset ELSE {})
      /\ raced' = raced
  BY DEF Wizard!Access
<1>3. fresh \in Sessions /\ fresh.wizards = <<>> /\ Listed(<<>>, <<>>, {})
  BY Cleared
<1> HIDE DEF fresh
<1>4. \A s \in Sessions : change(s) \in Sessions /\ change(s).wizards = IF user THEN s.wizards ELSE <<>>
  BY <1>3 DEF Sessions
<1> HIDE DEF change
<1>5. store' \in Sessions /\ intended' \in Sessions
  BY <1>1, <1>2, <1>4
<1>6. FreshTyped'
  <2>1. \A q \in Requested : [q EXCEPT !.stale = TRUE] \in Requested /\ [q EXCEPT !.stale = TRUE].stale = TRUE
    BY DEF Requested
  <2>2. \A r \in WizardRequests : \A o \in req'[r] : o \in Requested /\ o.stale = TRUE
    BY <1>1, <1>2, <2>1
  <2>3. req' \in [WizardRequests -> SUBSET Requested]
    BY <1>2, <2>2
  <2>4. QED BY <2>2, <2>3 DEF FreshTyped, Fresh
<1>7. ASSUME raced' = FALSE
      PROVE  store' = intended' /\ Listed(store'.wizards, wizardSince', reset')
  <2>1. Listed(store.wizards, wizardSince, reset) /\ store = intended
    BY <1>2, <1>7 DEF WizardInv, Undisturbed
  <2>2. QED BY <1>1, <1>2, <1>3, <1>4, <2>1
<1>8. DOMAIN wizardSince' \subseteq WizardIds
      /\ \A w \in DOMAIN wizardSince' : IsFiniteSet(wizardSince'[w]) /\ w \notin wizardSince'[w]
  <2>1. CASE user
    BY <1>2, <2>1 DEF WizardInv, WizardTyped
  <2>2. CASE ~user
    <3>1. DOMAIN wizardSince' = {}
      BY <1>2, <2>2
    <3>2. QED BY <3>1
  <2>3. QED BY <2>1, <2>2
<1>9. raced' \in BOOLEAN
  BY <1>2 DEF WizardInv, WizardTyped
<1>10. QED BY <1>5, <1>6, <1>7, <1>8, <1>9 DEF WizardInv, WizardTyped, FreshTyped, Undisturbed

LEMMA IntrospectKeeps ==
  ASSUME WizardInv, NEW r \in WizardRequests, Wizard!Introspect(r)
  PROVE  WizardInv'
<1> DEFINE postgres == [program |-> "p", source |-> "postgres"]
           dialled(u) == Wizard!Over([url |-> u], postgres)
<1>1. PICK q \in req[r], u \in WizardSources :
        \/ Wizard!Save(r, q, [postgres EXCEPT !.source = "airtable"], <<>>)
        \/ Wizard!Save(r, q, postgres, Wizard!Flash)
        \/ Wizard!Save(r, q, dialled(u), Wizard!Flash)
        \/ Wizard!Save(r, q, Wizard!Over([schema |-> u], dialled(u)), <<>>)
  BY DEF Wizard!Introspect
<1>2. {"p", "postgres", "airtable"} \subseteq Values /\ u \in Values
  BY DEF Values
<1>3. postgres \in Updates /\ [program |-> "p", source |-> "airtable"] \in Updates
      /\ [url |-> u] \in Updates /\ [schema |-> u] \in Updates
  BY <1>2, Entered
<1>4. [postgres EXCEPT !.source = "airtable"] = [program |-> "p", source |-> "airtable"]
  OBVIOUS
<1> HIDE DEF postgres
<1>5. dialled(u) \in Updates
  BY <1>3, OverUpdates
<1> HIDE DEF dialled
<1>6. Wizard!Over([schema |-> u], dialled(u)) \in Updates
  BY <1>3, <1>5, OverUpdates
<1>7. Wizard!Flash \in Marks /\ <<>> \in Marks
  BY Flags DEF Wizard!Flash
<1>8. CASE Wizard!Save(r, q, [postgres EXCEPT !.source = "airtable"], <<>>)
  BY <1>3, <1>4, <1>7, <1>8, SaveKeeps
<1>9. CASE Wizard!Save(r, q, postgres, Wizard!Flash)
  BY <1>3, <1>7, <1>9, SaveKeeps
<1>10. CASE Wizard!Save(r, q, dialled(u), Wizard!Flash)
  BY <1>5, <1>7, <1>10, SaveKeeps
<1>11. CASE Wizard!Save(r, q, Wizard!Over([schema |-> u], dialled(u)), <<>>)
  BY <1>6, <1>7, <1>11, SaveKeeps
<1>12. QED BY <1>1, <1>8, <1>9, <1>10, <1>11

LEMMA BasesKeep ==
  ASSUME WizardInv, NEW r \in WizardRequests, Wizard!Bases(r)
  PROVE  WizardInv'
<1>1. PICK q \in req[r], t \in Wizard!RefreshAirtableToken :
        Wizard!Put(r, q, t) \/ Wizard!Put(r, q, Wizard!Dropped)
  BY DEF Wizard!Bases
<1>2. t \in Marks
  BY <1>1, Flags DEF Wizard!RefreshAirtableToken
<1>3. Wizard!Dropped \in Marks
  BY FlashAndToken DEF Wizard!Dropped
<1>4. QED BY <1>1, <1>2, <1>3, PutKeeps

LEMMA PickBaseKeeps ==
  ASSUME WizardInv, NEW r \in WizardRequests, Wizard!PickBase(r)
  PROVE  WizardInv'
<1>1. PICK q \in req[r], b \in WizardSources, t \in Wizard!RefreshAirtableToken :
        \/ Wizard!Save(r, q, [base |-> b, schema |-> b], <<>>)
        \/ Wizard!Save(r, q, [base |-> b, schema |-> b], t)
        \/ Wizard!Save(r, q, [base |-> b], Wizard!Over(Wizard!Flash, t))
        \/ Wizard!Save(r, q, [base |-> b], Wizard!Dropped)
  BY DEF Wizard!PickBase
<1>2. t \in Marks /\ Wizard!Flash \in Marks /\ <<>> \in Marks
  BY <1>1, Flags DEF Wizard!RefreshAirtableToken, Wizard!Flash
<1>3. Wizard!Over(Wizard!Flash, t) \in Marks
  BY <1>2, OverMarks
<1>4. Wizard!Dropped \in Marks
  BY FlashAndToken DEF Wizard!Dropped
<1>5. b \in Values
  BY DEF Values
<1>6. [base |-> b, schema |-> b] \in Updates /\ [base |-> b] \in Updates
  BY <1>5, Entered
<1>7. QED BY <1>1, <1>2, <1>3, <1>4, <1>6, SaveKeeps

LEMMA SubmitKeeps ==
  ASSUME WizardInv, NEW r \in WizardRequests, Wizard!Submit(r)
  PROVE  WizardInv'
<1>1. PICK q \in req[r], f \in {"tables", "sync", "dau"} : Wizard!Save(r, q, [g \in {f} |-> "x"], <<>>)
  BY DEF Wizard!Submit
<1>2. f \in Wizard!Fields /\ "x" \in Values
  BY DEF Wizard!Fields, Values
<1>3. [g \in {f} |-> "x"] \in Updates
  BY <1>2, OneUpdate
<1>4. <<>> \in Marks
  BY Flags
<1>5. QED BY <1>1, <1>3, <1>4, SaveKeeps

LEMMA CreatePrKeeps ==
  ASSUME WizardInv, NEW r \in WizardRequests, Wizard!CreatePr(r)
  PROVE  WizardInv'
<1>1. PICK q \in req[r] : Wizard!Save(r, q, [url |-> "", pr |-> "x"], [token |-> FALSE])
  BY DEF Wizard!CreatePr
<1>2. [url |-> "", pr |-> "x"] \in Updates
  <2>1. "" \in Values /\ "x" \in Values
    BY DEF Values
  <2>2. QED BY <2>1, Entered
<1>3. [token |-> FALSE] \in Marks
  BY Flags
<1>4. QED BY <1>1, <1>2, <1>3, SaveKeeps

LEMMA WizardStep == WizardInv /\ [Wizard!Next]_wizard => WizardInv'
<1> SUFFICES ASSUME WizardInv, [Wizard!Next]_wizard PROVE WizardInv'
  OBVIOUS
<1>1. CASE UNCHANGED wizard
  BY <1>1 DEF wizard, WizardInv, WizardTyped, Fresh, Undisturbed
<1>2. ASSUME NEW r \in WizardRequests, NEW w \in WizardIds, Wizard!Load(r, w) PROVE WizardInv'
  BY <1>2, LoadKeeps
<1>3. ASSUME NEW r \in WizardRequests, Wizard!Read(r) \/ Wizard!Refuse(r) PROVE WizardInv'
  <2>1. <<>> \in Marks /\ Wizard!Flash \in Marks /\ [flash |-> FALSE] \in Marks
    BY Flags DEF Wizard!Flash
  <2>2. \E q \in req[r], e \in {<<>>, Wizard!Flash, [flash |-> FALSE]} : Wizard!Put(r, q, e)
    BY <1>3 DEF Wizard!Read, Wizard!Refuse
  <2>3. QED BY <2>1, <2>2, PutKeeps
<1>4. ASSUME NEW r \in WizardRequests,
             \/ Wizard!Introspect(r) \/ Wizard!Bases(r) \/ Wizard!PickBase(r) \/ Wizard!Submit(r)
             \/ Wizard!CreatePr(r) \/ Wizard!Reset(r) \/ Wizard!Revoke(r) \/ Wizard!Die(r)
      PROVE  WizardInv'
  BY <1>4, IntrospectKeeps, BasesKeep, PickBaseKeeps, SubmitKeeps, CreatePrKeeps, ResetKeeps,
     RevokeKeeps, DieKeeps
<1>5. ASSUME Wizard!Login \/ Wizard!AirtableCallback \/ Wizard!Logout PROVE WizardInv'
  BY <1>5, AccessKeeps DEF Wizard!Login, Wizard!AirtableCallback, Wizard!Logout
<1>6. QED BY <1>1, <1>2, <1>3, <1>4, <1>5 DEF Wizard!Next

(***************************************************************************)
(* The web services together.                                              *)
(***************************************************************************)

ServedInv ==
    /\ part = "query" => QueryInv
    /\ part = "pull" => OwnInv
    /\ part = "wizard" => WizardInv

(* The web services do what a request asks, once and whole, beside others: *)
(* no connection of warehouse-mcp's pool leaks and a refused query is not  *)
(* run again, pages put together are the result, an open pull request of   *)
(* Dashbored declares its own program only, a refused submission leaves no *)
(* branch behind, and requests that only read a session undo no write.     *)
THEOREM RequestsKept == Spec => []RequestsServed
<1>1. Init => ServedInv
  BY QueryStart, OwnBegin, WizardStart DEF Init, ServedInv
<1>2. ServedInv /\ [Next]_vars => ServedInv'
  <2> SUFFICES ASSUME ServedInv, [Next]_vars PROVE ServedInv'
    OBVIOUS
  <2>1. /\ part' = part
        /\ part = "query" => [Query!Next]_query
        /\ part = "pull" => [Pull!Next]_pull
        /\ part = "wizard" => [Wizard!Next]_wizard
    BY DEF Next, vars
  <2>2. QED BY <2>1, QueryStep, OwnStep, WizardStep DEF ServedInv
<1>3. ServedInv => RequestsServed
  BY QueryKeeps, OwnKeeps, WizardKeeps DEF ServedInv, RequestsServed
<1>4. QED BY <1>1, <1>2, <1>3, PTL DEF Spec
=============================================================================
