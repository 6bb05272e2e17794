---------------------------- MODULE LoopsAudience ----------------------------
(***************************************************************************)
(* The Loops audience: export the contacts, geocode addresses, derive      *)
(* gender and age, merge the three results and send them back.  A hash of  *)
(* the input, kept at Loops beside each result, says what is up to date.   *)
(* Every asset handles each contact on its own: the module follows one.    *)
(***************************************************************************)
EXTENDS Naturals

CONSTANTS
    Addresses,
    Names, Selves,    \* full names; self-reported genders, "" for none
    Genderize,        \* name -> what the Genderize API answers
    Years,            \* 0 .. n, of age
    MaxEdits, MaxFaults

VARIABLES
    contact,      \* at Loops; a hash is the input it was taken of, "" for none
    year,         \* age by birthday and calendar
    raw,          \* loops_raw_audience
    todo,         \* assets still to run in this run
    geo, gender, age, \* their results: fields of the contact, none where not due
    prepared,     \* loops_audience_prepared_for_update
    edits, faults,
    answers       \* history: best-known genders an AI answer was lost for

vars == <<contact, year, raw, todo, geo, gender, age, prepared, edits, faults, answers>>

None == [f \in {} |-> ""]
Hash(g, s) == <<g, s>>
NoHash == <<"", "never">>
Merge(f, g) == [x \in DOMAIN f \cup DOMAIN g |-> IF x \in DOMAIN g THEN g[x] ELSE f[x]]

Init ==
    /\ contact = [address |-> CHOOSE a \in Addresses : TRUE, geo |-> "", geoHash |-> "",
                  name |-> CHOOSE n \in Names : TRUE, gender |-> "", nameHash |-> "",
                  self |-> "", best |-> "", bestHash |-> NoHash, age |-> 0]
    /\ year = 0 /\ raw = contact /\ todo = {}
    /\ geo = None /\ gender = None /\ age = None /\ prepared = None
    /\ edits = 0 /\ faults = 0 /\ answers = {}

Edit ==
    /\ edits < MaxEdits /\ edits' = edits + 1
    /\ \/ \E a \in Addresses : contact' = [contact EXCEPT !.address = a]
       \/ \E n \in Names : contact' = [contact EXCEPT !.name = n]
       \/ \E s \in Selves : contact' = [contact EXCEPT !.self = s]
    /\ UNCHANGED <<year, raw, todo, geo, gender, age, prepared, faults, answers>>

Birthday ==
    /\ year + 1 \in Years /\ year' = year + 1
    /\ UNCHANGED <<contact, raw, todo, geo, gender, age, prepared, edits, faults, answers>>

(* loops_raw_audience: an export is created, polled and downloaded.        *)
Export ==
    /\ todo = {}
    /\ raw' = contact /\ todo' = {"geocode", "gender", "age", "prepare", "send"}
    /\ geo' = None /\ gender' = None /\ age' = None /\ prepared' = None
    /\ UNCHANGED <<contact, year, edits, faults, answers>>

StoreHashAnyway == \* slip: the hash is kept although the geocoder failed
    /\ "geocode" \in todo /\ todo' = todo \ {"geocode"}
    /\ \/ /\ geo' = IF raw.address = raw.geoHash THEN None
                    ELSE [geo |-> raw.address, geoHash |-> raw.address]
          /\ faults' = faults
       \/ geo' = [geoHash |-> raw.address] /\ faults < MaxFaults /\ faults' = faults + 1
    /\ UNCHANGED <<contact, year, raw, gender, age, prepared, edits, answers>>

(* loops_geocoded_audience: nothing is sent for an address the geocoder    *)
(* fails on, so that it is due again.                                      *)
Geocode ==
    /\ "geocode" \in todo /\ todo' = todo \ {"geocode"}
    /\ \/ /\ geo' = IF raw.address = raw.geoHash THEN None
                    ELSE [geo |-> raw.address, geoHash |-> raw.address]
          /\ faults' = faults
       \/ geo' = None /\ faults < MaxFaults /\ faults' = faults + 1
    /\ UNCHANGED <<contact, year, raw, gender, age, prepared, edits, answers>>

Best(g, s) == IF s # "" THEN s ELSE IF g \in {"male", "female"} THEN g ELSE ""

ForBest(g) == g

(* loops_gender_categorized_audience.  "error" of the Genderize API is     *)
(* stored with the new hash; so is the hash of a best-known gender the AI  *)
(* could not give, but its null is not sent.                               *)
Categorize ==
    /\ "gender" \in todo /\ todo' = todo \ {"gender"}
    /\ \E g \in IF raw.name = raw.nameHash THEN {raw.gender} ELSE {Genderize[raw.name], "error"} :
       LET hash == Hash(ForBest(g), raw.self)
           due == hash # raw.bestHash /\ (raw.self # "" \/ g \notin {"", "error"})
       IN  \E b \in IF due THEN {Best(g, raw.self), ""} ELSE {""} :
               /\ gender' =
                    IF raw.name = raw.nameHash /\ ~due THEN None
                    ELSE Merge([gender |-> g, nameHash |-> raw.name, bestHash |-> IF due THEN hash ELSE raw.bestHash],
                               IF b = "" THEN None ELSE [best |-> b])
               /\ LET failed == (raw.name # raw.nameHash /\ g = "error" /\ Genderize[raw.name] # "error")
                                \/ (due /\ b # Best(g, raw.self))
                  IN  /\ faults' = IF failed THEN faults + 1 ELSE faults
                      /\ faults' <= MaxFaults
               /\ answers' = IF due /\ b = "" THEN answers \cup {hash} ELSE answers
    /\ UNCHANGED <<contact, year, raw, geo, age, prepared, edits>>

ComputeAge ==
    /\ "age" \in todo /\ todo' = todo \ {"age"}
    /\ age' = IF raw.age = year THEN None ELSE [age |-> year]
    /\ UNCHANGED <<contact, year, raw, geo, gender, prepared, edits, faults, answers>>

(* loops_audience_prepared_for_update fails on two values for one field;   *)
(* loops_processed_audience only reads.                                    *)
Prepare ==
    /\ todo = {"prepare", "send"}
    /\ prepared' = Merge(Merge(geo, gender), age)
    /\ todo' = {"send"}
    /\ UNCHANGED <<contact, year, raw, geo, gender, age, edits, faults, answers>>

(* loops_audience_update_status: one request with the fields that are not  *)
(* null, or none.                                                          *)
Send ==
    /\ todo = {"send"} /\ todo' = {}
    /\ \/ contact' = Merge(contact, prepared) /\ faults' = faults
       \/ contact' = contact /\ faults < MaxFaults /\ faults' = faults + 1
    /\ UNCHANGED <<year, raw, geo, gender, age, prepared, edits, answers>>

FailRun ==
    /\ todo # {} /\ faults < MaxFaults /\ faults' = faults + 1
    /\ todo' = {}
    /\ UNCHANGED <<contact, year, raw, geo, gender, age, prepared, edits, answers>>

Run == Export \/ Geocode \/ Categorize \/ ComputeAge \/ Prepare \/ Send
Next == Edit \/ Birthday \/ Run \/ FailRun

Spec == Init /\ [][Next]_vars /\ WF_vars(Run)

-----------------------------------------------------------------------------

TypeOK ==
    /\ contact.geo \in Addresses \cup {""} /\ contact.name \in Names
    /\ contact.gender \in {"", "male", "female", "gender-neutral", "error"}
    /\ contact.age \in Years /\ year \in Years
    /\ todo \subseteq {"geocode", "gender", "age", "prepare", "send"}
    /\ edits \in 0 .. MaxEdits /\ faults \in 0 .. MaxFaults

(* What Loops holds was computed from what its hash was taken of, however  *)
(* edits, failures and runs fall: the coordinates from that address, the   *)
(* best-known gender from that gender of the name and that own statement,  *)
(* unless the AI gave no answer for them.                                  *)
ResultMatchesHash ==
    /\ contact.geo = contact.geoHash
    /\ contact.bestHash \notin answers \cup {NoHash} =>
           contact.best = Best(contact.bestHash[1], contact.bestHash[2])

(* Edits are never undone: a run does not write what people write.         *)
EditsKept ==
    [][edits' = edits =>
        \A f \in {"address", "name", "self"} : contact'[f] = contact[f]]_vars

(* Once nobody edits, the coordinates and the age come to be those of the  *)
(* address and the birthday, whatever failed on the way.                   *)
CatchesUp == <>[](contact.geo = contact.address /\ contact.age = year)
=============================================================================
