------------------------------- MODULE Waitlist -------------------------------
(***************************************************************************)
(* The launch waiting list (market/store.ts, market/handlers.ts): a capped *)
(* list keyed by email, to which the same person may sign up again, with   *)
(* more to say or with something that is refused half-way.                 *)
(***************************************************************************)
EXTENDS Naturals, Sequences

CONSTANTS
  Emails,      \* normalised addresses
  Details,     \* what a valid optional answer may be
  Blank,       \* an answer left out
  Invalid,     \* an answer that optionalText refuses
  Capacity     \* maxEntries

ASSUME BlankAssumption == Blank \notin Details /\ Invalid \notin Details /\ Blank # Invalid
ASSUME CapacityAssumption == Capacity \in Nat

VARIABLES
  entries,  \* in the order of signing up: the email, and one answer per field
  reply     \* the last answer: status and position

listVars == <<entries, reply>>

\* The optional fields in the order in which mergeEnrichment takes them; the
\* five are alike, and two of them show the order.
Fields == 1..2

NoReply == [status |-> 0, position |-> 0]
ListInit == entries = <<>> /\ reply = NoReply

Has(email) == \E i \in DOMAIN entries : entries[i].email = email
PositionOf(email) == CHOOSE i \in DOMAIN entries : entries[i].email = email

Refuse(status) == reply' = [status |-> status, position |-> 0]
Enter(email, said) ==
  /\ entries' = Append(entries, [email |-> email, said |-> said])
  /\ reply' = [status |-> 201, position |-> Len(entries) + 1]

\* A new signup: full is told before a bad answer, and a bad answer leaves nothing.
Full == Len(entries) >= Capacity
SignUp(email, said) ==
  /\ ~Has(email)
  /\ \/ Full /\ Refuse(503) /\ UNCHANGED entries
     \/ ~Full /\ (\E f \in Fields : said[f] = Invalid) /\ Refuse(400) /\ UNCHANGED entries
     \/ ~Full /\ (\A f \in Fields : said[f] # Invalid) /\ Enter(email, said)

\* mergeEnrichment: an answer given before stays and the new one is not even
\* looked at; a bad one throws, after the fields before it were filled in.
Throws(had, said, f) == had[f] = Blank /\ said[f] = Invalid
LastAnswerWins(had, said, f) ==   \* mutant of Merged: earlier answers are overwritten
  IF said[f] # Blank /\ \A g \in 1..f : said[g] # Invalid THEN said[f] ELSE had[f]
Merged(had, said, f) ==
  IF had[f] = Blank /\ \A g \in 1..f : ~Throws(had, said, g) THEN said[f] ELSE had[f]
SignUpAgain(email, said) ==
  /\ Has(email)
  /\ LET had == entries[PositionOf(email)].said IN
     /\ entries' = [entries EXCEPT ![PositionOf(email)].said = [f \in Fields |-> Merged(had, said, f)]]
     /\ IF \E f \in Fields : Throws(had, said, f) THEN Refuse(400)
        ELSE reply' = [status |-> 200, position |-> PositionOf(email)]

ListNext == \E email \in Emails, said \in [Fields -> Details \cup {Blank, Invalid}] :
  SignUp(email, said) \/ SignUpAgain(email, said)

ListSpec == ListInit /\ [][ListNext]_listVars

-----------------------------------------------------------------------------
(* Properties. *)

ListTypeOK ==
  /\ entries \in Seq([email : Emails, said : [Fields -> Details \cup {Blank}]])
  /\ reply \in [status : {0, 200, 201, 400, 503}, position : 0..Capacity]

\* Whoever is on the list keeps the place and the first answer to each question,
\* whoever signs up before or again, and an email is there once; those on it are
\* never told that it is full, and what is told as the position is the place in
\* the order of signing up (market/store.ts: "enrich empty fields without
\* clobbering earlier answers").
PlacesAreKept ==
  [][/\ Len(entries') >= Len(entries) /\ Len(entries') <= Capacity
     /\ \A i \in DOMAIN entries :
          /\ entries'[i].email = entries[i].email
          /\ \A f \in Fields : entries[i].said[f] # Blank => entries'[i].said[f] = entries[i].said[f]
     /\ \A i, j \in DOMAIN entries' : entries'[i].email = entries'[j].email => i = j
     /\ reply'.status = 503 => Len(entries) = Capacity /\ entries' = entries
     /\ reply'.status = 201 => reply'.position = Len(entries) + 1]_listVars
=============================================================================
