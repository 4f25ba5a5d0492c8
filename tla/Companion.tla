------------------------------- MODULE Companion -------------------------------
(***************************************************************************)
(* The companion's requests (companion/handlers.ts, portrait_handlers.ts,  *)
(* scene_handlers.ts, speak_handlers.ts), the creators whose personas they *)
(* use (creator/handlers.ts) and the accounts behind the creators          *)
(* (auth/service.ts), as the gateway calls them: each turn reads the       *)
(* memory, awaits a provider and then writes, while others do the same.    *)
(*                                                                         *)
(* A request enters when the guards (module FrontDoor) have let it in and  *)
(* its body has been read and found valid: nothing before that touches the *)
(* state that is here.                                                     *)
(***************************************************************************)
EXTENDS Naturals, Sequences

CONSTANTS
  Turns,        \* the requests in flight: one slot each
  Companions,   \* companionId, the key of a memory and of a creator's persona
  People,       \* those who sign up, each with one email
  Nobody,       \* the creator of an unclaimed persona
  MaxTurns,     \* bound: requests to a provider
  MaxTokens     \* bound: session tokens minted

ASSUME NobodyAssumption == Nobody \notin People

VARIABLES
  turn,       \* [Turns -> where a request is, and what it read before its await]
  memory,     \* [Companions -> turnCount of the remembered relationship]
  owner,      \* [Companions -> the creator whose persona it is, or Nobody]
  usage,      \* [Companions -> [People -> likeness-usage events]]
  accounts,   \* the people who have an account
  tokens,     \* the sessions minted, in order: whose, and "live", "expired" or "gone"
  asked,      \* requests to a provider so far
  replies,    \* history: [Companions -> chat replies that were a provider's own]
  owed,       \* history: [Companions -> what a provider made for a claimed persona]
  overlapped  \* history: companions of whom two turns were in flight at once

records == <<memory, owner, usage>>
auth == <<accounts, tokens>>
history == <<replies, owed, overlapped>>
companionVars == <<turn, records, auth, asked, history>>

Idle == [step |-> "idle"]

CompanionInit ==
  /\ turn = [r \in Turns |-> Idle]
  /\ memory = [c \in Companions |-> 0]
  /\ owner = [c \in Companions |-> Nobody]
  /\ usage = [c \in Companions |-> [p \in People |-> 0]]
  /\ accounts = {} /\ tokens = <<>>
  /\ asked = 0
  /\ replies = [c \in Companions |-> 0] /\ owed = replies /\ overlapped = {}

Ask(r, request) ==
  /\ turn[r] = Idle /\ asked < MaxTurns /\ asked' = asked + 1
  /\ turn' = [turn EXCEPT ![r] = request]
Answer(r) == turn' = [turn EXCEPT ![r] = Idle] /\ UNCHANGED asked

-----------------------------------------------------------------------------
(* The requests. *)

Chatting(c) == {r \in Turns : turn[r].step = "chat" /\ turn[r].companion = c}

\* The memory is read before the provider is asked.
Chat(r, c) ==
  /\ Ask(r, [step |-> "chat", companion |-> c, count |-> memory[c]])
  /\ overlapped' = IF Chatting(c) = {} THEN overlapped ELSE overlapped \cup {c}
  /\ UNCHANGED <<records, auth, replies, owed>>

\* A portrait or a scene.
Picture(r, c) ==
  /\ Ask(r, [step |-> "picture", companion |-> c])
  /\ UNCHANGED <<records, auth, history>>

\* The streamed chat and speech remember and credit nothing.
Stream(r) ==
  /\ Ask(r, [step |-> "stream"])
  /\ UNCHANGED <<records, auth, history>>

\* recordLikenessUsage: whoever owns the persona at that moment is credited.
Credit(c) ==
  /\ usage' = [usage EXCEPT ![c] = [p \in People |-> @[p] + (IF p = owner[c] THEN 1 ELSE 0)]]
  /\ owed' = [owed EXCEPT ![c] = @ + (IF owner[c] = Nobody THEN 0 ELSE 1)]

\* updateMemoryAfterTurn: one more than what was read before the await.
NextCount(r) == turn[r].count + 1
ChatReplied(r) ==
  /\ turn[r].step = "chat"
  /\ memory' = [memory EXCEPT ![turn[r].companion] = NextCount(r)]
  /\ replies' = [replies EXCEPT ![turn[r].companion] = @ + 1]
  /\ Credit(turn[r].companion)
  /\ Answer(r)
  /\ UNCHANGED <<owner, auth, overlapped>>

PictureMade(r) ==
  /\ turn[r].step = "picture"
  /\ Credit(turn[r].companion)
  /\ Answer(r)
  /\ UNCHANGED <<memory, owner, auth, replies, overlapped>>

\* The provider throws, its client's timer ends, or it answers with nothing:
\* the canned reply, or no picture.  A stream ends here whatever it has sent.
NeverFallBack(r) == FALSE   \* mutant of FallBack: a provider's error is not caught
FallBack(r) ==
  /\ turn[r].step \in {"chat", "picture", "stream"}
  /\ Answer(r)
  /\ UNCHANGED <<records, auth, history>>

-----------------------------------------------------------------------------
(* Accounts, their sessions, and the personas of those who are creators. *)

Mint(p) == Len(tokens) < MaxTokens /\ tokens' = Append(tokens, [user |-> p, state |-> "live"])

Signup(p) ==
  /\ p \notin accounts /\ accounts' = accounts \cup {p} /\ Mint(p)
  /\ UNCHANGED <<turn, records, asked, history>>

Login(p) ==
  /\ p \in accounts /\ UNCHANGED accounts /\ Mint(p)
  /\ UNCHANGED <<turn, records, asked, history>>

Retire(t, state) ==
  /\ tokens' = [tokens EXCEPT ![t].state = state]
  /\ UNCHANGED <<turn, records, accounts, asked, history>>

Logout(t) == tokens[t].state # "gone" /\ Retire(t, "gone")
Expire(t) == tokens[t].state = "live" /\ Retire(t, "expired")

\* getUserBySession deletes an expired session when it meets it, in "me" and in
\* every creator's route.
Reap(t) == tokens[t].state = "expired" /\ Retire(t, "gone")

\* handleCreatePersona for the user of a live session: 409 for somebody else's.
ClaimAnyway(t, c) ==   \* mutant of Claim: a persona of somebody else is overwritten
  /\ tokens[t].state = "live"
  /\ owner' = [owner EXCEPT ![c] = tokens[t].user]
  /\ UNCHANGED <<turn, memory, usage, auth, asked, history>>
Claim(t, c) ==
  /\ tokens[t].state = "live" /\ owner[c] \in {Nobody, tokens[t].user}
  /\ owner' = [owner EXCEPT ![c] = tokens[t].user]
  /\ UNCHANGED <<turn, memory, usage, auth, asked, history>>

-----------------------------------------------------------------------------
Finish(r) == ChatReplied(r) \/ PictureMade(r) \/ FallBack(r)

CompanionNext ==
  \/ \E r \in Turns, c \in Companions : Chat(r, c) \/ Picture(r, c)
  \/ \E r \in Turns : Stream(r) \/ Finish(r)
  \/ \E p \in People : Signup(p) \/ Login(p)
  \/ \E t \in DOMAIN tokens : Logout(t) \/ Expire(t) \/ Reap(t)
  \/ \E t \in DOMAIN tokens, c \in Companions : Claim(t, c)

\* A provider answers, or its client's timer ends.
CompanionFair == \A r \in Turns : WF_companionVars(Finish(r))
CompanionSpec == CompanionInit /\ [][CompanionNext]_companionVars /\ CompanionFair

-----------------------------------------------------------------------------
(* Properties. *)

Requests ==
  {Idle} \cup [step : {"stream"}] \cup [step : {"picture"}, companion : Companions]
         \cup [step : {"chat"}, companion : Companions, count : Nat]
CompanionTypeOK ==
  /\ turn \in [Turns -> Requests] /\ asked \in Nat
  /\ memory \in [Companions -> Nat] /\ replies \in [Companions -> Nat] /\ owed \in [Companions -> Nat]
  /\ owner \in [Companions -> People \cup {Nobody}] /\ usage \in [Companions -> [People -> Nat]]
  /\ accounts \subseteq People /\ overlapped \subseteq Companions
  /\ tokens \in Seq([user : People, state : {"live", "expired", "gone"}])

\* A relationship remembers exactly the turns a provider really answered, as
\* long as no two turns of one companion overlapped.  When they did, the later
\* write goes back on the earlier one and turns are lost, but a turn that never
\* happened is never remembered (companion/handlers.ts reads the memory before
\* the provider's await and writes it after).
MemoryCountsTurns == \A c \in Companions :
  /\ memory[c] <= replies[c]
  /\ c \notin overlapped => memory[c] = replies[c]

\* Every reply or picture that a provider made for a claimed persona is credited
\* once, to the creator who owned the persona then and owns it still, and to
\* nobody else: not for a canned reply, and not to a second claimant
\* (creator/handlers.ts looks the owner up when the result has come, not when
\* the request did).
UsageReachesItsOwner == \A c \in Companions, p \in People :
  usage[c][p] = IF p = owner[c] THEN owed[c] ELSE 0

\* What a companion says of a person counts that person's turns, and the use of a
\* creator's likeness reaches its creator.
CompanionRemembers == MemoryCountsTurns /\ UsageReachesItsOwner

\* Every request that awaits a provider is answered in the end, also when the
\* provider fails or answers with nothing.
EveryTurnEnds == \A r \in Turns : turn[r].step # "idle" ~> turn[r].step = "idle"
=============================================================================
