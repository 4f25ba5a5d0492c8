-------------------------------- MODULE Routes --------------------------------
(***************************************************************************)
(* The gateway's routes that act for somebody (gateway/server.ts,          *)
(* auth/service.ts, creator/handlers.ts): sign-up, log-in, log-out and the *)
(* creator routes behind a session, past the guards of FrontDoor.  A route *)
(* is one step but for what it forks; a body is read before its handler.   *)
(***************************************************************************)
EXTENDS Naturals, FiniteSets

CONSTANTS
  Users,         \* e-mail addresses, and so accounts
  Personas,      \* personaIds
  NoOwner,
  SessionLife,   \* sessionTtlMs
  MaxSessions, MaxUses, MaxDays   \* bounds: sessions minted, uses, time

ASSUME RoutesAssumption == NoOwner \notin Users /\ SessionLife \in Nat \ {0}

VARIABLES
  registered,  \* e-mails with an account
  open,      \* the session repository: tokens
  minted,    \* every session ever minted: token -> its user and its end
  profiles,  \* users with a creator profile
  creatorOf,     \* the persona repository: persona -> its creator
  usages,    \* the likeness-usage log: [persona, creator], as a bag of counts
  uses,      \* history: uses of a persona while somebody owned it
  left,      \* history: tokens that were logged out
  replied,     \* the last request: its token, its status, and who it was for
  day

routeVars == <<registered, open, minted, profiles, creatorOf, usages, uses, left, replied, day>>

Sessions == DOMAIN minted
NoToken == 0
RouteReply(token, user, status) == [token |-> token, user |-> user, status |-> status]
Respond(token, user, status) == replied' = RouteReply(token, user, status)

-----------------------------------------------------------------------------
(* AuthService *)

\* getUserBySession: nobody for a token that is missing, unknown or expired, and
\* the expired one is deleted.
Expired(token) == minted[token].ends <= day
UserOfAny(token) ==   \* mutant of UserOf: the expiry is not looked at
  IF token \in open THEN minted[token].user ELSE NoOwner
UserOf(token) ==
  IF token \in open /\ ~Expired(token) /\ minted[token].user \in registered
  THEN minted[token].user ELSE NoOwner
Reaped(token) == IF token \in open /\ Expired(token) THEN open \ {token} ELSE open

MintSession(user, status) ==
  /\ Cardinality(Sessions) < MaxSessions
  /\ LET token == Cardinality(Sessions) + 1
     IN  /\ minted' = [t \in Sessions \cup {token} |->
               IF t = token THEN [user |-> user, ends |-> day + SessionLife] ELSE minted[t]]
         /\ open' = open \cup {token}
         /\ Respond(token, user, status)

\* What a body can be: read and well formed, read and refused by the handler's
\* validation, or one that readJsonBody rejects.
BodyKinds == {"good", "invalid", "broken"}
Rejected(body) == IF body = "broken" THEN 500 ELSE 400

SignupRoute(email, body) ==
  /\ \/ body = "good" /\ email \notin registered
        /\ registered' = registered \cup {email} /\ MintSession(email, 200)
     \/ body = "good" /\ email \in registered
        /\ Respond(NoToken, email, 409) /\ UNCHANGED <<registered, open, minted>>
     \/ body # "good"
        /\ Respond(NoToken, email, Rejected(body)) /\ UNCHANGED <<registered, open, minted>>
  /\ UNCHANGED <<profiles, creatorOf, usages, uses, left, day>>

\* An unknown e-mail and a wrong password are answered alike.
LoginRoute(email, body, correct) ==
  /\ \/ body = "good" /\ email \in registered /\ correct /\ MintSession(email, 200)
     \/ body = "good" /\ ~(email \in registered /\ correct)
        /\ Respond(NoToken, email, 401) /\ UNCHANGED <<open, minted>>
     \/ body # "good"
        /\ Respond(NoToken, email, Rejected(body)) /\ UNCHANGED <<open, minted>>
  /\ UNCHANGED <<registered, profiles, creatorOf, usages, uses, left, day>>

\* Idempotent: 200 even for a token nobody holds.
LogoutRoute(token) ==
  /\ open' = open \ {token} /\ left' = left \cup ({token} \cap Sessions)
  /\ Respond(token, NoOwner, 200)
  /\ UNCHANGED <<registered, minted, profiles, creatorOf, usages, uses, day>>

-----------------------------------------------------------------------------
(* The routes behind creatorSessionUser.  The body is read first, so a broken *)
(* one is 500 before the session is looked at.                                *)

Session(token) == open' = Reaped(token)
RefuseRoute(token, user, status) ==
  Respond(token, user, status) /\ UNCHANGED <<profiles, creatorOf>>

\* GET me and GET earnings: reads, but for the session that has expired.
Me(token) ==
  /\ Session(token)
  /\ RefuseRoute(token, UserOf(token), IF UserOf(token) = NoOwner THEN 401 ELSE 200)
  /\ UNCHANGED <<registered, minted, usages, uses, left, day>>

Apply(token, body) ==
  LET user == UserOf(token)
  IN  /\ IF body = "broken" THEN UNCHANGED open ELSE Session(token)
      /\ \/ body = "good" /\ user # NoOwner
            /\ profiles' = profiles \cup {user} /\ Respond(token, user, 200) /\ UNCHANGED creatorOf
         \/ body # "broken" /\ user = NoOwner /\ RefuseRoute(token, user, 401)
         \/ body = "broken" /\ RefuseRoute(token, user, 500)
         \/ body = "invalid" /\ user # NoOwner /\ RefuseRoute(token, user, 400)
      /\ UNCHANGED <<registered, minted, usages, uses, left, day>>

\* 409 for a persona another creator claimed; a creator's own is updated in place.
Taken(persona, user) == creatorOf[persona] \notin {NoOwner, user}
SubmitPersona(token, persona, body) ==
  LET user == UserOf(token)
  IN  /\ IF body = "broken" THEN UNCHANGED open ELSE Session(token)
      /\ \/ body = "good" /\ user # NoOwner /\ ~Taken(persona, user)
            /\ creatorOf' = [creatorOf EXCEPT ![persona] = user]
            /\ Respond(token, user, 200) /\ UNCHANGED profiles
         \/ body = "good" /\ user # NoOwner /\ Taken(persona, user) /\ RefuseRoute(token, user, 409)
         \/ body # "broken" /\ user = NoOwner /\ RefuseRoute(token, user, 401)
         \/ body = "broken" /\ RefuseRoute(token, user, 500)
         \/ body = "invalid" /\ user # NoOwner /\ RefuseRoute(token, user, 400)
      /\ UNCHANGED <<registered, minted, usages, uses, left, day>>

\* A payout of the stub is 403, for an amount it can parse.
Payout(token, body) ==
  LET user == UserOf(token)
  IN  /\ IF body = "broken" THEN UNCHANGED open ELSE Session(token)
      /\ RefuseRoute(token, user,
           IF body = "broken" THEN 500 ELSE IF user = NoOwner THEN 401
           ELSE IF body = "invalid" THEN 400 ELSE 403)
      /\ UNCHANGED <<registered, minted, usages, uses, left, day>>

\* recordLikenessUsage, of a chat turn, a portrait or a scene: nobody's session.
Use(persona) ==
  /\ uses[persona] < MaxUses
  /\ LET creator == creatorOf[persona]
     IN  /\ creator # NoOwner
         /\ usages' = [usages EXCEPT ![persona][creator] = @ + 1]
  /\ uses' = [uses EXCEPT ![persona] = @ + 1]
  /\ Respond(NoToken, NoOwner, 200)
  /\ UNCHANGED <<registered, open, minted, profiles, creatorOf, left, day>>

Elapse ==
  /\ day < MaxDays /\ day' = day + 1
  /\ Respond(NoToken, NoOwner, 200)
  /\ UNCHANGED <<registered, open, minted, profiles, creatorOf, usages, uses, left>>

RouteInit ==
  /\ registered = {} /\ open = {} /\ minted = [t \in {} |-> {}] /\ profiles = {}
  /\ creatorOf = [p \in Personas |-> NoOwner]
  /\ usages = [p \in Personas |-> [u \in Users |-> 0]] /\ uses = [p \in Personas |-> 0]
  /\ left = {} /\ replied = RouteReply(NoToken, NoOwner, 200) /\ day = 0

RouteNext ==
  \/ \E email \in Users, body \in BodyKinds :
       \/ SignupRoute(email, body)
       \/ \E correct \in BOOLEAN : LoginRoute(email, body, correct)
  \/ \E token \in Sessions \cup {NoToken} :
       \/ LogoutRoute(token) \/ Me(token)
       \/ \E body \in BodyKinds :
            \/ Apply(token, body) \/ Payout(token, body)
            \/ \E persona \in Personas : SubmitPersona(token, persona, body)
  \/ \E persona \in Personas : Use(persona)
  \/ Elapse

RouteSpec == RouteInit /\ [][RouteNext]_routeVars

-----------------------------------------------------------------------------
(* Properties. *)

\* A token that acts for its user: minted for it, not logged out, not past its end.
Acts(token, user) ==
  token \in Sessions \ left /\ minted[token].user = user /\ day < minted[token].ends

\* What a step does to the stores it does in the name of a live session: a profile is
\* made by its user, a persona is claimed by its creator and never changes hands, and
\* a request that is refused (400, 401, 403, 409, 500) leaves every store as it was.
OnlyOwnersChange ==
  [][/\ \A u \in profiles' \ profiles : replied'.user = u /\ Acts(replied'.token, u)
     /\ \A p \in Personas : creatorOf'[p] # creatorOf[p] =>
          creatorOf[p] = NoOwner /\ creatorOf'[p] = replied'.user /\ Acts(replied'.token, creatorOf'[p])
     /\ replied'.status >= 400 => UNCHANGED <<registered, minted, profiles, creatorOf, usages>>
    ]_routeVars

\* Every use of a persona since it was claimed is in the earnings of its one creator,
\* whoever else has signed up, logged out or tried to claim it since.
EarningsAreTheOwners ==
  \A p \in Personas : \A u \in Users :
    usages[p][u] = IF creatorOf[p] = u THEN uses[p] ELSE 0
=============================================================================
