-------------------------------- MODULE Tenancy --------------------------------
(***************************************************************************)
(* Which model answers a tenant, at whose endpoint and on whose bill       *)
(* (tenancy/tenant.ts, catalog.ts, router.ts).  The router keeps nothing   *)
(* but its catalog and its environment, so nothing is left of a call for   *)
(* the next one, and a behaviour is one call: of a tenant, with the plan   *)
(* and keys it has by then, that asks for what it may ask for.             *)
(***************************************************************************)
EXTENDS Integers, Sequences

CONSTANTS
  Catalog,        \* config/models.json: a sequence of [id, params, hosting, byok]
  DefaultModel,   \* defaultModelId, or the first entry's id
  AskedSizes,     \* paramCount of a request
  OwnCaps,        \* a tenant's maxActiveParams; Uncapped for none
  Uncapped,       \* null: above every parameter count
  Unnamed         \* an id that is absent

TenancyModels == {Catalog[i].id : i \in DOMAIN Catalog}
\* normalizeEntry, and the constructor's checks; that no id is there twice is not
\* checked, but true of config/models.json.
ASSUME CatalogAssumption ==
  /\ DOMAIN Catalog \subseteq Nat /\ Catalog # <<>>
  /\ DefaultModel \in TenancyModels /\ Unnamed \notin TenancyModels
  /\ \A i \in DOMAIN Catalog : Catalog[i].params \in 1..Uncapped
  /\ \A i, j \in DOMAIN Catalog : Catalog[i].id = Catalog[j].id => i = j
  /\ AskedSizes \cup OwnCaps \cup {Uncapped} \subseteq Nat

VARIABLES
  tenant,     \* the tenant that calls: plan, keys, preferred model and own cap
  configured, \* the hostings whose base URL the environment sets
  asking,    \* what it asked for
  route       \* and what it was answered

tenancyVars == <<tenant, configured, asking, route>>

Hostings == {"local", "hostinger", "cloud"}
PlanPolicies ==
  [FREE |-> [hostings |-> {"local"}, cap |-> 7],
   STARTER |-> [hostings |-> {"local", "hostinger"}, cap |-> 8],
   PRO |-> [hostings |-> Hostings, cap |-> 70],
   ENTERPRISE |-> [hostings |-> Hostings, cap |-> Uncapped],
   BYOK |-> [hostings |-> Hostings, cap |-> Uncapped]]
Plans == DOMAIN PlanPolicies

\* A tenant's keys: none or unusable, usable, or usable and naming a model.
KeyKinds == {"none", "usable", "naming"}
TenantOf(plan, keys, preferred, cap) ==
  [plan |-> plan, keys |-> keys, preferred |-> preferred, cap |-> cap]
Asking(id, params) == [id |-> id, params |-> params]
NoSize == 0

-----------------------------------------------------------------------------
(* Entitlements. *)

OnByok(who) == who.plan = "BYOK" /\ who.keys # "none"
LoosestCap(who) == PlanPolicies[who.plan].cap   \* mutant of ParamCap: the tenant's own cap is not read
ParamCap(who) ==
  IF who.cap < PlanPolicies[who.plan].cap THEN who.cap ELSE PlanPolicies[who.plan].cap
Entitled(who, model) ==
  /\ model.params <= ParamCap(who)
  /\ IF OnByok(who) THEN model.byok ELSE model.hosting \in PlanPolicies[who.plan].hostings
AllowedFor(who) == {i \in DOMAIN Catalog : Entitled(who, Catalog[i])}

-----------------------------------------------------------------------------
(* ModelCatalog.resolve. *)

Distance(x, y) == IF x < y THEN y - x ELSE x - y

\* What a reduce that replaces its best by a better one only is left with.
NearestByParams(allowed, target) ==
  CHOOSE i \in allowed : \A j \in allowed :
    LET x == Distance(Catalog[i].params, target)
        y == Distance(Catalog[j].params, target)
    IN  \/ x < y
        \/ x = y /\ Catalog[i].params < Catalog[j].params
        \/ x = y /\ Catalog[i].params = Catalog[j].params /\ i <= j
Largest(allowed) ==
  CHOOSE i \in allowed : \A j \in allowed :
    \/ Catalog[i].params > Catalog[j].params
    \/ Catalog[i].params = Catalog[j].params /\ i <= j

Named(allowed, id) == {i \in allowed : Catalog[i].id = id}
FirstOf(places) == CHOOSE i \in places : \A j \in places : i <= j
NoModel == [id |-> Unnamed, params |-> 0, hosting |-> "none", byok |-> FALSE]

Resolve(who, asked) ==
  LET allowed == AllowedFor(who)
      byId == Named(allowed, asked.id)
      preferred == Named(allowed, who.preferred)
      fallback == Named(allowed, DefaultModel)
  IN  CASE allowed = {} -> NoModel
        [] allowed # {} /\ asked.id # Unnamed ->
             IF byId = {} THEN NoModel ELSE Catalog[FirstOf(byId)]
        [] allowed # {} /\ asked.id = Unnamed /\ asked.params # NoSize ->
             Catalog[NearestByParams(allowed, asked.params)]
        [] OTHER -> Catalog[IF preferred # {} THEN FirstOf(preferred)
                            ELSE IF fallback # {} THEN FirstOf(fallback) ELSE Largest(allowed)]

-----------------------------------------------------------------------------
(* ProviderRouter. *)

RouteTo(path, model, serves, billed) ==
  [path |-> path, model |-> model, serves |-> serves, billed |-> billed]
ResolutionError == RouteTo("error", NoModel, Unnamed, "nobody")

ByokRoute(who, model) ==   \* a key may name the model that its endpoint serves
  RouteTo("byok", model, IF who.keys = "naming" THEN "theirs" ELSE model.id, "tenant")
StubRoute(model) == RouteTo("stub", model, model.id, "platform")
HostedRoute(model, path) ==
  IF model.hosting \in configured THEN RouteTo(path, model, model.id, "platform")
  ELSE StubRoute(model)

Routing(who, asked) ==
  LET model == Resolve(who, asked)
  IN  CASE model = NoModel -> ResolutionError
        [] model # NoModel /\ OnByok(who) -> ByokRoute(who, model)
        [] OTHER -> HostedRoute(model, IF model.hosting = "local" THEN "local" ELSE "subscription")

Unasked == RouteTo("unasked", NoModel, Unnamed, "nobody")
Route(who, asked) ==
  /\ route = Unasked
  /\ tenant' = who /\ asking' = asked /\ route' = Routing(who, asked)
  /\ UNCHANGED configured

ModelRequests == {Asking(id, NoSize) : id \in TenancyModels \cup {"unheard", Unnamed}}
            \cup {Asking(Unnamed, size) : size \in AskedSizes}
TenantRecords == {TenantOf(plan, keys, preferred, cap) :
              plan \in Plans, keys \in KeyKinds, preferred \in {Unnamed, Catalog[1].id},
              cap \in OwnCaps}

TenancyInit ==
  /\ configured \in SUBSET Hostings
  /\ tenant = TenantOf("FREE", "none", Unnamed, Uncapped)
  /\ asking = Asking(Unnamed, NoSize) /\ route = Unasked
TenancyNext == \E who \in TenantRecords, asked \in ModelRequests : Route(who, asked)

-----------------------------------------------------------------------------
(* Properties. *)

Wider == {<<"FREE", "STARTER">>, <<"STARTER", "PRO">>, <<"PRO", "ENTERPRISE">>}

\* tenant.ts, PLAN_POLICIES and effectiveParamCap, of what is decided from them three
\* files away: what a tenant is answered, whatever it asks for.  The model is
\* within the tighter of the two caps, and on the platform's bill in a hosting of the
\* plan; the tenant pays for exactly what runs at its own endpoint; a size is answered
\* by no model farther from it than another that is allowed, nor larger at one distance.
\* Nothing but a tenant with no model at all, or an id it may not have, is refused: a
\* hosting that is not configured is the stub's.  And whatever id a plan may have, the
\* next plan up may.
RouteIsEntitled ==
  LET model == route.model
      may == {i \in DOMAIN Catalog : Entitled(tenant, Catalog[i])}
      named == asking.id # Unnamed
  IN  route # Unasked =>
      /\ route.path # "error" =>
           /\ model.params <= tenant.cap /\ model.params <= PlanPolicies[tenant.plan].cap
           /\ route.billed = "platform" => model.hosting \in PlanPolicies[tenant.plan].hostings
           /\ route.billed = "tenant" <=> (tenant.plan = "BYOK" /\ tenant.keys # "none")
           /\ route.billed = "tenant" => route.path = "byok"
           /\ route.path = "stub" => model.hosting \notin configured
           /\ ~named /\ asking.params # NoSize => \A i \in may :
                LET near == Distance(model.params, asking.params)
                    other == Distance(Catalog[i].params, asking.params)
                IN  \/ near < other
                    \/ near = other /\ model.params <= Catalog[i].params
      /\ route.path = "error" => may = {} \/ named
      /\ \A step \in Wider : tenant.plan = step[1] /\ named /\ route.path # "error"
           => Routing([tenant EXCEPT !.plan = step[2]], asking).model = model
=============================================================================
