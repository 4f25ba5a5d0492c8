-------------------------------- MODULE Vetting --------------------------------
(***************************************************************************)
(* What VISION lets in: the marketplace's signed tools                     *)
(* (marketplace/registry.ts, verify.ts) and the tasks of workflow nodes    *)
(* (workflow/knoll_guard.ts, vision_bridge.ts), each behind its gates.  A  *)
(* registration and a task are one step each: neither awaits anything.     *)
(***************************************************************************)
EXTENDS Naturals, Sequences, SequencesExt, FiniteSets

CONSTANTS
  ToolNames, Versions,
  Secrets,       \* keyIds that hmacSecretFor knows
  MaxTools,      \* bound: registrations
  MaxTasks       \* bound: tasks

VARIABLES
  tools,      \* the registry's Map: its listings, in the order of their keys
  accepted,   \* history: every registration that was not refused
  ran,        \* history: what the execution engine was given
  result,     \* of the last task
  tasks

vettingVars == <<tools, accepted, ran, result, tasks>>

-----------------------------------------------------------------------------
(* Manifests and signatures.  A capability is a leaf's, one in other letters *)
(* or spaces, a forbidden one, one that contains a forbidden one, or neither. *)

Capabilities == {"leaf", "spelled", "forbidden", "contains", "unheard"}
Manifest(name, version, capability, sound) ==
  [name |-> name, version |-> version, capability |-> capability, sound |-> sound]

\* A signature: its scheme, whose key it says it is, whether that key comes with it,
\* the manifest that was signed, and whether by that key.
Signature(algorithm, keyId, carries, signed, genuine) ==
  [algorithm |-> algorithm, keyId |-> keyId, carries |-> carries, signed |-> signed,
   genuine |-> genuine]

VerifyManifest(manifest, s) ==
  /\ s.signed = manifest /\ s.genuine
  /\ \/ s.algorithm = "ed25519" /\ s.carries
     \/ s.algorithm = "hmac" /\ s.keyId \in Secrets

AssertNoEscalation(manifest) ==
  CASE manifest.capability \in {"forbidden", "contains"} -> "escalation"
    [] manifest.capability = "unheard" -> "unknown_capability"
    [] OTHER -> "none"
Unvetted(manifest, s) ==   \* mutant of Gates: the signature is not verified
  IF ~manifest.sound THEN "malformed" ELSE AssertNoEscalation(manifest)
Gates(manifest, s) ==
  CASE ~manifest.sound -> "malformed"
    [] manifest.sound /\ AssertNoEscalation(manifest) # "none" -> AssertNoEscalation(manifest)
    [] OTHER -> IF VerifyManifest(manifest, s) THEN "none" ELSE "bad_signature"

-----------------------------------------------------------------------------
(* ToolMarketplaceRegistry. *)

SameKey(x, y) == x.name = y.name /\ x.version = y.version
Listing(manifest, s) ==
  [name |-> manifest.name, version |-> manifest.version, capability |-> manifest.capability,
   manifest |-> manifest, signature |-> s]

\* Map.set: a key registered again keeps its place.
Listed(seq, listing) ==
  IF \E i \in DOMAIN seq : SameKey(seq[i], listing)
  THEN [i \in DOMAIN seq |-> IF SameKey(seq[i], listing) THEN listing ELSE seq[i]]
  ELSE Append(seq, listing)

Register(manifest, s) ==
  /\ Len(accepted) < MaxTools
  /\ IF Gates(manifest, s) = "none"
     THEN /\ tools' = Listed(tools, Listing(manifest, s))
          /\ accepted' = Append(accepted, Listing(manifest, s))
     ELSE UNCHANGED <<tools, accepted>>
  /\ UNCHANGED <<ran, result, tasks>>

\* get: undefined, or the listing; of a name alone, the last one of the Map.
LookUp(name, version) == {t \in Range(tools) : t.name = name /\ t.version = version}
LatestOf(name) ==
  LET places == {i \in DOMAIN tools : tools[i].name = name}
  IN  {tools[i] : i \in {j \in places : \A k \in places : k <= j}}

-----------------------------------------------------------------------------
(* WorkflowGuard and runVisionTask.  What a string of the payload holds. *)

Contents == {"plain", "privateUrl", "huge"}
Keys == {"plain", "secret", "tool"}   \* a key of params: "tool" is the one runVisionTask uses
Params(key, holds) == [key |-> key, holds |-> holds]

\* The payload that the guard reads: intent, tool, params, userId, and no node and no tenant.
Violations(intent, params) ==
  (IF "huge" \in {intent, params.holds} THEN {"size"} ELSE {})
  \cup (IF params.key = "secret" THEN {"forbidden"} ELSE {})
  \cup (IF "privateUrl" \in {intent, params.holds} THEN {"ssrf"} ELSE {})

\* What the engine is called with: { tool: input.tool ?? 'bash', ...params }.
ToolRun(tool, params) == IF params.key = "tool" THEN params.holds ELSE tool

TaskResult(ok, billed) == [ok |-> ok, billed |-> billed]
RunVisionTask(intent, tool, params) ==
  /\ tasks < MaxTasks /\ tasks' = tasks + 1
  /\ \/ /\ Violations(intent, params) # {}
        /\ result' = TaskResult(FALSE, FALSE) /\ UNCHANGED ran
     \/ /\ Violations(intent, params) = {}
        /\ ran' = ran \cup {[intent |-> intent, params |-> params, tool |-> ToolRun(tool, params)]}
        /\ \E exits \in {"zero", "other", "throws"} : result' = TaskResult(exits = "zero", TRUE)
  /\ UNCHANGED <<tools, accepted>>

Manifests == {Manifest(name, version, capability, TRUE) :
                name \in ToolNames, version \in Versions, capability \in Capabilities}
             \cup {Manifest(name, version, "leaf", FALSE) : name \in ToolNames, version \in Versions}
\* Signed as it stands, by whichever scheme and key; or changed after it was signed.
SignaturesOf(manifest) ==
  LET signed == {manifest, [manifest EXCEPT !.capability = "altered"]}
  IN  {Signature("ed25519", "anybody", carries, m, genuine) :
         carries \in BOOLEAN, m \in signed, genuine \in BOOLEAN}
      \cup {Signature("hmac", keyId, FALSE, m, genuine) :
         keyId \in Secrets \cup {"stranger"}, m \in signed, genuine \in BOOLEAN}
      \cup {Signature("other", "anybody", TRUE, manifest, TRUE)}

VettingInit ==
  /\ tools = <<>> /\ accepted = <<>>
  /\ ran = {} /\ result = TaskResult(FALSE, FALSE) /\ tasks = 0
VettingNext ==
  \/ \E manifest \in Manifests : \E s \in SignaturesOf(manifest) : Register(manifest, s)
  \/ \E intent \in Contents, tool \in {"bash", "python"}, key \in Keys, holds \in Contents :
       RunVisionTask(intent, tool, Params(key, holds))

-----------------------------------------------------------------------------
(* Properties. *)

\* The place in accepted where a listing's key was first taken, and last.
Takes(listing) == {i \in DOMAIN accepted : SameKey(accepted[i], listing)}

\* marketplace/types.ts: a tool is "a LEAF capability" and listed only when verified;
\* register: "nothing is stored unless every gate passes".  However registrations are
\* ordered, repeated and refused, what VISION lists is each key's last accepted manifest,
\* exactly the one its signature covers, with nothing but leaf capabilities; and get of
\* a name alone is the last of its versions to have been new.
ListedIsVetted ==
  /\ \A i \in DOMAIN tools :
       /\ VerifyManifest(tools[i].manifest, tools[i].signature)
       /\ tools[i].capability \in {"leaf", "spelled"}
       /\ \E j \in Takes(tools[i]) : accepted[j] = tools[i] /\ \A k \in Takes(tools[i]) : k <= j
       /\ LookUp(tools[i].name, tools[i].version) = {tools[i]}
  /\ \A j \in DOMAIN accepted : LookUp(accepted[j].name, accepted[j].version) # {}
  /\ \A name \in ToolNames : \A found \in LatestOf(name), other \in Range(tools) :
       other.name = name /\ ~SameKey(other, found) =>
         \E j \in Takes(other) : \A k \in Takes(found) : j < k

\* vision_bridge.ts: "KNOLL validates the payload first (forbidden keys, SSRF, size)".
\* Nothing of a task that the guard would refuse ever ran, the tool that a parameter
\* names instead of the task's own included, and a task that did not run is no success.
TasksAreGuarded ==
  /\ \A task \in ran : Violations(task.intent, task.params) = {} /\ task.tool # "privateUrl"
  /\ result.ok => ran # {} /\ result.billed

VisionTakesVetted == ListedIsVetted /\ TasksAreGuarded
=============================================================================
