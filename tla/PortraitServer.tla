---------------------------- MODULE PortraitServer ----------------------------
(***************************************************************************)
(* The Colab portrait server (colab/07_portrait_server.py): FastAPI runs a *)
(* synchronous handler in a thread of its pool, and every thread goes      *)
(* through get_pipeline, which evicts what is loaded and loads what it     *)
(* needs without a lock.  A step is one operation on the dictionary.       *)
(***************************************************************************)
EXTENDS Naturals, FiniteSets

CONSTANTS
  Threads,
  Styles, DefaultStyle,  \* MODEL_ROUTES
  Modelless,             \* styles whose route is empty
  Faces,                 \* persona ids requests name
  Trained,               \* those with a LoRA of their own
  NoFace,
  PreloadAll,            \* PRELOAD_ALL
  MaxRequests            \* bound: requests over all threads

ASSUME PortraitAssumption ==
  /\ DefaultStyle \in Styles /\ Modelless \subseteq Styles /\ Trained \subseteq Faces
  /\ NoFace \notin Faces /\ PreloadAll \in BOOLEAN

VARIABLES
  resident,   \* _loaded_pipelines: key -> the weights of the pipeline loaded
  thread,     \* what each thread is at, and for which style and persona
  status,     \* how each thread's last request ended, "runs" while it runs
  alone,      \* history: has no other request run beside this thread's?
  overlapped, \* history: have any two?
  asked       \* requests so far

portraitVars == <<resident, thread, status, alone, overlapped, asked>>

\* The answers 200, 401 and 503; and the two exceptions that no handler catches, which
\* FastAPI answers 500: of the dictionary, and of the library that loads and draws.
Endings == {"runs", "drawn", "unauthorized", "unavailable", "KeyError", "library raised"}

Wanted == Styles \cup {"unknown"}
Idle == [at |-> "idle", style |-> DefaultStyle, face |-> NoFace, evict |-> {}]
Loaded == DOMAIN resident

\* style = req.style if req.style in MODEL_ROUTES else DEFAULT_STYLE
Routed(style) == IF style \in Styles THEN style ELSE DefaultStyle
StyleKey(style, face) == <<style, NoFace>>   \* mutant of CacheKey: personas share their style's slot
CacheKey(style, face) == <<style, IF face \in Trained THEN face ELSE NoFace>>
\* The checkpoint and the LoRA that _load_one layers on it: the persona's, or the style's.
Weights(style, face) == [base |-> style, lora |-> IF face \in Trained THEN face ELSE style]

KeyOf(t) == CacheKey(thread[t].style, thread[t].face)
Busy == {t \in Threads : thread[t].at # "idle"}
With(key, weights) == [k \in Loaded \cup {key} |-> IF k = key THEN weights ELSE resident[k]]
Without(key) == [k \in Loaded \ {key} |-> resident[k]]

Reach(t, at) == thread' = [thread EXCEPT ![t].at = at]
End(t, result) ==
  /\ thread' = [thread EXCEPT ![t] = Idle]
  /\ status' = [status EXCEPT ![t] = result]
Keep == UNCHANGED <<alone, overlapped, asked>>

-----------------------------------------------------------------------------
\* generate, with the token it must carry.
Request(t, style, face, authorized) ==
  /\ thread[t].at = "idle" /\ asked < MaxRequests /\ asked' = asked + 1
  /\ IF authorized
     THEN /\ thread' = [thread EXCEPT ![t] =
               [at |-> "check", style |-> Routed(style), face |-> face, evict |-> {}]]
          /\ status' = [status EXCEPT ![t] = "runs"]
     ELSE End(t, "unauthorized")
  /\ alone' = [u \in Threads |-> IF u = t THEN Busy = {} ELSE alone[u] /\ u \notin Busy]
  /\ overlapped' = (overlapped \/ Busy # {})
  /\ UNCHANGED resident

\* if key in _loaded_pipelines; else a snapshot of what is to be evicted.
Check(t) ==
  /\ thread[t].at = "check"
  /\ IF KeyOf(t) \in Loaded THEN Reach(t, "read")
     ELSE thread' = [thread EXCEPT ![t].at = IF PreloadAll THEN "load" ELSE "evict",
                                   ![t].evict = IF PreloadAll THEN {} ELSE Loaded]
  /\ UNCHANGED <<resident, status>> /\ Keep

\* del _loaded_pipelines[old_key], for each of the snapshot: a KeyError when another
\* thread has deleted it since.
Evict(t) ==
  /\ thread[t].at = "evict"
  /\ \/ /\ thread[t].evict = {} /\ Reach(t, "load")
        /\ UNCHANGED <<resident, status>>
     \/ \E old \in thread[t].evict :
          \/ /\ old \in Loaded /\ resident' = Without(old)
             /\ thread' = [thread EXCEPT ![t].evict = @ \ {old}]
             /\ UNCHANGED status
          \/ old \notin Loaded /\ End(t, "KeyError") /\ UNCHANGED resident
  /\ Keep

\* _load_one: a RuntimeError for a style without a model; else the dictionary gets
\* the pipeline, or the library raises, after everything was evicted.  generate
\* turns a RuntimeError of either into a 503 (an out of memory of the device is one)
\* and nothing else (a checkpoint or a LoRA that is not found is an OSError).
Load(t) ==
  /\ thread[t].at = "load"
  /\ \/ End(t, "unavailable") /\ UNCHANGED resident
     \/ /\ thread[t].style \notin Modelless
        /\ \/ End(t, "library raised") /\ UNCHANGED resident
           \/ /\ resident' = With(KeyOf(t), Weights(thread[t].style, thread[t].face))
              /\ Reach(t, "read") /\ UNCHANGED status
  /\ Keep

\* return _loaded_pipelines[key], and the picture is drawn with it, outside any try.
Read(t) ==
  /\ thread[t].at = "read"
  /\ \E how \in {"drawn", "library raised"} : End(t, IF KeyOf(t) \in Loaded THEN how ELSE "KeyError")
  /\ UNCHANGED resident /\ Keep

PortraitInit ==
  /\ resident = [k \in {} |-> {}]
  /\ thread = [t \in Threads |-> Idle] /\ status = [t \in Threads |-> "runs"]
  /\ alone = [t \in Threads |-> TRUE] /\ overlapped = FALSE /\ asked = 0
PortraitNext ==
  \E t \in Threads :
    \/ \E style \in Wanted, face \in Faces \cup {NoFace}, authorized \in BOOLEAN :
         Request(t, style, face, authorized)
    \/ Check(t) \/ Evict(t) \/ Load(t) \/ Read(t)

-----------------------------------------------------------------------------
(* Properties. *)

\* 07_portrait_server.py, header and _cache_key: a character "generates with a
\* consistent trained likeness".  Whatever threads evict and load around it, a pipeline
\* that stands in the dictionary has the weights every request of its key needs, so no
\* picture is drawn with another's likeness; a request beside which no other ran fails
\* on what the library raises and never on the dictionary, even where an earlier load
\* failed after the eviction; and while requests have not overlapped one pipeline is
\* resident.
LikenessIsOwn ==
  /\ \A t \in Threads : thread[t].at # "idle" /\ KeyOf(t) \in Loaded =>
       resident[KeyOf(t)] = Weights(thread[t].style, thread[t].face)
  /\ \A t \in Threads : status[t] = "KeyError" => ~alone[t]
  /\ ~overlapped /\ ~PreloadAll => Cardinality(Loaded) <= 1
=============================================================================
