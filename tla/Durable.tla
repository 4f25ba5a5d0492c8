-------------------------------- MODULE Durable --------------------------------
(***************************************************************************)
(* What has to outlive a crash, and the Colab workers, together: the two   *)
(* node-slice leases, the durable store over the gateway's lives, the ten  *)
(* repositories it is made of, the kafkajs task queue, the batch that      *)
(* pre-generates portraits and the server that draws them.  They share no  *)
(* state, so one behaviour moves one of them: together that is every       *)
(* behaviour of each, without the product of them all.                     *)
(***************************************************************************)
EXTENDS NodeLease, RedisLease, WriteThrough, Projections, KafkaReal, Pregenerate,
        PortraitServer

VARIABLE part   \* the part that this behaviour moves

PartsInit ==
  /\ Init /\ RedisInit /\ StoreInit /\ KafkaInit /\ BatchInit
  /\ ProjectionInit /\ PortraitInit
  /\ part \in {"memory", "redis", "store", "rows", "kafka", "batch", "portrait"}
  /\ part # "redis" => network = "late"
  /\ part # "rows" => kind = "session"

PartsNext ==
  /\ UNCHANGED part
  /\ \/ part = "memory" /\ Next
     \/ part # "memory" /\ UNCHANGED vars
  /\ \/ part = "redis" /\ RedisNext
     \/ part # "redis" /\ UNCHANGED redisVars
  /\ \/ part = "store" /\ StoreNext
     \/ part # "store" /\ UNCHANGED storeVars
  /\ \/ part = "rows" /\ ProjectionNext
     \/ part # "rows" /\ UNCHANGED projectionVars
  /\ \/ part = "kafka" /\ KafkaNext
     \/ part # "kafka" /\ UNCHANGED kafkaVars
  /\ \/ part = "batch" /\ BatchNext
     \/ part # "batch" /\ UNCHANGED batchVars
  /\ \/ part = "portrait" /\ PortraitNext
     \/ part # "portrait" /\ UNCHANGED portraitVars

\* The fairness of each part, for the behaviours that move it.
PartsSpec ==
  /\ PartsInit
  /\ [][PartsNext]_<<part, vars, redisVars, storeVars, projectionVars, kafkaVars, batchVars,
                     portraitVars>>
  /\ WF_vars(part = "memory" /\ Tick)
  /\ WF_redisVars(part = "redis" /\ RedisTick)
  /\ \A w \in RedisWorkers : WF_redisVars(part = "redis" /\ w \notin redisCrashed /\ Command(w))
  /\ WF_storeVars(part = "store" /\ RunWrite)
  /\ WF_storeVars(part = "store" /\ (FlushReturns \/ ExitClean \/ FlushThrows))

\* "A crashed worker's slice is re-claimable without a human in the loop": the
\* in-memory lease ends by itself, and Redis's own PX TTL reclaims the slice of a
\* holder that died between any two commands.
CrashedSlicesFreed ==
  /\ part = "memory" => CrashedSliceFreed
  /\ part = "redis" => RedisSliceFreed

\* A task is not forgotten by the bus, but as NothingForgotten says, nor a picture
\* by the batch that draws it.
NothingIsLeftUndone == NothingForgotten /\ WorkIsKept
=============================================================================
