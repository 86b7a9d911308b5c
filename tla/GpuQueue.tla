------------------------------ MODULE GpuQueue ------------------------------
(***************************************************************************)
(* The GPU operation queue of the Godot extension                          *)
(* (bridge/godot_extension/src/aether_runtime_player.cpp).  Runtimes draw  *)
(* through Bridge* callbacks on any thread; each callback becomes an       *)
(* operation in one queue which Godot's render thread drains.  A producer  *)
(* may hold the queue shut with a batch, a synchronous call waits for its  *)
(* operation with a timeout, compute operations are held back to share one *)
(* command list, and released surfaces go to a pool for reuse.             *)
(*                                                                         *)
(* Pixels, rectangles and blend modes are left out: an operation is the    *)
(* set of surfaces it samples and the one it writes.  A texture id is      *)
(* identified with the surface (RID) its record points at.  Each section   *)
(* under g_gpu_op_queue_mutex is one step, with the callback it posts.     *)
(***************************************************************************)
EXTENDS Naturals, Sequences, FiniteSets

CONSTANTS
  Callers,    \* threads that call the bridge
  Main,       \* the caller that is on the render thread when build.inline
  Nobody,     \* no caller, and the render thread's own submissions
  TextureRids, \* surfaces the driver can hand out
  NoRid,      \* the invalid RID
  Work,       \* bound: the kinds of operation each caller submits
  MaxOps,     \* bound: operations submitted before the teardown
  MaxBatches, \* bound: batches opened
  PoolLimit   \* surfaces the pool holds: 64 MiB or 64 entries on Apple, else 0

Kinds == {"draw", "plain", "region", "read", "readAsync", "import", "release", "flush"}

ASSUME GpuQueueAssumption ==
  /\ Main \in Callers /\ Nobody \notin Callers
  /\ NoRid \notin TextureRids
  /\ Work \in [Callers -> SUBSET Kinds]
  /\ MaxOps \in Nat /\ MaxBatches \in Nat /\ PoolLimit \in Nat

VARIABLES
  build,      \* inline: Main is the render thread; deferred draining
  queue,      \* g_gpu_op_queue
  lastSeq,    \* g_last_gpu_op_sequence
  scheduled,  \* g_gpu_op_drain_scheduled
  batch,      \* g_gpu_batch_token, depth and owner
  nextToken,  \* g_next_gpu_batch_token
  callbacks,  \* what call_on_render_thread has posted, in order
  drain,      \* the drain running on the render thread
  waiting,    \* per caller: the synchronous call it is in
  surface,    \* per RID: none, live, imported, doomed, staging, pooled, remaining
  owner,      \* per RID: the caller that holds its texture id
  poolOpen,   \* g_gpu_texture_pool_enabled
  split,      \* history: greatest operation waited for inside the open batch
  phase,      \* the teardown: run, flushing, flushed, releasing, closed
  answered    \* history: no synchronous call of the teardown timed out

queueVars == <<build, queue, lastSeq, scheduled, batch, nextToken, callbacks, drain,
          waiting, surface, owner, poolOpen, split, phase, answered>>

----------------------------------------------------------------------------
(* Operations. *)

Surfaces(op) == ({op.dst} \cup op.src) \ {NoRid}

\* IsBatchableBlendOp, IsBatchableTriangleOp: a draw that does not sample its target.
IsBatchable(op) == op.kind = "draw"

Elems(s) == {s[i] : i \in DOMAIN s}

\* Submitted and not yet encoded.
Pending == Elems(queue) \cup Elems(drain.held) \cup Elems(drain.cur)

\* Two operations whose order matters: one writes what the other touches.
Conflict(p, o) ==
  \/ p.dst # NoRid /\ p.dst \in Surfaces(o)
  \/ o.dst # NoRid /\ o.dst \in Surfaces(p)

NoBatch == [token |-> 0, depth |-> 0, owner |-> Nobody]
NoDrain == [at |-> "off", force |-> FALSE, cutoff |-> 0, held |-> <<>>, cur |-> <<>>]
NoCall == [seq |-> 0, kind |-> "none", state |-> "none"]

OnRenderThread(c) == build.inline /\ c = Main

Pooled == {r \in TextureRids : surface[r] = "pooled"}

QueueInit ==
  /\ build \in [inline : BOOLEAN, deferred : BOOLEAN]
  /\ queue = <<>> /\ lastSeq = 0 /\ scheduled = FALSE
  /\ batch = NoBatch /\ nextToken = 1
  /\ callbacks = <<>> /\ drain = NoDrain
  /\ waiting = [c \in Callers |-> NoCall]
  /\ surface = [r \in TextureRids |-> "none"]
  /\ owner = [r \in TextureRids |-> Nobody]
  /\ poolOpen = TRUE
  /\ split = 0
  /\ phase = "run" /\ answered = TRUE

\* A caller that can start a call: not inside one, and, when it is the render
\* thread, not inside a drain.
Idle(c) ==
  /\ waiting[c] = NoCall
  /\ OnRenderThread(c) => drain = NoDrain

----------------------------------------------------------------------------
(* Surfaces and their pool. *)

\* RetireGpuTextureToPool accepts the surface (no external backing, room left).
Poolable == poolOpen /\ Cardinality(Pooled) < PoolLimit

Released(r, keep) ==
  [surface EXCEPT ![r] = IF keep /\ Poolable THEN "pooled" ELSE "none"]

\* TakeGpuTextureFromPool, else RenderingDevice::texture_create.
Obtainable == IF Pooled # {} /\ poolOpen THEN Pooled
              ELSE {r \in TextureRids : surface[r] = "none"}

----------------------------------------------------------------------------
(* RunGodotGpuOp. *)

\* lastSeq stands for the sequence an operation gets when it is queued; one
\* that runs at once takes a number too, which keeps the order of the calls.  wait
\* tells RunGodotGpuOpSync, for reads, imports and flushes, from RunGodotGpuOpAsync.
NewOp(c, kind, dst, src, keep, wait) ==
  [seq |-> lastSeq + 1, kind |-> kind, dst |-> dst, src |-> src, by |-> c,
   wait |-> wait, token |-> batch.token, gate |-> batch.owner, keep |-> keep]

Enqueue_Mutant(op) ==
  /\ queue' = IF op.wait THEN <<op>> \o queue ELSE Append(queue, op)
  /\ lastSeq' = op.seq
  /\ split' = IF op.wait /\ batch.token # 0 THEN op.seq ELSE split

Enqueue(op) ==
  /\ queue' = Append(queue, op)
  /\ lastSeq' = op.seq
  /\ split' = IF op.wait /\ batch.token # 0 THEN op.seq ELSE split

Calling(op, state) ==
  IF op.wait
  THEN [waiting EXCEPT ![op.by] = [seq |-> op.seq, kind |-> op.kind, state |-> state]]
  ELSE waiting

\* From another thread: enqueue, and post a forced drain for a wait behind
\* the gate, or a drain unless one is already scheduled.
SubmitOffThread(op) ==
  /\ ~OnRenderThread(op.by)
  /\ Enqueue(op)
  /\ waiting' = Calling(op, "wait")
  /\ \/ /\ batch.token # 0 /\ op.wait
        /\ callbacks' = Append(callbacks, [force |-> TRUE, cutoff |-> op.seq])
        /\ UNCHANGED scheduled
     \/ /\ batch.token = 0 /\ ~scheduled
        /\ scheduled' = TRUE
        /\ callbacks' = Append(callbacks, [force |-> FALSE, cutoff |-> 0])
     \/ /\ IF batch.token # 0 THEN ~op.wait ELSE scheduled
        /\ UNCHANGED <<scheduled, callbacks>>
  /\ UNCHANGED drain

ForcedDrain(cutoff) == [NoDrain EXCEPT !.at = "loop", !.force = TRUE, !.cutoff = cutoff]
NormalDrain == [NoDrain EXCEPT !.at = "loop"]

\* The render thread runs an operation at once, ahead of whatever is queued,
\* unless a batch is open, draining is deferred, or it is an asynchronous read.
AtOnce(kind) == batch.token = 0 /\ ~build.deferred /\ kind # "readAsync"

\* From the render thread, when the operation is queued: inside a batch a
\* wait forces a drain up to the operation; otherwise a wait, a flush and an
\* asynchronous read drain the queue, and anything else is left in it.
SubmitInline(op) ==
  /\ OnRenderThread(op.by) /\ ~AtOnce(op.kind)
  /\ Enqueue(op)
  /\ waiting' = Calling(op, "wait")
  /\ drain' = IF batch.token # 0
              THEN IF op.wait THEN ForcedDrain(op.seq) ELSE drain
              ELSE IF op.wait \/ op.kind = "readAsync" THEN NormalDrain ELSE drain
  /\ UNCHANGED <<scheduled, callbacks>>

SubmitAtOnce(op) ==
  /\ OnRenderThread(op.by) /\ AtOnce(op.kind)
  /\ lastSeq' = op.seq
  /\ waiting' = Calling(op, "ok")
  /\ UNCHANGED <<queue, split, scheduled, callbacks, drain>>

Submit(op) == SubmitOffThread(op) \/ SubmitInline(op) \/ SubmitAtOnce(op)

Immediate(op) == OnRenderThread(op.by) /\ AtOnce(op.kind)

Busy(c, kind) == phase = "run" /\ lastSeq < MaxOps /\ Idle(c) /\ kind \in Work[c]

----------------------------------------------------------------------------
(* The bridge's operations.  A caller names only textures it owns: a layer  *)
(* belongs to the thread that runs its engine.                              *)

Mine(c, r) == owner[r] = c /\ surface[r] \in {"live", "imported"}

\* BridgeCreateRgba fills the surface itself, outside the queue.
Create(c, r) ==
  /\ phase = "run" /\ Idle(c)
  /\ r \in Obtainable
  /\ surface' = [surface EXCEPT ![r] = "live"]
  /\ owner' = [owner EXCEPT ![r] = c]
  /\ UNCHANGED <<build, queue, lastSeq, scheduled, batch, nextToken, callbacks,
                 drain, waiting, poolOpen, split, phase, answered>>

\* The target and the sources are resolved by the caller, then the operation
\* is submitted and not waited for.
Paint(c, kind, d, srcs) ==
  /\ \A r \in srcs \cup {d} : Mine(c, r)
  /\ Busy(c, kind)
  /\ Submit(NewOp(c, kind, d, srcs, TRUE, FALSE))
  /\ UNCHANGED <<build, batch, nextToken, surface, owner, poolOpen, phase, answered>>

\* One that samples its own target is not batched.
Sampling(d, srcs) == IF d \in srcs THEN "plain" ELSE "draw"

\* BridgeBlendRect, BridgeBlendRect2 and BridgeBlendRect3; two sources show what
\* three would.
BridgeBlendRect(c, d, s, t) == Paint(c, Sampling(d, {s, t}), d, {s, t})

\* BridgeCopyTriangles and BridgeDrawTriangles.
BridgeDrawTriangles(c, d, s) == Paint(c, Sampling(d, {s}), d, {s})

BridgeDrawMaskedTriangles(c, d, s, mask) == Paint(c, Sampling(d, {s, mask}), d, {s, mask})

\* The last resort of BridgeClearRgba is a fill, which samples nothing.
BridgeClearRgba(c, d) == Paint(c, "draw", d, {})

BridgeCopyRect(c, d, s) == Paint(c, "plain", d, {s})

BridgeMosaicRects(c, d) == Paint(c, "plain", d, {})

\* BridgeUpdateRgba of a whole surface that is not replaced by a fresh one.
UpdateWhole(c, d) == Paint(c, "plain", d, {})

\* BridgeUpdateRgba of a part of a surface.  Run at once, the staging surface
\* is obtained and released within the call (ExecuteGodotGpuRegionUpload).
UpdateRegion(c, d) ==
  /\ Busy(c, "region") /\ Mine(c, d) /\ surface[d] = "live"
  /\ LET op == NewOp(c, "region", d, {}, TRUE, FALSE) IN
     /\ Submit(op)
     /\ IF Immediate(op) /\ Obtainable # {}
        THEN \E s \in Obtainable : surface' = Released(s, TRUE)
        ELSE UNCHANGED surface
  /\ UNCHANGED <<build, batch, nextToken, owner, poolOpen, phase, answered>>

\* On the render thread a texture may get a fresh surface, and its old one is
\* released.
Replace(c, old, new, keep) ==
  /\ Busy(c, "release") /\ OnRenderThread(c) /\ Mine(c, old) /\ surface[old] = "live"
  /\ LET op == NewOp(c, "release", old, {}, keep, FALSE) IN
     /\ Submit(op)
     /\ surface' = [IF Immediate(op) THEN Released(old, keep)
                    ELSE [surface EXCEPT ![old] = "doomed"] EXCEPT ![new] = "live"]
  /\ owner' = [owner EXCEPT ![old] = Nobody, ![new] = c]
  /\ UNCHANGED <<build, batch, nextToken, poolOpen, phase, answered>>

\* BridgeUpdateRgba of a large surface takes the fresh one from the pool, and
\* offers the old one to it; BridgeClearRgba does neither.
UpdateVersioned(c, old, new) == new \in Obtainable /\ Replace(c, old, new, TRUE)

ClearVersioned(c, old, new) == surface[new] = "none" /\ Replace(c, old, new, FALSE)

BridgeReleaseTexture_Mutant(c, r) ==
  /\ Busy(c, "release") /\ Mine(c, r)
  /\ Submit(NewOp(c, "release", r, {}, surface[r] = "live", FALSE))
  /\ surface' = Released(r, surface[r] = "live")
  /\ owner' = [owner EXCEPT ![r] = Nobody]
  /\ UNCHANGED <<build, batch, nextToken, poolOpen, phase, answered>>

\* BridgeReleaseTexture: the record goes now, the surface in queue order.
BridgeReleaseTexture(c, r) ==
  /\ Busy(c, "release") /\ Mine(c, r)
  /\ LET op == NewOp(c, "release", r, {}, surface[r] = "live", FALSE) IN
     /\ Submit(op)
     /\ surface' = IF Immediate(op) THEN Released(r, op.keep)
                   ELSE [surface EXCEPT ![r] = "doomed"]
  /\ owner' = [owner EXCEPT ![r] = Nobody]
  /\ UNCHANGED <<build, batch, nextToken, poolOpen, phase, answered>>

\* BridgeImport*: the texture is registered when the operation runs.
Import(c) ==
  /\ Busy(c, "import")
  /\ LET op == NewOp(c, "import", NoRid, {}, FALSE, TRUE) IN
     /\ Submit(op)
     /\ IF Immediate(op)
        THEN \E r \in TextureRids :
               /\ surface[r] = "none"
               /\ surface' = [surface EXCEPT ![r] = "imported"]
               /\ owner' = [owner EXCEPT ![r] = c]
        ELSE UNCHANGED <<surface, owner>>
  /\ UNCHANGED <<build, batch, nextToken, poolOpen, phase, answered>>

BridgeReadRgba(c, r) ==
  /\ Busy(c, "read") /\ Mine(c, r)
  /\ Submit(NewOp(c, "read", NoRid, {r}, TRUE, TRUE))
  /\ UNCHANGED <<build, batch, nextToken, surface, owner, poolOpen,
                 phase, answered>>

BridgeFlush(c) ==
  /\ Busy(c, "flush")
  /\ Submit(NewOp(c, "flush", NoRid, {}, TRUE, TRUE))
  /\ UNCHANGED <<build, batch, nextToken, surface, owner, poolOpen,
                 phase, answered>>

BridgeBeginReadRgba(c, r) ==
  /\ Busy(c, "readAsync") /\ Mine(c, r)
  /\ Submit(NewOp(c, "readAsync", NoRid, {r}, TRUE, FALSE))
  /\ UNCHANGED <<build, batch, nextToken, surface, owner, poolOpen, phase, answered>>

\* The answer to a synchronous call is taken; an inline drain that stopped at
\* another thread's gate leaves it false.
Return(c) ==
  /\ waiting[c] # NoCall
  /\ \/ waiting[c].state = "ok"
     \/ OnRenderThread(c) /\ drain = NoDrain
  /\ waiting' = [waiting EXCEPT ![c] = NoCall]
  /\ phase' = IF phase = "flushing" THEN "flushed" ELSE phase
  /\ answered' = (answered /\ (phase = "run" \/ waiting[c].state = "ok"))
  /\ UNCHANGED <<build, queue, lastSeq, scheduled, batch, nextToken, callbacks,
                 drain, surface, owner, poolOpen, split>>

\* wait_for gives up; the operation stays in the queue.
TimeOut(c) ==
  /\ waiting[c].state = "wait" /\ ~OnRenderThread(c)
  /\ waiting' = [waiting EXCEPT ![c] = NoCall]
  /\ phase' = IF phase = "flushing" THEN "flushed" ELSE phase
  /\ answered' = (answered /\ phase = "run")
  /\ UNCHANGED <<build, queue, lastSeq, scheduled, batch, nextToken, callbacks,
                 drain, surface, owner, poolOpen, split>>

----------------------------------------------------------------------------
(* Batches. *)

\* Another caller's batch is refused and changes nothing.
BridgeBeginBatch(c) ==
  /\ phase = "run" /\ Idle(c)
  /\ \/ /\ batch.token = 0 /\ nextToken <= MaxBatches
        /\ batch' = [token |-> nextToken, depth |-> 1, owner |-> c]
        /\ nextToken' = nextToken + 1
        /\ split' = 0
     \/ /\ batch.owner = c /\ batch.depth = 1    \* bound: nested once
        /\ batch' = [batch EXCEPT !.depth = @ + 1]
        /\ UNCHANGED <<nextToken, split>>
  /\ UNCHANGED <<build, queue, lastSeq, scheduled, callbacks, drain, waiting,
                 surface, owner, poolOpen, phase, answered>>

BridgeEndBatch(c) ==
  /\ Idle(c) /\ batch.owner = c
  /\ IF batch.depth > 1
     THEN /\ batch' = [batch EXCEPT !.depth = @ - 1]
          /\ UNCHANGED <<scheduled, callbacks, drain>>
     ELSE /\ batch' = NoBatch
          /\ IF queue # <<>> /\ ~OnRenderThread(c) /\ ~scheduled
             THEN /\ scheduled' = TRUE
                  /\ callbacks' = Append(callbacks, [force |-> FALSE, cutoff |-> 0])
             ELSE UNCHANGED <<scheduled, callbacks>>
          /\ drain' = IF queue # <<>> /\ OnRenderThread(c)
                      THEN ForcedDrain(lastSeq) ELSE drain
  /\ UNCHANGED <<build, queue, lastSeq, nextToken, waiting, surface, owner,
                 poolOpen, split, phase, answered>>

----------------------------------------------------------------------------
(* The render thread: posted callbacks and DrainGodotGpuOpsOnRenderThreadImpl. *)

RunCallback ==
  /\ callbacks # <<>> /\ drain = NoDrain
  /\ build.inline => waiting[Main] = NoCall
  /\ callbacks' = Tail(callbacks)
  /\ drain' = IF Head(callbacks).force THEN ForcedDrain(Head(callbacks).cutoff)
              ELSE NormalDrain
  /\ UNCHANGED <<build, queue, lastSeq, scheduled, batch, nextToken, waiting,
                 surface, owner, poolOpen, split, phase, answered>>

GateShut == ~drain.force /\ batch.token # 0

BeyondCutoff_Mutant == FALSE

BeyondCutoff ==
  drain.force /\ drain.cutoff # 0 /\ queue # <<>> /\ Head(queue).seq > drain.cutoff

\* Under the queue's mutex: take the next operation.  Draws are held back
\* for one command list, anything else is run next.
DrainPop ==
  /\ drain.at = "loop" /\ queue # <<>> /\ ~GateShut /\ ~BeyondCutoff
  /\ queue' = Tail(queue)
  /\ drain' = IF IsBatchable(Head(queue))
              THEN [drain EXCEPT !.held = Append(@, Head(queue))]
              ELSE [drain EXCEPT !.cur = <<Head(queue)>>, !.at = "run"]
  /\ UNCHANGED <<build, lastSeq, scheduled, batch, nextToken, callbacks, waiting,
                 surface, owner, poolOpen, split, phase, answered>>

DrainStop_Mutant ==
  /\ drain.at = "loop"
  /\ queue = <<>> \/ GateShut \/ BeyondCutoff
  /\ scheduled' = (scheduled /\ (drain.force \/ GateShut))
  /\ drain' = [drain EXCEPT !.at = "stop"]
  /\ UNCHANGED <<build, queue, lastSeq, batch, nextToken, callbacks, waiting,
                 surface, owner, poolOpen, split, phase, answered>>

\* Under the queue's mutex: leave the loop.  A normal drain takes back the
\* scheduled flag; one that meets an empty queue or a shut gate always does.
DrainStop ==
  /\ drain.at = "loop"
  /\ queue = <<>> \/ GateShut \/ BeyondCutoff
  /\ scheduled' = (scheduled /\ drain.force)
  /\ drain' = [drain EXCEPT !.at = "stop"]
  /\ UNCHANGED <<build, queue, lastSeq, batch, nextToken, callbacks, waiting,
                 surface, owner, poolOpen, split, phase, answered>>

\* The closing flush_compute.
DrainEnd ==
  /\ drain.at = "stop"
  /\ drain' = NoDrain
  /\ UNCHANGED <<build, queue, lastSeq, scheduled, batch, nextToken, callbacks,
                 waiting, surface, owner, poolOpen, split, phase, answered>>

\* FinishGodotGpuOp: a caller still waiting for the operation is answered.
Awaited(op) == op.by \in Callers /\ waiting[op.by].seq = op.seq

Finish(op) ==
  waiting' = IF Awaited(op) THEN [waiting EXCEPT ![op.by].state = "ok"] ELSE waiting

\* The held draws are encoded, then the operation.
Execute(op) ==
  /\ drain.at = "run" /\ drain.cur = <<op>>
  /\ drain' = [drain EXCEPT !.at = "loop", !.held = <<>>, !.cur = <<>>]
  /\ Finish(op)

RunPlain(op) ==
  /\ op.kind \in {"plain", "read", "readAsync", "flush"}
  /\ Execute(op)
  /\ UNCHANGED <<build, queue, lastSeq, scheduled, batch, nextToken, callbacks,
                 surface, owner, poolOpen, split, phase, answered>>

\* A partial upload goes through a staging surface, which the render thread
\* releases through RunGodotGpuOp: queued in a batch or when deferred.
RunRegion(op) ==
  /\ op.kind = "region"
  /\ Execute(op)
  /\ \/ /\ Obtainable = {}
        /\ UNCHANGED <<queue, lastSeq, surface>>
     \/ \E s \in Obtainable :
          IF AtOnce("release")
          THEN /\ surface' = Released(s, TRUE)
               /\ UNCHANGED <<queue, lastSeq>>
          ELSE /\ surface' = [surface EXCEPT ![s] = "staging"]
               /\ queue' = Append(queue, NewOp(Nobody, "release", s, {}, TRUE, FALSE))
               /\ lastSeq' = lastSeq + 1
  /\ UNCHANGED <<build, scheduled, batch, nextToken, callbacks, owner,
                 poolOpen, split, phase, answered>>

\* The texture is registered for whoever asked; a caller that gave up never
\* learns its id.
RunImport(op) ==
  /\ op.kind = "import"
  /\ Execute(op)
  /\ \/ \E r \in TextureRids :
          /\ surface[r] = "none"
          /\ surface' = [surface EXCEPT ![r] = "imported"]
          /\ owner' = [owner EXCEPT ![r] = IF Awaited(op) THEN op.by ELSE Nobody]
     \/ /\ \A r \in TextureRids : surface[r] # "none"
        /\ UNCHANGED <<surface, owner>>
  /\ UNCHANGED <<build, queue, lastSeq, scheduled, batch, nextToken, callbacks,
                 poolOpen, split, phase, answered>>

\* Release frees the surface, or, when the pool is open, goes on to offer it.
RunRelease(op) ==
  /\ op.kind = "release" /\ ~(op.keep /\ poolOpen)
  /\ Execute(op)
  /\ surface' = [surface EXCEPT ![op.dst] = "none"]
  /\ UNCHANGED <<build, queue, lastSeq, scheduled, batch, nextToken, callbacks,
                 owner, poolOpen, split, phase, answered>>

\* RetireGpuTextureToPool reads g_gpu_texture_pool_enabled before it locks the
\* pool: the teardown may close the pool in between.
RunRetireCheck(op) ==
  /\ op.kind = "release" /\ op.keep /\ poolOpen
  /\ drain.at = "run" /\ drain.cur = <<op>>
  /\ drain' = [drain EXCEPT !.at = "retire", !.held = <<>>]
  /\ UNCHANGED <<build, queue, lastSeq, scheduled, batch, nextToken, callbacks,
                 waiting, surface, owner, poolOpen, split, phase, answered>>

RunRetire(op) ==
  /\ drain.at = "retire" /\ drain.cur = <<op>>
  /\ drain' = [drain EXCEPT !.at = "loop", !.cur = <<>>]
  /\ Finish(op)
  /\ surface' = [surface EXCEPT ![op.dst] =
                   IF Cardinality(Pooled) < PoolLimit THEN "pooled" ELSE "none"]
  /\ UNCHANGED <<build, queue, lastSeq, scheduled, batch, nextToken, callbacks,
                 owner, poolOpen, split, phase, answered>>

----------------------------------------------------------------------------
(* DeinitializeAetherRuntime, on Main once the engines are gone. *)

Close ==
  /\ phase = "run" /\ batch.token = 0
  /\ \A c \in Callers : Idle(c)
  /\ Submit(NewOp(Main, "flush", NoRid, {}, TRUE, TRUE))
  /\ phase' = "flushing"
  /\ UNCHANGED <<build, batch, nextToken, surface, owner, poolOpen,
                 answered>>

\* ReleaseRemainingGodotGpuTextures: the pool is closed and emptied, the
\* read-backs are forgotten, the records are taken out of their table.
ClosePool ==
  /\ phase = "flushed" /\ Idle(Main)
  /\ poolOpen' = FALSE
  /\ surface' = [r \in TextureRids |->
                   IF surface[r] = "pooled" THEN "none"
                   ELSE IF surface[r] \in {"live", "imported"} THEN "remaining"
                   ELSE surface[r]]
  /\ owner' = [r \in TextureRids |-> Nobody]
  /\ phase' = "releasing"
  /\ UNCHANGED <<build, queue, lastSeq, scheduled, batch, nextToken, callbacks,
                 drain, waiting, split, answered>>

CloseRelease(r) ==
  /\ phase = "releasing" /\ Idle(Main) /\ surface[r] = "remaining"
  /\ LET op == NewOp(Main, "release", r, {}, FALSE, TRUE) IN
     /\ Submit(op)
     /\ surface' = [surface EXCEPT ![r] = IF Immediate(op) THEN "none" ELSE "doomed"]
  /\ UNCHANGED <<build, batch, nextToken, owner, poolOpen, phase, answered>>

CloseDone ==
  /\ phase = "releasing" /\ Idle(Main)
  /\ \A r \in TextureRids : surface[r] # "remaining"
  /\ phase' = "closed"
  /\ UNCHANGED <<build, queue, lastSeq, scheduled, batch, nextToken, callbacks,
                 drain, waiting, surface, owner, poolOpen, split, answered>>

\* Nothing is left to do after the teardown.
Closed ==
  /\ phase = "closed" /\ callbacks = <<>> /\ drain = NoDrain
  /\ UNCHANGED queueVars

----------------------------------------------------------------------------
CallerStep(c) ==
  \/ \E r \in TextureRids : Create(c, r) \/ UpdateRegion(c, r)
                     \/ BridgeReleaseTexture(c, r) \/ BridgeReadRgba(c, r)
                     \/ BridgeBeginReadRgba(c, r)
                     \/ BridgeClearRgba(c, r) \/ BridgeMosaicRects(c, r)
                     \/ UpdateWhole(c, r)
  \/ \E d, s \in TextureRids : BridgeDrawTriangles(c, d, s) \/ BridgeCopyRect(c, d, s)
  \/ \E d, s, t \in TextureRids : BridgeBlendRect(c, d, s, t)
                           \/ BridgeDrawMaskedTriangles(c, d, s, t)
  \/ \E old, new \in TextureRids : UpdateVersioned(c, old, new) \/ ClearVersioned(c, old, new)
  \/ Import(c) \/ BridgeFlush(c)
  \/ BridgeBeginBatch(c) \/ BridgeEndBatch(c)
  \/ Return(c) \/ TimeOut(c)

RunOp == \E op \in Elems(drain.cur) :
           RunPlain(op) \/ RunRegion(op) \/ RunImport(op)
           \/ RunRelease(op) \/ RunRetireCheck(op) \/ RunRetire(op)

RenderThread == RunCallback \/ DrainPop \/ DrainStop \/ DrainEnd \/ RunOp

Teardown == Close \/ ClosePool \/ (\E r \in TextureRids : CloseRelease(r)) \/ CloseDone

QueueNext ==
  \/ \E c \in Callers : CallerStep(c)
  \/ RenderThread
  \/ Teardown
  \/ Closed

QueueSpec == QueueInit /\ [][QueueNext]_queueVars

----------------------------------------------------------------------------
(* Properties. *)

\* An operation the drain takes from the queue never runs before an earlier
\* one it conflicts with, although draws are held back and several callbacks,
\* forced or not, may be posted (RunGodotGpuOp and the drain,
\* "Texture operations are consumed in queue order").
InSubmissionOrder ==
  [][\A o \in Pending \ Pending', p \in Pending' :
       p.seq < o.seq => ~Conflict(p, o)]_queueVars

\* While a batch is open none of its operations runs, unless a synchronous
\* call made inside it stands behind them; the cutoff of a delayed callback
\* never lets it into a later batch (the gate and the cutoff of the drain).
GateHolds ==
  [][\A o \in Pending \ Pending' :
       o.token # 0 /\ o.token = batch.token => o.seq <= split]_queueVars

\* Queued while another caller's batch was open: when that caller ends it, the
\* render thread may run its next operation before the callback drains these.
\* The same holds of an asynchronous read that met a gate shut meanwhile, and of
\* everything other threads left queued when the teardown runs at once.
Overtakable(p) ==
  /\ build.inline
  /\ \/ p.by = Main /\ (p.gate \notin {Main, Nobody} \/ p.kind = "readAsync")
     \/ phase # "run"

\* When the render thread is about to run its own operations at once, nothing
\* it submitted earlier is still queued, Overtakable operations excepted.
OvertakesNothing ==
  build.inline /\ AtOnce("draw") /\ Idle(Main) =>
    \A p \in Pending : p.by = Main => Overtakable(p)

\* A pooled or freed surface is not named by any operation still to run, so it
\* can be handed out and written at once (the comment on the texture pool).
PooledIsQuiet ==
  \A r \in TextureRids, p \in Pending :
    surface[r] \in {"pooled", "none"} /\ r \in Surfaces(p) => Overtakable(p)

\* A flush that answers true covers everything its caller submitted before
\* it: the caller publishes the texture next (BridgeFlush).
FlushCovers ==
  \A c \in Callers :
    waiting[c].kind = "flush" /\ waiting[c].state = "ok" =>
      \A p \in Pending : p.by = c /\ p.seq < waiting[c].seq => Overtakable(p)

\* A caller's own earlier operations are done where it relies on them.
OwnWorkDone == OvertakesNothing /\ FlushCovers

\* The teardown that empties the pool leaves it empty: nothing is pooled after it
\* (g_gpu_texture_pool_enabled is "cleared during teardown so pooled surfaces are
\* released instead of kept").  This holds when the teardown is on the render thread
\* itself, however its calls end, and on another thread that drains at once.
PoolStaysEmpty ==
  phase \in {"releasing", "closed"} /\ (build.inline \/ (answered /\ ~build.deferred)) =>
    Pooled = {}

\* Once the teardown is over and its calls were answered, the driver holds no
\* surface (ReleaseRemainingGodotGpuTextures), but for two: one imported after it,
\* for a caller that gave up, by a render thread that answers the flush without
\* draining; and one of a deferring build that reached the pool as it was emptied.
ClosedIsClean ==
  phase = "closed" /\ answered /\ Pending = {} =>
    \A r \in TextureRids :
      \/ surface[r] = "none"
      \/ surface[r] = "imported" /\ build.inline /\ ~build.deferred
      \/ surface[r] = "pooled" /\ ~build.inline /\ build.deferred

\* No surface is reused while it is still named, and none is left behind.
SurfacesAccounted == PooledIsQuiet /\ PoolStaysEmpty /\ ClosedIsClean

\* The same of every build: the pool is dropped "so the RenderingDevice does not
\* report pooled textures as leaked RIDs" (ReleaseGpuTexturePool).  Where draining is
\* deferred to another thread, a staging surface is released after the flush, and may
\* pass RetireGpuTextureToPool's check before the pool is closed and join it after.
PoolIsEmptied == answered /\ phase \in {"releasing", "closed"} => Pooled = {}

\* The render thread runs what it is given in turn.
RunsInTurn == InSubmissionOrder /\ GateHolds

\* No operation is stranded: while one is queued a drain runs, or is posted, or
\* the batch that holds it back is still to be ended, however callbacks were
\* coalesced, met a shut gate or stopped at their cutoff (g_gpu_op_drain_scheduled).
\* Only a render thread that defers leaves its own operations queued until it
\* asks for something.
NothingStranded ==
  Pending # {} /\ ~(build.inline /\ build.deferred) =>
    drain # NoDrain \/ callbacks # <<>> \/ batch.token # 0

=============================================================================
