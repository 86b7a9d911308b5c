---------------------------- MODULE GpuBarriers ----------------------------
(***************************************************************************)
(* Barriers inside the command lists of the Godot extension                *)
(* (ExecuteGodotGpuComputeBatch and ExecuteGodotGpuComputeBatchLegacy of   *)
(* bridge/godot_extension/src/aether_runtime_player.cpp, and               *)
(* GodotGpuBarrierShadowPlanner.h).  The draws held back by a drain are    *)
(* cut into segments, one command list each; within a compute segment the  *)
(* GPU may run dispatches in any order between two barriers, and the code  *)
(* places a barrier where its lists of pending writes ask for one.  It     *)
(* does so by default (NonLiveGpuHazardTrackingSafe); the switch of        *)
(* HazardTrackedBlendBarriersEnabled, off by default, is read only by      *)
(* batches that the drain does not use.                                    *)
(*                                                                         *)
(* A surface is one-dimensional: a rectangle is an interval.  The model    *)
(* keeps, beside the code's own lists, the dispatches since the last       *)
(* barrier with what each really samples and writes.  A raster segment is  *)
(* drawn in passes, one for each run of draws into the same target.        *)
(***************************************************************************)
EXTENDS Naturals, Sequences, FiniteSets

CONSTANTS
  Rids,      \* surfaces
  Width,     \* width of each surface
  External,  \* surfaces imported from the platform, whose storage may alias
  MaxLen     \* bound: operations in a batch

ASSUME GpuBarriersAssumption ==
  /\ Width \in [Rids -> Nat \ {0}]
  /\ External \subseteq Rids
  /\ MaxLen \in Nat

VARIABLES
  raster,    \* Live2DHardwareRasterEnabled
  segment,   \* segment_is_raster of the open segment: none, compute, raster
  tracking,  \* nonlive_hazard_tracking_safe of this segment
  live,      \* live2d_pending_writes
  nonlive,   \* nonlive_pending_writes
  shadow,    \* the planner's pending_reads_ and pending_writes_
  pass,      \* the draw list of a raster segment: its target, whether it
             \* writes masks, whether everything it needs could be had
  epoch,     \* history: dispatches since the last barrier
  predicted, \* history: dispatches since the planner's last barrier
  encoded    \* operations of the batch so far

vars == <<raster, segment, tracking, live, nonlive, shadow, pass, epoch, predicted, encoded>>

----------------------------------------------------------------------------
(* Rectangles and operations. *)

Rect(rid, pos, size) == [rid |-> rid, left |-> pos, right |-> pos + size]

Whole(rid) == Rect(rid, 0, Width[rid])

PendingWritesOverlap(a, b) == a.rid = b.rid /\ a.left < b.right /\ b.left < a.right

Meets(rects, others) == \E a \in rects, b \in others : PendingWritesOverlap(a, b)

Areas(rid) == {Rect(rid, l, n) : l \in 0 .. Width[rid] - 1, n \in 1 .. Width[rid]}

Inside(rid) == {a \in Areas(rid) : a.right <= Width[rid]}

\* A draw: its target, what it samples besides the target, and the source
\* rectangles its fields declare to the hazard check.
DrawOf(type, dst, samples, declares) ==
  [type |-> type, dst |-> dst, samples |-> samples, declares |-> declares]

\* Blend, Blend2 and Blend3 sample areas given exactly; two sources show all
\* that three would.
Blends == {DrawOf("blend", d, ss, ss) :
             d \in UNION {Inside(r) : r \in Rids},
             ss \in {{a, b} : a, b \in UNION {Inside(r) : r \in Rids}}}

\* FILL_ARGB is given a source like any blend, its own target perhaps.
Fills == {DrawOf("fill", d, {a}, {a}) : d, a \in UNION {Inside(r) : r \in Rids}}

\* REMOVE_CONST_OPACITY and FILL_MASK bind any source, their own target perhaps,
\* and change the target by a constant.
Adjusts == {DrawOf("adjust", d, {}, {a}) : d, a \in UNION {Inside(r) : r \in Rids}}

\* Triangles sample their source wherever the vertices say.  src_pos holds
\* the extent of the target, which the hazard check takes for a position.
Triangles(type) ==
  {DrawOf(type, d, {Whole(s)}, {Rect(s, Width[d.rid], Width[s])}) :
     d \in UNION {Inside(r) : r \in Rids}, s \in Rids}

MaskedTriangles ==
  {DrawOf("masked", d, {Whole(s), Whole(k)}, {Rect(s, Width[d.rid], Width[s])}) :
     d \in UNION {Inside(r) : r \in Rids}, s, k \in Rids}

\* Only draws that do not sample their target are batched, fills excepted, whose
\* source is not used (IsBatchableBlendOp, IsBatchableTriangleOp).
Batchable(op) ==
  op.type = "fill" \/ \A a \in op.samples : a.rid # op.dst.rid

\* "triangles" are CopyTriangles and TVP DrawTriangles, "live2d" the other
\* DrawTriangles, "masked" DrawMaskedTriangles.
Ops == {op \in Blends \cup Fills \cup Adjusts \cup Triangles("triangles")
               \cup Triangles("live2d") \cup MaskedTriangles : Batchable(op)}

IsLive2D(op) == op.type \in {"live2d", "masked"}

\* Live2D draws whose colour mode the raster pipeline has may go to it.
MayRaster(op) == raster /\ IsLive2D(op)

RidsOf(op) == {a.rid : a \in op.samples \cup op.declares \cup {op.dst}}

\* What a dispatch really samples: a harmless image is bound in place of the
\* source of a fill (DispatchGodotGpuBlend).
DispatchGodotGpuBlend(op) ==
  IF op.type = "fill" THEN [op EXCEPT !.samples = {}] ELSE op

----------------------------------------------------------------------------
(* The hazard checks. *)

BlendOpNeedsBarrierBeforeDispatch_Mutant(op) ==
  nonlive # {} /\ Meets(nonlive, {op.dst})

BlendOpNeedsBarrierBeforeDispatch(op) ==
  nonlive # {} /\ Meets(nonlive, {op.dst} \cup op.declares)

TriangleOpNeedsBarrierBeforeDispatch(op) == live # {} /\ Meets(live, {op.dst})

LiveFirst(op) ==
  IF IsLive2D(op) THEN TriangleOpNeedsBarrierBeforeDispatch(op) ELSE live # {}

NonLiveFirst(op) ==
  IF IsLive2D(op) THEN nonlive # {}
  ELSE ~tracking \/ BlendOpNeedsBarrierBeforeDispatch(op)

----------------------------------------------------------------------------
(* GodotGpuBarrierShadowPlanner. *)

ReadsOf(op) == IF op.type = "fill" THEN {}
               ELSE {a.rid : a \in op.samples \cup op.declares} \cup {op.dst.rid}

NoShadow == [reads |-> {}, writes |-> {}]

PredictsBarrier_Mutant(op) ==
  \/ ReadsOf(op) \cap shadow.writes # {}
  \/ op.dst.rid \in shadow.writes

PredictsBarrier(op) ==
  \/ ReadsOf(op) \cap shadow.writes # {}
  \/ op.dst.rid \in shadow.writes \cup shadow.reads

Record(op) ==
  LET before == IF PredictsBarrier(op) THEN NoShadow ELSE shadow IN
  [reads |-> before.reads \cup ReadsOf(op), writes |-> before.writes \cup {op.dst.rid}]

----------------------------------------------------------------------------
NoPass == [dst |-> {}, mask |-> FALSE, ready |-> FALSE]

Init ==
  /\ raster \in BOOLEAN
  /\ segment = "none" /\ tracking = TRUE
  /\ live = {} /\ nonlive = {} /\ shadow = NoShadow
  /\ pass = NoPass /\ epoch = <<>> /\ predicted = <<>>
  /\ encoded = 0

\* A segment begins with the verdict over all of its operations: an external
\* surface among them, or the conservative override, forbids tracking.
BeginSegment(kind, verdict) ==
  /\ segment = "none" /\ encoded < MaxLen
  /\ kind = "raster" => raster /\ verdict
  /\ segment' = kind /\ tracking' = verdict
  /\ UNCHANGED <<raster, live, nonlive, shadow, pass, epoch, predicted, encoded>>

\* One turn of the loop.  A dispatch that fails leaves its barriers placed
\* and its write unrecorded.
Encode(op, dispatched) ==
  /\ segment = "compute" /\ encoded < MaxLen
  /\ tracking => RidsOf(op) \cap External = {}
  /\ LET lf == LiveFirst(op)
         nf == NonLiveFirst(op)
         after == ~IsLive2D(op) /\ ~tracking
         l0 == IF lf THEN {} ELSE live
         n0 == IF nf THEN {} ELSE nonlive
         e0 == IF lf \/ nf THEN <<>> ELSE epoch
     IN IF dispatched
        THEN /\ live' = IF IsLive2D(op) THEN l0 \cup {op.dst} ELSE l0
             /\ nonlive' = IF IsLive2D(op) \/ after THEN n0 ELSE n0 \cup {op.dst}
             /\ epoch' = IF after THEN <<>> ELSE Append(e0, DispatchGodotGpuBlend(op))
        ELSE live' = l0 /\ nonlive' = n0 /\ epoch' = e0
  /\ IF IsLive2D(op)
     THEN shadow' = NoShadow /\ predicted' = <<>>
     ELSE IF dispatched
     THEN /\ shadow' = Record(op)
          /\ predicted' = Append(IF PredictsBarrier(op) THEN <<>> ELSE predicted,
                                DispatchGodotGpuBlend(op))
     ELSE UNCHANGED <<shadow, predicted>>
  /\ encoded' = encoded + 1
  /\ UNCHANGED <<raster, segment, tracking, pass>>

\* A draw joins the pass of the draw before it when it has the same target and
\* is a mask as well, or neither is.
Joins(op, mask) == pass.dst = {op.dst.rid} /\ pass.mask = mask

\* One draw of a raster segment.  Between two passes there is a barrier; a pass
\* without its framebuffer, pipelines or uniforms draws nothing.
EncodeRaster(op, mask, ready) ==
  /\ segment = "raster" /\ encoded < MaxLen
  /\ MayRaster(op) /\ (mask => op.type = "live2d")
  /\ pass' = IF Joins(op, mask) THEN pass
             ELSE [dst |-> {op.dst.rid}, mask |-> mask, ready |-> ready]
  /\ LET before == IF Joins(op, mask) THEN epoch ELSE <<>> IN
     epoch' = IF pass'.ready THEN Append(before, op) ELSE before
  /\ encoded' = encoded + 1
  /\ UNCHANGED <<raster, segment, tracking, live, nonlive, shadow, predicted>>

\* The closing barriers, one for each list that is not empty or after the last
\* pass, end the list.
EndSegment ==
  /\ segment # "none"
  /\ segment' = "none" /\ tracking' = TRUE
  /\ live' = {} /\ nonlive' = {} /\ shadow' = NoShadow
  /\ epoch' = IF live # {} \/ nonlive # {} \/ pass.ready THEN <<>> ELSE epoch
  /\ pass' = NoPass
  /\ predicted' = <<>>
  /\ UNCHANGED <<raster, encoded>>

EndBatch ==
  /\ encoded = MaxLen /\ segment = "none"
  /\ UNCHANGED vars

Next ==
  \/ \E kind \in {"compute", "raster"}, verdict \in BOOLEAN : BeginSegment(kind, verdict)
  \/ \E op \in Ops, dispatched \in BOOLEAN : Encode(op, dispatched)
  \/ \E op \in Ops, mask, ready \in BOOLEAN : EncodeRaster(op, mask, ready)
  \/ EndSegment
  \/ EndBatch

Spec == Init /\ [][Next]_vars

----------------------------------------------------------------------------
(* Properties. *)

\* The operations of an epoch in pairs, the earlier one first.
Pairs(e) == UNION {{<<e[i], e[j]>> : i \in 1 .. j - 1} : j \in DOMAIN e}

\* Two draws with no barrier between them never write a common pixel, unless the
\* pass they are in orders them, so that translucent layers and drawables blend
\* in the order they were submitted.
TargetsInOrder ==
  \A pq \in Pairs(epoch) : pass # NoPass \/ ~PendingWritesOverlap(pq[1].dst, pq[2].dst)

\* A blend never samples a pixel that a draw of its epoch wrote before it.
BlendsSeeWrites ==
  \A pq \in Pairs(epoch) :
    pq[2].type = "blend" => ~Meets({pq[1].dst}, pq[2].samples)

\* A pass never samples the surface it draws into: a mask is complete before the
\* drawables that are cut out with it, and is not drawn again before they are.
PassesApart ==
  pass # NoPass =>
    \A i, j \in DOMAIN epoch : epoch[i].dst.rid \notin {a.rid : a \in epoch[j].samples}

\* Live2D drawables and other draws, whose writes are tracked in different
\* lists, never share an epoch, and a draw that must not be tracked never
\* stays in one with anything.
KindsApart ==
  \A i, j \in DOMAIN epoch :
    /\ IsLive2D(epoch[i]) <=> IsLive2D(epoch[j])
    /\ tracking \/ IsLive2D(epoch[i])

\* What the lists do keep, tracked by default or not: the order of writes to one
\* pixel, and of a write and the blend that samples it.  They keep no barrier for
\* the three cases stated after it, for which comments of the code promise one.
EpochOrdered == TargetsInOrder /\ BlendsSeeWrites /\ PassesApart /\ KindsApart

\* A blend has sampled its sources before a later draw writes over them.
\* HazardTrackedBlendBarriersEnabled asks to "keep every queued blend strictly
\* ordered by default", for "a write-after-read dependency"; the lists hold only
\* what was written, so the segment loop, which tracks by default, does not.
BlendsStrictlyOrdered ==
  \A pq \in Pairs(epoch) : pq[1].type = "blend" => ~Meets({pq[2].dst}, pq[1].samples)

\* Triangles never sample pixels that a draw of their epoch wrote before them:
\* "E-mote layers frequently reuse the preceding destination as a later source"
\* (ExecuteGodotGpuTriangleBatch, which has a barrier after each).  The segment
\* loop takes their src_pos, which holds an extent, for where they sample.
TrianglesSeeWrites ==
  \A pq \in Pairs(epoch) :
    pq[2].type = "triangles" => ~Meets({pq[1].dst}, pq[2].samples)

\* A drawable is cut out with a mask that has been drawn.  In the segment loop
\* "only overlapping destination rectangles need read-after-write ordering", so a
\* mask drawn in the same compute segment is sampled without a barrier.
MasksComplete ==
  \A pq \in Pairs(epoch) :
    pq[1].type = "live2d" /\ pq[2].type = "masked" => ~Meets({pq[1].dst}, pq[2].samples)

\* "Keep every queued blend strictly ordered by default": no draw of an epoch touches
\* what another samples or writes.  Does not hold, in any of the three ways.
DrawsStrictlyOrdered == BlendsStrictlyOrdered /\ TrianglesSeeWrites /\ MasksComplete

\* Wherever two draws conflict over a whole surface, read after write, write
\* after write or write after read, the shadow planner predicts a barrier
\* between them (the diagnostic counters compared with the real barriers).
PlannerSound ==
  \A pq \in Pairs(predicted) :
    /\ pq[1].dst.rid \notin ReadsOf(pq[2]) \cup {pq[2].dst.rid}
    /\ pq[2].dst.rid \notin ReadsOf(pq[1])

=============================================================================
