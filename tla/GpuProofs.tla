------------------------------- MODULE GpuProofs -------------------------------
(***************************************************************************)
(* Proofs about the player's use of the GPU: GpuBarriers and GpuQueue,     *)
(* whose names are apart.                                                  *)
(*                                                                         *)
(* Barriers, for all surfaces, widths and lengths of a batch: those that   *)
(* ExecuteGodotGpuComputeBatch places keep every two draws in order that   *)
(* write the same pixels, and GodotGpuBarrierShadowPlanner predicts one    *)
(* between every two that conflict.                                        *)
(*                                                                         *)
(* The queue, for all callers, surfaces, kinds of work and sizes of the    *)
(* pool: what RunGodotGpuOp and the drain run is run in turn, nothing is   *)
(* left behind, a caller's own work is done where it relies on it, no      *)
(* surface is reused while an operation names it, and what an answered     *)
(* teardown can leave behind is known for each build.                      *)
(***************************************************************************)
EXTENDS GpuBarriers, GpuQueue, TLAPS

-----------------------------------------------------------------------------
(* Operations. *)

\* What a command list may hold: operations as dispatched.
Dispatches == Ops \cup {DispatchGodotGpuBlend(op) : op \in Ops}

\* What the proofs use of an operation x: a draw samples its target only if it is a
\* fill, and a blend declares all it samples.
Fair(x) == /\ IsLive2D(x) => \A a \in x.samples : a.rid # x.dst.rid
           /\ x.type = "blend" => x.samples = x.declares

\* Operations are as IsBatchableBlendOp and IsBatchableTriangleOp let them in.
LEMMA OpsFair ==
  ASSUME NEW op \in Ops
  PROVE  /\ Fair(op)
         /\ \E t, d, s, x : op = [type |-> t, dst |-> d, samples |-> s, declares |-> x]
<1>1. /\ \E t, d, s, x : op = [type |-> t, dst |-> d, samples |-> s, declares |-> x]
      /\ op.type = "blend" => op.samples = op.declares
  <2>1. CASE op \in Blends
    BY <2>1 DEF Blends, DrawOf
  <2>2. CASE op \in Fills
    BY <2>2 DEF Fills, DrawOf
  <2>3. CASE op \in Triangles("triangles")
    BY <2>3 DEF Triangles, DrawOf
  <2>4. CASE op \in Triangles("live2d")
    BY <2>4 DEF Triangles, DrawOf
  <2>5. CASE op \in MaskedTriangles
    BY <2>5 DEF MaskedTriangles, DrawOf
  <2>6. CASE op \in Adjusts
    BY <2>6 DEF Adjusts, DrawOf
  <2> QED
    BY <2>1, <2>2, <2>3, <2>4, <2>5, <2>6 DEF Ops
<1>2. IsLive2D(op) => \A a \in op.samples : a.rid # op.dst.rid
  BY DEF Ops, Batchable, IsLive2D
<1> QED
  BY <1>1, <1>2 DEF Fair

\* A dispatch has the kind, the target and the declared sources of its operation.
LEMMA DispatchKeeps ==
  ASSUME NEW op \in Ops
  PROVE  LET x == DispatchGodotGpuBlend(op) IN
         /\ x \in Dispatches /\ Fair(x)
         /\ x.type = op.type /\ x.dst = op.dst /\ x.declares = op.declares
         /\ ReadsOf(x) = ReadsOf(op)
<1> DEFINE x == DispatchGodotGpuBlend(op)
<1>1. x \in Dispatches
  BY DEF Dispatches
<1>2. CASE op.type # "fill"
  <2>1. x = op
    BY <1>2 DEF DispatchGodotGpuBlend
  <2> QED
    BY <1>1, <2>1, OpsFair
<1>3. CASE op.type = "fill"
  <2>1. x = [op EXCEPT !.samples = {}]
    BY <1>3 DEF DispatchGodotGpuBlend
  <2>2. PICK t, d, s, w : op = [type |-> t, dst |-> d, samples |-> s, declares |-> w]
    BY OpsFair
  <2>3. x.type = op.type /\ x.dst = op.dst /\ x.declares = op.declares
    BY <2>1, <2>2
  <2> HIDE DEF x
  <2>4. Fair(x) /\ ReadsOf(x) = ReadsOf(op)
    BY <1>3, <2>3 DEF Fair, IsLive2D, ReadsOf
  <2> QED
    BY <1>1, <2>3, <2>4 DEF x
<1> QED
  BY <1>2, <1>3

\* Every dispatch is of an operation.
LEMMA DispatchesFair == \A x \in Dispatches : Fair(x)
BY OpsFair, DispatchKeeps DEF Dispatches

\* Two positions of a sequence that a pair comes from.
LEMMA PairsAre ==
  ASSUME NEW S, NEW e \in Seq(S), NEW pq \in Pairs(e)
  PROVE  \E i, j \in DOMAIN e : i < j /\ pq[1] = e[i] /\ pq[2] = e[j]
<1>1. PICK j \in DOMAIN e : pq \in {<<e[i], e[j]>> : i \in 1 .. j - 1}
  BY DEF Pairs
<1>2. PICK i \in 1 .. j - 1 : pq = <<e[i], e[j]>>
  BY <1>1
<1>3. i \in DOMAIN e /\ i < j
  OBVIOUS
<1> QED
  BY <1>2, <1>3

\* One more element.
LEMMA Appended ==
  ASSUME NEW S, NEW e \in Seq(S), NEW x \in S
  PROVE  LET f == Append(e, x) IN
         /\ f \in Seq(S) /\ f # <<>>
         /\ \A i \in DOMAIN f : \/ i \in DOMAIN e /\ f[i] = e[i]
                                \/ f[i] = x /\ \A j \in DOMAIN f : j <= i
OBVIOUS

-----------------------------------------------------------------------------
(* The inductive invariant. *)

\* Lists, passes and histories are of the segment that is open.
SegmentInv ==
  /\ segment \in {"none", "compute", "raster"}
  /\ epoch \in Seq(Dispatches) /\ predicted \in Seq(Dispatches)
  /\ segment # "compute" => live = {} /\ nonlive = {} /\ shadow = NoShadow /\ predicted = <<>>
  /\ segment # "raster" => pass = NoPass
  /\ segment = "none" => epoch = <<>>

\* In a compute segment each dispatch since the last barrier is in the list of its
\* kind, and one that must not be tracked is alone.
Listed ==
  segment = "compute" =>
    \A i \in DOMAIN epoch : IF IsLive2D(epoch[i]) THEN epoch[i].dst \in live
                            ELSE epoch[i].dst \in nonlive /\ tracking

\* No two of them write a pixel twice, nor reads a blend what was written.
Ordered ==
  segment = "compute" =>
    \A i, j \in DOMAIN epoch : i < j =>
      /\ ~PendingWritesOverlap(epoch[i].dst, epoch[j].dst)
      /\ epoch[j].type = "blend" => ~Meets({epoch[i].dst}, epoch[j].samples)

\* They are of one kind.
OneKind == \A i, j \in DOMAIN epoch : IsLive2D(epoch[i]) <=> IsLive2D(epoch[j])

\* In a raster segment they are the draws of one pass that can be drawn.
OnePass ==
  segment = "raster" =>
    \A i \in DOMAIN epoch : /\ IsLive2D(epoch[i]) /\ pass.ready
                            /\ pass.dst = {epoch[i].dst.rid}

\* The planner has recorded every dispatch since its last barrier.
Recorded ==
  \A i \in DOMAIN predicted : /\ ReadsOf(predicted[i]) \subseteq shadow.reads
                              /\ predicted[i].dst.rid \in shadow.writes

\* No two of them conflict.
Predicted ==
  \A i, j \in DOMAIN predicted : i < j =>
    /\ predicted[i].dst.rid \notin ReadsOf(predicted[j]) \cup {predicted[j].dst.rid}
    /\ predicted[j].dst.rid \notin ReadsOf(predicted[i])

IInv == SegmentInv /\ Listed /\ Ordered /\ OneKind /\ OnePass /\ Recorded /\ Predicted

-----------------------------------------------------------------------------
(* The steps. *)

\* The epoch of a compute segment after a barrier, or a dispatch, or both.
LEMMA EncodeEpoch ==
  ASSUME IInv, NEW op \in Ops, NEW dispatched \in BOOLEAN, Encode(op, dispatched)
  PROVE  /\ epoch' \in Seq(Dispatches)
         /\ Listed' /\ Ordered' /\ OneKind'
<1> DEFINE x == DispatchGodotGpuBlend(op)
           lf == LiveFirst(op)
           nf == NonLiveFirst(op)
           after == ~IsLive2D(op) /\ ~tracking
           l0 == IF lf THEN {} ELSE live
           n0 == IF nf THEN {} ELSE nonlive
           e0 == IF lf \/ nf THEN <<>> ELSE epoch
<1>1. /\ x \in Dispatches /\ Fair(x) /\ x.type = op.type /\ x.dst = op.dst
      /\ x.declares = op.declares /\ (IsLive2D(x) <=> IsLive2D(op))
  BY DispatchKeeps DEF IsLive2D
<1>2. /\ segment = "compute" /\ segment' = "compute" /\ tracking' = tracking
      /\ epoch \in Seq(Dispatches) /\ DOMAIN epoch = 1..Len(epoch) /\ Len(epoch) \in Nat
  BY DEF IInv, SegmentInv, Encode
<1>3. IF dispatched
      THEN /\ live' = IF IsLive2D(op) THEN l0 \cup {op.dst} ELSE l0
           /\ nonlive' = IF IsLive2D(op) \/ after THEN n0 ELSE n0 \cup {op.dst}
           /\ epoch' = IF after THEN <<>> ELSE Append(e0, x)
      ELSE live' = l0 /\ nonlive' = n0 /\ epoch' = e0
  BY DEF Encode
<1>4. /\ e0 \in Seq(Dispatches)
      /\ \A i \in DOMAIN e0 : /\ i \in DOMAIN epoch /\ e0[i] = epoch[i] /\ l0 = live /\ n0 = nonlive
                              /\ ~lf /\ ~nf
  BY <1>2
<1>5. \A i \in DOMAIN e0 : IF IsLive2D(e0[i]) THEN e0[i].dst \in l0
                           ELSE e0[i].dst \in n0 /\ tracking
  BY <1>2, <1>4 DEF IInv, Listed
<1>6. /\ \A i, j \in DOMAIN e0 : i < j =>
           /\ ~PendingWritesOverlap(e0[i].dst, e0[j].dst)
           /\ e0[j].type = "blend" => ~Meets({e0[i].dst}, e0[j].samples)
      /\ \A i, j \in DOMAIN e0 : IsLive2D(e0[i]) <=> IsLive2D(e0[j])
  BY <1>2, <1>4 DEF IInv, Ordered, OneKind
\* The dispatch conflicts with none that has no barrier before it.
<1>7. ASSUME NEW i \in DOMAIN e0, ~after
      PROVE  /\ IsLive2D(e0[i]) <=> IsLive2D(x)
             /\ ~PendingWritesOverlap(e0[i].dst, x.dst)
             /\ x.type = "blend" => ~Meets({e0[i].dst}, x.samples)
  <2>1. CASE IsLive2D(op)
    <3>1. nonlive = {} /\ ~(live # {} /\ Meets(live, {op.dst}))
      BY <1>4, <2>1 DEF LiveFirst, NonLiveFirst, TriangleOpNeedsBarrierBeforeDispatch
    <3>2. IsLive2D(e0[i]) /\ e0[i].dst \in live
      BY <1>4, <1>5, <3>1
    <3>3. ~PendingWritesOverlap(e0[i].dst, op.dst)
      BY <3>1, <3>2 DEF Meets
    <3>4. x.type # "blend"
      BY <1>1, <2>1 DEF IsLive2D
    <3> QED
      BY <1>1, <2>1, <3>2, <3>3, <3>4
  <2>2. CASE ~IsLive2D(op)
    <3>1. /\ live = {} /\ tracking
          /\ ~(nonlive # {} /\ Meets(nonlive, {op.dst} \cup op.declares))
      BY <1>4, <1>7, <2>2 DEF LiveFirst, NonLiveFirst, BlendOpNeedsBarrierBeforeDispatch
    <3>2. ~IsLive2D(e0[i]) /\ e0[i].dst \in nonlive
      BY <1>4, <1>5, <3>1
    <3>3. \A b \in {op.dst} \cup op.declares : ~PendingWritesOverlap(e0[i].dst, b)
      BY <3>1, <3>2 DEF Meets
    <3>4. x.type = "blend" => x.samples = op.declares
      BY <1>1 DEF Fair
    <3> QED
      BY <1>1, <2>2, <3>2, <3>3, <3>4 DEF Meets
  <2> QED
    BY <2>1, <2>2
<1> HIDE DEF x, lf, nf, l0, n0, e0
<1>8. CASE ~dispatched
  <2>1. live' = l0 /\ nonlive' = n0 /\ epoch' = e0
    BY <1>3, <1>8
  <2> QED
    BY <1>2, <1>4, <1>5, <1>6, <2>1 DEF Listed, Ordered, OneKind
<1>9. CASE dispatched /\ after
  <2>1. epoch' = <<>>
    BY <1>3, <1>9
  <2>2. epoch' \in Seq(Dispatches) /\ DOMAIN epoch' = {}
    BY <2>1
  <2> QED
    BY <2>2 DEF Listed, Ordered, OneKind
<1>10. CASE dispatched /\ ~after
  <2> DEFINE f == Append(e0, x)
  <2>1. /\ live' = IF IsLive2D(op) THEN l0 \cup {op.dst} ELSE l0
        /\ nonlive' = IF IsLive2D(op) THEN n0 ELSE n0 \cup {op.dst}
        /\ epoch' = f
    BY <1>3, <1>10
  <2>2. /\ f \in Seq(Dispatches)
        /\ \A i \in DOMAIN f : \/ i \in DOMAIN e0 /\ f[i] = e0[i]
                               \/ f[i] = x /\ \A j \in DOMAIN f : j <= i
        /\ \A i \in DOMAIN f : i \in Nat
    BY <1>1, <1>4, Appended
  <2> HIDE DEF f
  <2>3. Listed'
    <3> SUFFICES ASSUME NEW i \in DOMAIN f
                 PROVE  IF IsLive2D(f[i]) THEN f[i].dst \in live'
                        ELSE f[i].dst \in nonlive' /\ tracking
      BY <1>2, <2>1 DEF Listed
    <3>1. CASE i \in DOMAIN e0 /\ f[i] = e0[i]
      BY <1>5, <2>1, <3>1
    <3>2. CASE f[i] = x
      BY <1>1, <1>10, <2>1, <3>2
    <3> QED
      BY <2>2, <3>1, <3>2
  <2>4. Ordered'
    <3> SUFFICES ASSUME NEW i \in DOMAIN f, NEW j \in DOMAIN f, i < j
                 PROVE  /\ ~PendingWritesOverlap(f[i].dst, f[j].dst)
                        /\ f[j].type = "blend" => ~Meets({f[i].dst}, f[j].samples)
      BY <2>1 DEF Ordered
    <3>1. i \in DOMAIN e0 /\ f[i] = e0[i]
      BY <2>2
    <3>2. CASE j \in DOMAIN e0 /\ f[j] = e0[j]
      BY <1>6, <3>1, <3>2
    <3>3. CASE f[j] = x
      BY <1>7, <1>10, <3>1, <3>3
    <3> QED
      BY <2>2, <3>2, <3>3
  <2>5. OneKind'
    <3> SUFFICES ASSUME NEW i \in DOMAIN f, NEW j \in DOMAIN f
                 PROVE  IsLive2D(f[i]) <=> IsLive2D(f[j])
      BY <2>1 DEF OneKind
    <3>1. f[i] = x \/ (i \in DOMAIN e0 /\ f[i] = e0[i] /\ (IsLive2D(f[i]) <=> IsLive2D(x)))
      BY <1>7, <1>10, <2>2
    <3>2. f[j] = x \/ (j \in DOMAIN e0 /\ f[j] = e0[j] /\ (IsLive2D(f[j]) <=> IsLive2D(x)))
      BY <1>7, <1>10, <2>2
    <3> QED
      BY <3>1, <3>2
  <2> QED
    BY <2>1, <2>2, <2>3, <2>4, <2>5
<1> QED
  BY <1>8, <1>9, <1>10

\* The planner's sets after a dispatch, and its prediction.
LEMMA EncodePlan ==
  ASSUME IInv, NEW op \in Ops, NEW dispatched \in BOOLEAN, Encode(op, dispatched)
  PROVE  predicted' \in Seq(Dispatches) /\ Recorded' /\ Predicted'
<1> DEFINE x == DispatchGodotGpuBlend(op)
           e0 == IF PredictsBarrier(op) THEN <<>> ELSE predicted
           s0 == IF PredictsBarrier(op) THEN NoShadow ELSE shadow
<1>1. x \in Dispatches /\ x.dst = op.dst /\ ReadsOf(x) = ReadsOf(op)
  BY DispatchKeeps
<1>2. predicted \in Seq(Dispatches)
  BY DEF IInv, SegmentInv
<1>3. CASE IsLive2D(op)
  <2>1. predicted' = <<>>
    BY <1>3 DEF Encode
  <2>2. predicted' \in Seq(Dispatches) /\ DOMAIN predicted' = {}
    BY <2>1
  <2> QED
    BY <2>2 DEF Recorded, Predicted
<1>4. CASE ~IsLive2D(op) /\ ~dispatched
  <2>1. UNCHANGED <<shadow, predicted>>
    BY <1>4 DEF Encode
  <2> QED
    BY <1>2, <2>1 DEF IInv, Recorded, Predicted
<1>5. CASE ~IsLive2D(op) /\ dispatched
  <2> DEFINE f == Append(e0, x)
  <2>1. /\ predicted' = f
        /\ shadow'.reads = s0.reads \cup ReadsOf(op)
        /\ shadow'.writes = s0.writes \cup {op.dst.rid}
    BY <1>5 DEF Encode, Record
  <2>2. /\ e0 \in Seq(Dispatches)
        /\ \A i \in DOMAIN e0 : /\ i \in DOMAIN predicted /\ e0[i] = predicted[i]
                                /\ s0 = shadow /\ ~PredictsBarrier(op)
    BY <1>2
  <2>3. \A i \in DOMAIN e0 : /\ ReadsOf(e0[i]) \subseteq shadow.reads
                             /\ e0[i].dst.rid \in shadow.writes /\ s0 = shadow
                             /\ e0[i].dst.rid \notin ReadsOf(x) \cup {x.dst.rid}
                             /\ x.dst.rid \notin ReadsOf(e0[i])
    BY <1>1, <2>2 DEF IInv, Recorded, PredictsBarrier
  <2>4. \A i, j \in DOMAIN e0 : i < j =>
          /\ e0[i].dst.rid \notin ReadsOf(e0[j]) \cup {e0[j].dst.rid}
          /\ e0[j].dst.rid \notin ReadsOf(e0[i])
    BY <2>2 DEF IInv, Predicted
  <2> HIDE DEF e0, s0, x
  <2>5. /\ f \in Seq(Dispatches)
        /\ \A i \in DOMAIN f : \/ i \in DOMAIN e0 /\ f[i] = e0[i]
                               \/ f[i] = x /\ \A j \in DOMAIN f : j <= i
        /\ \A i \in DOMAIN f : i \in Nat
    BY <1>1, <2>2, Appended
  <2> HIDE DEF f
  <2>6. Recorded'
    <3> SUFFICES ASSUME NEW i \in DOMAIN f
                 PROVE  /\ ReadsOf(f[i]) \subseteq shadow'.reads
                        /\ f[i].dst.rid \in shadow'.writes
      BY <2>1 DEF Recorded
    <3>1. CASE i \in DOMAIN e0 /\ f[i] = e0[i]
      BY <2>1, <2>3, <3>1
    <3>2. CASE f[i] = x
      BY <1>1, <2>1, <3>2
    <3> QED
      BY <2>5, <3>1, <3>2
  <2>7. Predicted'
    <3> SUFFICES ASSUME NEW i \in DOMAIN f, NEW j \in DOMAIN f, i < j
                 PROVE  /\ f[i].dst.rid \notin ReadsOf(f[j]) \cup {f[j].dst.rid}
                        /\ f[j].dst.rid \notin ReadsOf(f[i])
      BY <2>1 DEF Predicted
    <3>1. i \in DOMAIN e0 /\ f[i] = e0[i]
      BY <2>5
    <3>2. CASE j \in DOMAIN e0 /\ f[j] = e0[j]
      BY <2>4, <3>1, <3>2
    <3>3. CASE f[j] = x
      BY <2>3, <3>1, <3>3
    <3> QED
      BY <2>5, <3>2, <3>3
  <2> QED
    BY <2>1, <2>5, <2>6, <2>7
<1> QED
  BY <1>3, <1>4, <1>5

\* A draw of a raster segment joins the pass or opens one behind a barrier.
LEMMA RasterStep ==
  ASSUME IInv, NEW op \in Ops, NEW mask \in BOOLEAN, NEW ready \in BOOLEAN,
         EncodeRaster(op, mask, ready)
  PROVE  IInv'
<1> DEFINE e0 == IF Joins(op, mask) THEN epoch ELSE <<>>
<1>1. /\ segment = "raster" /\ IsLive2D(op) /\ op \in Dispatches
      /\ UNCHANGED <<segment, tracking, live, nonlive, shadow, predicted>>
      /\ epoch' = IF pass'.ready THEN Append(e0, op) ELSE e0
      /\ pass' = IF Joins(op, mask) THEN pass
                 ELSE [dst |-> {op.dst.rid}, mask |-> mask, ready |-> ready]
  BY DEF EncodeRaster, MayRaster, Dispatches
<1>2. /\ epoch \in Seq(Dispatches) /\ pass'.dst = {op.dst.rid}
  BY <1>1 DEF IInv, SegmentInv, Joins
<1>3. /\ e0 \in Seq(Dispatches)
      /\ \A i \in DOMAIN e0 : /\ IsLive2D(e0[i]) /\ pass'.ready
                              /\ pass'.dst = {e0[i].dst.rid}
  BY <1>1, <1>2 DEF IInv, OnePass
<1> HIDE DEF e0
<1>4. /\ epoch' \in Seq(Dispatches)
      /\ \A i \in DOMAIN epoch' : /\ IsLive2D(epoch'[i]) /\ pass'.ready
                                  /\ pass'.dst = {epoch'[i].dst.rid}
  <2>1. CASE pass'.ready
    <3> DEFINE f == Append(e0, op)
    <3>1. /\ f \in Seq(Dispatches)
          /\ \A i \in DOMAIN f : (i \in DOMAIN e0 /\ f[i] = e0[i]) \/ f[i] = op
      BY <1>1, <1>3, Appended
    <3>2. epoch' = f
      BY <1>1, <2>1
    <3> HIDE DEF f
    <3> QED
      BY <1>1, <1>2, <1>3, <2>1, <3>1, <3>2
  <2>2. CASE ~pass'.ready
    <3>1. epoch' = e0
      BY <1>1, <2>2
    <3> QED
      BY <1>3, <3>1
  <2> QED
    BY <2>1, <2>2
<1>5. SegmentInv'
  BY <1>1, <1>4 DEF IInv, SegmentInv
<1>6. Listed' /\ Ordered' /\ OnePass' /\ OneKind'
  BY <1>1, <1>4 DEF Listed, Ordered, OnePass, OneKind
<1>7. Recorded' /\ Predicted'
  BY <1>1 DEF IInv, Recorded, Predicted
<1> QED
  BY <1>5, <1>6, <1>7 DEF IInv

\* The closing barriers leave nothing unordered.
LEMMA SegmentSteps ==
  ASSUME IInv,
         \/ \E kind \in {"compute", "raster"}, verdict \in BOOLEAN : BeginSegment(kind, verdict)
         \/ EndSegment
  PROVE  IInv'
<1>1. CASE \E kind \in {"compute", "raster"}, verdict \in BOOLEAN : BeginSegment(kind, verdict)
  <2>1. /\ segment = "none" /\ segment' \in {"compute", "raster"}
        /\ UNCHANGED <<live, nonlive, shadow, pass, epoch, predicted>>
    BY <1>1 DEF BeginSegment
  <2>2. epoch = <<>> /\ epoch' = <<>> /\ predicted = <<>> /\ DOMAIN epoch' = {}
    BY <2>1 DEF IInv, SegmentInv
  <2> QED
    BY <2>1, <2>2
    DEF IInv, SegmentInv, Listed, Ordered, OneKind, OnePass, Recorded, Predicted
<1>2. CASE EndSegment
  <2>1. /\ segment' = "none" /\ live' = {} /\ nonlive' = {} /\ shadow' = NoShadow
        /\ epoch' = (IF live # {} \/ nonlive # {} \/ pass.ready THEN <<>> ELSE epoch)
        /\ pass' = NoPass /\ predicted' = <<>> /\ segment # "none"
    BY <1>2 DEF EndSegment
  <2>2. epoch' = <<>>
    <3> SUFFICES ASSUME live = {}, nonlive = {}, ~pass.ready PROVE epoch = <<>>
      BY <2>1
    <3>1. \A i \in DOMAIN epoch : FALSE
      BY <2>1 DEF IInv, SegmentInv, Listed, OnePass
    <3>2. epoch \in Seq(Dispatches)
      BY DEF IInv, SegmentInv
    <3>3. Len(epoch) = 0
      BY <3>1, <3>2
    <3> QED
      BY <3>2, <3>3
  <2>3. predicted' = <<>>
    BY <2>1
  <2>4. DOMAIN epoch' = {} /\ DOMAIN predicted' = {}
    BY <2>2, <2>3
  <2>5. epoch' \in Seq(Dispatches) /\ predicted' \in Seq(Dispatches)
    BY <2>2, <2>3
  <2>6. /\ segment' = "none" /\ live' = {} /\ nonlive' = {}
        /\ shadow' = NoShadow /\ pass' = NoPass
    BY <2>1
  <2> QED
    BY <2>2, <2>3, <2>4, <2>5, <2>6
    DEF IInv, SegmentInv, Listed, Ordered, OneKind, OnePass, Recorded, Predicted
<1> QED
  BY <1>1, <1>2

\* The invariant holds of an empty batch.
LEMMA InitInv == Init => IInv
<1> SUFFICES ASSUME Init PROVE IInv
  OBVIOUS
<1>1. /\ DOMAIN epoch = {} /\ DOMAIN predicted = {}
      /\ epoch \in Seq(Dispatches) /\ predicted \in Seq(Dispatches)
  BY DEF Init
<1> QED
  BY <1>1
  DEF Init, IInv, SegmentInv, Listed, Ordered, OneKind, OnePass, Recorded, Predicted

\* And after every turn of the two loops.
LEMMA NextInv == IInv /\ [Next]_vars => IInv'
<1> SUFFICES ASSUME IInv, [Next]_vars PROVE IInv'
  OBVIOUS
<1>1. ASSUME NEW op \in Ops, NEW dispatched \in BOOLEAN, Encode(op, dispatched) PROVE IInv'
  <2>1. /\ segment = "compute" /\ UNCHANGED <<segment, pass>>
    BY <1>1 DEF Encode
  <2>2. SegmentInv' /\ OnePass'
    BY <1>1, <2>1, EncodeEpoch, EncodePlan DEF IInv, SegmentInv, OnePass
  <2> QED
    BY <1>1, <2>2, EncodeEpoch, EncodePlan DEF IInv
<1>2. CASE UNCHANGED vars
  BY <1>2
  DEF vars, IInv, SegmentInv, Listed, Ordered, OneKind, OnePass, Recorded, Predicted
<1> QED
  BY <1>1, <1>2, RasterStep, SegmentSteps DEF Next, EndBatch

-----------------------------------------------------------------------------
(* The theorems. *)

\* The lists of pending writes hold every write that has no barrier behind it.
THEOREM BarrierInvariant == Spec => []IInv
BY InitInv, NextInv, PTL DEF Spec

\* For surfaces of any width and batches of any length, the barriers placed between
\* draws and between passes keep writes to one pixel in order, a blend behind the
\* writes it samples, the masks of a raster segment apart from what they cut, and the
\* two kinds of draws from each other.  Nothing is said of a write over what an
\* earlier blend samples, nor of what triangles sample in a compute segment.
THEOREM TrackedWritesOrdered == Spec => []EpochOrdered
<1>1. IInv => EpochOrdered
  <2> SUFFICES ASSUME IInv PROVE EpochOrdered
    OBVIOUS
  <2>1. /\ epoch \in Seq(Dispatches) /\ \A i \in DOMAIN epoch : epoch[i] \in Dispatches
    BY DEF IInv, SegmentInv
  <2>2. \A i \in DOMAIN epoch : segment \in {"compute", "raster"}
    BY DEF IInv, SegmentInv
  <2>3. pass # NoPass => segment = "raster"
    BY DEF IInv, SegmentInv
  <2>4. \A i \in DOMAIN epoch : segment = "raster" => pass # NoPass /\ IsLive2D(epoch[i])
    BY DEF IInv, OnePass, NoPass
  <2>5. TargetsInOrder
    <3> SUFFICES ASSUME NEW pq \in Pairs(epoch), pass = NoPass
                 PROVE  ~PendingWritesOverlap(pq[1].dst, pq[2].dst)
      BY DEF TargetsInOrder
    <3>1. PICK i, j \in DOMAIN epoch : i < j /\ pq[1] = epoch[i] /\ pq[2] = epoch[j]
      BY <2>1, PairsAre
    <3>2. segment = "compute"
      BY <2>2, <2>4, <3>1
    <3> QED
      BY <3>1, <3>2 DEF IInv, Ordered
  <2>6. BlendsSeeWrites
    <3> SUFFICES ASSUME NEW pq \in Pairs(epoch), pq[2].type = "blend"
                 PROVE  ~Meets({pq[1].dst}, pq[2].samples)
      BY DEF BlendsSeeWrites
    <3>1. PICK i, j \in DOMAIN epoch : i < j /\ pq[1] = epoch[i] /\ pq[2] = epoch[j]
      BY <2>1, PairsAre
    <3>2. segment = "compute"
      BY <2>2, <2>4, <3>1 DEF IsLive2D
    <3> QED
      BY <3>1, <3>2 DEF IInv, Ordered
  <2>7. PassesApart
    <3> SUFFICES ASSUME pass # NoPass, NEW i \in DOMAIN epoch, NEW j \in DOMAIN epoch
                 PROVE  epoch[i].dst.rid \notin {a.rid : a \in epoch[j].samples}
      BY DEF PassesApart
    <3>1. /\ IsLive2D(epoch[j]) /\ pass.dst = {epoch[i].dst.rid}
          /\ pass.dst = {epoch[j].dst.rid}
      BY <2>3 DEF IInv, OnePass
    <3>2. \A a \in epoch[j].samples : a.rid # epoch[j].dst.rid
      BY <2>1, <3>1, DispatchesFair DEF Fair
    <3> QED
      BY <3>1, <3>2
  <2>8. KindsApart
    BY <2>2, <2>4 DEF KindsApart, IInv, OneKind, Listed
  <2> QED
    BY <2>5, <2>6, <2>7, <2>8 DEF EpochOrdered
<1> QED
  BY <1>1, BarrierInvariant, PTL

\* The shadow planner misses no conflict between two dispatches that it compares.
THEOREM PlannerMissesNone == Spec => []PlannerSound
<1>1. IInv => PlannerSound
  <2> SUFFICES ASSUME IInv, NEW pq \in Pairs(predicted)
               PROVE  /\ pq[1].dst.rid \notin ReadsOf(pq[2]) \cup {pq[2].dst.rid}
                      /\ pq[2].dst.rid \notin ReadsOf(pq[1])
    BY DEF PlannerSound
  <2>1. predicted \in Seq(Dispatches)
    BY DEF IInv, SegmentInv
  <2>2. PICK i, j \in DOMAIN predicted : i < j /\ pq[1] = predicted[i] /\ pq[2] = predicted[j]
    BY <2>1, PairsAre
  <2> QED
    BY <2>2 DEF IInv, Predicted
<1> QED
  BY <1>1, BarrierInvariant, PTL

-----------------------------------------------------------------------------
(* The queue: what holds in every state. *)

\* The types.
Operations == [seq : Nat, kind : Kinds, dst : TextureRids \cup {NoRid}, src : SUBSET TextureRids,
               by : Callers \cup {Nobody}, wait : BOOLEAN, token : Nat,
               gate : Callers \cup {Nobody}, keep : BOOLEAN]
Callbacks == [force : BOOLEAN, cutoff : Nat]
Drains == [at : {"off", "loop", "run", "retire", "stop"}, force : BOOLEAN, cutoff : Nat,
           held : Seq(Operations), cur : Seq(Operations)]
Batches == [token : Nat, depth : Nat, owner : Callers \cup {Nobody}]
Calls == [seq : Nat, kind : Kinds \cup {"none"}, state : {"none", "wait", "ok"}]
States == {"none", "live", "imported", "doomed", "staging", "pooled", "remaining"}

QueueTyped ==
  /\ build \in [inline : BOOLEAN, deferred : BOOLEAN]
  /\ queue \in Seq(Operations) /\ lastSeq \in Nat /\ scheduled \in BOOLEAN
  /\ batch \in Batches /\ nextToken \in Nat \ {0}
  /\ callbacks \in Seq(Callbacks) /\ drain \in Drains /\ split \in Nat

CallsTyped ==
  /\ waiting \in [Callers -> Calls] /\ answered \in BOOLEAN
  /\ surface \in [TextureRids -> States] /\ owner \in [TextureRids -> Callers \cup {Nobody}]
  /\ poolOpen \in BOOLEAN
  /\ phase \in {"run", "flushing", "flushed", "releasing", "closed"}

\* What was taken from the queue was submitted before what is left in it.
InOrder(s) == \A i, j \in DOMAIN s : i < j => s[i].seq < s[j].seq

InLine ==
  /\ InOrder(queue)
  /\ \A p \in Pending : 0 < p.seq /\ p.seq <= lastSeq
  /\ \A o \in Elems(drain.cur), p \in Elems(queue) : o.seq < p.seq
  /\ \A h \in Elems(drain.held), p \in Elems(drain.cur) \cup Elems(queue) : h.seq < p.seq

\* A drain holds an operation while it runs it, and draws from one command list to the next;
\* a posted drain that is forced gets as far as the operation it is for.
DrainShaped ==
  /\ drain.at \in {"run", "retire"} => \E o \in Pending : drain.cur = <<o>>
  /\ drain.at \notin {"run", "retire"} => drain.cur = <<>>
  /\ drain.at \in {"off", "retire"} => drain.held = <<>>
  /\ drain.at = "off" => ~drain.force
  /\ \A o \in Elems(drain.cur) :
       /\ drain.at = "retire" => o.kind = "release"
       /\ drain.force /\ ~build.inline =>
            o.wait \/ \E p \in Elems(queue) : p.seq = drain.cutoff

Running == drain.at \in {"loop", "run", "retire"}

\* Operations carry the batch they were submitted in, whose numbers are not used again.
Tokens ==
  /\ batch.token < nextToken /\ split <= lastSeq
  /\ batch.token = 0 <=> batch.owner = Nobody
  /\ \A p \in Pending : p.token < nextToken /\ (p.token = 0 <=> p.gate = Nobody)
  /\ batch.token # 0 => \A p \in Pending : p.token = batch.token => p.gate = batch.owner
  /\ batch.token # 0 =>
       \A p \in Elems(drain.cur) \cup Elems(drain.held) : p.token = batch.token => p.seq <= split

\* A forced drain, running or posted, is for an operation that waits, or comes too late for it,
\* and lets nothing of an open batch pass that nobody waits behind.
CutoffHolds(k) ==
  /\ 0 < k /\ k <= lastSeq
  /\ \/ build.inline
     \/ \E p \in Elems(queue) : p.seq = k /\ p.wait
     \/ \A p \in Elems(queue) : p.seq > k
  /\ \/ batch.token = 0
     \/ k <= split
     \/ \A p \in Pending : p.token = batch.token => p.seq > k

Cutoffs ==
  /\ drain.force => CutoffHolds(drain.cutoff)
  /\ \A b \in Elems(callbacks) : b.force => CutoffHolds(b.cutoff)

\* A scheduled drain is posted, or runs.
Scheduled ==
  scheduled => \/ \E b \in Elems(callbacks) : ~b.force
               \/ Running /\ ~drain.force

\* What is queued is scheduled to be drained, is held back by a batch, or is being drained.
Covered ==
  ~(build.inline /\ build.deferred) =>
  \A p \in Elems(queue) :
    \/ scheduled
    \/ batch.token # 0
    \/ Running /\ ~drain.force
    \/ Running /\ build.inline /\ p.seq <= drain.cutoff

\* A partial upload is not waited for.
Waits == \A p \in Pending : p.kind = "region" => ~p.wait

QueueInv ==
  QueueTyped /\ InLine /\ DrainShaped /\ Tokens /\ Cutoffs /\ Scheduled /\ Covered /\ Waits

\* What the render thread queued behind its own batch is run when that ends.
OwnQueued ==
  build.inline /\ ~build.deferred /\ phase = "run" =>
    \A p \in Elems(queue) :
      p.by = Main /\ p.kind # "readAsync" /\ p.gate \in {Main, Nobody} =>
        \/ batch.owner = Main
        \/ Running /\ drain.force /\ p.seq <= drain.cutoff

\* A drain holds draws back, and retires what is to be kept.
Held ==
  /\ \A h \in Elems(drain.held) : h.kind = "draw"
  /\ drain.at = "retire" => \A o \in Elems(drain.cur) : o.keep

CallsBefore == \A c \in Callers : waiting[c].seq <= lastSeq

\* A surface an operation names is there until the operation has run.
Named ==
  \A p \in Pending : \A r \in Surfaces(p) :
    \/ Overtakable(p)
    \/ surface[r] \in {"live", "imported"} /\ owner[r] = p.by
    \/ surface[r] \in {"doomed", "staging", "remaining"}

\* A surface is released once, after all that names it.
ReleasesLast ==
  /\ \A q \in Pending : q.kind = "release" =>
       /\ q.dst \in TextureRids /\ surface[q.dst] \in {"doomed", "staging"}
       /\ \A p \in Pending : q.dst \in Surfaces(p) => p.seq <= q.seq
  /\ \A r \in TextureRids : surface[r] \in {"doomed", "staging"} =>
       \E q \in Pending : q.kind = "release" /\ q.dst = r

\* The teardown: the flush covers all that was submitted, and what is released after it is
\* not kept.
TornDown ==
  /\ phase = "run" => answered
  /\ phase # "run" => batch.token = 0
  /\ poolOpen <=> phase \in {"run", "flushing", "flushed"}
  /\ poolOpen \/ phase = "closed" => \A r \in TextureRids : surface[r] # "remaining"
  /\ ~build.inline /\ ~build.deferred =>
       /\ phase = "flushing" =>
            /\ \A c \in Callers \ {Main} : waiting[c] = NoCall
            /\ waiting[Main].seq = lastSeq
            /\ waiting[Main].state = "ok" => Pending = {}
       /\ phase = "flushed" /\ answered => Pending = {}
       /\ phase \in {"releasing", "closed"} /\ answered =>
            /\ \A p \in Pending : p.kind = "release" /\ ~p.keep
            /\ \A r \in TextureRids : surface[r] \in {"none", "remaining", "doomed", "staging"}

-----------------------------------------------------------------------------
(* Sequences as sets. *)

\* The elements of a sequence.
LEMMA ElemsIn == ASSUME NEW S, NEW s \in Seq(S) PROVE Elems(s) \subseteq S
BY DEF Elems

\* None, and one.
LEMMA ElemsFew == Elems(<<>>) = {} /\ \A o : Elems(<<o>>) = {o}
<1>1. Elems(<<>>) = {}
  BY DEF Elems
<1>2. ASSUME NEW o PROVE Elems(<<o>>) = {o}
  <2>1. DOMAIN <<o>> = {1} /\ <<o>>[1] = o
    OBVIOUS
  <2> QED
    BY <2>1 DEF Elems
<1> QED
  BY <1>1, <1>2

\* One more at the end.
LEMMA ElemsAppend ==
  ASSUME NEW S, NEW s \in Seq(S), NEW e \in S
  PROVE  Append(s, e) \in Seq(S) /\ Elems(Append(s, e)) = Elems(s) \cup {e}
<1>1. /\ Append(s, e) \in Seq(S) /\ DOMAIN Append(s, e) = DOMAIN s \cup {Len(s) + 1}
      /\ Append(s, e)[Len(s) + 1] = e
      /\ \A i \in DOMAIN s : Append(s, e)[i] = s[i]
  OBVIOUS
<1> QED
  BY <1>1 DEF Elems

\* The first one and the others.
LEMMA ElemsTail ==
  ASSUME NEW S, NEW s \in Seq(S), s # <<>>
  PROVE  /\ Tail(s) \in Seq(S) /\ Head(s) \in S
         /\ Elems(s) = {Head(s)} \cup Elems(Tail(s))
<1>1. /\ Tail(s) \in Seq(S) /\ Head(s) \in S /\ Head(s) = s[1] /\ Len(s) \in Nat \ {0}
      /\ DOMAIN s = 1..Len(s) /\ DOMAIN Tail(s) = 1..(Len(s) - 1)
      /\ \A i \in DOMAIN Tail(s) : Tail(s)[i] = s[i + 1]
  OBVIOUS
<1>2. ASSUME NEW x \in Elems(s) PROVE x = Head(s) \/ x \in Elems(Tail(s))
  <2>1. PICK i \in DOMAIN s : x = s[i]
    BY DEF Elems
  <2>2. CASE i = 1
    BY <1>1, <2>1, <2>2
  <2>3. CASE i # 1
    <3>1. i - 1 \in DOMAIN Tail(s) /\ i = (i - 1) + 1
      BY <1>1, <2>3
    <3>2. x = Tail(s)[i - 1]
      BY <1>1, <2>1, <3>1
    <3> QED
      BY <3>1, <3>2 DEF Elems
  <2> QED
    BY <2>2, <2>3
<1>3. ASSUME NEW x \in Elems(Tail(s)) PROVE x \in Elems(s)
  <2>1. PICK i \in DOMAIN Tail(s) : x = Tail(s)[i]
    BY DEF Elems
  <2>2. i + 1 \in DOMAIN s /\ x = s[i + 1]
    BY <1>1, <2>1
  <2> QED
    BY <2>2 DEF Elems
<1>4. Head(s) \in Elems(s)
  BY <1>1 DEF Elems
<1> QED
  BY <1>1, <1>2, <1>3, <1>4

\* Operations in the order they were submitted: one more, and one less.
LEMMA OrderAppend ==
  ASSUME NEW s \in Seq(Operations), InOrder(s), NEW o \in Operations,
         \A p \in Elems(s) : p.seq < o.seq
  PROVE  InOrder(Append(s, o))
<1>1. /\ DOMAIN Append(s, o) = 1..(Len(s) + 1) /\ DOMAIN s = 1..Len(s) /\ Len(s) \in Nat
      /\ Append(s, o)[Len(s) + 1] = o
      /\ \A i \in DOMAIN s : Append(s, o)[i] = s[i]
  OBVIOUS
<1> SUFFICES ASSUME NEW i \in DOMAIN Append(s, o), NEW j \in DOMAIN Append(s, o), i < j
             PROVE  Append(s, o)[i].seq < Append(s, o)[j].seq
  BY DEF InOrder
<1>2. i \in DOMAIN s
  BY <1>1
<1>3. CASE j \in DOMAIN s
  BY <1>1, <1>2, <1>3 DEF InOrder
<1>4. CASE j = Len(s) + 1
  BY <1>1, <1>2, <1>4 DEF Elems
<1> QED
  BY <1>1, <1>3, <1>4

\* The first of them is the earliest.
LEMMA OrderTail ==
  ASSUME NEW s \in Seq(Operations), s # <<>>, InOrder(s)
  PROVE  InOrder(Tail(s)) /\ \A p \in Elems(Tail(s)) : Head(s).seq < p.seq
<1>1. /\ Head(s) = s[1] /\ Len(s) \in Nat \ {0}
      /\ DOMAIN s = 1..Len(s) /\ DOMAIN Tail(s) = 1..(Len(s) - 1)
      /\ \A i \in DOMAIN Tail(s) : Tail(s)[i] = s[i + 1]
  OBVIOUS
<1>2. \A i \in DOMAIN Tail(s) : i + 1 \in DOMAIN s /\ 1 \in DOMAIN s /\ 1 < i + 1
  BY <1>1
<1>3. \A p \in Elems(Tail(s)) : Head(s).seq < p.seq
  BY <1>1, <1>2 DEF Elems, InOrder
<1>4. InOrder(Tail(s))
  <2> SUFFICES ASSUME NEW i \in DOMAIN Tail(s), NEW j \in DOMAIN Tail(s), i < j
               PROVE  Tail(s)[i].seq < Tail(s)[j].seq
    BY DEF InOrder
  <2>1. i + 1 \in DOMAIN s /\ j + 1 \in DOMAIN s /\ i + 1 < j + 1
    BY <1>1, <1>2
  <2>2. s[i + 1].seq < s[j + 1].seq
    BY <2>1 DEF InOrder
  <2> QED
    BY <1>1, <2>2
<1> QED
  BY <1>3, <1>4

\* The drains that begin, and none.
LEMMA DrainsMade ==
  /\ NoDrain \in Drains /\ NoDrain.at = "off" /\ ~NoDrain.force /\ NoDrain.cutoff = 0
  /\ NoDrain.held = <<>> /\ NoDrain.cur = <<>>
  /\ NormalDrain \in Drains /\ NormalDrain.at = "loop" /\ ~NormalDrain.force
  /\ NormalDrain.held = <<>> /\ NormalDrain.cur = <<>>
  /\ \A k \in Nat : /\ ForcedDrain(k) \in Drains /\ ForcedDrain(k).at = "loop"
                    /\ ForcedDrain(k).force /\ ForcedDrain(k).cutoff = k
                    /\ ForcedDrain(k).held = <<>> /\ ForcedDrain(k).cur = <<>>
<1>1. /\ NoDrain \in Drains /\ NoDrain.at = "off" /\ ~NoDrain.force /\ NoDrain.cutoff = 0
      /\ NoDrain.held = <<>> /\ NoDrain.cur = <<>>
  <2>1. <<>> \in Seq(Operations)
    OBVIOUS
  <2> QED
    BY <2>1 DEF NoDrain, Drains
<1>2. /\ NormalDrain \in Drains /\ NormalDrain.at = "loop" /\ ~NormalDrain.force
      /\ NormalDrain.held = <<>> /\ NormalDrain.cur = <<>>
  BY <1>1 DEF NormalDrain, Drains
<1>3. ASSUME NEW k \in Nat
      PROVE  /\ ForcedDrain(k) \in Drains /\ ForcedDrain(k).at = "loop"
             /\ ForcedDrain(k).force /\ ForcedDrain(k).cutoff = k
             /\ ForcedDrain(k).held = <<>> /\ ForcedDrain(k).cur = <<>>
  BY <1>1 DEF ForcedDrain, Drains
<1> QED
  BY <1>1, <1>2, <1>3

\* What is queued and what a drain holds are operations.
LEMMA PendingTyped ==
  ASSUME QueueTyped
  PROVE  /\ Pending \subseteq Operations
         /\ drain.held \in Seq(Operations) /\ drain.cur \in Seq(Operations)
         /\ \A p \in Pending : p.seq \in Nat /\ p.token \in Nat
<1>1. drain.held \in Seq(Operations) /\ drain.cur \in Seq(Operations) /\ queue \in Seq(Operations)
  BY DEF QueueTyped, Drains
<1>2. Pending \subseteq Operations
  BY <1>1, ElemsIn DEF Pending
<1>3. \A p \in Operations : p.seq \in Nat /\ p.token \in Nat
  BY DEF Operations
<1> QED
  BY <1>1, <1>2, <1>3

\* So is what is posted.
LEMMA CallbacksTyped ==
  ASSUME NEW s \in Seq(Callbacks)
  PROVE  \A b \in Elems(s) : b \in Callbacks /\ b.cutoff \in Nat /\ b.force \in BOOLEAN
<1>1. Elems(s) \subseteq Callbacks
  BY ElemsIn
<1>2. \A b \in Callbacks : b.cutoff \in Nat /\ b.force \in BOOLEAN
  BY DEF Callbacks
<1> QED
  BY <1>1, <1>2

\* The cutoffs of a step, one by one.
LEMMA CutoffsMade ==
  ASSUME drain' \in Drains, callbacks' \in Seq(Callbacks),
         \A k \in Nat : drain'.force /\ k = drain'.cutoff => CutoffHolds(k)',
         \A b \in Elems(callbacks') : b.force => CutoffHolds(b.cutoff)'
  PROVE  Cutoffs'
<1>1. PICK k \in Nat : k = drain'.cutoff
  BY DEF Drains
<1>2. drain'.force => CutoffHolds(k)'
  BY <1>1
<1>3. drain'.force => CutoffHolds(drain.cutoff)'
  BY <1>1, <1>2 DEF CutoffHolds
<1> QED
  BY <1>3 DEF Cutoffs

-----------------------------------------------------------------------------
(* Submitting an operation. *)

\* An operation as RunGodotGpuOp makes it.
Fresh(op) ==
  /\ op \in Operations /\ op.seq = lastSeq + 1
  /\ op.token = batch.token /\ op.gate = batch.owner
  /\ op.kind = "region" => ~op.wait
  /\ OnRenderThread(op.by) => drain = NoDrain

\* One more operation at the end of the queue.
LEMMA Enqueued ==
  ASSUME QueueInv, NEW op, Fresh(op), queue' = Append(queue, op), lastSeq' = op.seq,
         split' = split \/ (op.wait /\ batch.token # 0 /\ split' = op.seq),
         UNCHANGED <<build, batch, nextToken>>,
         drain'.held = drain.held \/ drain'.held = <<>>,
         drain'.cur = drain.cur \/ drain'.cur = <<>>
  PROVE  /\ queue' \in Seq(Operations) /\ lastSeq' \in Nat /\ split' \in Nat
         /\ Elems(queue') = Elems(queue) \cup {op}
         /\ op \in Pending' /\ Pending' \subseteq Pending \cup {op}
         /\ InLine' /\ Tokens' /\ Waits'
         /\ \A k \in Nat : CutoffHolds(k) => CutoffHolds(k)'
         /\ op.wait /\ batch.token # 0 /\ split' = op.seq => CutoffHolds(op.seq)'
<1>t. /\ queue \in Seq(Operations) /\ lastSeq \in Nat /\ split \in Nat /\ op \in Operations
      /\ batch.token \in Nat /\ nextToken \in Nat
  BY DEF QueueInv, QueueTyped, Fresh, Batches
<1>u. /\ Pending \subseteq Operations /\ op.seq = lastSeq + 1
      /\ op.token = batch.token /\ op.gate = batch.owner /\ op.seq \in Nat
      /\ op.kind = "region" => ~op.wait
      /\ \A p \in Pending : p.seq \in Nat /\ p.token \in Nat
  BY PendingTyped, <1>t DEF QueueInv, Fresh
<1>1. queue' \in Seq(Operations) /\ Elems(queue') = Elems(queue) \cup {op}
  BY <1>t, ElemsAppend
<1>2. /\ op \in Pending' /\ Pending' \subseteq Pending \cup {op}
      /\ Elems(drain'.held) \subseteq Elems(drain.held)
      /\ Elems(drain'.cur) \subseteq Elems(drain.cur)
  BY <1>1, ElemsFew DEF Pending
<1>3. \A p \in Pending : p.seq < op.seq /\ 0 < p.seq
  BY <1>t, <1>u DEF QueueInv, InLine
<1>4. InLine'
  <2>1. InOrder(queue)'
    <3>1. \A p \in Elems(queue) : p.seq < op.seq
      BY <1>3 DEF Pending
    <3> QED
      BY <1>t, <3>1, OrderAppend DEF QueueInv, InLine
  <2>2. \A p \in Pending' : 0 < p.seq /\ p.seq <= lastSeq'
    BY <1>t, <1>u, <1>2, <1>3
  <2>3. \A o \in Elems(drain'.cur), p \in Elems(queue') : o.seq < p.seq
    BY <1>1, <1>2, <1>3 DEF QueueInv, InLine, Pending
  <2>4. \A h \in Elems(drain'.held), p \in Elems(drain'.cur) \cup Elems(queue') : h.seq < p.seq
    BY <1>1, <1>2, <1>3 DEF QueueInv, InLine, Pending
  <2> QED
    BY <2>1, <2>2, <2>3, <2>4 DEF InLine
<1>5. /\ split' <= lastSeq' /\ split' \in Nat /\ split <= split'
  BY <1>t, <1>u DEF QueueInv, Tokens
<1>6. Tokens'
  <2>1. batch.token < nextToken /\ (batch.token = 0 <=> batch.owner = Nobody)
    BY DEF QueueInv, Tokens
  <2>2. \A p \in Pending' : p.token < nextToken /\ (p.token = 0 <=> p.gate = Nobody)
    BY <1>u, <1>2, <2>1 DEF QueueInv, Tokens
  <2>3. batch.token # 0 => \A p \in Pending' : p.token = batch.token => p.gate = batch.owner
    BY <1>u, <1>2 DEF QueueInv, Tokens
  <2>4. batch.token # 0 => \A p \in Elems(drain'.cur) \cup Elems(drain'.held) :
                             p.token = batch.token => p.seq <= split'
    <3> SUFFICES ASSUME batch.token # 0, NEW p \in Elems(drain'.cur) \cup Elems(drain'.held),
                        p.token = batch.token
                 PROVE  p.seq <= split'
      OBVIOUS
    <3>1. p \in Elems(drain.cur) \cup Elems(drain.held) /\ p \in Pending
      BY <1>2 DEF Pending
    <3>2. p.seq <= split /\ p.seq \in Nat
      BY <1>u, <3>1 DEF QueueInv, Tokens
    <3> QED
      BY <1>t, <1>5, <3>2
  <2> QED
    BY <1>5, <2>1, <2>2, <2>3, <2>4 DEF Tokens
<1>7. Waits'
  BY <1>u, <1>2 DEF QueueInv, Waits
<1>8. ASSUME NEW k \in Nat, CutoffHolds(k) PROVE CutoffHolds(k)'
  <2>1. 0 < k /\ k <= lastSeq /\ k <= lastSeq' /\ k < op.seq
    BY <1>t, <1>u, <1>8 DEF CutoffHolds
  <2>2. \/ build.inline
        \/ \E p \in Elems(queue') : p.seq = k /\ p.wait
        \/ \A p \in Elems(queue') : p.seq > k
    BY <1>1, <1>8, <1>u, <2>1 DEF CutoffHolds
  <2>3. \/ batch.token = 0
        \/ k <= split'
        \/ \A p \in Pending' : p.token = batch.token => p.seq > k
    BY <1>t, <1>2, <1>5, <1>8, <1>u, <2>1 DEF CutoffHolds
  <2> QED
    BY <2>1, <2>2, <2>3 DEF CutoffHolds
<1>9. ASSUME op.wait, batch.token # 0, split' = op.seq PROVE CutoffHolds(op.seq)'
  <2>1. 0 < op.seq /\ op.seq <= lastSeq' /\ op.seq <= split'
    BY <1>9, <1>t, <1>u
  <2>2. op \in Elems(queue')
    BY <1>1
  <2>3. UNCHANGED <<build, batch>>
    OBVIOUS
  <2>4. PICK k \in Nat : k = op.seq
    BY <1>u
  <2>5. CutoffHolds(k)'
    BY <1>9, <2>1, <2>2, <2>4 DEF CutoffHolds
  <2> QED
    BY <2>4, <2>5
<1> QED
  BY <1>1, <1>2, <1>4, <1>5, <1>6, <1>7, <1>8, <1>9, <1>t, <1>u

\* Whoever submits it, and wherever it runs, an operation keeps the order and its drains.
LEMMA QueueSubmit ==
  ASSUME QueueInv, NEW op, Fresh(op), Submit(op), UNCHANGED <<build, batch, nextToken>>
  PROVE  QueueInv'
<1>t. /\ queue \in Seq(Operations) /\ lastSeq \in Nat /\ split \in Nat /\ op \in Operations
      /\ op.seq \in Nat /\ op.seq = lastSeq + 1 /\ op.wait \in BOOLEAN
      /\ callbacks \in Seq(Callbacks) /\ drain \in Drains /\ scheduled \in BOOLEAN
      /\ build \in [inline : BOOLEAN, deferred : BOOLEAN] /\ build.inline \in BOOLEAN
      /\ batch \in Batches /\ batch.token \in Nat /\ nextToken \in Nat \ {0}
  BY DEF QueueInv, QueueTyped, Fresh, Batches, Operations
<1>1. CASE SubmitAtOnce(op)
  <2>1. /\ lastSeq' = lastSeq + 1 /\ lastSeq' \in Nat
        /\ UNCHANGED <<build, batch, nextToken, queue, split, scheduled, callbacks, drain>>
    BY <1>t, <1>1 DEF SubmitAtOnce
  <2>2. Pending' = Pending
    BY <2>1 DEF Pending
  <2>3. QueueTyped' /\ DrainShaped' /\ Scheduled' /\ Covered' /\ Waits'
    BY <2>1, <2>2 DEF QueueInv, QueueTyped, DrainShaped, Scheduled, Covered, Waits, Running
  <2>4. InLine'
    BY <1>t, <2>1, <2>2, PendingTyped DEF QueueInv, InLine
  <2>5. Tokens'
    <3>1. split <= lastSeq'
      BY <1>t, <2>1 DEF QueueInv, Tokens
    <3> QED
      BY <2>1, <2>2, <3>1 DEF QueueInv, Tokens
  <2>6. ASSUME NEW k \in Nat, CutoffHolds(k) PROVE CutoffHolds(k)'
    <3>1. 0 < k /\ k <= lastSeq'
      BY <1>t, <2>1, <2>6 DEF CutoffHolds
    <3> QED
      BY <2>1, <2>2, <2>6, <3>1 DEF CutoffHolds
  <2>7. Cutoffs'
    <3>1. \A b \in Elems(callbacks) : b.cutoff \in Nat
      BY <1>t, CallbacksTyped
    <3>2. \A k \in Nat : drain.force /\ k = drain.cutoff => CutoffHolds(k)'
      BY <2>6 DEF QueueInv, Cutoffs
    <3>3. \A b \in Elems(callbacks) : b.force => CutoffHolds(b.cutoff)'
      BY <2>6, <3>1 DEF QueueInv, Cutoffs
    <3> QED
      BY <1>t, <2>1, <3>2, <3>3, CutoffsMade
  <2> QED
    BY <2>3, <2>4, <2>5, <2>7 DEF QueueInv
<1>2. ASSUME Enqueue(op), drain' \in Drains, drain' = drain \/ drain = NoDrain,
             drain'.held = drain.held, drain'.cur = drain.cur,
             drain'.at = "off" => ~drain'.force, drain' # drain => drain'.at = "loop",
             drain'.force => \/ drain' = drain
                             \/ op.wait /\ batch.token # 0 /\ drain'.cutoff = op.seq,
             callbacks' \in Seq(Callbacks), scheduled' \in BOOLEAN,
             Elems(callbacks) \subseteq Elems(callbacks'),
             \A b \in Elems(callbacks') \ Elems(callbacks) :
               b.force => op.wait /\ batch.token # 0 /\ b.cutoff = op.seq,
             scheduled' => \/ scheduled
                           \/ \E b \in Elems(callbacks') : ~b.force,
             scheduled => scheduled',
             \/ build.inline /\ build.deferred
             \/ batch.token # 0
             \/ scheduled'
             \/ drain'.at = "loop" /\ ~drain'.force
      PROVE  QueueInv'
  <2>1. /\ queue' = Append(queue, op) /\ lastSeq' = op.seq
        /\ split' = split \/ (op.wait /\ batch.token # 0 /\ split' = op.seq)
        /\ op.wait /\ batch.token # 0 => split' = op.seq
    BY <1>2 DEF Enqueue
  <2>2. /\ queue' \in Seq(Operations) /\ lastSeq' \in Nat /\ split' \in Nat
        /\ Elems(queue') = Elems(queue) \cup {op}
        /\ op \in Pending' /\ Pending' \subseteq Pending \cup {op}
        /\ InLine' /\ Tokens' /\ Waits'
        /\ \A k \in Nat : CutoffHolds(k) => CutoffHolds(k)'
        /\ op.wait /\ batch.token # 0 => CutoffHolds(op.seq)'
    BY <1>2, <2>1, Enqueued
  <2>3. QueueTyped'
    BY <1>t, <1>2, <2>2 DEF QueueTyped
  <2>4. DrainShaped'
    <3>1. Pending \subseteq Pending'
      BY <1>2, <2>2 DEF Pending
    <3>2. CASE drain' = drain
      BY <2>2, <3>1, <3>2 DEF QueueInv, DrainShaped
    <3>3. CASE drain' # drain
      <4>1. drain'.at = "loop" /\ drain'.cur = <<>> /\ Elems(drain'.cur) = {}
        BY <1>2, <3>3, DrainsMade, ElemsFew
      <4> QED
        BY <4>1 DEF DrainShaped
    <3> QED
      BY <3>2, <3>3
  <2>5. Cutoffs'
    <3>1. \A b \in Elems(callbacks') : b.cutoff \in Nat
      BY <1>2, CallbacksTyped
    <3>3. ASSUME NEW k \in Nat, drain'.force, k = drain'.cutoff PROVE CutoffHolds(k)'
      <4>1. CASE drain' = drain
        BY <2>2, <3>3, <4>1 DEF QueueInv, Cutoffs
      <4>2. CASE op.wait /\ batch.token # 0 /\ drain'.cutoff = op.seq
        <5>1. k = op.seq /\ CutoffHolds(op.seq)'
          BY <2>2, <3>3, <4>2
        <5> QED
          BY <5>1
      <4> QED
        BY <1>2, <3>3, <4>1, <4>2
    <3>4. ASSUME NEW b \in Elems(callbacks'), b.force PROVE CutoffHolds(b.cutoff)'
      <4>1. CASE b \in Elems(callbacks)
        BY <2>2, <3>1, <3>4, <4>1 DEF QueueInv, Cutoffs
      <4>2. CASE b \notin Elems(callbacks)
        BY <1>2, <2>2, <3>4, <4>2
      <4> QED
        BY <4>1, <4>2
    <3> QED
      BY <1>2, <3>3, <3>4, CutoffsMade
  <2>6. Scheduled'
    <3> SUFFICES ASSUME scheduled'
                 PROVE  (\E b \in Elems(callbacks') : ~b.force) \/ (Running' /\ ~drain'.force)
      BY DEF Scheduled
    <3>1. CASE scheduled
      <4>1. CASE drain' = drain
        BY <1>2, <3>1, <4>1 DEF QueueInv, Scheduled, Running
      <4>2. CASE drain = NoDrain
        BY <1>2, <3>1, <4>2, DrainsMade DEF QueueInv, Scheduled, Running
      <4> QED
        BY <1>2, <4>1, <4>2
    <3>2. CASE ~scheduled
      BY <1>2, <3>2
    <3> QED
      BY <3>1, <3>2
  <2>7. Covered'
    <3> SUFFICES ASSUME ~(build.inline /\ build.deferred), NEW p \in Elems(queue')
                 PROVE  \/ scheduled'
                        \/ batch.token # 0
                        \/ Running' /\ ~drain'.force
                        \/ Running' /\ build.inline /\ p.seq <= drain'.cutoff
      BY DEF Covered
    <3>1. CASE batch.token # 0 \/ scheduled' \/ (drain'.at = "loop" /\ ~drain'.force)
      BY <3>1 DEF Running
    <3> QED
      BY <1>2, <3>1
  <2> QED
    BY <2>2, <2>3, <2>4, <2>5, <2>6, <2>7 DEF QueueInv
<1>3. CASE SubmitOffThread(op)
  <2>1. Enqueue(op) /\ UNCHANGED drain
    BY <1>3 DEF SubmitOffThread
  <2>2. drain.at = "off" => ~drain.force
    BY DEF QueueInv, DrainShaped
  <2>3. \/ /\ batch.token # 0 /\ op.wait
           /\ callbacks' = Append(callbacks, [force |-> TRUE, cutoff |-> op.seq])
           /\ UNCHANGED scheduled
        \/ /\ batch.token = 0 /\ ~scheduled /\ scheduled' = TRUE
           /\ callbacks' = Append(callbacks, [force |-> FALSE, cutoff |-> 0])
        \/ /\ batch.token # 0 \/ scheduled
           /\ UNCHANGED <<scheduled, callbacks>>
    BY <1>3 DEF SubmitOffThread
  <2>4. /\ [force |-> TRUE, cutoff |-> op.seq] \in Callbacks
        /\ [force |-> FALSE, cutoff |-> 0] \in Callbacks
    BY <1>t DEF Callbacks
  <2>5. /\ callbacks' \in Seq(Callbacks) /\ scheduled' \in BOOLEAN
        /\ Elems(callbacks) \subseteq Elems(callbacks')
        /\ \A b \in Elems(callbacks') \ Elems(callbacks) :
             b.force => op.wait /\ batch.token # 0 /\ b.cutoff = op.seq
        /\ scheduled' => scheduled \/ \E b \in Elems(callbacks') : ~b.force
        /\ scheduled => scheduled'
        /\ batch.token # 0 \/ scheduled'
    <3>1. ASSUME NEW b \in Callbacks, callbacks' = Append(callbacks, b)
          PROVE  callbacks' \in Seq(Callbacks) /\ Elems(callbacks') = Elems(callbacks) \cup {b}
      BY <1>t, <3>1, ElemsAppend
    <3>2. CASE /\ batch.token # 0 /\ op.wait /\ UNCHANGED scheduled
               /\ callbacks' = Append(callbacks, [force |-> TRUE, cutoff |-> op.seq])
      <4>1. PICK b \in Callbacks : b = [force |-> TRUE, cutoff |-> op.seq]
        BY <2>4
      <4>2. b.cutoff = op.seq
        BY <4>1
      <4>3. callbacks' \in Seq(Callbacks) /\ Elems(callbacks') = Elems(callbacks) \cup {b}
        BY <3>1, <3>2, <4>1
      <4> QED
        BY <1>t, <3>2, <4>2, <4>3
    <3>3. CASE /\ batch.token = 0 /\ ~scheduled /\ scheduled' = TRUE
               /\ callbacks' = Append(callbacks, [force |-> FALSE, cutoff |-> 0])
      <4>1. PICK b \in Callbacks : b = [force |-> FALSE, cutoff |-> 0]
        BY <2>4
      <4>2. b.force = FALSE
        BY <4>1
      <4>3. callbacks' \in Seq(Callbacks) /\ Elems(callbacks') = Elems(callbacks) \cup {b}
        BY <3>1, <3>3, <4>1
      <4> QED
        BY <1>t, <3>3, <4>2, <4>3
    <3>4. CASE (batch.token # 0 \/ scheduled) /\ UNCHANGED <<scheduled, callbacks>>
      BY <1>t, <3>4
    <3> QED
      BY <2>3, <3>2, <3>3, <3>4
  <2> QED
    BY <1>2, <1>t, <2>1, <2>2, <2>5
<1>4. CASE SubmitInline(op)
  <2>1. /\ Enqueue(op) /\ UNCHANGED <<scheduled, callbacks>> /\ build.inline /\ drain = NoDrain
        /\ ~AtOnce(op.kind)
    BY <1>4 DEF SubmitInline, OnRenderThread, Fresh
  <2>2. \/ batch.token # 0 /\ op.wait /\ drain' = ForcedDrain(op.seq)
        \/ batch.token # 0 /\ drain' = drain
        \/ batch.token = 0 /\ drain' = NormalDrain
        \/ batch.token = 0 /\ op.kind # "readAsync" /\ drain' = drain
    BY <1>4 DEF SubmitInline
  <2>3. batch.token = 0 /\ op.kind # "readAsync" => build.deferred
    BY <2>1 DEF AtOnce
  <2>4. /\ drain.at = "off" /\ ~drain.force /\ drain.held = <<>> /\ drain.cur = <<>>
        /\ NormalDrain # drain /\ \A k \in Nat : ForcedDrain(k) # drain
    BY <2>1, DrainsMade
  <2> QED
    BY <1>2, <1>t, <2>1, <2>2, <2>3, <2>4, DrainsMade
<1> QED
  BY <1>1, <1>3, <1>4 DEF Submit

-----------------------------------------------------------------------------
(* Batches, and the drain. *)

\* Steps beside the queue.
LEMMA QueueCalm ==
  ASSUME QueueInv,
         UNCHANGED <<build, queue, lastSeq, scheduled, batch, nextToken, callbacks, drain, split>>
  PROVE  QueueInv' /\ Pending' = Pending
BY DEF QueueInv, QueueTyped, Pending, InLine, DrainShaped, Tokens, Cutoffs, CutoffHolds, Scheduled,
   Covered, Waits, Running

\* What belongs to a batch that is not open any more, or not yet, is nobody's.
LEMMA QueueBegin ==
  ASSUME QueueInv, NEW c \in Callers, BridgeBeginBatch(c)
  PROVE  QueueInv' /\ Pending' = Pending
<1>t. /\ lastSeq \in Nat /\ split \in Nat /\ batch \in Batches /\ batch.token \in Nat
      /\ batch.depth \in Nat /\ nextToken \in Nat \ {0} /\ drain \in Drains
      /\ callbacks \in Seq(Callbacks) /\ Nobody \notin Callers
  BY GpuQueueAssumption DEF QueueInv, QueueTyped, Batches
<1>1. /\ UNCHANGED <<build, queue, lastSeq, scheduled, callbacks, drain>>
      /\ Pending' = Pending
  BY DEF BridgeBeginBatch, Pending
<1>2. /\ batch' \in Batches /\ nextToken' \in Nat \ {0} /\ split' \in Nat /\ batch'.token # 0
      /\ batch'.token < nextToken' /\ split' <= lastSeq /\ batch'.owner # Nobody
      /\ \/ split' = split /\ batch'.token = batch.token /\ batch'.owner = batch.owner
         \/ \A p \in Pending : p.token # batch'.token
      /\ \A p \in Pending : p.token < nextToken'
  <2>0. \A p \in Pending : p.token \in Nat /\ p.token < nextToken
    BY PendingTyped DEF QueueInv, Tokens
  <2>1. CASE /\ batch.token = 0 /\ batch' = [token |-> nextToken, depth |-> 1, owner |-> c]
             /\ nextToken' = nextToken + 1 /\ split' = 0
    <3>1. batch' \in Batches /\ batch'.token = nextToken /\ batch'.owner = c
      BY <1>t, <2>1 DEF Batches
    <3> QED
      BY <1>t, <2>0, <2>1, <3>1
  <2>2. CASE /\ batch.owner = c /\ batch' = [batch EXCEPT !.depth = @ + 1]
             /\ UNCHANGED <<nextToken, split>>
    <3>1. /\ batch' \in Batches /\ batch'.token = batch.token /\ batch'.owner = batch.owner
      BY <1>t, <2>2 DEF Batches
    <3>2. batch.token # 0 /\ batch.token < nextToken /\ split <= lastSeq
      BY <1>t, <2>2 DEF QueueInv, Tokens
    <3> QED
      BY <1>t, <2>0, <2>2, <3>1, <3>2
  <2> QED
    BY <2>1, <2>2 DEF BridgeBeginBatch
<1>3. Tokens'
  <2>1. \A p \in Pending : p.token = 0 <=> p.gate = Nobody
    BY DEF QueueInv, Tokens
  <2>2. \A p \in Pending : p.token = batch'.token => p.gate = batch'.owner
    BY <1>2 DEF QueueInv, Tokens
  <2>3. \A p \in Elems(drain.cur) \cup Elems(drain.held) : p.token = batch'.token => p.seq <= split'
    BY <1>2 DEF QueueInv, Tokens, Pending
  <2> QED
    BY <1>1, <1>2, <2>1, <2>2, <2>3 DEF Tokens
<1>4. ASSUME NEW k \in Nat, CutoffHolds(k) PROVE CutoffHolds(k)'
  <2>1. k <= split' \/ \A p \in Pending : p.token = batch'.token => p.seq > k
    BY <1>2, <1>4 DEF CutoffHolds
  <2> QED
    BY <1>1, <1>4, <2>1 DEF CutoffHolds
<1>5. Cutoffs'
  <2>1. \A b \in Elems(callbacks) : b.force => CutoffHolds(b.cutoff)'
    BY <1>t, <1>4, CallbacksTyped DEF QueueInv, Cutoffs
  <2>2. \A k \in Nat : drain.force /\ k = drain.cutoff => CutoffHolds(k)'
    BY <1>4 DEF QueueInv, Cutoffs
  <2> QED
    BY <1>t, <1>1, <2>1, <2>2, CutoffsMade
<1>6. QueueTyped'
  BY <1>1, <1>2 DEF QueueInv, QueueTyped
<1>7. InLine' /\ DrainShaped' /\ Scheduled' /\ Waits'
  BY <1>1 DEF QueueInv, InLine, DrainShaped, Scheduled, Waits, Running
<1>8. Covered'
  BY <1>2 DEF Covered
<1> QED
  BY <1>1, <1>3, <1>5, <1>6, <1>7, <1>8 DEF QueueInv

\* The end of a batch has what it held back drained.
LEMMA QueueEnd ==
  ASSUME QueueInv, NEW c \in Callers, BridgeEndBatch(c)
  PROVE  QueueInv' /\ Pending' = Pending
<1>t. /\ queue \in Seq(Operations)
      /\ lastSeq \in Nat /\ split \in Nat /\ batch \in Batches /\ batch.token \in Nat
      /\ batch.depth \in Nat /\ nextToken \in Nat \ {0} /\ drain \in Drains
      /\ callbacks \in Seq(Callbacks) /\ scheduled \in BOOLEAN
      /\ build \in [inline : BOOLEAN, deferred : BOOLEAN]
  BY DEF QueueInv, QueueTyped, Batches
<1>1. UNCHANGED <<build, queue, lastSeq, nextToken, split>>
  BY DEF BridgeEndBatch
<1>2. CASE batch.depth > 1
  <2>1. /\ batch' = [batch EXCEPT !.depth = @ - 1]
        /\ UNCHANGED <<scheduled, callbacks, drain>>
    BY <1>2 DEF BridgeEndBatch
  <2>2. batch' \in Batches /\ batch'.token = batch.token /\ batch'.owner = batch.owner
    BY <1>t, <1>2, <2>1 DEF Batches
  <2>3. Pending' = Pending
    BY <1>1, <2>1 DEF Pending
  <2> QED
    BY <1>1, <2>1, <2>2, <2>3 DEF QueueInv, QueueTyped, InLine, DrainShaped, Tokens, Cutoffs,
       CutoffHolds, Scheduled, Covered, Waits, Running
<1>3. CASE ~(batch.depth > 1)
  <2>1. /\ batch' = NoBatch /\ batch' \in Batches /\ batch'.token = 0 /\ batch'.owner = Nobody
    BY <1>3 DEF BridgeEndBatch, NoBatch, Batches
  <2>2. /\ \/ /\ queue # <<>> /\ ~OnRenderThread(c) /\ ~scheduled /\ scheduled' = TRUE
              /\ callbacks' = Append(callbacks, [force |-> FALSE, cutoff |-> 0])
           \/ /\ queue = <<>> \/ OnRenderThread(c) \/ scheduled
              /\ UNCHANGED <<scheduled, callbacks>>
        /\ \/ queue # <<>> /\ OnRenderThread(c) /\ drain' = ForcedDrain(lastSeq)
           \/ (queue = <<>> \/ ~OnRenderThread(c)) /\ drain' = drain
    BY <1>3 DEF BridgeEndBatch
  <2>3. OnRenderThread(c) => drain = NoDrain /\ build.inline
    BY DEF BridgeEndBatch, Idle, OnRenderThread
  <2>4. /\ drain' \in Drains /\ drain'.held = drain.held /\ drain'.cur = drain.cur
        /\ drain' = drain \/ (build.inline /\ drain'.at = "loop" /\ drain'.cutoff = lastSeq
                              /\ drain = NoDrain /\ queue # <<>>)
    BY <1>t, <2>2, <2>3, DrainsMade
  <2>5. Pending' = Pending
    BY <1>1, <2>4 DEF Pending
  <2>6. /\ callbacks' \in Seq(Callbacks) /\ scheduled' \in BOOLEAN
        /\ \A b \in Elems(callbacks') : b.force => b \in Elems(callbacks)
        /\ \A b \in Elems(callbacks) : b \in Elems(callbacks')
        /\ scheduled' /\ ~scheduled => \E b \in Elems(callbacks') : ~b.force
        /\ scheduled => scheduled'
    <3>0. [force |-> FALSE, cutoff |-> 0] \in Callbacks
      BY DEF Callbacks
    <3>1. PICK n \in Callbacks : n = [force |-> FALSE, cutoff |-> 0]
      BY <3>0
    <3>2. n.force = FALSE
      BY <3>1
    <3>3. /\ Append(callbacks, n) \in Seq(Callbacks)
          /\ Elems(Append(callbacks, n)) = Elems(callbacks) \cup {n}
      BY <1>t, ElemsAppend
    <3>4. CASE /\ ~scheduled /\ scheduled' = TRUE
               /\ callbacks' = Append(callbacks, [force |-> FALSE, cutoff |-> 0])
      <4>1. callbacks' = Append(callbacks, n)
        BY <3>1, <3>4
      <4>2. callbacks' \in Seq(Callbacks) /\ Elems(callbacks') = Elems(callbacks) \cup {n}
        BY <3>3, <4>1
      <4> QED
        BY <3>2, <3>4, <4>2
    <3>5. CASE UNCHANGED <<scheduled, callbacks>>
      BY <1>t, <3>5
    <3> QED
      BY <2>2, <3>4, <3>5
  <2>7. QueueTyped' /\ InLine' /\ Waits'
    BY <1>1, <1>t, <2>1, <2>4, <2>5, <2>6 DEF QueueInv, QueueTyped, InLine, Waits
  <2>8. DrainShaped'
    <3>1. CASE drain' = drain
      BY <1>1, <2>5, <3>1 DEF QueueInv, DrainShaped
    <3>2. CASE drain'.at = "loop" /\ drain = NoDrain
      <4>1. drain'.cur = <<>> /\ Elems(drain'.cur) = {}
        BY <2>4, <3>2, DrainsMade, ElemsFew
      <4> QED
        BY <3>2, <4>1 DEF DrainShaped
    <3> QED
      BY <2>4, <3>1, <3>2
  <2>9. Tokens'
    <3>1. split <= lastSeq /\ 0 < nextToken
      BY <1>t DEF QueueInv, Tokens
    <3>2. \A p \in Pending : p.token < nextToken /\ (p.token = 0 <=> p.gate = Nobody)
      BY DEF QueueInv, Tokens
    <3> QED
      BY <1>1, <2>1, <2>5, <3>1, <3>2 DEF Tokens
  <2>10. Cutoffs'
    <3>1. \A k \in Nat : CutoffHolds(k) => CutoffHolds(k)'
      BY <1>1, <2>1, <2>5 DEF CutoffHolds
    <3>2. \A b \in Elems(callbacks') : b.force => CutoffHolds(b.cutoff)'
      BY <2>6, <3>1, CallbacksTyped DEF QueueInv, Cutoffs
    <3>3. ASSUME NEW k \in Nat, drain'.force, k = drain'.cutoff PROVE CutoffHolds(k)'
      <4>1. CASE drain' = drain
        BY <3>1, <3>3, <4>1 DEF QueueInv, Cutoffs
      <4>2. CASE build.inline /\ drain'.cutoff = lastSeq /\ queue # <<>>
        <5>1. 0 < lastSeq
          <6>1. Head(queue) \in Pending
            BY <1>t, <4>2, ElemsTail DEF Pending
          <6>2. PICK h \in Pending : h = Head(queue)
            BY <6>1
          <6>3. h.seq \in Nat /\ 0 < h.seq /\ h.seq <= lastSeq
            BY PendingTyped DEF QueueInv, InLine
          <6> QED
            BY <1>t, <6>3
        <5> QED
          BY <1>1, <1>t, <2>1, <3>3, <4>2, <5>1 DEF CutoffHolds
      <4> QED
        BY <2>4, <4>1, <4>2
    <3> QED
      BY <2>4, <2>6, <3>2, <3>3, CutoffsMade
  <2>11. Scheduled'
    <3> SUFFICES ASSUME scheduled'
                 PROVE  (\E b \in Elems(callbacks') : ~b.force) \/ (Running' /\ ~drain'.force)
      BY DEF Scheduled
    <3>1. CASE ~scheduled
      BY <2>6, <3>1
    <3>2. CASE scheduled /\ \E b \in Elems(callbacks) : ~b.force
      BY <2>6, <3>2
    <3>3. CASE Running /\ ~drain.force
      BY <2>4, <3>3, DrainsMade DEF Running
    <3> QED
      BY <3>1, <3>2, <3>3 DEF QueueInv, Scheduled
  <2>12. Covered'
    <3>1. ASSUME NEW p \in Elems(queue')
          PROVE  scheduled' \/ (Running' /\ build.inline /\ p.seq <= drain'.cutoff)
      <4>1. p \in Pending /\ queue # <<>>
        BY <1>1, ElemsFew DEF Pending
      <4>2. p.seq <= lastSeq
        BY <4>1 DEF QueueInv, InLine
      <4>3. CASE OnRenderThread(c)
        BY <1>t, <2>2, <2>3, <4>1, <4>2, <4>3, DrainsMade DEF Running
      <4>4. CASE ~OnRenderThread(c)
        BY <2>2, <4>1, <4>4
      <4> QED
        BY <4>3, <4>4
    <3> QED
      BY <1>1, <3>1 DEF Covered
  <2> QED
    BY <2>5, <2>7, <2>8, <2>9, <2>10, <2>11, <2>12 DEF QueueInv
<1> QED
  BY <1>2, <1>3

\* A posted callback begins the drain it is for.
LEMMA QueueCallback ==
  ASSUME QueueInv, RunCallback
  PROVE  QueueInv' /\ Pending' = Pending
<1>t. /\ callbacks \in Seq(Callbacks) /\ callbacks # <<>> /\ drain = NoDrain
      /\ UNCHANGED <<build, queue, lastSeq, scheduled, batch, nextToken, split>>
      /\ callbacks' = Tail(callbacks)
      /\ drain' = IF Head(callbacks).force THEN ForcedDrain(Head(callbacks).cutoff)
                  ELSE NormalDrain
  BY DEF QueueInv, QueueTyped, RunCallback
<1>1. /\ callbacks' \in Seq(Callbacks)
      /\ Elems(callbacks) = {Head(callbacks)} \cup Elems(callbacks')
      /\ Head(callbacks) \in Elems(callbacks)
  BY <1>t, ElemsTail
<1>2. PICK h \in Elems(callbacks) : h = Head(callbacks)
  BY <1>1
<1>3. h.cutoff \in Nat /\ h.force \in BOOLEAN
  BY <1>t, CallbacksTyped
<1>4. /\ h.force => drain' = ForcedDrain(h.cutoff)
      /\ ~h.force => drain' = NormalDrain
  BY <1>t, <1>2
<1>5. /\ drain' \in Drains /\ drain'.at = "loop" /\ drain'.held = <<>> /\ drain'.cur = <<>>
      /\ drain'.force => h.force /\ drain'.cutoff = h.cutoff
      /\ ~h.force => ~drain'.force
  BY <1>3, <1>4, DrainsMade
<1>6. drain.held = <<>> /\ drain.cur = <<>> /\ drain.at = "off"
  BY <1>t, DrainsMade
<1>7. Pending' = Pending
  BY <1>t, <1>5, <1>6 DEF Pending
<1>8. QueueTyped' /\ Waits' /\ Tokens'
  BY <1>t, <1>1, <1>5, <1>6, <1>7 DEF QueueInv, QueueTyped, Waits, Tokens
<1>9. InLine' /\ DrainShaped'
  BY <1>t, <1>5, <1>6, <1>7, ElemsFew DEF QueueInv, InLine, DrainShaped
<1>10. Cutoffs'
  <2>1. \A k \in Nat : CutoffHolds(k) => CutoffHolds(k)'
    BY <1>t, <1>7 DEF CutoffHolds
  <2>2. \A b \in Elems(callbacks') : b.force => CutoffHolds(b.cutoff)'
    BY <1>t, <1>1, <2>1, CallbacksTyped DEF QueueInv, Cutoffs
  <2>3. ASSUME NEW k \in Nat, drain'.force, k = drain'.cutoff PROVE CutoffHolds(k)'
    <3>1. CutoffHolds(h.cutoff) /\ k = h.cutoff
      BY <1>5, <2>3 DEF QueueInv, Cutoffs
    <3> QED
      BY <2>1, <3>1
  <2> QED
    BY <1>1, <1>5, <2>2, <2>3, CutoffsMade
<1>11. Scheduled'
  <2> SUFFICES ASSUME scheduled
               PROVE  (\E b \in Elems(callbacks') : ~b.force) \/ ~drain'.force
    BY <1>t, <1>5 DEF Scheduled, Running
  <2>1. PICK b \in Elems(callbacks) : ~b.force
    BY <1>6 DEF QueueInv, Scheduled, Running
  <2>2. CASE b = h
    BY <1>5, <2>1, <2>2
  <2>3. CASE b \in Elems(callbacks')
    BY <2>1, <2>3
  <2> QED
    BY <1>1, <1>2, <2>2, <2>3
<1>12. Covered'
  BY <1>t, <1>6 DEF QueueInv, Covered, Running
<1> QED
  BY <1>7, <1>8, <1>9, <1>10, <1>11, <1>12 DEF QueueInv

\* An operation leaves the queue in its turn, and none of an open batch leaves it that
\* nobody waits behind.
LEMMA QueuePop ==
  ASSUME QueueInv, DrainPop
  PROVE  QueueInv' /\ Pending' = Pending
<1>t. /\ queue \in Seq(Operations) /\ queue # <<>> /\ drain \in Drains /\ drain.at = "loop"
      /\ drain.held \in Seq(Operations) /\ drain.cur = <<>> /\ drain.force \in BOOLEAN
      /\ drain.cutoff \in Nat /\ split \in Nat
      /\ ~GateShut /\ ~BeyondCutoff /\ queue' = Tail(queue)
      /\ UNCHANGED <<build, lastSeq, scheduled, batch, nextToken, callbacks, split>>
  BY DEF QueueInv, QueueTyped, DrainShaped, DrainPop, Drains
<1>1. /\ queue' \in Seq(Operations) /\ Head(queue) \in Operations
      /\ Elems(queue) = {Head(queue)} \cup Elems(queue')
      /\ InOrder(queue') /\ \A p \in Elems(queue') : Head(queue).seq < p.seq
  BY <1>t, ElemsTail, OrderTail DEF QueueInv, InLine
<1>2. PICK op \in Operations : op = Head(queue)
  BY <1>1
<1>3. /\ op \in Elems(queue) /\ op \in Pending /\ op.seq \in Nat
      /\ Elems(queue) = {op} \cup Elems(queue') /\ \A p \in Elems(queue') : op.seq < p.seq
      /\ \A p \in Elems(queue') : p.seq \in Nat
  BY <1>1, <1>2, PendingTyped DEF QueueInv, Pending
<1>4. \/ /\ drain' = [drain EXCEPT !.held = Append(@, op)]
      \/ /\ drain' = [drain EXCEPT !.cur = <<op>>, !.at = "run"]
  BY <1>2 DEF DrainPop
<1>5. /\ drain' \in Drains /\ drain'.force = drain.force /\ drain'.cutoff = drain.cutoff
      /\ \/ /\ drain'.at = "loop" /\ Elems(drain'.held) = Elems(drain.held) \cup {op}
            /\ drain'.cur = <<>> /\ Elems(drain'.cur) = {}
         \/ /\ drain'.at = "run" /\ drain'.held = drain.held
            /\ drain'.cur = <<op>> /\ Elems(drain'.cur) = {op}
  <2>1. CASE drain' = [drain EXCEPT !.held = Append(@, op)]
    <3>1. Append(drain.held, op) \in Seq(Operations)
          /\ Elems(Append(drain.held, op)) = Elems(drain.held) \cup {op}
      BY <1>t, ElemsAppend
    <3> QED
      BY <1>t, <2>1, <3>1, ElemsFew DEF Drains
  <2>2. CASE drain' = [drain EXCEPT !.cur = <<op>>, !.at = "run"]
    <3>1. <<op>> \in Seq(Operations) /\ Elems(<<op>>) = {op}
      BY ElemsFew
    <3> QED
      BY <1>t, <2>2, <3>1 DEF Drains
  <2> QED
    BY <1>4, <2>1, <2>2
<1>6. Pending' = Pending
  BY <1>t, <1>3, <1>5, ElemsFew DEF Pending
<1>7. QueueTyped' /\ Waits'
  BY <1>t, <1>1, <1>5, <1>6 DEF QueueInv, QueueTyped, Waits
<1>8. InLine'
  <2>1. \A p \in Pending : 0 < p.seq /\ p.seq <= lastSeq
    BY DEF QueueInv, InLine
  <2>2. \A h \in Elems(drain.held), p \in Elems(queue) : h.seq < p.seq
    BY DEF QueueInv, InLine
  <2> QED
    BY <1>t, <1>1, <1>3, <1>5, <1>6, <2>1, <2>2, ElemsFew DEF InLine
<1>9. drain.force => op.seq <= drain.cutoff
  <2>1. ASSUME drain.force PROVE op.seq <= drain.cutoff
    <3>1. 0 < drain.cutoff
      BY <2>1 DEF QueueInv, Cutoffs, CutoffHolds
    <3> QED
      BY <1>t, <1>2, <1>3, <2>1, <3>1 DEF BeyondCutoff
  <2> QED
    BY <2>1
<1>10. DrainShaped'
  <2>1. ASSUME drain.force, ~build.inline
        PROVE  op.wait \/ \E p \in Elems(queue') : p.seq = drain.cutoff
    <3>1. PICK p \in Elems(queue) : p.seq = drain.cutoff /\ p.wait
      BY <1>9, <1>3, <2>1, <1>t DEF QueueInv, Cutoffs, CutoffHolds
    <3> QED
      BY <1>3, <3>1
  <2>2. CASE drain'.at = "loop"
    BY <1>5, <2>2 DEF DrainShaped
  <2>3. CASE drain'.at = "run"
    <3>1. op \in Pending' /\ drain'.cur = <<op>> /\ Elems(drain'.cur) = {op}
      BY <1>3, <1>5, <1>6, <2>3
    <3>2. UNCHANGED build
      BY <1>t
    <3> QED
      BY <1>5, <2>1, <2>3, <3>1, <3>2 DEF DrainShaped
  <2> QED
    BY <1>5, <2>2, <2>3
<1>11. Tokens'
  <2>1. ASSUME batch.token # 0, op.token = batch.token PROVE op.seq <= split
    <3>1. drain.force
      BY <1>t, <2>1 DEF GateShut
    <3>2. drain.cutoff <= split
      BY <1>3, <1>9, <1>t, <2>1, <3>1 DEF QueueInv, Cutoffs, CutoffHolds
    <3> QED
      BY <1>3, <1>9, <1>t, <3>1, <3>2
  <2>2. Elems(drain'.cur) \cup Elems(drain'.held) \subseteq Elems(drain.held) \cup {op}
    BY <1>5
  <2> QED
    BY <1>t, <1>6, <2>1, <2>2 DEF QueueInv, Tokens
<1>12. Cutoffs'
  <2>1. ASSUME NEW k \in Nat, CutoffHolds(k) PROVE CutoffHolds(k)'
    <3>1. \/ build.inline
          \/ \E p \in Elems(queue') : p.seq = k /\ p.wait
          \/ \A p \in Elems(queue') : p.seq > k
      BY <1>3, <2>1 DEF CutoffHolds
    <3> QED
      BY <1>t, <1>6, <2>1, <3>1 DEF CutoffHolds
  <2>2. \A b \in Elems(callbacks) : b.force => CutoffHolds(b.cutoff)'
    BY <2>1, CallbacksTyped DEF QueueInv, QueueTyped, Cutoffs
  <2>3. \A k \in Nat : drain'.force /\ k = drain'.cutoff => CutoffHolds(k)'
    BY <1>5, <2>1 DEF QueueInv, Cutoffs
  <2>4. callbacks' \in Seq(Callbacks)
    BY <1>7 DEF QueueTyped
  <2> QED
    BY <1>t, <1>5, <2>2, <2>3, <2>4, CutoffsMade
<1>13. Scheduled'
  BY <1>t, <1>5 DEF QueueInv, Scheduled, Running
<1>14. Covered'
  BY <1>t, <1>3, <1>5 DEF QueueInv, Covered, Running
<1> QED
  BY <1>6, <1>7, <1>8, <1>10, <1>11, <1>12, <1>13, <1>14 DEF QueueInv

\* A drain that leaves its loop took everything, met a shut gate, or got to its cutoff.
LEMMA QueueStop ==
  ASSUME QueueInv, DrainStop
  PROVE  QueueInv' /\ Pending' = Pending
<1>t. /\ queue \in Seq(Operations) /\ drain \in Drains /\ drain.at = "loop"
      /\ drain.force \in BOOLEAN /\ drain.cutoff \in Nat /\ scheduled \in BOOLEAN
      /\ drain.cur = <<>>
      /\ queue = <<>> \/ GateShut \/ BeyondCutoff
      /\ scheduled' = (scheduled /\ drain.force)
      /\ drain' = [drain EXCEPT !.at = "stop"]
      /\ UNCHANGED <<build, queue, lastSeq, batch, nextToken, callbacks, split>>
  BY DEF QueueInv, QueueTyped, DrainShaped, DrainStop, Drains
<1>1. /\ drain' \in Drains /\ drain'.at = "stop" /\ drain'.force = drain.force
      /\ drain'.cutoff = drain.cutoff /\ drain'.held = drain.held /\ drain'.cur = drain.cur
  BY <1>t DEF Drains
<1>2. Pending' = Pending
  BY <1>t, <1>1 DEF Pending
<1>3. QueueTyped' /\ Waits' /\ Tokens' /\ InLine'
  <2>1. scheduled' \in BOOLEAN
    BY <1>t
  <2> QED
    BY <1>t, <1>1, <1>2, <2>1 DEF QueueInv, QueueTyped, Waits, Tokens, InLine
<1>4. DrainShaped'
  BY <1>t, <1>1, ElemsFew DEF DrainShaped
<1>5. Cutoffs'
  BY <1>t, <1>1, <1>2 DEF QueueInv, Cutoffs, CutoffHolds
<1>6. Scheduled'
  <2> SUFFICES ASSUME scheduled, drain.force PROVE \E b \in Elems(callbacks) : ~b.force
    BY <1>t DEF Scheduled
  <2> QED
    BY DEF QueueInv, Scheduled
<1>7. Covered'
  <2> SUFFICES ASSUME ~(build.inline /\ build.deferred), NEW p \in Elems(queue)
               PROVE  scheduled' \/ batch.token # 0
    BY <1>t DEF Covered
  <2>1. queue # <<>>
    BY ElemsFew
  <2>2. CASE ~drain.force
    BY <1>t, <2>1, <2>2 DEF GateShut, BeyondCutoff
  <2>3. CASE drain.force
    <3>1. BeyondCutoff
      BY <1>t, <2>1, <2>3 DEF GateShut
    <3>2. PICK h \in Operations : h = Head(queue)
      BY <1>t, <2>1, ElemsTail
    <3>3. h.seq > drain.cutoff /\ h.seq \in Nat
      BY <3>1, <3>2 DEF BeyondCutoff, Operations
    <3>4. p = h \/ h.seq < p.seq
      BY <1>t, <2>1, <3>2, ElemsTail, OrderTail DEF QueueInv, InLine
    <3>5. p.seq \in Nat
      BY PendingTyped DEF QueueInv, Pending
    <3>6. ~(p.seq <= drain.cutoff)
      BY <1>t, <3>3, <3>4, <3>5
    <3> QED
      BY <1>t, <2>3, <3>6 DEF QueueInv, Covered
  <2> QED
    BY <2>2, <2>3
<1> QED
  BY <1>2, <1>3, <1>4, <1>5, <1>6, <1>7 DEF QueueInv

\* A drain that runs what it holds leaves the queue as it was.
LEMMA QueueLess ==
  ASSUME QueueInv,
         UNCHANGED <<build, queue, lastSeq, scheduled, batch, nextToken, callbacks, split>>,
         drain' \in Drains, drain'.force => drain.force /\ drain'.cutoff = drain.cutoff,
         drain'.held = drain.held \/ drain'.held = <<>>,
         drain'.cur = drain.cur \/ drain'.cur = <<>>,
         Running => Running' /\ drain'.force = drain.force /\ drain'.cutoff = drain.cutoff,
         DrainShaped'
  PROVE  QueueInv' /\ Pending' \subseteq Pending
<1>1. /\ Elems(drain'.held) \subseteq Elems(drain.held)
      /\ Elems(drain'.cur) \subseteq Elems(drain.cur)
  BY ElemsFew
<1>2. Pending' \subseteq Pending
  BY <1>1 DEF Pending
<1>3. QueueTyped' /\ Waits' /\ Tokens' /\ InLine'
  BY <1>1, <1>2 DEF QueueInv, QueueTyped, Waits, Tokens, InLine
<1>4. Cutoffs'
  <2>1. \A k \in Nat : CutoffHolds(k) => CutoffHolds(k)'
    BY <1>2 DEF CutoffHolds
  <2>2. \A b \in Elems(callbacks) : b.force => CutoffHolds(b.cutoff)'
    BY <2>1, CallbacksTyped DEF QueueInv, QueueTyped, Cutoffs
  <2>3. \A k \in Nat : drain'.force /\ k = drain'.cutoff => CutoffHolds(k)'
    BY <2>1 DEF QueueInv, Cutoffs
  <2>4. callbacks' \in Seq(Callbacks)
    BY <1>3 DEF QueueTyped
  <2> QED
    BY <2>2, <2>3, <2>4, CutoffsMade
<1>5. Scheduled'
  BY DEF QueueInv, Scheduled
<1>6. Covered'
  BY DEF QueueInv, Covered
<1> QED
  BY <1>2, <1>3, <1>4, <1>5, <1>6 DEF QueueInv

\* The drains a running one becomes.
LEMMA DrainsLess ==
  ASSUME drain \in Drains
  PROVE  /\ [drain EXCEPT !.at = "loop", !.held = <<>>, !.cur = <<>>] \in Drains
         /\ [drain EXCEPT !.at = "retire", !.held = <<>>] \in Drains
         /\ [drain EXCEPT !.at = "loop", !.cur = <<>>] \in Drains
<1>1. <<>> \in Seq(Operations)
  OBVIOUS
<1> QED
  BY <1>1 DEF Drains

\* What ends a drain, and what runs the operation it has taken.
LEMMA QueueRun ==
  ASSUME QueueInv,
         UNCHANGED <<build, queue, lastSeq, scheduled, batch, nextToken, callbacks, split>>,
         \/ drain.at = "stop" /\ drain' = NoDrain
         \/ \E op : Execute(op)
         \/ \E op : /\ drain.at = "run" /\ drain.cur = <<op>> /\ op.kind = "release"
                    /\ drain' = [drain EXCEPT !.at = "retire", !.held = <<>>]
         \/ drain.at = "retire" /\ drain' = [drain EXCEPT !.at = "loop", !.cur = <<>>]
  PROVE  QueueInv' /\ Pending' \subseteq Pending
<1>t. drain \in Drains
  BY DEF QueueInv, QueueTyped
<1>1. CASE drain.at = "stop" /\ drain' = NoDrain
  <2>1. DrainShaped' /\ ~Running
    BY <1>1, DrainsMade, ElemsFew DEF DrainShaped, Running
  <2> QED
    BY <1>1, <2>1, DrainsMade, QueueLess
<1>2. CASE \E op : Execute(op)
  <2>1. /\ drain' \in Drains /\ drain'.at = "loop" /\ drain'.held = <<>> /\ drain'.cur = <<>>
        /\ drain'.force = drain.force /\ drain'.cutoff = drain.cutoff
    BY <1>t, <1>2, DrainsLess DEF Execute, Drains
  <2>2. DrainShaped' /\ Running'
    BY <2>1, ElemsFew DEF DrainShaped, Running
  <2> QED
    BY <2>1, <2>2, QueueLess
<1>3. CASE \E op : /\ drain.at = "run" /\ drain.cur = <<op>> /\ op.kind = "release"
                   /\ drain' = [drain EXCEPT !.at = "retire", !.held = <<>>]
  <2>0. PICK op : /\ drain.at = "run" /\ drain.cur = <<op>> /\ op.kind = "release"
                  /\ drain' = [drain EXCEPT !.at = "retire", !.held = <<>>]
    BY <1>3
  <2>1. /\ drain' \in Drains /\ drain'.at = "retire" /\ drain'.held = <<>>
        /\ drain'.cur = drain.cur
        /\ drain'.force = drain.force /\ drain'.cutoff = drain.cutoff
    BY <1>t, <2>0, DrainsLess DEF Drains
  <2>2. Elems(drain.cur) = {op} /\ op \in Pending' /\ Running'
    BY <2>0, <2>1, ElemsFew DEF Pending, Running
  <2>3. drain.force /\ ~build.inline => op.wait \/ \E p \in Elems(queue) : p.seq = drain.cutoff
    BY <2>0, <2>2 DEF QueueInv, DrainShaped
  <2>4. DrainShaped'
    BY <2>0, <2>1, <2>2, <2>3 DEF DrainShaped
  <2> QED
    BY <2>1, <2>2, <2>4, QueueLess
<1>4. CASE drain.at = "retire" /\ drain' = [drain EXCEPT !.at = "loop", !.cur = <<>>]
  <2>1. /\ drain' \in Drains /\ drain'.at = "loop" /\ drain'.held = drain.held /\ drain'.cur = <<>>
        /\ drain'.force = drain.force /\ drain'.cutoff = drain.cutoff
    BY <1>t, <1>4, DrainsLess DEF Drains
  <2>2. DrainShaped' /\ Running'
    BY <2>1, ElemsFew DEF DrainShaped, Running
  <2> QED
    BY <2>1, <2>2, QueueLess
<1> QED
  BY <1>1, <1>2, <1>3, <1>4

\* A staging surface is released behind what is queued, and is drained with it.
LEMMA QueueStage ==
  ASSUME QueueInv, NEW op, NEW rel, Execute(op), op.kind = "region", ~AtOnce("release"),
         Fresh(rel), ~rel.wait, queue' = Append(queue, rel), lastSeq' = lastSeq + 1,
         UNCHANGED <<build, scheduled, batch, nextToken, callbacks, split>>
  PROVE  QueueInv' /\ Pending' \subseteq Pending \cup {rel}
<1>t. /\ drain \in Drains /\ lastSeq \in Nat /\ rel.seq = lastSeq + 1
      /\ callbacks \in Seq(Callbacks) /\ scheduled \in BOOLEAN
      /\ drain.at = "run" /\ drain.cur = <<op>>
      /\ build \in [inline : BOOLEAN, deferred : BOOLEAN]
  BY DEF QueueInv, QueueTyped, Fresh, Execute
<1>1. /\ drain' \in Drains /\ drain'.at = "loop" /\ drain'.held = <<>> /\ drain'.cur = <<>>
      /\ drain'.force = drain.force /\ drain'.cutoff = drain.cutoff
  BY <1>t, DrainsLess DEF Execute, Drains
<1>2. /\ queue' \in Seq(Operations) /\ lastSeq' \in Nat /\ split' \in Nat
      /\ Elems(queue') = Elems(queue) \cup {rel} /\ Pending' \subseteq Pending \cup {rel}
      /\ InLine' /\ Tokens' /\ Waits'
      /\ \A k \in Nat : CutoffHolds(k) => CutoffHolds(k)'
  BY <1>t, <1>1, Enqueued
<1>3. QueueTyped'
  BY <1>1, <1>2 DEF QueueInv, QueueTyped
<1>4. DrainShaped' /\ Running' /\ Running
  BY <1>t, <1>1, ElemsFew DEF DrainShaped, Running
<1>5. Cutoffs'
  <2>1. \A b \in Elems(callbacks) : b.force => CutoffHolds(b.cutoff)'
    BY <1>t, <1>2, CallbacksTyped DEF QueueInv, Cutoffs
  <2>2. \A k \in Nat : drain'.force /\ k = drain'.cutoff => CutoffHolds(k)'
    BY <1>1, <1>2 DEF QueueInv, Cutoffs
  <2> QED
    BY <1>t, <1>1, <2>1, <2>2, CutoffsMade
<1>6. Scheduled'
  BY <1>1, <1>4 DEF QueueInv, Scheduled
<1>7. Covered'
  <2>1. ASSUME NEW p \in Elems(queue), ~(build.inline /\ build.deferred)
        PROVE  \/ scheduled
               \/ batch.token # 0
               \/ ~drain'.force
               \/ build.inline /\ p.seq <= drain'.cutoff
    BY <1>1, <2>1 DEF QueueInv, Covered
  <2>2. ASSUME ~(build.inline /\ build.deferred)
        PROVE  scheduled \/ batch.token # 0 \/ ~drain'.force
    <3>1. CASE batch.token = 0
      <4>1. build.deferred /\ ~build.inline
        BY <2>2, <3>1 DEF AtOnce
      <4>2. op \in Elems(drain.cur) /\ op \in Pending /\ ~op.wait
        BY <1>t, ElemsFew DEF QueueInv, Waits, Pending
      <4>3. drain.force => \E p \in Elems(queue) : p.seq = drain.cutoff
        BY <4>1, <4>2 DEF QueueInv, DrainShaped
      <4> QED
        BY <1>1, <2>1, <2>2, <3>1, <4>1, <4>3
    <3> QED
      BY <3>1
  <2>3. UNCHANGED <<build, batch>>
    OBVIOUS
  <2> QED
    BY <1>2, <1>4, <2>1, <2>2, <2>3 DEF Covered
<1> QED
  BY <1>2, <1>3, <1>4, <1>5, <1>6, <1>7 DEF QueueInv

-----------------------------------------------------------------------------
(* The order of the queue, in every step. *)

\* The steps of the queue, whoever takes them.
Submits == \E op : /\ Fresh(op) /\ Submit(op) /\ UNCHANGED <<build, batch, nextToken>>

Rests ==
  UNCHANGED <<build, queue, lastSeq, scheduled, batch, nextToken, callbacks, drain, split>>

Runs ==
  /\ UNCHANGED <<build, queue, lastSeq, scheduled, batch, nextToken, callbacks, split>>
  /\ \/ drain.at = "stop" /\ drain' = NoDrain
     \/ \E op : Execute(op)
     \/ \E op : /\ drain.at = "run" /\ drain.cur = <<op>> /\ op.kind = "release" /\ op.keep
                /\ drain' = [drain EXCEPT !.at = "retire", !.held = <<>>]
     \/ drain.at = "retire" /\ drain' = [drain EXCEPT !.at = "loop", !.cur = <<>>]

Stages ==
  \E op, rel :
    /\ Execute(op) /\ op.kind = "region" /\ ~AtOnce("release")
    /\ Fresh(rel) /\ ~rel.wait /\ rel.kind = "release" /\ rel.by = Nobody /\ rel.src = {}
    /\ queue' = Append(queue, rel) /\ lastSeq' = lastSeq + 1
    /\ UNCHANGED <<build, scheduled, batch, nextToken, callbacks, split>>

\* An operation made by a caller that can start a call.
LEMMA FreshMade ==
  ASSUME QueueTyped, NEW c \in Callers, Idle(c), NEW kind \in Kinds,
         NEW dst \in TextureRids \cup {NoRid}, NEW src \in SUBSET TextureRids,
         NEW keep \in BOOLEAN, NEW wait \in BOOLEAN, kind = "region" => ~wait
  PROVE  Fresh(NewOp(c, kind, dst, src, keep, wait))
<1>1. batch.token \in Nat /\ batch.owner \in Callers \cup {Nobody} /\ lastSeq + 1 \in Nat
  BY DEF QueueTyped, Batches
<1>2. NewOp(c, kind, dst, src, keep, wait) \in Operations
  BY <1>1 DEF NewOp, Operations
<1> QED
  BY <1>2 DEF Fresh, NewOp, Idle

\* What a caller does to the queue.
LEMMA CallerQueues ==
  ASSUME QueueTyped, NEW c \in Callers, CallerStep(c)
  PROVE  Submits \/ Rests \/ BridgeBeginBatch(c) \/ BridgeEndBatch(c)
<1>1. ASSUME NEW kind \in {"draw", "plain"}, NEW d \in TextureRids, NEW srcs \in SUBSET TextureRids,
             Paint(c, kind, d, srcs)
      PROVE  Submits
  <2>1. Fresh(NewOp(c, kind, d, srcs, TRUE, FALSE))
    BY <1>1, FreshMade DEF Paint, Busy, Kinds
  <2> QED
    BY <1>1, <2>1 DEF Paint, Submits
<1>2. ASSUME NEW old \in TextureRids, NEW new \in TextureRids, NEW keep \in BOOLEAN,
             Replace(c, old, new, keep)
      PROVE  Submits
  <2>1. Fresh(NewOp(c, "release", old, {}, keep, FALSE))
    BY <1>2, FreshMade DEF Replace, Busy, Kinds
  <2> QED
    BY <1>2, <2>1 DEF Replace, Submits
<1>3. ASSUME NEW r \in TextureRids,
             \/ Create(c, r) \/ UpdateRegion(c, r)
             \/ BridgeReleaseTexture(c, r) \/ BridgeReadRgba(c, r)
             \/ BridgeBeginReadRgba(c, r)
             \/ BridgeClearRgba(c, r) \/ BridgeMosaicRects(c, r)
             \/ UpdateWhole(c, r)
      PROVE  Submits \/ Rests
  <2>1. CASE Create(c, r)
    BY <2>1 DEF Create, Rests
  <2>2. CASE UpdateRegion(c, r)
    <3>1. Fresh(NewOp(c, "region", r, {}, TRUE, FALSE))
      BY <2>2, FreshMade DEF UpdateRegion, Busy, Kinds
    <3> QED
      BY <2>2, <3>1 DEF UpdateRegion, Submits
  <2>3. CASE BridgeReleaseTexture(c, r)
    <3>1. PICK k \in BOOLEAN : k = (surface[r] = "live")
      OBVIOUS
    <3>2. Fresh(NewOp(c, "release", r, {}, k, FALSE))
      BY <2>3, FreshMade DEF BridgeReleaseTexture, Busy, Kinds
    <3>3. Fresh(NewOp(c, "release", r, {}, surface[r] = "live", FALSE))
      BY <3>1, <3>2
    <3> QED
      BY <2>3, <3>3 DEF BridgeReleaseTexture, Submits
  <2>4. CASE BridgeReadRgba(c, r)
    <3>1. Fresh(NewOp(c, "read", NoRid, {r}, TRUE, TRUE))
      BY <2>4, FreshMade DEF BridgeReadRgba, Busy, Kinds
    <3> QED
      BY <2>4, <3>1 DEF BridgeReadRgba, Submits
  <2>5. CASE BridgeBeginReadRgba(c, r)
    <3>1. Fresh(NewOp(c, "readAsync", NoRid, {r}, TRUE, FALSE))
      BY <2>5, FreshMade DEF BridgeBeginReadRgba, Busy, Kinds
    <3> QED
      BY <2>5, <3>1 DEF BridgeBeginReadRgba, Submits
  <2>6. CASE BridgeClearRgba(c, r) \/ BridgeMosaicRects(c, r) \/ UpdateWhole(c, r)
    BY <1>1, <2>6 DEF BridgeClearRgba, BridgeMosaicRects, UpdateWhole
  <2> QED
    BY <1>3, <2>1, <2>2, <2>3, <2>4, <2>5, <2>6
<1>4. ASSUME NEW d \in TextureRids, NEW s \in TextureRids,
             BridgeDrawTriangles(c, d, s) \/ BridgeCopyRect(c, d, s)
      PROVE  Submits
  BY <1>1, <1>4 DEF BridgeDrawTriangles, BridgeCopyRect, Sampling
<1>5. ASSUME NEW d \in TextureRids, NEW s \in TextureRids, NEW t \in TextureRids,
             BridgeBlendRect(c, d, s, t) \/ BridgeDrawMaskedTriangles(c, d, s, t)
      PROVE  Submits
  BY <1>1, <1>5 DEF BridgeBlendRect, BridgeDrawMaskedTriangles, Sampling
<1>6. ASSUME NEW old \in TextureRids, NEW new \in TextureRids,
             UpdateVersioned(c, old, new) \/ ClearVersioned(c, old, new)
      PROVE  Submits
  BY <1>2, <1>6 DEF UpdateVersioned, ClearVersioned
<1>7. ASSUME Import(c) \/ BridgeFlush(c) PROVE Submits
  <2>1. CASE Import(c)
    <3>1. Fresh(NewOp(c, "import", NoRid, {}, FALSE, TRUE))
      BY <2>1, FreshMade DEF Import, Busy, Kinds
    <3> QED
      BY <2>1, <3>1 DEF Import, Submits
  <2>2. CASE BridgeFlush(c)
    <3>1. Fresh(NewOp(c, "flush", NoRid, {}, TRUE, TRUE))
      BY <2>2, FreshMade DEF BridgeFlush, Busy, Kinds
    <3> QED
      BY <2>2, <3>1 DEF BridgeFlush, Submits
  <2> QED
    BY <1>7, <2>1, <2>2
<1>8. ASSUME Return(c) \/ TimeOut(c) PROVE Rests
  BY <1>8 DEF Return, TimeOut, Rests
<1> QED
  BY <1>3, <1>4, <1>5, <1>6, <1>7, <1>8 DEF CallerStep

\* What the render thread does to it.
LEMMA RenderQueues ==
  ASSUME QueueTyped, RenderThread
  PROVE  RunCallback \/ DrainPop \/ DrainStop \/ Runs \/ Stages
<1>1. CASE DrainEnd
  BY <1>1 DEF DrainEnd, Runs
<1>2. CASE RunOp
  <2>1. PICK op : RunPlain(op) \/ RunRegion(op) \/ RunImport(op)
                  \/ RunRelease(op) \/ RunRetireCheck(op) \/ RunRetire(op)
    BY <1>2 DEF RunOp
  <2>2. CASE RunPlain(op) \/ RunImport(op) \/ RunRelease(op)
    BY <2>2 DEF RunPlain, RunImport, RunRelease, Runs
  <2>3. CASE RunRetireCheck(op) \/ RunRetire(op)
    BY <2>3 DEF RunRetireCheck, RunRetire, Runs
  <2>4. CASE RunRegion(op)
    <3>1. CASE UNCHANGED <<queue, lastSeq>>
      BY <2>4, <3>1 DEF RunRegion, Runs
    <3>2. CASE ~UNCHANGED <<queue, lastSeq>>
      <4>1. PICK s \in TextureRids :
              /\ ~AtOnce("release")
              /\ queue' = Append(queue, NewOp(Nobody, "release", s, {}, TRUE, FALSE))
              /\ lastSeq' = lastSeq + 1
        BY <2>4, <3>2 DEF RunRegion, Obtainable, Pooled
      <4>2. PICK rel : rel = NewOp(Nobody, "release", s, {}, TRUE, FALSE)
        OBVIOUS
      <4>3. /\ batch.token \in Nat /\ batch.owner \in Callers \cup {Nobody}
            /\ lastSeq + 1 \in Nat
        BY DEF QueueTyped, Batches
      <4>4. rel \in Operations
        BY <4>2, <4>3 DEF NewOp, Operations, Kinds
      <4>5. ~OnRenderThread(rel.by)
        BY <4>2, GpuQueueAssumption DEF NewOp, OnRenderThread
      <4>6. Fresh(rel) /\ ~rel.wait /\ rel.kind = "release" /\ rel.by = Nobody /\ rel.src = {}
        BY <4>2, <4>4, <4>5 DEF Fresh, NewOp
      <4> QED
        BY <2>4, <4>1, <4>2, <4>6 DEF RunRegion, Stages
    <3> QED
      BY <3>1, <3>2
  <2> QED
    BY <2>1, <2>2, <2>3, <2>4
<1> QED
  BY <1>1, <1>2 DEF RenderThread

\* And the teardown.
LEMMA TeardownQueues ==
  ASSUME QueueTyped, Teardown \/ Closed
  PROVE  Submits \/ Rests
<1>0. Main \in Callers
  BY GpuQueueAssumption
<1>1. CASE Close
  <2>1. Fresh(NewOp(Main, "flush", NoRid, {}, TRUE, TRUE))
    BY <1>0, <1>1, FreshMade DEF Close, Kinds
  <2> QED
    BY <1>1, <2>1 DEF Close, Submits
<1>2. CASE \E r \in TextureRids : CloseRelease(r)
  <2>1. PICK r \in TextureRids : CloseRelease(r)
    BY <1>2
  <2>2. Fresh(NewOp(Main, "release", r, {}, FALSE, TRUE))
    BY <1>0, <2>1, FreshMade DEF CloseRelease, Kinds
  <2> QED
    BY <2>1, <2>2 DEF CloseRelease, Submits
<1>3. CASE ClosePool \/ CloseDone \/ Closed
  BY <1>3 DEF ClosePool, CloseDone, Closed, queueVars, Rests
<1> QED
  BY <1>1, <1>2, <1>3 DEF Teardown

\* What submits an operation takes none away.
LEMMA SubmitKeeps ==
  ASSUME QueueInv, Submits
  PROVE  QueueInv' /\ Pending \subseteq Pending'
<1>1. PICK op : Fresh(op) /\ Submit(op) /\ UNCHANGED <<build, batch, nextToken>>
  BY DEF Submits
<1>2. QueueInv'
  BY <1>1, QueueSubmit
<1>3. Elems(queue) \subseteq Elems(queue')
  <2>1. CASE SubmitAtOnce(op)
    BY <2>1 DEF SubmitAtOnce
  <2>2. CASE Enqueue(op)
    BY <1>1, <2>2, ElemsAppend DEF QueueInv, QueueTyped, Fresh, Enqueue
  <2> QED
    BY <1>1, <2>1, <2>2 DEF Submit, SubmitOffThread, SubmitInline
<1>4. \/ drain'.held = drain.held /\ drain'.cur = drain.cur
      \/ drain.held = <<>> /\ drain.cur = <<>>
  BY <1>1, DrainsMade DEF Submit, SubmitOffThread, SubmitInline, SubmitAtOnce, Fresh
<1> QED
  BY <1>2, <1>3, <1>4, ElemsFew DEF Pending

\* What was taken from the queue, and what is left of what is submitted.
Taken == Elems(drain.cur) \cup Elems(drain.held)

\* What a drain runs, it took before all that remains.
LEMMA RunTakes ==
  ASSUME QueueInv, Runs \/ Stages
  PROVE  /\ QueueInv' /\ Pending \ Pending' \subseteq Taken
         /\ \A o \in Pending \ Pending', p \in Pending' : o.seq < p.seq
<1>1. CASE Runs
  <2>1. QueueInv' /\ Pending' \subseteq Pending
    BY <1>1, QueueRun DEF Runs
  <2>2. UNCHANGED queue
    BY <1>1 DEF Runs
  <2>3. Pending \ Pending' \subseteq Taken
    BY <2>2 DEF Pending, Taken
  <2>4. \/ drain'.held = <<>> /\ drain'.cur = <<>>
        \/ drain'.held = <<>> /\ drain'.cur = drain.cur
    <3>1. CASE drain.at = "stop" /\ drain' = NoDrain
      BY <3>1, DrainsMade
    <3>2. CASE \E op : Execute(op)
      BY <3>2 DEF Execute, QueueInv, QueueTyped, Drains
    <3>3. CASE \E op : /\ drain.at = "run" /\ drain.cur = <<op>> /\ op.kind = "release"
                       /\ drain' = [drain EXCEPT !.at = "retire", !.held = <<>>]
      BY <3>3 DEF QueueInv, QueueTyped, Drains
    <3>4. CASE drain.at = "retire" /\ drain' = [drain EXCEPT !.at = "loop", !.cur = <<>>]
      <4>1. drain.held = <<>>
        BY <3>4 DEF QueueInv, DrainShaped
      <4> QED
        BY <3>4, <4>1 DEF QueueInv, QueueTyped, Drains
    <3> QED
      BY <1>1, <3>1, <3>2, <3>3, <3>4 DEF Runs
  <2>5. ASSUME NEW o \in Pending \ Pending', NEW p \in Pending' PROVE o.seq < p.seq
    <3>1. CASE drain'.held = <<>> /\ drain'.cur = <<>>
      BY <2>2, <2>3, <2>5, <3>1, ElemsFew DEF Pending, Taken, QueueInv, InLine
    <3>2. CASE drain'.held = <<>> /\ drain'.cur = drain.cur
      BY <2>2, <2>3, <2>5, <3>2, ElemsFew DEF Pending, Taken, QueueInv, InLine
    <3> QED
      BY <2>4, <3>1, <3>2
  <2> QED
    BY <2>1, <2>3, <2>5
<1>2. CASE Stages
  <2>1. PICK op, rel :
          /\ Execute(op) /\ op.kind = "region" /\ ~AtOnce("release")
          /\ Fresh(rel) /\ ~rel.wait
          /\ queue' = Append(queue, rel) /\ lastSeq' = lastSeq + 1
          /\ UNCHANGED <<build, scheduled, batch, nextToken, callbacks, split>>
    BY <1>2 DEF Stages
  <2>2. QueueInv'
    BY <2>1, QueueStage
  <2>3. Elems(queue') = Elems(queue) \cup {rel} /\ rel.seq = lastSeq + 1 /\ lastSeq \in Nat
    BY <2>1, ElemsAppend DEF QueueInv, QueueTyped, Fresh
  <2>4. drain'.held = <<>> /\ drain'.cur = <<>>
    BY <2>1 DEF Execute, QueueInv, QueueTyped, Drains
  <2>5. Pending' = Elems(queue) \cup {rel} /\ Pending \ Pending' \subseteq Taken
    BY <2>3, <2>4, ElemsFew DEF Pending, Taken
  <2>6. ASSUME NEW o \in Taken, NEW p \in Elems(queue) PROVE o.seq < p.seq
    BY <2>6 DEF Taken, QueueInv, InLine
  <2>7. ASSUME NEW o \in Taken PROVE o.seq < rel.seq
    <3>1. o.seq \in Nat /\ o.seq <= lastSeq
      BY <2>7, PendingTyped DEF Taken, Pending, QueueInv, InLine
    <3> QED
      BY <2>3, <3>1
  <2> QED
    BY <2>2, <2>5, <2>6, <2>7
<1> QED
  BY <1>1, <1>2

\* A step keeps the queue, takes nothing from an open batch that nobody waits behind, and runs
\* nothing before what was submitted before it.
LEMMA QueueSteps ==
  ASSUME QueueInv, [QueueNext]_queueVars
  PROVE  /\ QueueInv' /\ Pending \ Pending' \subseteq Taken
         /\ \A o \in Pending \ Pending', p \in Pending' : o.seq < p.seq
<1>0. QueueTyped
  BY DEF QueueInv
<1>1. CASE Submits
  BY <1>1, SubmitKeeps
<1>2. CASE Rests
  BY <1>2, QueueCalm DEF Rests
<1>3. ASSUME NEW c \in Callers, BridgeBeginBatch(c) \/ BridgeEndBatch(c)
      PROVE  QueueInv' /\ Pending' = Pending
  BY <1>3, QueueBegin, QueueEnd
<1>4. CASE RunCallback \/ DrainPop \/ DrainStop
  BY <1>4, QueueCallback, QueuePop, QueueStop
<1>5. CASE Runs \/ Stages
  BY <1>5, RunTakes
<1>6. CASE UNCHANGED queueVars
  BY <1>2, <1>6 DEF queueVars, Rests
<1>7. CASE QueueNext
  <2>1. \/ \E c \in Callers : CallerStep(c)
        \/ RenderThread
        \/ Teardown \/ Closed
    BY <1>7 DEF QueueNext
  <2>2. CASE \E c \in Callers : CallerStep(c)
    BY <1>0, <1>1, <1>2, <1>3, <2>2, CallerQueues
  <2>3. CASE RenderThread
    BY <1>0, <1>4, <1>5, <2>3, RenderQueues
  <2>4. CASE Teardown \/ Closed
    BY <1>0, <1>1, <1>2, <2>4, TeardownQueues
  <2> QED
    BY <2>1, <2>2, <2>3, <2>4
<1> QED
  BY <1>6, <1>7

\* The queue is empty at the start.
LEMMA QueueStarts ==
  ASSUME QueueInit
  PROVE  QueueInv /\ Pending = {}
<1>1. drain.held = <<>> /\ drain.cur = <<>> /\ drain.at = "off" /\ ~drain.force /\ drain \in Drains
  BY DrainsMade DEF QueueInit
<1>2. queue = <<>> /\ callbacks = <<>> /\ Elems(queue) = {} /\ Elems(callbacks) = {}
  BY ElemsFew DEF QueueInit
<1>3. Pending = {}
  BY <1>1, <1>2, ElemsFew DEF Pending
<1>4. batch \in Batches /\ batch.token = 0 /\ batch.owner = Nobody
  BY DEF QueueInit, NoBatch, Batches
<1>5. <<>> \in Seq(Operations) /\ <<>> \in Seq(Callbacks)
  OBVIOUS
<1>6. QueueTyped
  <2>1. /\ lastSeq \in Nat /\ nextToken \in Nat \ {0} /\ split \in Nat
        /\ queue \in Seq(Operations) /\ callbacks \in Seq(Callbacks)
    BY <1>2, <1>5 DEF QueueInit
  <2>2. build \in [inline : BOOLEAN, deferred : BOOLEAN] /\ scheduled \in BOOLEAN
    BY DEF QueueInit
  <2> QED
    BY <1>1, <1>4, <2>1, <2>2 DEF QueueTyped
<1>7. InOrder(queue) /\ Elems(drain.cur) = {} /\ Elems(drain.held) = {}
  BY <1>1, <1>2, ElemsFew DEF InOrder
<1>8. InLine /\ Waits
  BY <1>2, <1>3, <1>7 DEF InLine, Waits
<1>9. DrainShaped
  BY <1>1, <1>7 DEF DrainShaped
<1>10. Tokens
  BY <1>3, <1>4, <1>7 DEF Tokens, QueueInit
<1>11. Cutoffs /\ Scheduled /\ Covered
  BY <1>1, <1>2 DEF Cutoffs, Scheduled, Covered, QueueInit
<1> QED
  BY <1>3, <1>6, <1>8, <1>9, <1>10, <1>11 DEF QueueInv

\* The queue keeps its order and its drains.
THEOREM QueueInvariant == QueueSpec => []QueueInv
<1>1. QueueInit => QueueInv
  BY QueueStarts
<1>2. QueueInv /\ [QueueNext]_queueVars => QueueInv'
  BY QueueSteps
<1> QED
  BY <1>1, <1>2, PTL DEF QueueSpec

\* No operation is stranded, whichever callback was coalesced, met a shut gate or stopped at
\* its cutoff.
THEOREM NoneStranded == QueueSpec => []NothingStranded
<1>1. QueueInv => NothingStranded
  <2> SUFFICES ASSUME QueueInv, Pending # {}, ~(build.inline /\ build.deferred), drain = NoDrain,
                      batch.token = 0
               PROVE  callbacks # <<>>
    BY DEF NothingStranded
  <2>1. ~Running /\ drain.held = <<>> /\ drain.cur = <<>>
    BY DrainsMade DEF Running
  <2>2. PICK p \in Elems(queue) : TRUE
    BY <2>1, ElemsFew DEF Pending
  <2>3. scheduled
    BY <2>1, <2>2 DEF QueueInv, Covered
  <2> QED
    BY <2>1, <2>3, ElemsFew DEF QueueInv, Scheduled
<1> QED
  BY <1>1, QueueInvariant, PTL

\* The render thread runs what it is given in turn: nothing before an earlier operation it
\* conflicts with, and nothing of an open batch that no synchronous call stands behind.
THEOREM QueueInTurn == QueueSpec => RunsInTurn
<1>1. ASSUME QueueInv, [QueueNext]_queueVars
      PROVE  [\A o \in Pending \ Pending', p \in Pending' :
                p.seq < o.seq => ~Conflict(p, o)]_queueVars
  <2> SUFFICES ASSUME NEW o \in Pending \ Pending', NEW p \in Pending', p.seq < o.seq
               PROVE  FALSE
    OBVIOUS
  <2>1. QueueInv' /\ o.seq < p.seq
    BY <1>1, QueueSteps
  <2>2. o.seq \in Nat /\ p.seq \in Nat
    <3>1. o \in Operations
      BY <1>1, PendingTyped DEF QueueInv
    <3>2. QueueTyped'
      BY <2>1 DEF QueueInv
    <3>3. Pending' \subseteq Operations
      <4>1. queue' \in Seq(Operations) /\ drain' \in Drains
        BY <3>2 DEF QueueTyped
      <4>2. drain'.held \in Seq(Operations) /\ drain'.cur \in Seq(Operations)
        BY <4>1 DEF Drains
      <4> QED
        BY <4>1, <4>2, ElemsIn DEF Pending
    <3> QED
      BY <3>1, <3>3 DEF Operations
  <2> QED
    BY <2>1, <2>2
<1>2. ASSUME QueueInv, [QueueNext]_queueVars
      PROVE  [\A o \in Pending \ Pending' :
                o.token # 0 /\ o.token = batch.token => o.seq <= split]_queueVars
  <2>1. Pending \ Pending' \subseteq Taken
    BY <1>2, QueueSteps
  <2> QED
    BY <1>2, <2>1 DEF Taken, QueueInv, Tokens
<1>3. QueueSpec => InSubmissionOrder
  BY <1>1, QueueInvariant, PTL DEF QueueSpec, InSubmissionOrder
<1>4. QueueSpec => GateHolds
  BY <1>2, QueueInvariant, PTL DEF QueueSpec, GateHolds
<1> QED
  BY <1>3, <1>4 DEF RunsInTurn

-----------------------------------------------------------------------------
(* What the render thread queues, and what a drain holds. *)

OwnInv == OwnQueued /\ Held

\* One more operation keeps what a drain holds and what the render thread queued.
LEMMA OwnSubmit ==
  ASSUME QueueInv, OwnInv, phase' = "run" => phase = "run", Submits
  PROVE  OwnInv'
<1>1. PICK op : Fresh(op) /\ Submit(op) /\ UNCHANGED <<build, batch, nextToken>>
  BY DEF Submits
<1>2. \/ drain' = drain
      \/ drain = NoDrain /\ drain'.at = "loop" /\ drain'.held = <<>>
  <2>1. CASE SubmitInline(op)
    <3>1. drain = NoDrain /\ op.seq \in Nat
      BY <1>1, <2>1 DEF SubmitInline, Fresh, Operations
    <3>2. drain' = drain \/ drain' = NormalDrain \/ drain' = ForcedDrain(op.seq)
      BY <2>1 DEF SubmitInline
    <3> QED
      BY <3>1, <3>2, DrainsMade
  <2> QED
    BY <1>1, <2>1 DEF Submit, SubmitOffThread, SubmitAtOnce
<1>3. Held'
  BY <1>2, ElemsFew DEF OwnInv, Held
<1>4. OwnQueued'
  <2> SUFFICES ASSUME build.inline, ~build.deferred, phase = "run", NEW p \in Elems(queue'),
                      p.by = Main, p.kind # "readAsync", p.gate \in {Main, Nobody}
               PROVE  \/ batch.owner = Main
                      \/ Running' /\ drain'.force /\ p.seq <= drain'.cutoff
    BY <1>1 DEF OwnQueued
  <2>1. CASE p \in Elems(queue)
    <3>1. \/ batch.owner = Main
          \/ Running /\ drain.force /\ p.seq <= drain.cutoff
      BY <2>1 DEF OwnInv, OwnQueued
    <3> QED
      BY <1>2, <3>1, DrainsMade DEF Running
  <2>2. CASE p \notin Elems(queue)
    <3>1. ~SubmitAtOnce(op)
      BY <2>2 DEF SubmitAtOnce
    <3>2. queue' = Append(queue, op)
      BY <1>1, <3>1 DEF Submit, SubmitOffThread, SubmitInline, Enqueue
    <3>3. Elems(queue') = Elems(queue) \cup {op}
      BY <1>1, <3>2, ElemsAppend DEF QueueInv, QueueTyped, Fresh
    <3>4. p = op
      BY <2>2, <3>3
    <3>5. ~AtOnce(op.kind)
      BY <1>1, <3>1, <3>4 DEF Submit, SubmitOffThread, SubmitInline, OnRenderThread
    <3>6. batch.token # 0 /\ op.gate = batch.owner
      BY <1>1, <3>4, <3>5 DEF AtOnce, Fresh
    <3> QED
      BY <3>4, <3>6 DEF QueueInv, Tokens
  <2> QED
    BY <2>1, <2>2
<1> QED
  BY <1>3, <1>4 DEF OwnInv

\* So do the beginning and the end of a batch.
LEMMA OwnBatch ==
  ASSUME QueueInv, OwnInv, phase' = phase, NEW c \in Callers,
         BridgeBeginBatch(c) \/ BridgeEndBatch(c)
  PROVE  OwnInv'
<1>t. /\ queue \in Seq(Operations) /\ lastSeq \in Nat /\ Nobody \notin Callers /\ Main \in Callers
      /\ drain.at = "off" => ~drain.force
  BY GpuQueueAssumption DEF QueueInv, QueueTyped, DrainShaped
<1>1. CASE BridgeBeginBatch(c)
  <2>1. UNCHANGED <<build, queue, drain>>
    BY <1>1 DEF BridgeBeginBatch
  <2>2. batch.owner = Main => batch'.owner = Main
    <3>1. CASE batch.token = 0
      BY <1>t, <3>1 DEF QueueInv, Tokens
    <3>2. CASE batch' = [batch EXCEPT !.depth = @ + 1]
      BY <3>2 DEF QueueInv, QueueTyped, Batches
    <3> QED
      BY <1>1, <3>1, <3>2 DEF BridgeBeginBatch
  <2> QED
    BY <2>1, <2>2 DEF OwnInv, OwnQueued, Held, Running
<1>2. CASE BridgeEndBatch(c) /\ batch.depth > 1
  <2>1. UNCHANGED <<build, queue, drain>> /\ batch' = [batch EXCEPT !.depth = @ - 1]
    BY <1>2 DEF BridgeEndBatch
  <2>2. batch'.owner = batch.owner
    BY <2>1 DEF QueueInv, QueueTyped, Batches
  <2> QED
    BY <2>1, <2>2 DEF OwnInv, OwnQueued, Held, Running
<1>3. CASE BridgeEndBatch(c) /\ ~(batch.depth > 1)
  <2>1. /\ UNCHANGED <<build, queue>> /\ batch.owner = c
        /\ drain' = IF queue # <<>> /\ OnRenderThread(c) THEN ForcedDrain(lastSeq) ELSE drain
        /\ OnRenderThread(c) => drain = NoDrain
    BY <1>3 DEF BridgeEndBatch, Idle
  <2>2. CASE queue # <<>> /\ OnRenderThread(c)
    <3>1. /\ drain'.at = "loop" /\ drain'.force /\ drain'.cutoff = lastSeq
          /\ drain'.held = <<>>
      BY <1>t, <2>1, <2>2, DrainsMade
    <3>2. \A p \in Elems(queue) : p.seq <= lastSeq
      BY DEF QueueInv, InLine, Pending
    <3> QED
      BY <2>1, <3>1, <3>2, ElemsFew DEF OwnInv, OwnQueued, Held, Running
  <2>3. CASE queue = <<>>
    BY <2>1, <2>3, ElemsFew DEF OwnInv, OwnQueued, Held
  <2>4. CASE ~OnRenderThread(c)
    <3>1. drain' = drain /\ (build.inline => batch.owner # Main)
      BY <2>1, <2>4 DEF OnRenderThread
    <3> QED
      BY <2>1, <3>1 DEF OwnInv, OwnQueued, Held, Running
  <2> QED
    BY <2>2, <2>3, <2>4
<1> QED
  BY <1>1, <1>2, <1>3

\* And what the render thread does with its drain.
LEMMA OwnDrain ==
  ASSUME QueueInv, OwnInv, phase' = phase,
         RunCallback \/ DrainPop \/ DrainStop \/ Runs \/ Stages
  PROVE  OwnInv'
<1>t. /\ queue \in Seq(Operations) /\ drain \in Drains /\ drain.held \in Seq(Operations)
      /\ drain.cur \in Seq(Operations) /\ callbacks \in Seq(Callbacks)
      /\ drain.cutoff \in Nat /\ Nobody # Main
  BY GpuQueueAssumption DEF QueueInv, QueueTyped, Drains
<1>1. CASE RunCallback
  <2>1. drain = NoDrain /\ UNCHANGED <<build, queue, batch>>
    BY <1>1 DEF RunCallback
  <2>2. ~Running
    BY <2>1, DrainsMade DEF Running
  <2>3. OwnQueued'
    BY <2>1, <2>2 DEF OwnInv, OwnQueued
  <2>4. PICK h \in Callbacks : h = Head(callbacks)
    BY <1>t, <1>1, ElemsTail DEF RunCallback
  <2>5. h.cutoff \in Nat /\ (drain' = ForcedDrain(h.cutoff) \/ drain' = NormalDrain)
    BY <1>1, <2>4 DEF RunCallback, Callbacks
  <2>6. drain'.held = <<>> /\ drain'.at = "loop"
    BY <2>5, DrainsMade
  <2> QED
    BY <2>3, <2>6, ElemsFew DEF OwnInv, Held
<1>2. CASE DrainPop
  <2>1. /\ queue # <<>> /\ drain.at = "loop" /\ queue' = Tail(queue) /\ UNCHANGED <<build, batch>>
        /\ \/ /\ IsBatchable(Head(queue))
              /\ drain' = [drain EXCEPT !.held = Append(@, Head(queue))]
           \/ /\ drain' = [drain EXCEPT !.cur = <<Head(queue)>>, !.at = "run"]
    BY <1>2 DEF DrainPop
  <2>2. PICK op \in Operations : op = Head(queue)
    BY <1>t, <2>1, ElemsTail
  <2>3. Elems(queue') \subseteq Elems(queue)
    BY <1>t, <2>1, ElemsTail
  <2>4. /\ drain'.at \in {"loop", "run"} /\ drain'.force = drain.force
        /\ drain'.cutoff = drain.cutoff
    BY <1>t, <2>1 DEF Drains
  <2>5. OwnQueued'
    BY <2>1, <2>3, <2>4 DEF OwnInv, OwnQueued, Running
  <2>6. \/ Elems(drain'.held) = Elems(drain.held) \cup {op} /\ op.kind = "draw"
        \/ Elems(drain'.held) = Elems(drain.held)
    <3>1. CASE drain' = [drain EXCEPT !.held = Append(@, op)] /\ IsBatchable(op)
      <4>1. drain'.held = Append(drain.held, op)
        BY <1>t, <3>1 DEF Drains
      <4> QED
        BY <1>t, <3>1, <4>1, ElemsAppend DEF IsBatchable
    <3>2. CASE drain' = [drain EXCEPT !.cur = <<op>>, !.at = "run"]
      BY <1>t, <3>2 DEF Drains
    <3> QED
      BY <2>1, <2>2, <3>1, <3>2
  <2> QED
    BY <2>4, <2>5, <2>6 DEF OwnInv, Held
<1>3. CASE DrainStop
  <2>1. /\ UNCHANGED <<build, queue, batch>> /\ drain' = [drain EXCEPT !.at = "stop"]
        /\ queue = <<>> \/ GateShut \/ BeyondCutoff
    BY <1>3 DEF DrainStop
  <2>2. drain'.at = "stop" /\ drain'.held = drain.held
    BY <1>t, <2>1 DEF Drains
  <2>3. ASSUME NEW p \in Elems(queue), drain.force, p.seq <= drain.cutoff
        PROVE  FALSE
    <3>1. queue # <<>>
      BY <2>3, ElemsFew
    <3>2. BeyondCutoff
      BY <2>1, <2>3, <3>1 DEF GateShut
    <3>3. PICK h \in Operations : h = Head(queue)
      BY <1>t, <3>1, ElemsTail
    <3>4. h.seq > drain.cutoff /\ h.seq \in Nat
      BY <3>2, <3>3 DEF BeyondCutoff, Operations
    <3>5. p = h \/ h.seq < p.seq
      BY <1>t, <3>1, <3>3, ElemsTail, OrderTail DEF QueueInv, InLine
    <3>6. p.seq \in Nat
      BY PendingTyped DEF QueueInv, Pending
    <3> QED
      BY <1>t, <2>3, <3>4, <3>5, <3>6
  <2> QED
    BY <2>1, <2>2, <2>3 DEF OwnInv, OwnQueued, Held
<1>4. CASE drain.at = "stop" /\ drain' = NoDrain /\ UNCHANGED <<build, queue, batch>>
  BY <1>4, DrainsMade, ElemsFew DEF OwnInv, OwnQueued, Held, Running
<1>5. CASE /\ \E op : Execute(op)
           /\ UNCHANGED <<build, batch>>
           /\ \A p \in Elems(queue') : p \in Elems(queue) \/ p.by = Nobody
  <2>1. /\ drain.at = "run" /\ drain'.at = "loop" /\ drain'.held = <<>>
        /\ drain'.force = drain.force /\ drain'.cutoff = drain.cutoff
    BY <1>t, <1>5 DEF Execute, Drains
  <2> QED
    BY <1>t, <1>5, <2>1, ElemsFew DEF OwnInv, OwnQueued, Held, Running
<1>6. CASE /\ UNCHANGED <<build, queue, batch>>
           /\ \E op : /\ drain.at = "run" /\ drain.cur = <<op>> /\ op.keep
                      /\ drain' = [drain EXCEPT !.at = "retire", !.held = <<>>]
  <2>1. PICK op : /\ drain.at = "run" /\ drain.cur = <<op>> /\ op.keep
                  /\ drain' = [drain EXCEPT !.at = "retire", !.held = <<>>]
    BY <1>6
  <2>2. /\ drain'.at = "retire" /\ drain'.held = <<>> /\ drain'.cur = <<op>>
        /\ drain'.force = drain.force /\ drain'.cutoff = drain.cutoff
    BY <1>t, <2>1 DEF Drains
  <2>3. OwnQueued'
    BY <1>6, <2>1, <2>2 DEF OwnInv, OwnQueued, Running
  <2> QED
    BY <2>1, <2>2, <2>3, ElemsFew DEF OwnInv, Held
<1>7. CASE /\ UNCHANGED <<build, queue, batch>> /\ drain.at = "retire"
           /\ drain' = [drain EXCEPT !.at = "loop", !.cur = <<>>]
  <2>1. /\ drain'.at = "loop" /\ drain'.held = drain.held
        /\ drain'.force = drain.force /\ drain'.cutoff = drain.cutoff
    BY <1>t, <1>7 DEF Drains
  <2> QED
    BY <1>7, <2>1 DEF OwnInv, OwnQueued, Held, Running
<1>8. CASE Runs
  BY <1>4, <1>5, <1>6, <1>7, <1>8 DEF Runs
<1>9. CASE Stages
  <2>1. PICK op, rel :
          /\ Execute(op) /\ Fresh(rel) /\ rel.by = Nobody
          /\ queue' = Append(queue, rel) /\ UNCHANGED <<build, batch>>
    BY <1>9 DEF Stages
  <2>2. Elems(queue') = Elems(queue) \cup {rel}
    BY <1>t, <2>1, ElemsAppend DEF Fresh
  <2> QED
    BY <1>5, <2>1, <2>2
<1> QED
  BY <1>1, <1>2, <1>3, <1>8, <1>9

\* When the render thread is about to run its own operations at once, it has none queued.
LEMMA OwnDone ==
  ASSUME QueueInv, OwnInv
  PROVE  OvertakesNothing
<1> SUFFICES ASSUME build.inline, AtOnce("draw"), Idle(Main), NEW p \in Pending, p.by = Main
             PROVE  Overtakable(p)
  BY DEF OvertakesNothing
<1>1. drain = NoDrain /\ batch.token = 0 /\ ~build.deferred
  BY DEF AtOnce, Idle, OnRenderThread
<1>2. p \in Elems(queue) /\ ~Running /\ batch.owner # Main
  BY <1>1, DrainsMade, ElemsFew, GpuQueueAssumption DEF Pending, Running, QueueInv, Tokens
<1> QED
  BY <1>1, <1>2 DEF OwnInv, OwnQueued, Overtakable

-----------------------------------------------------------------------------
(* The surfaces that operations name. *)

Leaving == {"doomed", "staging"}

\* What a step does to the surfaces, when it queues new, if anything: it leaves one as it is,
\* takes or frees one that nothing depends on, has new release it, or has released it.
RecordsStep(new) ==
  /\ Pending' \subseteq Pending \cup {new}
  /\ \A r \in TextureRids :
       \/ surface'[r] = surface[r] /\ (owner'[r] = owner[r] \/ surface[r] \in Leaving)
       \/ /\ surface[r] \notin Leaving /\ surface'[r] \notin Leaving
          /\ \/ surface'[r] = "remaining"
             \/ \A p \in Pending : r \in Surfaces(p) => Overtakable(p)'
       \/ /\ surface[r] \notin Leaving /\ surface'[r] \in Leaving
          /\ new \in Pending' /\ new.kind = "release" /\ new.dst = r
       \/ /\ surface[r] \in Leaving /\ surface'[r] \notin Leaving
          /\ \A p \in Pending' : r \notin Surfaces(p)
  /\ \A q \in Pending \ Pending' : q.kind = "release" => surface'[q.dst] \notin Leaving
  /\ new \in Pending' \ Pending =>
       /\ new \in Operations
       /\ \A r \in Surfaces(new) :
            /\ surface[r] \notin Leaving
            /\ \/ surface'[r] \in {"live", "imported"} /\ owner'[r] = new.by
               \/ surface'[r] \in Leaving
       /\ new.kind = "release" => new.dst \in TextureRids /\ surface'[new.dst] \in Leaving
       /\ \A p \in Pending : p.seq < new.seq

\* An operation that may be overtaken stays one.
LEMMA OvertakableStays ==
  ASSUME UNCHANGED build, phase' = "run" => phase = "run", NEW p, Overtakable(p)
  PROVE  Overtakable(p)'
BY DEF Overtakable

\* Such a step keeps what is named, and releases it last.
LEMMA RecordsKept ==
  ASSUME QueueInv, Named, ReleasesLast, UNCHANGED build, phase' = "run" => phase = "run",
         NEW new, RecordsStep(new)
  PROVE  Named' /\ ReleasesLast'
<1>t. \A p \in Pending : p \in Operations /\ p.seq \in Nat /\ Surfaces(p) \subseteq TextureRids
  BY PendingTyped DEF QueueInv, Operations, Surfaces
<1>n. new \in Pending' \ Pending => new.seq \in Nat /\ Surfaces(new) \subseteq TextureRids
  BY DEF RecordsStep, Operations, Surfaces
<1>l. \A s : s \in Leaving <=> s \in {"doomed", "staging"}
  BY DEF Leaving
<1>1. ASSUME NEW p \in Pending', NEW r \in Surfaces(p)
      PROVE  \/ Overtakable(p)'
             \/ surface'[r] \in {"live", "imported"} /\ owner'[r] = p.by
             \/ surface'[r] \in {"doomed", "staging", "remaining"}
  <2>1. CASE p \in Pending
    <3>0. r \in TextureRids
      BY <1>t, <2>1
    <3>1. \/ Overtakable(p)
          \/ surface[r] \in {"live", "imported"} /\ owner[r] = p.by
          \/ surface[r] \in {"doomed", "staging", "remaining"}
      BY <2>1 DEF Named
    <3>2. Overtakable(p) => Overtakable(p)'
      BY OvertakableStays
    <3>3. CASE surface'[r] = surface[r] /\ (owner'[r] = owner[r] \/ surface[r] \in Leaving)
      BY <1>l, <3>1, <3>2, <3>3
    <3>4. CASE surface'[r] = "remaining" \/ surface'[r] \in Leaving
      BY <3>4, <1>l
    <3>5. CASE \A q \in Pending : r \in Surfaces(q) => Overtakable(q)'
      BY <2>1, <3>5
    <3>6. CASE \A q \in Pending' : r \notin Surfaces(q)
      BY <3>6
    <3> QED
      BY <3>0, <3>3, <3>4, <3>5, <3>6 DEF RecordsStep
  <2>2. CASE p \notin Pending
    <3>1. p = new /\ new \in Pending' \ Pending
      BY <2>2 DEF RecordsStep
    <3> QED
      BY <3>1, <1>l DEF RecordsStep
  <2> QED
    BY <2>1, <2>2
<1>2. ASSUME NEW q \in Pending', q.kind = "release"
      PROVE  /\ q.dst \in TextureRids /\ surface'[q.dst] \in Leaving
             /\ \A p \in Pending' : q.dst \in Surfaces(p) => p.seq <= q.seq
  <2>1. CASE q \in Pending
    <3>1. /\ q.dst \in TextureRids /\ surface[q.dst] \in Leaving
          /\ \A p \in Pending : q.dst \in Surfaces(p) => p.seq <= q.seq
      BY <1>2, <1>l, <2>1 DEF ReleasesLast
    <3>2. q.dst \in Surfaces(q)
      BY <3>1, GpuQueueAssumption DEF Surfaces
    <3>3. surface'[q.dst] \in Leaving
      BY <1>2, <3>1, <3>2 DEF RecordsStep
    <3>4. ASSUME NEW p \in Pending', q.dst \in Surfaces(p) PROVE p.seq <= q.seq
      <4>1. CASE p \in Pending
        BY <3>1, <3>4, <4>1
      <4>2. CASE p \notin Pending
        <5>1. p = new /\ new \in Pending' \ Pending
          BY <4>2 DEF RecordsStep
        <5> QED
          BY <3>1, <3>4, <5>1 DEF RecordsStep
      <4> QED
        BY <4>1, <4>2
    <3> QED
      BY <3>1, <3>3, <3>4
  <2>2. CASE q \notin Pending
    <3>1. q = new /\ new \in Pending' \ Pending
      BY <2>2 DEF RecordsStep
    <3>2. q.dst \in TextureRids /\ surface'[q.dst] \in Leaving
      BY <1>2, <3>1 DEF RecordsStep
    <3>3. ASSUME NEW p \in Pending' PROVE p.seq <= q.seq
      <4>1. p \in Pending \/ p = q
        BY <3>1 DEF RecordsStep
      <4>2. p \in Pending => p.seq < q.seq /\ p.seq \in Nat
        BY <1>t, <3>1 DEF RecordsStep
      <4>3. q.seq \in Nat
        BY <1>n, <3>1
      <4> QED
        BY <4>1, <4>2, <4>3
    <3> QED
      BY <3>2, <3>3
  <2> QED
    BY <2>1, <2>2
<1>3. ASSUME NEW r \in TextureRids, surface'[r] \in Leaving
      PROVE  \E q \in Pending' : q.kind = "release" /\ q.dst = r
  <2>1. CASE surface'[r] = surface[r]
    <3>1. PICK q \in Pending : q.kind = "release" /\ q.dst = r
      BY <1>3, <1>l, <2>1 DEF ReleasesLast
    <3>2. q \in Pending'
      BY <1>3, <3>1 DEF RecordsStep
    <3> QED
      BY <3>1, <3>2
  <2>2. CASE surface'[r] # surface[r]
    BY <1>3, <2>2 DEF RecordsStep
  <2> QED
    BY <2>1, <2>2
<1>4. Named'
  BY <1>1 DEF Named
<1>5. ReleasesLast'
  BY <1>2, <1>3, <1>l DEF ReleasesLast
<1> QED
  BY <1>4, <1>5

\* What an operation that is submitted does to what is queued.
LEMMA Submitted ==
  ASSUME QueueInv, NEW op, Fresh(op), Submit(op), UNCHANGED <<build, batch, nextToken>>
  PROVE  /\ lastSeq' = op.seq /\ op.seq = lastSeq + 1 /\ lastSeq \in Nat /\ op.seq \in Nat
         /\ Immediate(op) => Pending' = Pending /\ waiting' = Calling(op, "ok")
         /\ ~Immediate(op) => Pending' = Pending \cup {op} /\ waiting' = Calling(op, "wait")
         /\ \A p \in Pending : p.seq < op.seq
         /\ op \notin Pending
<1>1. lastSeq \in Nat /\ op.seq = lastSeq + 1 /\ op \in Operations /\ queue \in Seq(Operations)
  BY DEF QueueInv, QueueTyped, Fresh
<1>2. \A p \in Pending : p.seq <= lastSeq /\ p.seq \in Nat
  BY PendingTyped DEF QueueInv, InLine
<1>3. CASE SubmitAtOnce(op)
  <2>1. Immediate(op) /\ lastSeq' = op.seq /\ waiting' = Calling(op, "ok")
    BY <1>3 DEF SubmitAtOnce, Immediate
  <2>2. Pending' = Pending
    BY <1>3 DEF SubmitAtOnce, Pending
  <2> QED
    BY <1>1, <1>2, <2>1, <2>2
<1>4. CASE SubmitOffThread(op) \/ SubmitInline(op)
  <2>1. ~Immediate(op) /\ lastSeq' = op.seq /\ waiting' = Calling(op, "wait")
    BY <1>4 DEF SubmitOffThread, SubmitInline, Immediate, Enqueue
  <2>2. queue' = Append(queue, op)
    BY <1>4 DEF SubmitOffThread, SubmitInline, Enqueue
  <2>3. Elems(queue') = Elems(queue) \cup {op}
    BY <1>1, <2>2, ElemsAppend
  <2>4. drain'.held = drain.held /\ drain'.cur = drain.cur
    <3>1. CASE SubmitOffThread(op)
      BY <3>1 DEF SubmitOffThread
    <3>2. CASE SubmitInline(op)
      BY <1>1, <3>2, DrainsMade DEF SubmitInline, Fresh
    <3> QED
      BY <1>4, <3>1, <3>2
  <2>5. Pending' = Pending \cup {op}
    BY <2>3, <2>4 DEF Pending
  <2> QED
    BY <1>1, <1>2, <2>1, <2>5
<1> QED
  BY <1>3, <1>4 DEF Submit

\* A call keeps what the calls of others, and its own earlier ones, were told.
LEMMA CallsSubmit ==
  ASSUME QueueInv, OwnInv, CallsTyped, CallsBefore, FlushCovers, NEW op, Fresh(op), Submit(op),
         UNCHANGED <<build, batch, nextToken>>, op.by \in Callers, Idle(op.by),
         phase' = "run" => phase = "run"
  PROVE  waiting' \in [Callers -> Calls] /\ CallsBefore' /\ FlushCovers'
<1>1. /\ lastSeq' = op.seq /\ op.seq = lastSeq + 1 /\ lastSeq \in Nat /\ op.seq \in Nat
      /\ Immediate(op) => Pending' = Pending /\ waiting' = Calling(op, "ok")
      /\ ~Immediate(op) => Pending' = Pending \cup {op} /\ waiting' = Calling(op, "wait")
  BY Submitted
<1>2. PICK state \in {"ok", "wait"} :
        (state = "ok" <=> Immediate(op)) /\ waiting' = Calling(op, state)
  BY <1>1
<1>3. op \in Operations /\ op.kind \in Kinds /\ waiting \in [Callers -> Calls]
  BY DEF Fresh, Operations, CallsTyped
<1>4. [seq |-> op.seq, kind |-> op.kind, state |-> state] \in Calls
  BY <1>1, <1>3 DEF Calls
<1>5. PICK call \in Calls : call = [seq |-> op.seq, kind |-> op.kind, state |-> state]
  BY <1>4
<1>6. call.seq = op.seq /\ call.state = state
  BY <1>5
<1>7. \/ waiting' = waiting
      \/ waiting' = [waiting EXCEPT ![op.by] = call]
  BY <1>2, <1>5 DEF Calling
<1>8. waiting' \in [Callers -> Calls]
  BY <1>3, <1>7
<1>9. \A c \in Callers : waiting'[c] = waiting[c] \/ (c = op.by /\ waiting'[c] = call)
  BY <1>3, <1>7
<1>10. CallsBefore'
  <2>1. \A c \in Callers : waiting[c].seq \in Nat /\ waiting[c].seq <= lastSeq
    BY <1>3 DEF Calls, CallsBefore
  <2> QED
    BY <1>1, <1>6, <1>9, <2>1 DEF CallsBefore
<1>11. FlushCovers'
  <2> SUFFICES ASSUME NEW c \in Callers, waiting'[c].kind = "flush", waiting'[c].state = "ok",
                      NEW p \in Pending', p.by = c, p.seq < waiting'[c].seq
               PROVE  Overtakable(p)'
    BY DEF FlushCovers
  <2>1. CASE waiting'[c] = waiting[c]
    <3>1. op.by # c
      BY <2>1 DEF Idle, NoCall
    <3>2. p \in Pending
      BY <1>1, <3>1
    <3> QED
      BY <2>1, <3>2, OvertakableStays DEF FlushCovers
  <2>2. CASE c = op.by /\ waiting'[c] = call
    <3>1. Immediate(op) /\ p \in Pending
      BY <1>1, <1>2, <1>6, <2>2
    <3>2. build.inline /\ c = Main /\ AtOnce("draw")
      BY <2>2, <3>1 DEF Immediate, OnRenderThread, AtOnce
    <3>3. Overtakable(p)
      BY <2>2, <3>1, <3>2, OwnDone DEF OvertakesNothing
    <3> QED
      BY <3>3, OvertakableStays
  <2> QED
    BY <1>9, <2>1, <2>2
<1> QED
  BY <1>8, <1>10, <1>11

\* So does an answer.
LEMMA CallsRun ==
  ASSUME QueueInv, CallsTyped, CallsBefore, FlushCovers, UNCHANGED <<build, phase>>,
         lastSeq' \in Nat, lastSeq <= lastSeq',
         \A p \in Pending' \ Pending : p.by = Nobody,
         \/ UNCHANGED waiting
         \/ \E op \in Pending :
              Finish(op) /\ \A p \in Pending' : op.seq < p.seq /\ p.seq \in Nat
  PROVE  waiting' \in [Callers -> Calls] /\ CallsBefore' /\ FlushCovers'
<1>1. waiting \in [Callers -> Calls] /\ lastSeq \in Nat
  BY DEF CallsTyped, QueueInv, QueueTyped
<1>2. ASSUME NEW c \in Callers
      PROVE  /\ waiting'[c] \in Calls /\ waiting'[c].seq = waiting[c].seq
             /\ \/ waiting'[c] = waiting[c]
                \/ \A p \in Pending' : ~(p.seq < waiting'[c].seq)
  <2>1. CASE UNCHANGED waiting
    BY <1>1, <2>1
  <2>2. CASE \E op \in Pending :
               Finish(op) /\ \A p \in Pending' : op.seq < p.seq /\ p.seq \in Nat
    <3>1. PICK op \in Pending :
            Finish(op) /\ \A p \in Pending' : op.seq < p.seq /\ p.seq \in Nat
      BY <2>2
    <3>2. CASE c = op.by /\ Awaited(op)
      <4>1. waiting' = [waiting EXCEPT ![op.by].state = "ok"] /\ waiting[c].seq = op.seq
        BY <3>1, <3>2 DEF Finish, Awaited
      <4>2. waiting'[c] = [waiting[c] EXCEPT !.state = "ok"]
        BY <1>1, <3>2, <4>1
      <4>3. PICK call \in Calls : call = waiting[c]
        BY <1>1
      <4>4. [call EXCEPT !.state = "ok"] \in Calls /\ [call EXCEPT !.state = "ok"].seq = call.seq
        BY DEF Calls
      <4>5. waiting'[c] \in Calls /\ waiting'[c].seq = op.seq
        BY <4>1, <4>2, <4>3, <4>4
      <4>6. op.seq \in Nat
        BY PendingTyped DEF QueueInv
      <4>7. \A p \in Pending' : ~(p.seq < op.seq)
        BY <3>1, <4>6
      <4> QED
        BY <4>1, <4>5, <4>7
    <3>3. CASE ~(c = op.by /\ Awaited(op))
      <4>1. waiting'[c] = waiting[c]
        BY <1>1, <3>1, <3>3 DEF Finish
      <4> QED
        BY <1>1, <4>1
    <3> QED
      BY <3>2, <3>3
  <2> QED
    BY <2>1, <2>2
<1>3. waiting' \in [Callers -> Calls]
  <2>1. \/ waiting' = waiting
        \/ \E op : waiting' = [waiting EXCEPT ![op.by].state = "ok"]
    BY DEF Finish
  <2>2. waiting' = [c \in Callers |-> waiting'[c]]
    BY <1>1, <2>1
  <2> QED
    BY <1>2, <2>2
<1>4. CallsBefore'
  <2>1. \A c \in Callers : waiting[c].seq \in Nat /\ waiting[c].seq <= lastSeq
    BY <1>1 DEF Calls, CallsBefore
  <2> QED
    BY <1>1, <1>2, <2>1 DEF CallsBefore
<1>5. FlushCovers'
  <2> SUFFICES ASSUME NEW c \in Callers, waiting'[c].kind = "flush", waiting'[c].state = "ok",
                      NEW p \in Pending', p.by = c, p.seq < waiting'[c].seq
               PROVE  Overtakable(p)'
    BY DEF FlushCovers
  <2>1. waiting'[c] = waiting[c]
    BY <1>2
  <2>2. p \in Pending
    BY GpuQueueAssumption
  <2> QED
    BY <2>1, <2>2, OvertakableStays DEF FlushCovers
<1> QED
  BY <1>3, <1>4, <1>5

-----------------------------------------------------------------------------
(* The calls of the bridge, and what becomes of the surfaces. *)

Accounts == CallsTyped /\ CallsBefore /\ Named /\ ReleasesLast /\ FlushCovers
SurfaceInv == QueueInv /\ OwnInv /\ Accounts /\ TornDown

Phases == {"run", "flushing", "flushed", "releasing", "closed"}

\* What is free or pooled only overtaken operations name, and what can be had is free or pooled.
LEMMA FreeQuiet ==
  ASSUME Named
  PROVE  /\ \A r \in TextureRids : surface[r] \in {"none", "pooled"} =>
              \A p \in Pending : r \in Surfaces(p) => Overtakable(p)
         /\ \A r \in Obtainable : r \in TextureRids /\ surface[r] \in {"none", "pooled"}
<1>1. ASSUME NEW r \in TextureRids, surface[r] \in {"none", "pooled"},
             NEW p \in Pending, r \in Surfaces(p)
      PROVE  Overtakable(p)
  BY <1>1 DEF Named
<1>2. \A r \in Obtainable : r \in TextureRids /\ surface[r] \in {"none", "pooled"}
  BY DEF Obtainable, Pooled
<1> QED
  BY <1>1, <1>2

\* What the render thread releases at once, only overtaken operations name.
LEMMA MineQuiet ==
  ASSUME QueueInv, OwnInv, Named, NEW c \in Callers, Idle(c), NEW op, op.by = c, Immediate(op),
         NEW r \in TextureRids, Mine(c, r), NEW p \in Pending, r \in Surfaces(p)
  PROVE  Overtakable(p)
<1>1. c = Main /\ build.inline /\ AtOnce("draw")
  BY DEF Immediate, OnRenderThread, AtOnce
<1>2. p.by = c \/ Overtakable(p)
  BY DEF Named, Mine
<1> QED
  BY <1>1, <1>2, OwnDone DEF OvertakesNothing

\* Released surfaces.
LEMMA ReleasedIs ==
  ASSUME CallsTyped, NEW s \in TextureRids, NEW keep
  PROVE  /\ Released(s, keep) \in [TextureRids -> States]
         /\ Released(s, keep)[s] \in {"none", "pooled"}
         /\ \A r \in TextureRids : r # s => Released(s, keep)[r] = surface[r]
<1>1. surface \in [TextureRids -> States] /\ {"none", "pooled"} \subseteq States
  BY DEF CallsTyped, States
<1>2. PICK g \in {"none", "pooled"} : Released(s, keep) = [surface EXCEPT ![s] = g]
  BY DEF Released
<1> QED
  BY <1>1, <1>2

\* A call of the bridge, or of the teardown.
LEMMA AccountSubmit ==
  ASSUME QueueInv, OwnInv, Accounts, NEW op, Fresh(op), Submit(op), op.by \in Callers, Idle(op.by),
         UNCHANGED <<build, batch, nextToken, poolOpen, answered>>, phase' \in Phases,
         phase' = "run" => phase = "run",
         surface' \in [TextureRids -> States], owner' \in [TextureRids -> Callers \cup {Nobody}],
         \A r \in TextureRids :
           \/ surface'[r] = surface[r] /\ owner'[r] = owner[r]
           \/ /\ surface[r] \notin Leaving /\ surface'[r] \notin Leaving
              /\ \A p \in Pending : r \in Surfaces(p) => Overtakable(p)
           \/ /\ surface[r] \notin Leaving /\ surface'[r] \in Leaving
              /\ ~Immediate(op) /\ op.kind = "release" /\ op.dst = r,
         ~Immediate(op) =>
           /\ \A r \in Surfaces(op) :
                /\ surface[r] \notin Leaving
                /\ \/ surface'[r] \in {"live", "imported"} /\ owner'[r] = op.by
                   \/ surface'[r] \in Leaving
           /\ op.kind = "release" => op.dst \in TextureRids /\ surface'[op.dst] \in Leaving
  PROVE  Accounts'
<1>1. /\ lastSeq' = op.seq /\ op.seq = lastSeq + 1 /\ lastSeq \in Nat /\ op.seq \in Nat
      /\ Immediate(op) => Pending' = Pending
      /\ ~Immediate(op) => Pending' = Pending \cup {op}
      /\ \A p \in Pending : p.seq < op.seq
      /\ op \notin Pending
  BY Submitted
<1>2. CallsTyped /\ CallsBefore /\ Named /\ ReleasesLast /\ FlushCovers
  BY DEF Accounts
<1>3. waiting' \in [Callers -> Calls] /\ CallsBefore' /\ FlushCovers'
  BY <1>2, CallsSubmit
<1>4. CallsTyped'
  BY <1>2, <1>3 DEF CallsTyped, Phases
<1>5. RecordsStep(op)
  <2>1. \A r \in TextureRids :
       \/ surface'[r] = surface[r] /\ owner'[r] = owner[r]
       \/ /\ surface[r] \notin Leaving /\ surface'[r] \notin Leaving
          /\ \A p \in Pending : r \in Surfaces(p) => Overtakable(p)'
       \/ /\ surface[r] \notin Leaving /\ surface'[r] \in Leaving
          /\ op \in Pending' /\ op.kind = "release" /\ op.dst = r
    <3> SUFFICES ASSUME NEW r \in TextureRids,
                        ~(surface'[r] = surface[r] /\ owner'[r] = owner[r])
                 PROVE  /\ surface[r] \notin Leaving
                        /\ \/ /\ surface'[r] \notin Leaving
                              /\ \A p \in Pending : r \in Surfaces(p) => Overtakable(p)'
                           \/ /\ surface'[r] \in Leaving
                              /\ op \in Pending' /\ op.kind = "release" /\ op.dst = r
      OBVIOUS
    <3>1. CASE /\ surface[r] \notin Leaving /\ surface'[r] \notin Leaving
               /\ \A p \in Pending : r \in Surfaces(p) => Overtakable(p)
      BY <3>1, OvertakableStays
    <3>2. CASE /\ surface[r] \notin Leaving /\ surface'[r] \in Leaving
               /\ ~Immediate(op) /\ op.kind = "release" /\ op.dst = r
      BY <1>1, <3>2
    <3> QED
      BY <3>1, <3>2
  <2>2. op \in Operations
    BY DEF Fresh
  <2>3. Pending' \subseteq Pending \cup {op} /\ Pending \subseteq Pending'
    BY <1>1
  <2>4. op \in Pending' \ Pending =>
       /\ \A r \in Surfaces(op) :
            /\ surface[r] \notin Leaving
            /\ \/ surface'[r] \in {"live", "imported"} /\ owner'[r] = op.by
               \/ surface'[r] \in Leaving
       /\ op.kind = "release" => op.dst \in TextureRids /\ surface'[op.dst] \in Leaving
       /\ \A p \in Pending : p.seq < op.seq
    BY <1>1
  <2> QED
    BY <2>1, <2>2, <2>3, <2>4 DEF RecordsStep
<1>6. Named' /\ ReleasesLast'
  BY <1>2, <1>5, RecordsKept
<1> QED
  BY <1>3, <1>4, <1>6 DEF Accounts

\* The teardown has nothing to keep while the engines run.
LEMMA TornRun ==
  ASSUME TornDown, phase = "run", UNCHANGED <<phase, answered, poolOpen>>,
         \A r \in TextureRids : surface'[r] = "remaining" => surface[r] = "remaining"
  PROVE  TornDown'
BY DEF TornDown

\* A call that leaves the surfaces alone.
LEMMA AccountCall ==
  ASSUME SurfaceInv, NEW c \in Callers, NEW op, Fresh(op), Submit(op), op.by = c, Idle(c),
         phase = "run", op.kind # "release", \A r \in Surfaces(op) : Mine(c, r),
         UNCHANGED <<build, batch, nextToken, surface, owner, poolOpen, phase, answered>>
  PROVE  Accounts' /\ TornDown'
<1>1. QueueInv /\ OwnInv /\ Accounts /\ TornDown /\ CallsTyped
  BY DEF SurfaceInv, Accounts
<1>2. TornDown'
  BY <1>1, TornRun
<1>3. /\ phase' \in Phases /\ surface' \in [TextureRids -> States]
      /\ owner' \in [TextureRids -> Callers \cup {Nobody}]
  BY <1>1 DEF CallsTyped, Phases
<1>4. \A r \in Surfaces(op) : surface[r] \in {"live", "imported"} /\ owner[r] = c
                              /\ surface[r] \notin Leaving
  BY DEF Mine, Leaving
<1>5. Accounts'
  BY <1>1, <1>3, <1>4, AccountSubmit
<1> QED
  BY <1>2, <1>5

\* A texture is created from a surface that is free or pooled.
LEMMA AccountCreate ==
  ASSUME SurfaceInv, NEW c \in Callers, NEW r \in TextureRids, Create(c, r)
  PROVE  Accounts' /\ TornDown'
<1>1. QueueInv /\ OwnInv /\ Accounts /\ TornDown
      /\ CallsTyped /\ CallsBefore /\ Named /\ ReleasesLast /\ FlushCovers
  BY DEF SurfaceInv, Accounts
<1>2. /\ UNCHANGED <<build, queue, lastSeq, drain, waiting, poolOpen, phase, answered>>
      /\ phase = "run" /\ r \in Obtainable
      /\ surface' = [surface EXCEPT ![r] = "live"] /\ owner' = [owner EXCEPT ![r] = c]
  BY DEF Create
<1>3. Pending' = Pending
  BY <1>2 DEF Pending
<1>4. /\ surface' \in [TextureRids -> States] /\ owner' \in [TextureRids -> Callers \cup {Nobody}]
      /\ surface'[r] = "live"
      /\ \A s \in TextureRids : s # r => surface'[s] = surface[s] /\ owner'[s] = owner[s]
  BY <1>1, <1>2 DEF CallsTyped, States
<1>5. TornDown'
  BY <1>1, <1>2, <1>4, TornRun
<1>6. /\ surface[r] \notin Leaving /\ surface'[r] \notin Leaving
      /\ \A p \in Pending : r \in Surfaces(p) => Overtakable(p)
  BY <1>1, <1>2, <1>4, FreeQuiet DEF Leaving
<1>7. \A p \in Pending : r \in Surfaces(p) => Overtakable(p)'
  BY <1>2, <1>6, OvertakableStays
<1>8. RecordsStep(NoCall)
  BY <1>3, <1>4, <1>6, <1>7 DEF RecordsStep
<1>9. Named' /\ ReleasesLast'
  BY <1>1, <1>2, <1>8, RecordsKept
<1>10. CallsTyped'
  BY <1>1, <1>2, <1>4 DEF CallsTyped
<1>11. CallsBefore' /\ FlushCovers'
  BY <1>1, <1>2, <1>3 DEF CallsBefore, FlushCovers, Overtakable
<1> QED
  BY <1>5, <1>9, <1>10, <1>11 DEF Accounts

\* A part of a surface is uploaded through a staging surface.
LEMMA AccountRegion ==
  ASSUME SurfaceInv, NEW c \in Callers, NEW d \in TextureRids, UpdateRegion(c, d)
  PROVE  Accounts' /\ TornDown'
<1>1. QueueInv /\ OwnInv /\ Accounts /\ TornDown /\ CallsTyped /\ Named
  BY DEF SurfaceInv, Accounts
<1>2. PICK op : op = NewOp(c, "region", d, {}, TRUE, FALSE)
  OBVIOUS
<1>3. /\ UNCHANGED <<build, batch, nextToken, owner, poolOpen, phase, answered>>
      /\ phase = "run" /\ Idle(c) /\ Mine(c, d) /\ Submit(op)
      /\ \/ UNCHANGED surface
         \/ \E s \in Obtainable : surface' = Released(s, TRUE) /\ Immediate(op)
  BY <1>2 DEF UpdateRegion, Busy
<1>4. Fresh(op)
  BY <1>1, <1>2, <1>3, FreshMade DEF Kinds, QueueInv
<1>5. op.by = c /\ op.kind = "region" /\ Surfaces(op) = {d} \ {NoRid}
  BY <1>2 DEF NewOp, Surfaces
<1>6. CASE UNCHANGED surface
  <2>1. \A r \in Surfaces(op) : Mine(c, r)
    BY <1>3, <1>5
  <2> QED
    BY <1>3, <1>4, <1>5, <1>6, <2>1, AccountCall
<1>7. CASE \E s \in Obtainable : surface' = Released(s, TRUE) /\ Immediate(op)
  <2>1. PICK s \in TextureRids : /\ surface' = Released(s, TRUE) /\ Immediate(op)
                                 /\ surface[s] \in {"none", "pooled"}
    BY <1>1, <1>7, FreeQuiet
  <2>2. /\ surface' \in [TextureRids -> States] /\ surface'[s] \in {"none", "pooled"}
        /\ \A r \in TextureRids : r # s => surface'[r] = surface[r]
    BY <1>1, <2>1, ReleasedIs
  <2>3. TornDown'
    BY <1>1, <1>3, <2>2, TornRun
  <2>4. \A r \in TextureRids :
          \/ surface'[r] = surface[r] /\ owner'[r] = owner[r]
          \/ /\ surface[r] \notin Leaving /\ surface'[r] \notin Leaving
             /\ \A p \in Pending : r \in Surfaces(p) => Overtakable(p)
    BY <1>1, <1>3, <2>1, <2>2, FreeQuiet DEF Leaving
  <2>5. phase' \in Phases /\ owner' \in [TextureRids -> Callers \cup {Nobody}]
    BY <1>1, <1>3 DEF CallsTyped, Phases
  <2>6. Accounts'
    BY <1>1, <1>3, <1>4, <1>5, <2>1, <2>2, <2>4, <2>5, AccountSubmit
  <2> QED
    BY <2>3, <2>6
<1> QED
  BY <1>3, <1>6, <1>7

\* A texture is released, at once or in turn; on the render thread it may get a fresh surface.
LEMMA AccountRelease ==
  ASSUME SurfaceInv, NEW c \in Callers, NEW r \in TextureRids, NEW keep \in BOOLEAN, NEW op,
         op = NewOp(c, "release", r, {}, keep, FALSE), Submit(op), Idle(c), Mine(c, r),
         phase = "run", UNCHANGED <<build, batch, nextToken, poolOpen, phase, answered>>,
         surface' \in [TextureRids -> States], owner' \in [TextureRids -> Callers \cup {Nobody}],
         Immediate(op) => surface'[r] \in {"none", "pooled"},
         ~Immediate(op) => surface'[r] = "doomed",
         \A s \in TextureRids : s # r =>
           \/ surface'[s] = surface[s] /\ owner'[s] = owner[s]
           \/ surface[s] \in {"none", "pooled"} /\ surface'[s] = "live"
  PROVE  Accounts' /\ TornDown'
<1>1. QueueInv /\ OwnInv /\ Accounts /\ TornDown /\ CallsTyped /\ Named
  BY DEF SurfaceInv, Accounts
<1>2. Fresh(op)
  BY <1>1, FreshMade DEF Kinds, QueueInv
<1>3. op.by = c /\ op.kind = "release" /\ op.dst = r /\ Surfaces(op) \subseteq {r}
  BY DEF NewOp, Surfaces
<1>4. TornDown'
  BY <1>1, TornRun
<1>5. surface[r] \notin Leaving /\ "doomed" \in Leaving /\ "live" \notin Leaving
      /\ "none" \notin Leaving /\ "pooled" \notin Leaving
  BY DEF Mine, Leaving
<1>6. \A s \in TextureRids :
        \/ surface'[s] = surface[s] /\ owner'[s] = owner[s]
        \/ /\ surface[s] \notin Leaving /\ surface'[s] \notin Leaving
           /\ \A p \in Pending : s \in Surfaces(p) => Overtakable(p)
        \/ /\ surface[s] \notin Leaving /\ surface'[s] \in Leaving
           /\ ~Immediate(op) /\ op.kind = "release" /\ op.dst = s
  <2> TAKE s \in TextureRids
  <2>1. CASE s = r /\ Immediate(op)
    <3>1. \A p \in Pending : r \in Surfaces(p) => Overtakable(p)
      BY <1>1, <1>3, <2>1, MineQuiet
    <3> QED
      BY <1>5, <2>1, <3>1
  <2>2. CASE s = r /\ ~Immediate(op)
    BY <1>3, <1>5, <2>2
  <2>3. CASE s # r /\ surface[s] \in {"none", "pooled"} /\ surface'[s] = "live"
    BY <1>1, <1>5, <2>3, FreeQuiet
  <2> QED
    BY <2>1, <2>2, <2>3
<1>7. phase' \in Phases
  BY <1>1 DEF CallsTyped, Phases
<1>8. Accounts'
  BY <1>1, <1>2, <1>3, <1>5, <1>6, <1>7, AccountSubmit
<1> QED
  BY <1>4, <1>8

\* BridgeReleaseTexture.
LEMMA AccountTexture ==
  ASSUME SurfaceInv, NEW c \in Callers, NEW r \in TextureRids, BridgeReleaseTexture(c, r)
  PROVE  Accounts' /\ TornDown'
<1>1. CallsTyped
  BY DEF SurfaceInv, Accounts
<1>2. PICK keep \in BOOLEAN : keep = (surface[r] = "live")
  OBVIOUS
<1>3. PICK op : op = NewOp(c, "release", r, {}, keep, FALSE)
  OBVIOUS
<1>4. /\ UNCHANGED <<build, batch, nextToken, poolOpen, phase, answered>>
      /\ phase = "run" /\ Idle(c) /\ Mine(c, r) /\ Submit(op)
      /\ Immediate(op) => surface' = Released(r, op.keep)
      /\ ~Immediate(op) => surface' = [surface EXCEPT ![r] = "doomed"]
      /\ owner' = [owner EXCEPT ![r] = Nobody]
  BY <1>2, <1>3 DEF BridgeReleaseTexture, Busy
<1>5. /\ owner' \in [TextureRids -> Callers \cup {Nobody}]
      /\ \A s \in TextureRids : s # r => owner'[s] = owner[s]
  BY <1>1, <1>4 DEF CallsTyped
<1>6. /\ surface' \in [TextureRids -> States]
      /\ Immediate(op) => surface'[r] \in {"none", "pooled"}
      /\ ~Immediate(op) => surface'[r] = "doomed"
      /\ \A s \in TextureRids : s # r => surface'[s] = surface[s]
  <2>1. CASE Immediate(op)
    BY <1>1, <1>4, <2>1, ReleasedIs
  <2>2. CASE ~Immediate(op)
    BY <1>1, <1>4, <2>2 DEF CallsTyped, States
  <2> QED
    BY <2>1, <2>2
<1> QED
  BY <1>3, <1>4, <1>5, <1>6, AccountRelease

\* A texture gets a fresh surface.
LEMMA AccountReplace ==
  ASSUME SurfaceInv, NEW c \in Callers, NEW old \in TextureRids, NEW new \in TextureRids,
         NEW keep \in BOOLEAN, Replace(c, old, new, keep), surface[new] \in {"none", "pooled"}
  PROVE  Accounts' /\ TornDown'
<1>1. CallsTyped
  BY DEF SurfaceInv, Accounts
<1>2. PICK op : op = NewOp(c, "release", old, {}, keep, FALSE)
  OBVIOUS
<1>3. /\ UNCHANGED <<build, batch, nextToken, poolOpen, phase, answered>>
      /\ phase = "run" /\ Idle(c) /\ Mine(c, old) /\ Submit(op)
      /\ Immediate(op) => surface' = [Released(old, keep) EXCEPT ![new] = "live"]
      /\ ~Immediate(op) => surface' = [[surface EXCEPT ![old] = "doomed"] EXCEPT ![new] = "live"]
      /\ owner' = [owner EXCEPT ![old] = Nobody, ![new] = c]
  BY <1>2 DEF Replace, Busy
<1>4. old # new /\ surface \in [TextureRids -> States]
  BY <1>1, <1>3 DEF Mine, CallsTyped
<1>5. /\ owner' \in [TextureRids -> Callers \cup {Nobody}]
      /\ \A s \in TextureRids \ {old, new} : owner'[s] = owner[s]
  BY <1>1, <1>3 DEF CallsTyped
<1>6. /\ surface' \in [TextureRids -> States]
      /\ Immediate(op) => surface'[old] \in {"none", "pooled"}
      /\ ~Immediate(op) => surface'[old] = "doomed"
      /\ surface'[new] = "live"
      /\ \A s \in TextureRids \ {old, new} : surface'[s] = surface[s]
  <2>1. CASE Immediate(op)
    <3>1. PICK f \in [TextureRids -> States] :
            /\ f = Released(old, keep) /\ f[old] \in {"none", "pooled"}
            /\ \A s \in TextureRids : s # old => f[s] = surface[s]
      BY <1>1, ReleasedIs
    <3>2. surface' = [f EXCEPT ![new] = "live"]
      BY <1>3, <2>1, <3>1
    <3> QED
      BY <1>4, <2>1, <3>1, <3>2 DEF States
  <2>2. CASE ~Immediate(op)
    BY <1>3, <1>4, <2>2 DEF States
  <2> QED
    BY <2>1, <2>2
<1>7. \A s \in TextureRids : s # old =>
        \/ surface'[s] = surface[s] /\ owner'[s] = owner[s]
        \/ surface[s] \in {"none", "pooled"} /\ surface'[s] = "live"
  BY <1>5, <1>6
<1> QED
  BY <1>2, <1>3, <1>5, <1>6, <1>7, AccountRelease

\* A texture is imported: at once, or when the operation runs.
LEMMA AccountImport ==
  ASSUME SurfaceInv, NEW c \in Callers, Import(c)
  PROVE  Accounts' /\ TornDown'
<1>1. QueueInv /\ OwnInv /\ Accounts /\ TornDown /\ CallsTyped /\ Named
  BY DEF SurfaceInv, Accounts
<1>2. PICK op : op = NewOp(c, "import", NoRid, {}, FALSE, TRUE)
  OBVIOUS
<1>3. /\ UNCHANGED <<build, batch, nextToken, poolOpen, phase, answered>>
      /\ phase = "run" /\ Idle(c) /\ Submit(op)
      /\ \/ UNCHANGED <<surface, owner>>
         \/ /\ Immediate(op)
            /\ \E r \in TextureRids :
                 /\ surface[r] = "none" /\ surface' = [surface EXCEPT ![r] = "imported"]
                 /\ owner' = [owner EXCEPT ![r] = c]
  BY <1>2 DEF Import, Busy
<1>4. Fresh(op)
  BY <1>1, <1>2, <1>3, FreshMade DEF Kinds, QueueInv
<1>5. op.by = c /\ op.kind = "import" /\ Surfaces(op) = {}
  BY <1>2 DEF NewOp, Surfaces
<1>6. CASE UNCHANGED <<surface, owner>>
  BY <1>3, <1>4, <1>5, <1>6, AccountCall
<1>7. CASE /\ Immediate(op)
           /\ \E r \in TextureRids :
                /\ surface[r] = "none" /\ surface' = [surface EXCEPT ![r] = "imported"]
                /\ owner' = [owner EXCEPT ![r] = c]
  <2>1. PICK r \in TextureRids :
          /\ surface[r] = "none" /\ surface' = [surface EXCEPT ![r] = "imported"]
          /\ owner' = [owner EXCEPT ![r] = c]
    BY <1>7
  <2>2. /\ surface' \in [TextureRids -> States] /\ surface'[r] = "imported"
        /\ owner' \in [TextureRids -> Callers \cup {Nobody}]
        /\ \A s \in TextureRids : s # r => surface'[s] = surface[s] /\ owner'[s] = owner[s]
    BY <1>1, <2>1 DEF CallsTyped, States
  <2>3. TornDown'
    BY <1>1, <1>3, <2>2, TornRun
  <2>4. \A s \in TextureRids :
          \/ surface'[s] = surface[s] /\ owner'[s] = owner[s]
          \/ /\ surface[s] \notin Leaving /\ surface'[s] \notin Leaving
             /\ \A p \in Pending : s \in Surfaces(p) => Overtakable(p)
    BY <1>1, <2>1, <2>2, FreeQuiet DEF Leaving
  <2>5. phase' \in Phases
    BY <1>1, <1>3 DEF CallsTyped, Phases
  <2>6. Accounts'
    BY <1>1, <1>3, <1>4, <1>5, <1>7, <2>2, <2>4, <2>5, AccountSubmit
  <2> QED
    BY <2>3, <2>6
<1> QED
  BY <1>3, <1>6, <1>7

\* What leaves the operations, their surfaces and their callers alone.
LEMMA AccountRest ==
  ASSUME SurfaceInv, Pending' = Pending, phase # "run" => batch'.token = 0,
         UNCHANGED <<build, lastSeq, surface, owner, poolOpen, phase, answered, waiting>>
  PROVE  Accounts' /\ TornDown'
<1>1. Accounts'
  BY DEF SurfaceInv, Accounts, CallsTyped, CallsBefore, Named, ReleasesLast, FlushCovers,
         Overtakable
<1>2. TornDown'
  BY DEF SurfaceInv, TornDown
<1> QED
  BY <1>1, <1>2

\* A caller takes its answer, or gives up.
LEMMA AccountReturn ==
  ASSUME SurfaceInv, NEW c \in Callers, Return(c) \/ TimeOut(c)
  PROVE  Accounts' /\ TornDown'
<1>1. QueueInv /\ OwnInv /\ Accounts /\ TornDown
      /\ CallsTyped /\ CallsBefore /\ Named /\ ReleasesLast /\ FlushCovers
  BY DEF SurfaceInv, Accounts
<1>2. /\ UNCHANGED <<build, queue, lastSeq, batch, drain, surface, owner, poolOpen>>
      /\ waiting' = [waiting EXCEPT ![c] = NoCall]
      /\ phase' = IF phase = "flushing" THEN "flushed" ELSE phase
  BY DEF Return, TimeOut
<1>3. /\ answered' \in BOOLEAN
      /\ answered' => answered
      /\ phase = "run" /\ answered => answered'
  BY <1>1, Zenon DEF Return, TimeOut, CallsTyped
<1>4. Pending' = Pending
  BY <1>2 DEF Pending
<1>5. NoCall \in Calls /\ NoCall.seq = 0 /\ NoCall.kind = "none" /\ NoCall.state = "none"
  BY DEF NoCall, Calls
<1>6. /\ waiting' \in [Callers -> Calls]
      /\ \A d \in Callers : waiting'[d] = waiting[d] \/ waiting'[d] = NoCall
  BY <1>1, <1>2, <1>5 DEF CallsTyped
<1>7. phase' \in Phases /\ (phase' = "run" <=> phase = "run")
  BY <1>1, <1>2 DEF CallsTyped, Phases
<1>8. CallsTyped'
  <2>1. phase' \in {"run", "flushing", "flushed", "releasing", "closed"}
    BY <1>7 DEF Phases
  <2>2. /\ surface' \in [TextureRids -> States] /\ poolOpen' \in BOOLEAN
        /\ owner' \in [TextureRids -> Callers \cup {Nobody}]
    BY <1>1, <1>2 DEF CallsTyped
  <2> QED
    BY <1>3, <1>6, <2>1, <2>2 DEF CallsTyped
<1>9. CallsBefore'
  <2>1. lastSeq \in Nat
    BY <1>1 DEF QueueInv, QueueTyped
  <2> QED
    BY <1>1, <1>2, <1>5, <1>6, <2>1 DEF CallsBefore
<1>10. FlushCovers'
  <2> SUFFICES ASSUME NEW d \in Callers, waiting'[d].kind = "flush", waiting'[d].state = "ok",
                      NEW p \in Pending', p.by = d, p.seq < waiting'[d].seq
               PROVE  Overtakable(p)'
    BY DEF FlushCovers
  <2>1. waiting'[d] = waiting[d]
    BY <1>5, <1>6
  <2>2. Overtakable(p)
    BY <1>1, <1>4, <2>1 DEF FlushCovers
  <2> QED
    BY <1>2, <1>7, <2>2, OvertakableStays
<1>11. RecordsStep(NoCall)
  BY <1>2, <1>4 DEF RecordsStep
<1>12. Named' /\ ReleasesLast'
  BY <1>1, <1>2, <1>7, <1>11, RecordsKept
<1>13. TornDown'
  <2>1. /\ phase' = "run" => answered'
        /\ phase' # "run" => batch'.token = 0
        /\ poolOpen' <=> phase' \in {"run", "flushing", "flushed"}
        /\ poolOpen' \/ phase' = "closed" => \A r \in TextureRids : surface'[r] # "remaining"
    <3>1. phase' = "run" => answered'
      BY <1>1, <1>3, <1>7, Zenon DEF TornDown
    <3> QED
      BY <1>1, <1>2, <1>7, <3>1 DEF TornDown
  <2>2. ASSUME ~build'.inline, ~build'.deferred, phase' = "flushing" PROVE FALSE
    BY <1>2, <2>2
  <2>3. ASSUME ~build'.inline, ~build'.deferred, phase' = "flushed", answered' PROVE Pending' = {}
    <3>1. CASE phase = "flushed"
      BY <1>1, <1>2, <1>3, <1>4, <2>3, <3>1 DEF TornDown
    <3>2. CASE phase = "flushing"
      <4>1. waiting[c] # NoCall
        BY <1>5 DEF Return, TimeOut
      <4>2. c = Main
        BY <1>1, <1>2, <2>3, <3>2, <4>1 DEF TornDown
      <4>3. ~TimeOut(c)
        BY <2>3, <3>2 DEF TimeOut
      <4>4. waiting[Main].state = "ok"
        BY <1>2, <2>3, <4>2, <4>3 DEF Return, OnRenderThread
      <4> QED
        BY <1>1, <1>2, <1>4, <2>3, <3>2, <4>4 DEF TornDown
    <3> QED
      BY <1>2, <2>3, <3>1, <3>2
  <2>4. ASSUME ~build'.inline, ~build'.deferred, phase' \in {"releasing", "closed"}, answered'
        PROVE  /\ \A p \in Pending' : p.kind = "release" /\ ~p.keep
               /\ \A r \in TextureRids : surface'[r] \in {"none", "remaining", "doomed", "staging"}
    <3>1. phase = phase' /\ answered
      BY <1>2, <1>3, <2>4
    <3> QED
      BY <1>1, <1>2, <1>4, <2>4, <3>1 DEF TornDown
  <2> QED
    BY <2>1, <2>2, <2>3, <2>4, Zenon DEF TornDown
<1> QED
  BY <1>8, <1>9, <1>10, <1>12, <1>13 DEF Accounts

\* A step of a caller.
LEMMA AccountCaller ==
  ASSUME SurfaceInv, NEW c \in Callers, CallerStep(c)
  PROVE  Accounts' /\ TornDown' /\ OwnInv'
<1>0. QueueTyped /\ QueueInv /\ OwnInv /\ TornDown /\ CallsTyped /\ Named
  BY DEF SurfaceInv, Accounts, QueueInv
<1>1. ASSUME NEW kind \in {"draw", "plain"}, NEW d \in TextureRids, NEW srcs \in SUBSET TextureRids,
             Paint(c, kind, d, srcs)
      PROVE  Accounts' /\ TornDown' /\ phase' = phase
  <2>1. PICK op : op = NewOp(c, kind, d, srcs, TRUE, FALSE)
    OBVIOUS
  <2>2. Fresh(op)
    BY <1>0, <1>1, <2>1, FreshMade DEF Paint, Busy, Kinds
  <2>3. op.by = c /\ op.kind # "release" /\ Surfaces(op) \subseteq srcs \cup {d}
    BY <2>1 DEF NewOp, Surfaces
  <2> QED
    BY <1>1, <2>1, <2>2, <2>3, AccountCall DEF Paint, Busy
<1>2. ASSUME NEW kind \in {"read", "readAsync", "flush"}, NEW srcs \in SUBSET TextureRids,
             NEW wait \in BOOLEAN, Busy(c, kind), \A r \in srcs : Mine(c, r),
             Submit(NewOp(c, kind, NoRid, srcs, TRUE, wait)),
             UNCHANGED <<build, batch, nextToken, surface, owner, poolOpen, phase, answered>>
      PROVE  Accounts' /\ TornDown' /\ phase' = phase
  <2>1. PICK op : op = NewOp(c, kind, NoRid, srcs, TRUE, wait)
    OBVIOUS
  <2>2. Fresh(op)
    BY <1>0, <1>2, <2>1, FreshMade DEF Busy, Kinds
  <2>3. op.by = c /\ op.kind # "release" /\ Surfaces(op) \subseteq srcs
    BY <2>1 DEF NewOp, Surfaces
  <2> QED
    BY <1>2, <2>1, <2>2, <2>3, AccountCall DEF Busy
<1>3. ASSUME NEW r \in TextureRids,
             \/ Create(c, r) \/ UpdateRegion(c, r)
             \/ BridgeReleaseTexture(c, r) \/ BridgeReadRgba(c, r)
             \/ BridgeBeginReadRgba(c, r)
             \/ BridgeClearRgba(c, r) \/ BridgeMosaicRects(c, r)
             \/ UpdateWhole(c, r)
      PROVE  Accounts' /\ TornDown' /\ phase' = phase
  <2>1. CASE Create(c, r)
    BY <2>1, AccountCreate DEF Create
  <2>2. CASE UpdateRegion(c, r)
    BY <2>2, AccountRegion DEF UpdateRegion
  <2>3. CASE BridgeReleaseTexture(c, r)
    BY <2>3, AccountTexture DEF BridgeReleaseTexture
  <2>4. CASE BridgeReadRgba(c, r)
    <3>1. PICK srcs \in SUBSET TextureRids : srcs = {r}
      OBVIOUS
    <3>2. Submit(NewOp(c, "read", NoRid, srcs, TRUE, TRUE)) /\ Busy(c, "read")
      BY <2>4, <3>1 DEF BridgeReadRgba
    <3>3. \A x \in srcs : Mine(c, x)
      BY <2>4, <3>1 DEF BridgeReadRgba
    <3> QED
      BY <1>2, <2>4, <3>2, <3>3 DEF BridgeReadRgba
  <2>5. CASE BridgeBeginReadRgba(c, r)
    <3>1. PICK srcs \in SUBSET TextureRids : srcs = {r}
      OBVIOUS
    <3>2. Submit(NewOp(c, "readAsync", NoRid, srcs, TRUE, FALSE)) /\ Busy(c, "readAsync")
      BY <2>5, <3>1 DEF BridgeBeginReadRgba
    <3>3. \A x \in srcs : Mine(c, x)
      BY <2>5, <3>1 DEF BridgeBeginReadRgba
    <3> QED
      BY <1>2, <2>5, <3>2, <3>3 DEF BridgeBeginReadRgba
  <2>6. CASE BridgeClearRgba(c, r) \/ BridgeMosaicRects(c, r) \/ UpdateWhole(c, r)
    BY <1>1, <2>6 DEF BridgeClearRgba, BridgeMosaicRects, UpdateWhole
  <2> QED
    BY <1>3, <2>1, <2>2, <2>3, <2>4, <2>5, <2>6
<1>4. ASSUME NEW d \in TextureRids, NEW s \in TextureRids,
             BridgeDrawTriangles(c, d, s) \/ BridgeCopyRect(c, d, s)
      PROVE  Accounts' /\ TornDown' /\ phase' = phase
  BY <1>1, <1>4 DEF BridgeDrawTriangles, BridgeCopyRect, Sampling
<1>5. ASSUME NEW d \in TextureRids, NEW s \in TextureRids, NEW t \in TextureRids,
             BridgeBlendRect(c, d, s, t) \/ BridgeDrawMaskedTriangles(c, d, s, t)
      PROVE  Accounts' /\ TornDown' /\ phase' = phase
  BY <1>1, <1>5 DEF BridgeBlendRect, BridgeDrawMaskedTriangles, Sampling
<1>6. ASSUME NEW old \in TextureRids, NEW new \in TextureRids,
             UpdateVersioned(c, old, new) \/ ClearVersioned(c, old, new)
      PROVE  Accounts' /\ TornDown' /\ phase' = phase
  <2>1. surface[new] \in {"none", "pooled"}
    BY <1>0, <1>6, FreeQuiet DEF UpdateVersioned, ClearVersioned
  <2>2. Replace(c, old, new, TRUE) \/ Replace(c, old, new, FALSE)
    BY <1>6 DEF UpdateVersioned, ClearVersioned
  <2> QED
    BY <2>1, <2>2, AccountReplace DEF Replace
<1>7. ASSUME Import(c) \/ BridgeFlush(c) PROVE Accounts' /\ TornDown' /\ phase' = phase
  <2>1. CASE Import(c)
    BY <2>1, AccountImport DEF Import
  <2>2. CASE BridgeFlush(c)
    <3>1. PICK srcs \in SUBSET TextureRids : srcs = {}
      OBVIOUS
    <3>2. Submit(NewOp(c, "flush", NoRid, srcs, TRUE, TRUE)) /\ Busy(c, "flush")
      BY <2>2, <3>1 DEF BridgeFlush
    <3>3. \A x \in srcs : Mine(c, x)
      BY <3>1
    <3> QED
      BY <1>2, <2>2, <3>2, <3>3 DEF BridgeFlush
  <2> QED
    BY <1>7, <2>1, <2>2
<1>8. ASSUME BridgeBeginBatch(c) \/ BridgeEndBatch(c)
      PROVE  Accounts' /\ TornDown' /\ phase' = phase
  <2>1. Pending' = Pending
    BY <1>0, <1>8, QueueBegin, QueueEnd
  <2>2. UNCHANGED <<build, lastSeq, surface, owner, poolOpen, phase, answered, waiting>>
    BY <1>8 DEF BridgeBeginBatch, BridgeEndBatch
  <2>3. ASSUME phase # "run" PROVE batch'.token = 0
    <3>1. batch.token = 0 /\ BridgeEndBatch(c)
      BY <1>0, <1>8, <2>3 DEF TornDown, BridgeBeginBatch
    <3>2. batch' = NoBatch \/ batch' = [batch EXCEPT !.depth = @ - 1]
      BY <3>1 DEF BridgeEndBatch
    <3> QED
      BY <1>0, <3>1, <3>2 DEF NoBatch, QueueTyped, Batches
  <2> QED
    BY <2>1, <2>2, <2>3, AccountRest
<1>9. ASSUME Return(c) \/ TimeOut(c)
      PROVE  Accounts' /\ TornDown' /\ (phase' = "run" => phase = "run")
  BY <1>9, AccountReturn DEF Return, TimeOut
<1>10. Accounts' /\ TornDown' /\ (phase' = "run" => phase = "run")
  BY <1>3, <1>4, <1>5, <1>6, <1>7, <1>8, <1>9 DEF CallerStep
<1>11. OwnInv'
  <2>1. CASE Submits
    BY <1>0, <1>10, <2>1, OwnSubmit
  <2>2. CASE Rests
    BY <1>0, <1>10, <2>2 DEF Rests, OwnInv, OwnQueued, Held, Running
  <2>3. CASE BridgeBeginBatch(c) \/ BridgeEndBatch(c)
    BY <1>0, <1>8, <2>3, OwnBatch
  <2> QED
    BY <1>0, <2>1, <2>2, <2>3, CallerQueues
<1> QED
  BY <1>10, <1>11

\* The teardown flushes, empties the pool, releases what remains, and is done.
LEMMA AccountTeardown ==
  ASSUME SurfaceInv, Teardown \/ Closed
  PROVE  Accounts' /\ TornDown' /\ OwnInv'
<1>1. QueueInv /\ OwnInv /\ Accounts /\ TornDown /\ QueueTyped
      /\ CallsTyped /\ CallsBefore /\ Named /\ ReleasesLast /\ FlushCovers
  BY DEF SurfaceInv, Accounts, QueueInv
<1>2. Main \in Callers /\ phase \in Phases
  BY <1>1, GpuQueueAssumption DEF CallsTyped, Phases
<1>3. CASE Close
  <2>1. PICK op : op = NewOp(Main, "flush", NoRid, {}, TRUE, TRUE)
    OBVIOUS
  <2>2. /\ phase = "run" /\ batch.token = 0 /\ \A c \in Callers : Idle(c)
        /\ Submit(op) /\ phase' = "flushing"
        /\ UNCHANGED <<build, batch, nextToken, surface, owner, poolOpen, answered>>
    BY <1>3, <2>1 DEF Close
  <2>3. Fresh(op)
    BY <1>1, <1>2, <2>1, <2>2, FreshMade DEF Kinds
  <2>4. op.by = Main /\ op.kind = "flush" /\ Surfaces(op) = {} /\ op.wait
    BY <2>1 DEF NewOp, Surfaces
  <2>5. /\ phase' \in Phases /\ surface' \in [TextureRids -> States]
        /\ owner' \in [TextureRids -> Callers \cup {Nobody}]
    BY <1>1, <2>2 DEF CallsTyped, Phases
  <2>6. Accounts'
    BY <1>1, <1>2, <2>2, <2>3, <2>4, <2>5, AccountSubmit
  <2>7. ASSUME ~build.inline
        PROVE  /\ \A c \in Callers \ {Main} : waiting'[c] = NoCall
               /\ waiting'[Main].seq = lastSeq' /\ waiting'[Main].state # "ok"
    <3>1. ~Immediate(op)
      BY <2>7 DEF Immediate, OnRenderThread
    <3>2. waiting' = Calling(op, "wait") /\ lastSeq' = op.seq /\ op.seq \in Nat
      BY <1>1, <2>2, <2>3, <3>1, Submitted
    <3>3. waiting' = [waiting EXCEPT ![Main] = [seq |-> op.seq, kind |-> "flush", state |-> "wait"]]
      BY <2>4, <3>2 DEF Calling
    <3>4. waiting'[Main] = [seq |-> op.seq, kind |-> "flush", state |-> "wait"]
          /\ \A c \in Callers \ {Main} : waiting'[c] = waiting[c]
      BY <1>1, <1>2, <3>3 DEF CallsTyped
    <3>5. \A c \in Callers : waiting[c] = NoCall
      BY <2>2 DEF Idle
    <3> QED
      BY <3>2, <3>4, <3>5
  <2>8. TornDown'
    BY <1>1, <2>2, <2>7 DEF TornDown
  <2>9. Submits /\ phase' # "run"
    BY <2>2, <2>3 DEF Submits
  <2> QED
    BY <1>1, <2>6, <2>8, <2>9, OwnSubmit
<1>4. CASE ClosePool
  <2>1. /\ phase = "flushed" /\ phase' = "releasing" /\ poolOpen' = FALSE
        /\ surface' = [r \in TextureRids |->
                         IF surface[r] = "pooled" THEN "none"
                         ELSE IF surface[r] \in {"live", "imported"} THEN "remaining"
                         ELSE surface[r]]
        /\ owner' = [r \in TextureRids |-> Nobody]
        /\ UNCHANGED <<build, queue, lastSeq, scheduled, batch, nextToken, callbacks, drain,
                       waiting, split, answered>>
    BY <1>4 DEF ClosePool
  <2>2. Pending' = Pending
    BY <2>1 DEF Pending
  <2>3. /\ surface' \in [TextureRids -> States]
        /\ owner' \in [TextureRids -> Callers \cup {Nobody}]
    BY <1>1, <2>1 DEF CallsTyped, States
  <2>4. RecordsStep(NoCall)
    <3>1. ASSUME NEW r \in TextureRids
          PROVE  \/ surface'[r] = surface[r] /\ surface[r] \in Leaving
                 \/ /\ surface[r] \notin Leaving /\ surface'[r] \notin Leaving
                    /\ \/ surface'[r] = "remaining"
                       \/ \A p \in Pending : r \in Surfaces(p) => Overtakable(p)'
      <4>1. surface[r] \in States
        BY <1>1 DEF CallsTyped
      <4>2. CASE surface[r] \in {"none", "pooled"}
        <5>1. \A p \in Pending : r \in Surfaces(p) => Overtakable(p)
          BY <1>1, <4>2, FreeQuiet
        <5>2. \A p \in Pending : r \in Surfaces(p) => Overtakable(p)'
          BY <2>1, <5>1, OvertakableStays
        <5> QED
          BY <2>1, <4>2, <5>2 DEF Leaving
      <4>3. CASE surface[r] \in {"live", "imported", "remaining"}
        BY <2>1, <4>3 DEF Leaving
      <4>4. CASE surface[r] \in {"doomed", "staging"}
        BY <2>1, <4>4 DEF Leaving
      <4> QED
        BY <4>1, <4>2, <4>3, <4>4 DEF States
    <3> QED
      BY <2>2, <3>1 DEF RecordsStep
  <2>5. Named' /\ ReleasesLast'
    BY <1>1, <2>1, <2>4, RecordsKept
  <2>6. CallsTyped'
    BY <1>1, <2>1, <2>3 DEF CallsTyped
  <2>7. CallsBefore' /\ FlushCovers'
    BY <1>1, <2>1, <2>2 DEF CallsBefore, FlushCovers, Overtakable
  <2>8. TornDown'
    <3>1. \A r \in TextureRids : surface'[r] \in {"none", "remaining", "doomed", "staging"}
      BY <1>1, <2>1 DEF CallsTyped, States
    <3> QED
      BY <1>1, <2>1, <2>2, <3>1 DEF TornDown
  <2>9. OwnInv'
    BY <1>1, <2>1 DEF OwnInv, OwnQueued, Held
  <2> QED
    BY <2>5, <2>6, <2>7, <2>8, <2>9 DEF Accounts
<1>5. ASSUME NEW r \in TextureRids, CloseRelease(r)
      PROVE  Accounts' /\ TornDown' /\ OwnInv'
  <2>1. PICK op : op = NewOp(Main, "release", r, {}, FALSE, TRUE)
    OBVIOUS
  <2>2. /\ phase = "releasing" /\ Idle(Main) /\ surface[r] = "remaining" /\ Submit(op)
        /\ surface' = [surface EXCEPT ![r] = IF Immediate(op) THEN "none" ELSE "doomed"]
        /\ UNCHANGED <<build, batch, nextToken, owner, poolOpen, phase, answered>>
    BY <1>5, <2>1 DEF CloseRelease
  <2>3. Fresh(op)
    BY <1>1, <1>2, <2>1, <2>2, FreshMade DEF Kinds
  <2>4. op.by = Main /\ op.kind = "release" /\ op.dst = r /\ Surfaces(op) \subseteq {r}
        /\ ~op.keep
    BY <2>1 DEF NewOp, Surfaces
  <2>5. /\ phase' \in Phases /\ surface' \in [TextureRids -> States]
        /\ owner' \in [TextureRids -> Callers \cup {Nobody}]
        /\ \A s \in TextureRids : s # r => surface'[s] = surface[s]
        /\ Immediate(op) => surface'[r] = "none"
        /\ ~Immediate(op) => surface'[r] = "doomed"
    BY <1>1, <2>2 DEF CallsTyped, Phases, States
  <2>6. ASSUME Immediate(op), NEW p \in Pending PROVE Overtakable(p)
    BY <2>2, <2>6 DEF Immediate, OnRenderThread, Overtakable
  <2>7. surface[r] \notin Leaving /\ "none" \notin Leaving /\ "doomed" \in Leaving
    BY <2>2 DEF Leaving
  <2>8. \A s \in TextureRids :
          \/ surface'[s] = surface[s] /\ owner'[s] = owner[s]
          \/ /\ surface[s] \notin Leaving /\ surface'[s] \notin Leaving
             /\ \A p \in Pending : s \in Surfaces(p) => Overtakable(p)
          \/ /\ surface[s] \notin Leaving /\ surface'[s] \in Leaving
             /\ ~Immediate(op) /\ op.kind = "release" /\ op.dst = s
    BY <2>2, <2>4, <2>5, <2>6, <2>7
  <2>9. Accounts'
    BY <1>1, <1>2, <2>2, <2>3, <2>4, <2>5, <2>7, <2>8, AccountSubmit
  <2>10. TornDown'
    <3>1. Pending' \subseteq Pending \cup {op}
      BY <1>1, <2>2, <2>3, Submitted
    <3> QED
      BY <1>1, <2>2, <2>4, <2>5, <3>1 DEF TornDown
  <2>11. Submits /\ phase' # "run"
    BY <2>2, <2>3 DEF Submits
  <2> QED
    BY <1>1, <2>9, <2>10, <2>11, OwnSubmit
<1>6. CASE CloseDone
  <2>1. /\ phase = "releasing" /\ \A r \in TextureRids : surface[r] # "remaining"
        /\ phase' = "closed"
        /\ UNCHANGED <<build, queue, lastSeq, scheduled, batch, nextToken, callbacks,
                       drain, waiting, surface, owner, poolOpen, split, answered>>
    BY <1>6 DEF CloseDone
  <2>2. Pending' = Pending
    BY <2>1 DEF Pending
  <2>3. RecordsStep(NoCall)
    BY <2>1, <2>2 DEF RecordsStep
  <2>4. Named' /\ ReleasesLast'
    BY <1>1, <2>1, <2>3, RecordsKept
  <2>5. CallsTyped' /\ CallsBefore' /\ FlushCovers'
    BY <1>1, <2>1, <2>2 DEF CallsTyped, CallsBefore, FlushCovers, Overtakable
  <2>6. TornDown'
    BY <1>1, <2>1, <2>2 DEF TornDown
  <2>7. OwnInv'
    BY <1>1, <2>1 DEF OwnInv, OwnQueued, Held
  <2> QED
    BY <2>4, <2>5, <2>6, <2>7 DEF Accounts
<1>7. CASE Closed
  <2>1. UNCHANGED queueVars
    BY <1>7 DEF Closed
  <2>2. Pending' = Pending
    BY <2>1 DEF queueVars, Pending
  <2>3. Accounts' /\ TornDown'
    BY <1>1, <2>1, <2>2, AccountRest DEF queueVars, TornDown, SurfaceInv
  <2>4. OwnInv'
    BY <1>1, <2>1 DEF queueVars, OwnInv, OwnQueued, Held, Running
  <2> QED
    BY <2>3, <2>4
<1> QED
  BY <1>3, <1>4, <1>5, <1>6, <1>7 DEF Teardown

-----------------------------------------------------------------------------
(* What the render thread runs. *)

\* What is left when an operation has run, and what was run with it.
LEMMA Executed ==
  ASSUME QueueInv, OwnInv, NEW op, drain.cur = <<op>>, drain'.held = <<>>, drain'.cur = <<>>,
         NEW rel,
         \/ queue' = queue
         \/ queue' = Append(queue, rel) /\ Fresh(rel)
  PROVE  /\ op \in Pending /\ op.seq \in Nat
         /\ Pending' \subseteq Pending \cup {rel}
         /\ queue' = queue => Pending' \subseteq Pending
         /\ queue' = Append(queue, rel) => rel \in Pending'
         /\ \A p \in Pending' : op.seq < p.seq /\ p.seq \in Nat
         /\ \A q \in Pending \ Pending' : q = op \/ q.kind = "draw"
<1>1. op \in Elems(drain.cur) /\ Elems(drain.cur) = {op} /\ op \in Pending
  BY ElemsFew DEF Pending
<1>2. Pending' = Elems(queue')
  BY ElemsFew DEF Pending
<1>3. /\ op.seq \in Nat /\ op.seq <= lastSeq /\ lastSeq \in Nat
      /\ \A p \in Elems(queue) : op.seq < p.seq /\ p.seq \in Nat
  BY <1>1, PendingTyped DEF QueueInv, QueueTyped, InLine, Pending
<1>4. \A q \in Pending : q \in Elems(queue) \/ q = op \/ q.kind = "draw"
  BY <1>1 DEF Pending, OwnInv, Held
<1>5. CASE queue' = queue
  <2>1. Pending' = Elems(queue) /\ Elems(queue) \subseteq Pending
    BY <1>2, <1>5 DEF Pending
  <2>2. queue' # Append(queue, rel)
    BY <1>5 DEF QueueInv, QueueTyped
  <2> QED
    BY <1>1, <1>3, <1>4, <2>1, <2>2
<1>6. CASE queue' = Append(queue, rel) /\ Fresh(rel)
  <2>1. Pending' = Elems(queue) \cup {rel} /\ Elems(queue) \subseteq Pending
    BY <1>2, <1>6, ElemsAppend DEF Pending, QueueInv, QueueTyped, Fresh
  <2>2. rel.seq = lastSeq + 1
    BY <1>6 DEF Fresh
  <2>3. queue' # queue
    BY <1>6 DEF QueueInv, QueueTyped
  <2> QED
    BY <1>1, <1>3, <1>4, <2>1, <2>2, <2>3
<1> QED
  BY <1>5, <1>6

\* An operation runs: it fills, stages or frees surfaces, and its caller is answered.
LEMMA AccountRun ==
  ASSUME SurfaceInv, NEW op, drain.cur = <<op>>, drain'.held = <<>>, drain'.cur = <<>>, Finish(op),
         UNCHANGED <<build, batch, poolOpen, phase, answered>>, NEW rel,
         \/ queue' = queue /\ lastSeq' = lastSeq
         \/ /\ queue' = Append(queue, rel) /\ lastSeq' = lastSeq + 1
            /\ Fresh(rel) /\ rel.by = Nobody /\ rel.src = {} /\ ~AtOnce("release")
            /\ rel.dst \in TextureRids /\ surface[rel.dst] \in {"none", "pooled"}
            /\ surface'[rel.dst] = "staging" /\ rel.kind = "release",
         surface' \in [TextureRids -> States], owner' \in [TextureRids -> Callers \cup {Nobody}],
         \A r \in TextureRids :
           \/ surface'[r] = surface[r] /\ owner'[r] = owner[r]
           \/ surface[r] \in {"none", "pooled"} /\ surface'[r] \in {"none", "pooled", "imported"}
           \/ /\ surface[r] \in {"none", "pooled"} /\ surface'[r] = "staging"
              /\ rel.dst = r /\ queue' = Append(queue, rel)
           \/ op.kind = "release" /\ op.dst = r /\ surface'[r] \in {"none", "pooled"},
         op.kind = "release" => surface'[op.dst] \in {"none", "pooled"},
         ~build.inline /\ ~build.deferred /\ phase \in {"releasing", "closed"} /\ answered =>
           \A r \in TextureRids : surface'[r] \in {"none", "remaining", "doomed", "staging"}
  PROVE  Accounts' /\ TornDown'
<1>1. QueueInv /\ OwnInv /\ Accounts /\ TornDown /\ QueueTyped
      /\ CallsTyped /\ CallsBefore /\ Named /\ ReleasesLast /\ FlushCovers
  BY DEF SurfaceInv, Accounts, QueueInv
<1>2. /\ op \in Pending /\ op.seq \in Nat
      /\ Pending' \subseteq Pending \cup {rel}
      /\ queue' = queue => Pending' \subseteq Pending
      /\ queue' = Append(queue, rel) => rel \in Pending'
      /\ \A p \in Pending' : op.seq < p.seq /\ p.seq \in Nat
      /\ \A q \in Pending \ Pending' : q = op \/ q.kind = "draw"
  BY <1>1, Executed
<1>3. lastSeq \in Nat /\ lastSeq' \in Nat /\ lastSeq <= lastSeq'
  BY <1>1 DEF QueueTyped
<1>4. \A p \in Pending' \ Pending : p = rel /\ queue' = Append(queue, rel) /\ p.by = Nobody
  BY <1>2
<1>5. waiting' \in [Callers -> Calls] /\ CallsBefore' /\ FlushCovers'
  BY <1>1, <1>2, <1>3, <1>4, CallsRun
<1>6. CallsTyped'
  BY <1>1, <1>5 DEF CallsTyped
<1>7. RecordsStep(rel)
  <2>1. ASSUME NEW r \in TextureRids, op.kind = "release", op.dst = r
        PROVE  surface[r] \in Leaving /\ \A p \in Pending' : r \notin Surfaces(p)
    <3>1. surface[r] \in {"doomed", "staging"}
          /\ \A p \in Pending : r \in Surfaces(p) => p.seq <= op.seq
      BY <1>1, <1>2, <2>1 DEF ReleasesLast
    <3>2. ASSUME NEW p \in Pending' PROVE r \notin Surfaces(p)
      <4>1. CASE p \in Pending
        BY <1>2, <3>1, <4>1
      <4>2. CASE p \notin Pending
        <5>1. p = rel /\ rel.dst # r /\ rel.src = {}
          BY <1>4, <3>1, <4>2
        <5> QED
          BY <5>1 DEF Surfaces
      <4> QED
        BY <4>1, <4>2
    <3> QED
      BY <3>1, <3>2 DEF Leaving
  <2>2. \A r \in TextureRids : surface[r] \in {"none", "pooled"} =>
          \A p \in Pending : r \in Surfaces(p) => Overtakable(p)'
    BY <1>1, FreeQuiet, OvertakableStays
  <2>3. ASSUME NEW r \in TextureRids
        PROVE  \/ surface'[r] = surface[r] /\ owner'[r] = owner[r]
               \/ /\ surface[r] \notin Leaving /\ surface'[r] \notin Leaving
                  /\ \A p \in Pending : r \in Surfaces(p) => Overtakable(p)'
               \/ /\ surface[r] \notin Leaving /\ surface'[r] \in Leaving
                  /\ rel \in Pending' /\ rel.kind = "release" /\ rel.dst = r
               \/ /\ surface[r] \in Leaving /\ surface'[r] \notin Leaving
                  /\ \A p \in Pending' : r \notin Surfaces(p)
    <3>1. CASE surface'[r] = surface[r] /\ owner'[r] = owner[r]
      BY <3>1
    <3>2. CASE /\ surface[r] \in {"none", "pooled"}
               /\ surface'[r] \in {"none", "pooled", "imported"}
      BY <2>2, <3>2 DEF Leaving
    <3>3. CASE /\ surface[r] \in {"none", "pooled"} /\ surface'[r] = "staging"
               /\ rel.dst = r /\ queue' = Append(queue, rel)
      <4>1. queue' # queue
        BY <1>1, <3>3 DEF QueueTyped
      <4> QED
        BY <1>2, <3>3, <4>1 DEF Leaving
    <3>4. CASE op.kind = "release" /\ op.dst = r /\ surface'[r] \in {"none", "pooled"}
      BY <2>1, <3>4 DEF Leaving
    <3> QED
      BY <3>1, <3>2, <3>3, <3>4
  <2>4. \A q \in Pending \ Pending' : q.kind = "release" => surface'[q.dst] \notin Leaving
    BY <1>2 DEF Leaving
  <2>5. ASSUME rel \in Pending' \ Pending
        PROVE  /\ rel \in Operations
               /\ \A r \in Surfaces(rel) : surface[r] \notin Leaving /\ surface'[r] \in Leaving
               /\ rel.dst \in TextureRids /\ surface'[rel.dst] \in Leaving
               /\ \A p \in Pending : p.seq < rel.seq
    <3>1. /\ Fresh(rel) /\ rel.src = {} /\ rel.dst \in TextureRids
          /\ surface[rel.dst] \in {"none", "pooled"} /\ surface'[rel.dst] = "staging"
      BY <1>2, <2>5
    <3>2. Surfaces(rel) \subseteq {rel.dst}
      BY <3>1 DEF Surfaces
    <3>3. \A p \in Pending : p.seq <= lastSeq /\ p.seq \in Nat
      BY <1>1, PendingTyped DEF QueueInv, InLine
    <3> QED
      BY <1>3, <3>1, <3>2, <3>3 DEF Fresh, Leaving
  <2> QED
    BY <1>2, <2>3, <2>4, <2>5 DEF RecordsStep
<1>8. Named' /\ ReleasesLast'
  BY <1>1, <1>7, RecordsKept
<1>9. TornDown'
  <2>1. \A r \in TextureRids : surface'[r] = "remaining" => surface[r] = "remaining"
    OBVIOUS
  <2>2. /\ phase = "run" => answered
        /\ phase # "run" => batch.token = 0
        /\ poolOpen <=> phase \in {"run", "flushing", "flushed"}
        /\ poolOpen \/ phase = "closed" => \A r \in TextureRids : surface'[r] # "remaining"
    BY <1>1, <2>1 DEF TornDown
  <2>3. ASSUME ~build.inline, ~build.deferred, phase # "run"
        PROVE  lastSeq' = lastSeq /\ Pending' \subseteq Pending
    <3>1. AtOnce("release")
      BY <2>2, <2>3 DEF AtOnce
    <3> QED
      BY <1>2, <3>1
  <2>4. ASSUME ~build.inline, ~build.deferred, phase = "flushing"
        PROVE  /\ \A c \in Callers \ {Main} : waiting'[c] = NoCall
               /\ waiting'[Main].seq = lastSeq
               /\ waiting'[Main].state = "ok" => Pending' = {}
    <3>1. /\ \A c \in Callers \ {Main} : waiting[c] = NoCall
          /\ waiting[Main].seq = lastSeq
          /\ waiting[Main].state = "ok" => Pending = {}
      BY <1>1, <2>4 DEF TornDown
    <3>2. CASE ~Awaited(op)
      BY <2>3, <2>4, <3>1, <3>2 DEF Finish
    <3>3. CASE Awaited(op)
      <4>1. op.by \in Callers /\ waiting[op.by].seq = op.seq /\ 0 < op.seq
        BY <1>1, <1>2, <3>3 DEF Awaited, QueueInv, InLine
      <4>2. op.by = Main /\ op.seq = lastSeq
        BY <3>1, <4>1 DEF NoCall
      <4>3. Pending' = {}
        BY <1>1, <1>2, <1>3, <2>3, <2>4, <4>2 DEF QueueInv, InLine
      <4>4. waiting' = [waiting EXCEPT ![Main].state = "ok"]
        BY <3>3, <4>2 DEF Finish
      <4>5. \A c \in Callers \ {Main} : waiting'[c] = waiting[c]
        BY <1>1, <4>4 DEF CallsTyped
      <4>6. waiting'[Main] = [waiting[Main] EXCEPT !.state = "ok"]
        BY <1>1, <4>1, <4>2, <4>4 DEF CallsTyped
      <4>7. waiting[Main] \in Calls
        BY <1>1, <4>1, <4>2 DEF CallsTyped
      <4>8. waiting'[Main].seq = waiting[Main].seq
        BY <4>6, <4>7 DEF Calls
      <4> QED
        BY <3>1, <4>3, <4>5, <4>8
    <3> QED
      BY <3>2, <3>3
  <2>5. ASSUME ~build.inline, ~build.deferred, phase = "flushed", answered
        PROVE  Pending' = {}
    BY <1>1, <2>3, <2>5 DEF TornDown
  <2>6. ASSUME ~build.inline, ~build.deferred, phase \in {"releasing", "closed"}, answered
        PROVE  /\ \A p \in Pending' : p.kind = "release" /\ ~p.keep
               /\ \A r \in TextureRids : surface'[r] \in {"none", "remaining", "doomed", "staging"}
    BY <1>1, <2>3, <2>6 DEF TornDown
  <2>7. (phase # "run" /\ ~build.inline /\ ~build.deferred) => lastSeq' = lastSeq
    BY <2>3
  <2>8. UNCHANGED <<build, batch, poolOpen, phase, answered>>
    OBVIOUS
  <2> QED
    BY <2>2, <2>4, <2>5, <2>6, <2>7, <2>8 DEF TornDown
<1> QED
  BY <1>5, <1>6, <1>8, <1>9 DEF Accounts

\* The held draws run by themselves.
LEMMA AccountHeld ==
  ASSUME SurfaceInv, drain'.held = <<>>, drain'.cur = drain.cur,
         UNCHANGED <<build, queue, lastSeq, batch, waiting, surface, owner, poolOpen, phase,
                     answered>>
  PROVE  Accounts' /\ TornDown'
<1>1. QueueInv /\ OwnInv /\ Accounts /\ TornDown /\ QueueTyped
      /\ CallsTyped /\ CallsBefore /\ Named /\ ReleasesLast /\ FlushCovers
  BY DEF SurfaceInv, Accounts, QueueInv
<1>2. Pending' \subseteq Pending /\ \A q \in Pending \ Pending' : q.kind = "draw"
  BY <1>1, ElemsFew DEF Pending, OwnInv, Held
<1>3. RecordsStep(NoCall)
  BY <1>2 DEF RecordsStep
<1>4. Named' /\ ReleasesLast'
  BY <1>1, <1>3, RecordsKept
<1>5. CallsTyped' /\ CallsBefore' /\ FlushCovers'
  BY <1>1, <1>2 DEF CallsTyped, CallsBefore, FlushCovers, Overtakable
<1>6. TornDown'
  BY <1>1, <1>2 DEF TornDown
<1> QED
  BY <1>4, <1>5, <1>6 DEF Accounts

\* A step of the render thread.
LEMMA AccountRender ==
  ASSUME SurfaceInv, RenderThread
  PROVE  Accounts' /\ TornDown' /\ OwnInv'
<1>1. /\ QueueInv /\ OwnInv /\ Accounts /\ TornDown /\ QueueTyped /\ CallsTyped /\ Named
      /\ drain \in Drains
  BY DEF SurfaceInv, Accounts, QueueInv, QueueTyped
<1>2. ASSUME RunCallback \/ DrainPop \/ DrainStop PROVE Accounts' /\ TornDown'
  <2>1. Pending' = Pending
    BY <1>1, <1>2, QueueCallback, QueuePop, QueueStop
  <2>2. UNCHANGED <<build, batch, lastSeq, surface, owner, poolOpen, phase, answered, waiting>>
    BY <1>2 DEF RunCallback, DrainPop, DrainStop
  <2>3. phase # "run" => batch'.token = 0
    BY <1>1, <2>2 DEF TornDown
  <2> QED
    BY <2>1, <2>2, <2>3, AccountRest
<1>3. ASSUME DrainEnd PROVE Accounts' /\ TornDown'
  <2>1. drain'.held = <<>> /\ drain'.cur = <<>> /\ drain.cur = <<>>
    BY <1>1, <1>3, DrainsMade DEF DrainEnd, QueueInv, DrainShaped
  <2> QED
    BY <1>3, <2>1, AccountHeld DEF DrainEnd
<1>4. ASSUME RunOp PROVE Accounts' /\ TornDown'
  <2>1. PICK op \in Elems(drain.cur) :
          RunPlain(op) \/ RunRegion(op) \/ RunImport(op)
          \/ RunRelease(op) \/ RunRetireCheck(op) \/ RunRetire(op)
    BY <1>4 DEF RunOp
  <2>2. op \in Pending
    BY DEF Pending
  <2>3. /\ surface \in [TextureRids -> States] /\ owner \in [TextureRids -> Callers \cup {Nobody}]
        /\ op.by \in Callers \cup {Nobody}
    BY <1>1, <2>2, PendingTyped DEF CallsTyped, Operations
  <2>4. ASSUME Execute(op)
        PROVE  drain.cur = <<op>> /\ drain'.held = <<>> /\ drain'.cur = <<>> /\ Finish(op)
    BY <1>1, <2>4 DEF Execute, Drains
  <2>5. ASSUME ~build.inline, ~build.deferred, phase \in {"releasing", "closed"}, answered
        PROVE  /\ op.kind = "release" /\ ~op.keep
               /\ \A r \in TextureRids : surface[r] \in {"none", "remaining", "doomed", "staging"}
    BY <1>1, <2>2, <2>5 DEF TornDown
  <2>6. CASE RunPlain(op)
    <3>1. /\ Execute(op) /\ op.kind # "release"
          /\ UNCHANGED <<build, queue, lastSeq, batch, surface, owner, poolOpen, phase, answered>>
      BY <2>6 DEF RunPlain
    <3> QED
      BY <2>3, <2>4, <2>5, <3>1, AccountRun
  <2>7. CASE RunRegion(op)
    <3>1. /\ op.kind = "region" /\ Execute(op)
          /\ UNCHANGED <<build, batch, owner, poolOpen, phase, answered>>
      BY <2>7 DEF RunRegion
    <3>2. CASE UNCHANGED <<queue, lastSeq, surface>>
      BY <2>3, <2>4, <2>5, <3>1, <3>2, AccountRun
    <3>3. CASE \E s \in Obtainable : surface' = Released(s, TRUE) /\ UNCHANGED <<queue, lastSeq>>
      <4>1. PICK s \in TextureRids : /\ surface' = Released(s, TRUE)
                                     /\ surface[s] \in {"none", "pooled"}
        BY <1>1, <3>3, FreeQuiet
      <4>2. /\ surface' \in [TextureRids -> States] /\ surface'[s] \in {"none", "pooled"}
            /\ \A r \in TextureRids : r # s => surface'[r] = surface[r]
        BY <1>1, <4>1, ReleasedIs
      <4> QED
        BY <2>3, <2>4, <2>5, <3>1, <3>3, <4>1, <4>2, AccountRun
    <3>4. CASE \E s \in Obtainable :
                 /\ ~AtOnce("release") /\ surface' = [surface EXCEPT ![s] = "staging"]
                 /\ queue' = Append(queue, NewOp(Nobody, "release", s, {}, TRUE, FALSE))
                 /\ lastSeq' = lastSeq + 1
      <4>1. PICK s \in TextureRids :
              /\ ~AtOnce("release") /\ surface' = [surface EXCEPT ![s] = "staging"]
              /\ queue' = Append(queue, NewOp(Nobody, "release", s, {}, TRUE, FALSE))
              /\ lastSeq' = lastSeq + 1 /\ surface[s] \in {"none", "pooled"}
        BY <1>1, <3>4, FreeQuiet
      <4>2. PICK rel : rel = NewOp(Nobody, "release", s, {}, TRUE, FALSE)
        OBVIOUS
      <4>3. /\ batch.token \in Nat /\ batch.owner \in Callers \cup {Nobody}
            /\ lastSeq + 1 \in Nat
        BY <1>1 DEF QueueTyped, Batches
      <4>4. rel \in Operations
        BY <4>2, <4>3 DEF NewOp, Operations, Kinds
      <4>5. ~OnRenderThread(rel.by)
        BY <4>2, GpuQueueAssumption DEF NewOp, OnRenderThread
      <4>6. /\ Fresh(rel) /\ rel.kind = "release" /\ rel.by = Nobody /\ rel.src = {}
            /\ rel.dst = s
        BY <4>2, <4>4, <4>5 DEF Fresh, NewOp
      <4>7. /\ surface' \in [TextureRids -> States] /\ surface'[s] = "staging"
            /\ \A r \in TextureRids : r # s => surface'[r] = surface[r]
        BY <2>3, <4>1 DEF States
      <4>8. queue' = Append(queue, rel)
        BY <4>1, <4>2
      <4> QED
        BY <2>3, <2>4, <2>5, <3>1, <4>1, <4>6, <4>7, <4>8, AccountRun
    <3> QED
      BY <2>7, <3>2, <3>3, <3>4 DEF RunRegion
  <2>8. CASE RunImport(op)
    <3>1. /\ op.kind = "import" /\ Execute(op)
          /\ UNCHANGED <<build, queue, lastSeq, batch, poolOpen, phase, answered>>
      BY <2>8 DEF RunImport
    <3>2. CASE UNCHANGED <<surface, owner>>
      BY <2>3, <2>4, <2>5, <3>1, <3>2, AccountRun
    <3>3. CASE \E r \in TextureRids :
                 /\ surface[r] = "none" /\ surface' = [surface EXCEPT ![r] = "imported"]
                 /\ owner' = [owner EXCEPT ![r] = IF Awaited(op) THEN op.by ELSE Nobody]
      <4>1. PICK r \in TextureRids :
              /\ surface[r] = "none" /\ surface' = [surface EXCEPT ![r] = "imported"]
              /\ owner' = [owner EXCEPT ![r] = IF Awaited(op) THEN op.by ELSE Nobody]
        BY <3>3
      <4>2. /\ surface' \in [TextureRids -> States] /\ surface'[r] = "imported"
            /\ owner' \in [TextureRids -> Callers \cup {Nobody}]
            /\ \A s \in TextureRids : s # r => surface'[s] = surface[s] /\ owner'[s] = owner[s]
        BY <2>3, <4>1 DEF States
      <4> QED
        BY <2>3, <2>4, <2>5, <3>1, <4>1, <4>2, AccountRun
    <3> QED
      BY <2>8, <3>2, <3>3 DEF RunImport
  <2>9. CASE RunRelease(op)
    <3>1. /\ op.kind = "release" /\ Execute(op) /\ surface' = [surface EXCEPT ![op.dst] = "none"]
          /\ UNCHANGED <<build, queue, lastSeq, batch, owner, poolOpen, phase, answered>>
      BY <2>9 DEF RunRelease
    <3>2. op.dst \in TextureRids
      BY <1>1, <2>2, <3>1 DEF SurfaceInv, Accounts, ReleasesLast
    <3>3. /\ surface' \in [TextureRids -> States] /\ surface'[op.dst] = "none"
          /\ \A r \in TextureRids : r # op.dst => surface'[r] = surface[r]
      BY <2>3, <3>1, <3>2 DEF States
    <3> QED
      BY <2>3, <2>4, <2>5, <3>1, <3>2, <3>3, AccountRun
  <2>10. CASE RunRetireCheck(op)
    <3>1. /\ drain'.held = <<>> /\ drain'.cur = drain.cur
      BY <1>1, <2>10 DEF RunRetireCheck, Drains
    <3> QED
      BY <2>10, <3>1, AccountHeld DEF RunRetireCheck
  <2>11. CASE RunRetire(op)
    <3>1. /\ drain.at = "retire" /\ drain.cur = <<op>> /\ Finish(op)
          /\ drain' = [drain EXCEPT !.at = "loop", !.cur = <<>>]
          /\ \/ surface' = [surface EXCEPT ![op.dst] = "pooled"]
             \/ surface' = [surface EXCEPT ![op.dst] = "none"]
          /\ UNCHANGED <<build, queue, lastSeq, batch, owner, poolOpen, phase, answered>>
      BY <2>11 DEF RunRetire
    <3>2. op.kind = "release" /\ op.keep /\ drain.held = <<>>
      BY <1>1, <3>1 DEF QueueInv, DrainShaped, OwnInv, Held
    <3>3. drain'.held = <<>> /\ drain'.cur = <<>>
      BY <1>1, <3>1, <3>2 DEF Drains
    <3>4. op.dst \in TextureRids
      BY <1>1, <2>2, <3>2 DEF SurfaceInv, Accounts, ReleasesLast
    <3>5. /\ surface' \in [TextureRids -> States] /\ surface'[op.dst] \in {"none", "pooled"}
          /\ \A r \in TextureRids : r # op.dst => surface'[r] = surface[r]
      BY <2>3, <3>1, <3>4 DEF States
    <3> QED
      BY <2>3, <2>5, <3>1, <3>2, <3>3, <3>4, <3>5, AccountRun
  <2> QED
    BY <2>1, <2>6, <2>7, <2>8, <2>9, <2>10, <2>11
<1>5. Accounts' /\ TornDown'
  BY <1>2, <1>3, <1>4 DEF RenderThread
<1>6. phase' = phase
  BY DEF RenderThread, RunCallback, DrainPop, DrainStop, DrainEnd, RunOp, RunPlain, RunRegion,
     RunImport, RunRelease, RunRetireCheck, RunRetire
<1>7. OwnInv'
  BY <1>1, <1>6, RenderQueues, OwnDrain
<1> QED
  BY <1>5, <1>7

-----------------------------------------------------------------------------
(* What the queue promises. *)

\* The queue, its callers and the surfaces at the start.
LEMMA WholeStarts ==
  ASSUME QueueInit
  PROVE  SurfaceInv
<1>1. QueueInv /\ Pending = {} /\ QueueTyped
  BY QueueStarts DEF QueueInv
<1>2. queue = <<>> /\ drain = NoDrain /\ Elems(queue) = {} /\ Elems(drain.held) = {}
      /\ drain.at = "off"
  BY DrainsMade, ElemsFew DEF QueueInit
<1>3. OwnInv
  BY <1>2 DEF OwnInv, OwnQueued, Held
<1>4. NoCall \in Calls /\ NoCall.seq = 0 /\ NoCall.kind = "none"
  BY DEF NoCall, Calls
<1>5. CallsTyped
  BY <1>4 DEF CallsTyped, QueueInit, States
<1>6. CallsBefore /\ FlushCovers /\ Named /\ ReleasesLast
  BY <1>1, <1>4 DEF CallsBefore, FlushCovers, Named, ReleasesLast, QueueInit
<1>7. TornDown
  BY DEF TornDown, QueueInit
<1> QED
  BY <1>1, <1>3, <1>5, <1>6, <1>7 DEF SurfaceInv, Accounts

\* Every step keeps them.
LEMMA WholeSteps ==
  ASSUME SurfaceInv, [QueueNext]_queueVars
  PROVE  SurfaceInv'
<1>1. QueueInv /\ OwnInv /\ TornDown
  BY DEF SurfaceInv
<1>2. QueueInv'
  BY <1>1, QueueSteps
<1>3. CASE QueueNext
  <2>1. \/ \E c \in Callers : CallerStep(c)
        \/ RenderThread
        \/ Teardown \/ Closed
    BY <1>3 DEF QueueNext
  <2>2. Accounts' /\ TornDown' /\ OwnInv'
    BY <2>1, AccountCaller, AccountRender, AccountTeardown
  <2> QED
    BY <1>2, <2>2 DEF SurfaceInv
<1>4. CASE UNCHANGED queueVars
  <2>1. Pending' = Pending
    BY <1>4 DEF queueVars, Pending
  <2>2. Accounts' /\ TornDown'
    BY <1>1, <1>4, <2>1, AccountRest DEF queueVars, TornDown
  <2>3. OwnInv'
    BY <1>1, <1>4 DEF queueVars, OwnInv, OwnQueued, Held, Running
  <2> QED
    BY <1>2, <2>2, <2>3 DEF SurfaceInv
<1> QED
  BY <1>3, <1>4

\* The queue, its callers and the surfaces, in every state.
THEOREM SurfaceInvariant == QueueSpec => []SurfaceInv
<1>1. QueueInit => SurfaceInv
  BY WholeStarts
<1>2. SurfaceInv /\ [QueueNext]_queueVars => SurfaceInv'
  BY WholeSteps
<1> QED
  BY <1>1, <1>2, PTL DEF QueueSpec

\* A caller's own earlier operations are done where it relies on them: when the render thread is
\* about to run its own at once, and when a flush answers true.
THEOREM OwnWorkIsDone == QueueSpec => []OwnWorkDone
<1>1. SurfaceInv => OwnWorkDone
  BY OwnDone DEF SurfaceInv, Accounts, OwnWorkDone
<1> QED
  BY <1>1, SurfaceInvariant, PTL

-----------------------------------------------------------------------------
(* The teardown, for every build. *)

\* A teardown on the render thread itself: nothing stays live or is retired once the pool is
\* closed; where draining is deferred, its flush has run all that was queued.
InlineTorn ==
  build.inline /\ phase # "run" =>
    /\ phase \in {"releasing", "closed"} =>
         /\ drain.at # "retire"
         /\ \A r \in TextureRids : surface[r] \notin {"live", "pooled"}
    /\ build.deferred /\ phase \in {"flushing", "flushed"} =>
         \/ Pending = {}
         \/ drain.at \in {"loop", "run", "retire"} /\ ~drain.force
         \/ drain.at = "stop" /\ queue = <<>>
    /\ build.deferred /\ phase \in {"releasing", "closed"} =>
         /\ \A p \in Pending : p.kind = "release"
         /\ \A r \in TextureRids : surface[r] # "imported"

\* One on another thread where draining is deferred: an answered flush has left at most
\* releases of staging surfaces behind it.
DeferredTorn ==
  ~build.inline /\ build.deferred =>
    /\ phase = "flushing" =>
         /\ \A c \in Callers \ {Main} : waiting[c] = NoCall
         /\ \A p \in Pending : waiting[Main].seq < p.seq => p.kind = "release"
         /\ waiting[Main].state = "ok" => \A p \in Pending : waiting[Main].seq < p.seq
    /\ phase \in {"flushed", "releasing", "closed"} /\ answered =>
         \A p \in Pending : p.kind = "release"
    /\ phase \in {"releasing", "closed"} /\ answered =>
         \A r \in TextureRids : surface[r] \notin {"live", "imported"}

LateInv == InlineTorn /\ DeferredTorn

\* Before the teardown only Close leaves the run.
LEMMA RunStays ==
  ASSUME phase = "run", QueueNext, ~Close
  PROVE  phase' = "run"
<1>1. ASSUME NEW c \in Callers, CallerStep(c) PROVE phase' = "run"
  <2>1. ASSUME NEW kind, NEW d, NEW srcs, Paint(c, kind, d, srcs) PROVE phase' = "run"
    BY <2>1 DEF Paint
  <2>2. ASSUME NEW old, NEW new, NEW keep, Replace(c, old, new, keep) PROVE phase' = "run"
    BY <2>2 DEF Replace
  <2>3. ASSUME NEW r \in TextureRids,
               Create(c, r) \/ UpdateRegion(c, r) \/ BridgeReleaseTexture(c, r)
               \/ BridgeReadRgba(c, r) \/ BridgeBeginReadRgba(c, r)
        PROVE  phase' = "run"
    BY <2>3 DEF Create, UpdateRegion, BridgeReleaseTexture, BridgeReadRgba, BridgeBeginReadRgba
  <2>4. ASSUME NEW r \in TextureRids,
               BridgeClearRgba(c, r) \/ BridgeMosaicRects(c, r) \/ UpdateWhole(c, r)
        PROVE  phase' = "run"
    BY <2>1, <2>4 DEF BridgeClearRgba, BridgeMosaicRects, UpdateWhole
  <2>5. ASSUME NEW d \in TextureRids, NEW s \in TextureRids, NEW t \in TextureRids,
               \/ BridgeDrawTriangles(c, d, s) \/ BridgeCopyRect(c, d, s)
               \/ BridgeBlendRect(c, d, s, t) \/ BridgeDrawMaskedTriangles(c, d, s, t)
        PROVE  phase' = "run"
    BY <2>1, <2>5 DEF BridgeDrawTriangles, BridgeCopyRect, BridgeBlendRect,
       BridgeDrawMaskedTriangles
  <2>6. ASSUME NEW old \in TextureRids, NEW new \in TextureRids,
               UpdateVersioned(c, old, new) \/ ClearVersioned(c, old, new)
        PROVE  phase' = "run"
    BY <2>2, <2>6 DEF UpdateVersioned, ClearVersioned
  <2>7. ASSUME Import(c) \/ BridgeFlush(c) \/ BridgeBeginBatch(c) \/ BridgeEndBatch(c)
        PROVE  phase' = "run"
    BY <2>7 DEF Import, BridgeFlush, BridgeBeginBatch, BridgeEndBatch
  <2>8. ASSUME Return(c) \/ TimeOut(c) PROVE phase' = "run"
    BY <2>8 DEF Return, TimeOut
  <2> QED
    BY <1>1, <2>3, <2>4, <2>5, <2>6, <2>7, <2>8 DEF CallerStep
<1>2. ASSUME RenderThread PROVE phase' = "run"
  BY <1>2 DEF RenderThread, RunCallback, DrainPop, DrainStop, DrainEnd, RunOp, RunPlain, RunRegion,
     RunImport, RunRelease, RunRetireCheck, RunRetire
<1>3. ASSUME Teardown \/ Closed PROVE phase' = "run"
  BY <1>3 DEF Teardown, ClosePool, CloseRelease, CloseDone, Closed, queueVars
<1> QED
  BY <1>1, <1>2, <1>3 DEF QueueNext

\* In the teardown a caller is only answered, or gives up.
LEMMA LateCaller ==
  ASSUME SurfaceInv, phase # "run", NEW c \in Callers, CallerStep(c)
  PROVE  Return(c) \/ TimeOut(c)
<1>1. ~BridgeEndBatch(c)
  <2>1. batch.token = 0 /\ batch.owner = Nobody /\ c # Nobody
    BY GpuQueueAssumption DEF SurfaceInv, TornDown, QueueInv, Tokens
  <2> QED
    BY <2>1 DEF BridgeEndBatch
<1>2. \A kind : ~Busy(c, kind)
  BY DEF Busy
<1>3. \A kind, d, srcs : ~Paint(c, kind, d, srcs)
  BY <1>2 DEF Paint
<1>4. \A old, new, keep : ~Replace(c, old, new, keep)
  BY <1>2 DEF Replace
<1>5. \A r \in TextureRids :
        /\ ~Create(c, r) /\ ~UpdateRegion(c, r) /\ ~BridgeReleaseTexture(c, r)
        /\ ~BridgeReadRgba(c, r) /\ ~BridgeBeginReadRgba(c, r)
  BY <1>2 DEF Create, UpdateRegion, BridgeReleaseTexture, BridgeReadRgba, BridgeBeginReadRgba
<1>6. \A r \in TextureRids : ~BridgeClearRgba(c, r) /\ ~BridgeMosaicRects(c, r) /\ ~UpdateWhole(c, r)
  BY <1>3 DEF BridgeClearRgba, BridgeMosaicRects, UpdateWhole
<1>7. \A d, s, t \in TextureRids :
        /\ ~BridgeDrawTriangles(c, d, s) /\ ~BridgeCopyRect(c, d, s)
        /\ ~BridgeBlendRect(c, d, s, t) /\ ~BridgeDrawMaskedTriangles(c, d, s, t)
  BY <1>3 DEF BridgeDrawTriangles, BridgeCopyRect, BridgeBlendRect, BridgeDrawMaskedTriangles
<1>8. \A old, new \in TextureRids : ~UpdateVersioned(c, old, new) /\ ~ClearVersioned(c, old, new)
  BY <1>4 DEF UpdateVersioned, ClearVersioned
<1>9. ~Import(c) /\ ~BridgeFlush(c) /\ ~BridgeBeginBatch(c)
  BY <1>2 DEF Import, BridgeFlush, BridgeBeginBatch
<1> QED
  BY <1>1, <1>5, <1>6, <1>7, <1>8, <1>9 DEF CallerStep

\* What an operation that runs does to the surfaces, the queue and its caller.
LEMMA LateRun ==
  ASSUME SurfaceInv, RunOp
  PROVE  \E op \in Elems(drain.cur) :
           /\ drain.at \in {"run", "retire"} /\ drain'.at \in {"loop", "retire"}
           /\ drain'.force = drain.force /\ (drain'.at = "retire" => poolOpen)
           /\ UNCHANGED <<build, phase, answered, poolOpen>>
           /\ \A r \in TextureRids :
                \/ surface'[r] = surface[r]
                \/ surface'[r] = "none"
                \/ surface'[r] = "pooled" /\ (poolOpen \/ drain.at = "retire")
                \/ surface'[r] = "staging" /\ op.kind = "region"
                \/ surface'[r] = "imported" /\ op.kind = "import"
           /\ \A p \in Pending' : p \in Pending \/ (p.kind = "release" /\ p.seq = lastSeq + 1)
           /\ \/ UNCHANGED waiting
              \/ Finish(op) /\ \A p \in Pending' : op.seq < p.seq
<1>1. /\ QueueInv /\ OwnInv /\ QueueTyped /\ CallsTyped /\ drain \in Drains
      /\ surface \in [TextureRids -> States]
  BY DEF SurfaceInv, Accounts, QueueInv, QueueTyped, CallsTyped
<1>2. PICK op \in Elems(drain.cur) :
        RunPlain(op) \/ RunRegion(op) \/ RunImport(op)
        \/ RunRelease(op) \/ RunRetireCheck(op) \/ RunRetire(op)
  BY DEF RunOp
<1>3. UNCHANGED <<build, phase, answered, poolOpen>>
  BY <1>2 DEF RunPlain, RunRegion, RunImport, RunRelease, RunRetireCheck, RunRetire
<1>4. ASSUME Execute(op)
      PROVE  /\ drain.at = "run" /\ drain'.at = "loop" /\ drain'.force = drain.force
             /\ drain.cur = <<op>> /\ drain'.held = <<>> /\ drain'.cur = <<>> /\ Finish(op)
  BY <1>1, <1>4 DEF Execute, Drains
<1>5. ASSUME drain.cur = <<op>>, drain'.held = <<>>, drain'.cur = <<>>, queue' = queue
      PROVE  Pending' \subseteq Pending /\ \A p \in Pending' : op.seq < p.seq
  <2>1. PICK rel : rel = NoCall
    OBVIOUS
  <2> QED
    BY <1>1, <1>5, <2>1, Executed
<1>6. CASE RunPlain(op)
  BY <1>3, <1>4, <1>5, <1>6 DEF RunPlain
<1>7. CASE RunRegion(op)
  <2>1. op.kind = "region" /\ Execute(op)
    BY <1>7 DEF RunRegion
  <2>2. CASE UNCHANGED <<queue, lastSeq, surface>>
    BY <1>3, <1>4, <1>5, <2>1, <2>2
  <2>3. CASE \E s \in Obtainable : surface' = Released(s, TRUE) /\ UNCHANGED <<queue, lastSeq>>
    <3>1. PICK s \in Obtainable : surface' = Released(s, TRUE)
      BY <2>3
    <3>2. \A r \in TextureRids : \/ surface'[r] = surface[r]
                                 \/ surface'[r] = "none"
                                 \/ surface'[r] = "pooled" /\ poolOpen
      BY <1>1, <3>1 DEF Released, Poolable
    <3> QED
      BY <1>3, <1>4, <1>5, <2>1, <2>3, <3>2
  <2>4. CASE \E s \in Obtainable :
               /\ ~AtOnce("release") /\ surface' = [surface EXCEPT ![s] = "staging"]
               /\ queue' = Append(queue, NewOp(Nobody, "release", s, {}, TRUE, FALSE))
               /\ lastSeq' = lastSeq + 1
    <3>1. PICK s \in TextureRids :
            /\ surface' = [surface EXCEPT ![s] = "staging"]
            /\ queue' = Append(queue, NewOp(Nobody, "release", s, {}, TRUE, FALSE))
      BY <1>1, <2>4, FreeQuiet DEF SurfaceInv, Accounts
    <3>2. PICK rel : rel = NewOp(Nobody, "release", s, {}, TRUE, FALSE)
      OBVIOUS
    <3>3. /\ batch.token \in Nat /\ batch.owner \in Callers \cup {Nobody} /\ lastSeq + 1 \in Nat
      BY <1>1 DEF QueueTyped, Batches
    <3>4. rel \in Operations /\ ~OnRenderThread(rel.by)
      BY <3>2, <3>3, GpuQueueAssumption DEF NewOp, Operations, Kinds, OnRenderThread
    <3>5. Fresh(rel) /\ rel.kind = "release" /\ rel.seq = lastSeq + 1
      BY <3>2, <3>4 DEF Fresh, NewOp
    <3>6. Pending' \subseteq Pending \cup {rel} /\ \A p \in Pending' : op.seq < p.seq
      BY <1>1, <1>4, <2>1, <3>1, <3>2, <3>5, Executed
    <3>7. \A r \in TextureRids : surface'[r] = surface[r] \/ surface'[r] = "staging"
      BY <1>1, <3>1
    <3> QED
      BY <1>3, <1>4, <2>1, <3>5, <3>6, <3>7
  <2> QED
    BY <1>7, <2>2, <2>3, <2>4 DEF RunRegion
<1>8. CASE RunImport(op)
  <2>1. op.kind = "import" /\ Execute(op) /\ queue' = queue
    BY <1>8 DEF RunImport
  <2>2. \A r \in TextureRids : surface'[r] = surface[r] \/ surface'[r] = "imported"
    BY <1>1, <1>8 DEF RunImport
  <2> QED
    BY <1>3, <1>4, <1>5, <2>1, <2>2
<1>9. CASE RunRelease(op)
  <2>1. Execute(op) /\ queue' = queue
    BY <1>9 DEF RunRelease
  <2>2. \A r \in TextureRids : surface'[r] = surface[r] \/ surface'[r] = "none"
    BY <1>1, <1>9 DEF RunRelease
  <2> QED
    BY <1>3, <1>4, <1>5, <2>1, <2>2
<1>10. CASE RunRetireCheck(op)
  <2>1. /\ drain.at = "run" /\ drain'.at = "retire" /\ drain'.force = drain.force /\ poolOpen
        /\ UNCHANGED <<waiting, surface, queue>>
        /\ drain'.held = <<>> /\ drain'.cur = drain.cur
    BY <1>1, <1>10 DEF RunRetireCheck, Drains
  <2>2. Pending' \subseteq Pending
    BY <2>1, ElemsFew DEF Pending
  <2> QED
    BY <1>3, <2>1, <2>2
<1>11. CASE RunRetire(op)
  <2>1. /\ drain.at = "retire" /\ drain.cur = <<op>> /\ Finish(op) /\ queue' = queue
        /\ drain' = [drain EXCEPT !.at = "loop", !.cur = <<>>]
        /\ \/ surface' = [surface EXCEPT ![op.dst] = "pooled"]
           \/ surface' = [surface EXCEPT ![op.dst] = "none"]
    BY <1>11 DEF RunRetire
  <2>2. drain'.held = <<>> /\ drain'.cur = <<>> /\ drain'.at = "loop" /\ drain'.force = drain.force
    BY <1>1, <2>1 DEF QueueInv, DrainShaped, Drains
  <2>3. \A r \in TextureRids :
          surface'[r] = surface[r] \/ surface'[r] = "none" \/ surface'[r] = "pooled"
    BY <1>1, <2>1
  <2> QED
    BY <1>3, <1>5, <2>1, <2>2, <2>3
<1> QED
  BY <1>2, <1>6, <1>7, <1>8, <1>9, <1>10, <1>11

\* What the teardown submits from the render thread when it defers is drained at once.
LEMMA LateSubmit ==
  ASSUME QueueInv, build.inline, build.deferred, NEW op, Fresh(op), Submit(op), op.by = Main,
         op.wait, batch.token = 0
  PROVE  drain' = NormalDrain
<1>1. OnRenderThread(op.by) /\ ~AtOnce(op.kind)
  BY DEF OnRenderThread, AtOnce
<1>2. SubmitInline(op)
  BY <1>1 DEF Submit, SubmitOffThread, SubmitAtOnce
<1> QED
  BY <1>1, <1>2 DEF SubmitInline

\* A teardown on the render thread itself.
LEMMA InlineSteps ==
  ASSUME SurfaceInv, InlineTorn, [QueueNext]_queueVars
  PROVE  InlineTorn'
<1>1. /\ QueueInv /\ TornDown /\ CallsTyped /\ QueueTyped /\ DrainShaped /\ drain \in Drains
      /\ surface \in [TextureRids -> States]
  BY DEF SurfaceInv, Accounts, QueueInv, QueueTyped, CallsTyped
<1>2. build' = build
  <2>1. ASSUME NEW c \in Callers, CallerStep(c) PROVE build' = build
    BY <1>1, <2>1, CallerQueues DEF Submits, Rests, BridgeBeginBatch, BridgeEndBatch
  <2>2. ASSUME RenderThread PROVE build' = build
    BY <2>2 DEF RenderThread, RunCallback, DrainPop, DrainStop, DrainEnd, RunOp, RunPlain,
       RunRegion, RunImport, RunRelease, RunRetireCheck, RunRetire
  <2>3. ASSUME Teardown \/ Closed PROVE build' = build
    BY <2>3 DEF Teardown, Close, ClosePool, CloseRelease, CloseDone, Closed, queueVars
  <2> QED
    BY <2>1, <2>2, <2>3 DEF QueueNext, queueVars
<1> SUFFICES ASSUME build.inline, phase' # "run" PROVE InlineTorn'
  BY <1>2 DEF InlineTorn
<1>3. CASE Close
  <2>1. PICK op : op = NewOp(Main, "flush", NoRid, {}, TRUE, TRUE)
    OBVIOUS
  <2>2. batch.token = 0 /\ Idle(Main) /\ Submit(op) /\ phase' = "flushing"
    BY <1>3, <2>1, GpuQueueAssumption DEF Close
  <2>3. Fresh(op) /\ op.by = Main /\ op.wait
    BY <1>1, <2>1, <2>2, FreshMade, GpuQueueAssumption DEF Kinds, NewOp
  <2>4. build.deferred => drain' = NormalDrain
    BY <1>1, <2>2, <2>3, LateSubmit
  <2> QED
    BY <1>2, <2>2, <2>4, DrainsMade DEF InlineTorn
<1>4. ASSUME ~Close PROVE phase # "run"
  BY <1>4, RunStays DEF queueVars
<1>5. ASSUME ~Close, UNCHANGED <<phase, Pending, queue, drain, surface>> PROVE InlineTorn'
  BY <1>2, <1>4, <1>5 DEF InlineTorn
<1>6. CASE UNCHANGED queueVars
  <2>1. ~Close
    BY <1>6 DEF Close, queueVars
  <2> QED
    BY <1>5, <1>6, <2>1 DEF queueVars, Pending
<1>7. ASSUME NEW c \in Callers, CallerStep(c), ~Close PROVE InlineTorn'
  <2>1. Return(c) \/ TimeOut(c)
    BY <1>4, <1>7, LateCaller
  <2>2. UNCHANGED <<queue, drain, surface>> /\ Pending' = Pending
        /\ phase' = IF phase = "flushing" THEN "flushed" ELSE phase
    BY <2>1 DEF Return, TimeOut, Pending
  <2> QED
    BY <1>2, <1>4, <1>7, <2>2 DEF InlineTorn
<1>8. ASSUME RenderThread, ~Close PROVE InlineTorn'
  <2>1. CASE RunCallback
    <3>1. drain.at = "off" /\ UNCHANGED <<phase, surface, queue>> /\ drain'.at = "loop"
      BY <1>1, <2>1, DrainsMade, CallbacksTyped DEF RunCallback, ForcedDrain, NormalDrain, NoDrain
    <3>2. Pending' = Pending
      BY <1>1, <2>1, QueueCallback
    <3> QED
      BY <1>2, <1>4, <1>8, <3>1, <3>2 DEF InlineTorn
  <2>2. CASE DrainPop
    <3>1. /\ drain.at = "loop" /\ drain'.at \in {"loop", "run"} /\ drain'.force = drain.force
          /\ UNCHANGED <<phase, surface>>
      BY <1>1, <2>2 DEF DrainPop, Drains
    <3>2. Pending' = Pending
      BY <1>1, <2>2, QueuePop
    <3> QED
      BY <1>2, <1>4, <1>8, <3>1, <3>2 DEF InlineTorn
  <2>3. CASE DrainStop
    <3>1. /\ drain.at = "loop" /\ drain'.at = "stop" /\ UNCHANGED <<phase, surface, queue>>
          /\ queue = <<>> \/ drain.force \/ batch.token # 0
      BY <1>1, <2>3 DEF DrainStop, Drains, GateShut, BeyondCutoff
    <3>2. Pending' = Pending /\ batch.token = 0
      BY <1>1, <1>4, <1>8, <2>3, QueueStop DEF TornDown
    <3> QED
      BY <1>2, <1>4, <1>8, <3>1, <3>2 DEF InlineTorn
  <2>4. CASE DrainEnd
    <3>1. /\ drain.at = "stop" /\ UNCHANGED <<phase, surface, queue>> /\ drain' = NoDrain
          /\ drain.cur = <<>>
      BY <1>1, <2>4 DEF DrainEnd, DrainShaped
    <3>2. Pending' \subseteq Pending /\ (queue = <<>> => Pending' = {})
      BY <3>1, DrainsMade, ElemsFew DEF Pending
    <3> QED
      BY <1>2, <1>4, <1>8, <3>1, <3>2, DrainsMade DEF InlineTorn
  <2>5. CASE RunOp
    <3>1. PICK op \in Elems(drain.cur) :
            /\ drain.at \in {"run", "retire"} /\ drain'.at \in {"loop", "retire"}
            /\ drain'.force = drain.force /\ (drain'.at = "retire" => poolOpen)
            /\ UNCHANGED <<build, phase, answered, poolOpen>>
            /\ \A r \in TextureRids :
                 \/ surface'[r] = surface[r]
                 \/ surface'[r] = "none"
                 \/ surface'[r] = "pooled" /\ (poolOpen \/ drain.at = "retire")
                 \/ surface'[r] = "staging" /\ op.kind = "region"
                 \/ surface'[r] = "imported" /\ op.kind = "import"
            /\ \A p \in Pending' : p \in Pending \/ (p.kind = "release" /\ p.seq = lastSeq + 1)
      BY <2>5, LateRun
    <3>2. op \in Pending
      BY DEF Pending
    <3>3. poolOpen <=> phase \in {"run", "flushing", "flushed"}
      BY <1>1 DEF TornDown
    <3>4. ASSUME phase \in {"releasing", "closed"}
          PROVE  /\ drain'.at # "retire"
                 /\ \A r \in TextureRids : surface'[r] \notin {"live", "pooled"}
      BY <1>4, <1>8, <3>1, <3>3, <3>4 DEF InlineTorn
    <3>5. ASSUME build.deferred, phase \in {"flushing", "flushed"}
          PROVE  drain'.at \in {"loop", "run", "retire"} /\ ~drain'.force
      BY <3>1, <3>2, <3>5 DEF InlineTorn
    <3>6. ASSUME build.deferred, phase \in {"releasing", "closed"}
          PROVE  /\ \A p \in Pending' : p.kind = "release"
                 /\ \A r \in TextureRids : surface'[r] # "imported"
      BY <3>1, <3>2, <3>6 DEF InlineTorn
    <3> QED
      BY <1>2, <3>1, <3>4, <3>5, <3>6 DEF InlineTorn
  <2> QED
    BY <1>8, <2>1, <2>2, <2>3, <2>4, <2>5 DEF RenderThread
<1>9. CASE ClosePool
  <2>1. /\ phase = "flushed" /\ phase' = "releasing" /\ drain = NoDrain
        /\ \A r \in TextureRids :
             surface'[r] = IF surface[r] = "pooled" THEN "none"
                           ELSE IF surface[r] \in {"live", "imported"} THEN "remaining"
                           ELSE surface[r]
        /\ UNCHANGED <<queue, drain>>
    BY <1>9 DEF ClosePool, Idle, OnRenderThread
  <2>2. Pending' = Pending
    BY <2>1 DEF Pending
  <2>3. build.deferred => Pending = {}
    BY <2>1, DrainsMade DEF InlineTorn
  <2> QED
    BY <1>2, <2>1, <2>2, <2>3, DrainsMade DEF InlineTorn
<1>10. ASSUME NEW r \in TextureRids, CloseRelease(r) PROVE InlineTorn'
  <2>1. PICK op : op = NewOp(Main, "release", r, {}, FALSE, TRUE)
    OBVIOUS
  <2>2. /\ phase = "releasing" /\ phase' = phase /\ Idle(Main) /\ Submit(op)
        /\ UNCHANGED <<build, batch, nextToken>>
        /\ surface' = [surface EXCEPT ![r] = IF Immediate(op) THEN "none" ELSE "doomed"]
    BY <1>10, <2>1 DEF CloseRelease
  <2>3. Fresh(op) /\ op.kind = "release" /\ op.by = Main
    BY <1>1, <2>1, <2>2, FreshMade, GpuQueueAssumption DEF Kinds, NewOp
  <2>4. Pending' \subseteq Pending \cup {op}
    BY <1>1, <2>2, <2>3, Submitted
  <2>5. \A s \in TextureRids : surface'[s] \in {surface[s], "none", "doomed"}
    BY <1>1, <2>2
  <2>6. drain'.at \in {drain.at, "loop"}
    <3>1. batch.token = 0 /\ OnRenderThread(op.by)
      BY <1>1, <2>2, <2>3 DEF TornDown, OnRenderThread
    <3>2. drain' = drain \/ drain' = NormalDrain
      BY <2>2, <3>1 DEF Submit, SubmitOffThread, SubmitInline, SubmitAtOnce
    <3> QED
      BY <3>2, DrainsMade
  <2> QED
    BY <1>2, <2>2, <2>3, <2>4, <2>5, <2>6 DEF InlineTorn
<1>11. CASE CloseDone
  BY <1>2, <1>11 DEF InlineTorn, CloseDone, Pending
<1> QED
  BY <1>3, <1>6, <1>7, <1>8, <1>9, <1>10, <1>11 DEF QueueNext, Teardown, Closed

\* One on another thread, where draining is deferred.
LEMMA DeferredSteps ==
  ASSUME SurfaceInv, DeferredTorn, [QueueNext]_queueVars
  PROVE  DeferredTorn'
<1>1. /\ QueueInv /\ TornDown /\ CallsTyped /\ CallsBefore /\ QueueTyped /\ InLine
      /\ drain \in Drains
      /\ surface \in [TextureRids -> States] /\ waiting \in [Callers -> Calls]
      /\ lastSeq \in Nat /\ Main \in Callers /\ \A p \in Pending : p.seq \in Nat
  BY PendingTyped, GpuQueueAssumption DEF SurfaceInv, Accounts, QueueInv, QueueTyped, CallsTyped
<1>2. build' = build
  <2>1. ASSUME NEW c \in Callers, CallerStep(c) PROVE build' = build
    BY <1>1, <2>1, CallerQueues DEF Submits, Rests, BridgeBeginBatch, BridgeEndBatch
  <2>2. ASSUME RenderThread PROVE build' = build
    BY <2>2 DEF RenderThread, RunCallback, DrainPop, DrainStop, DrainEnd, RunOp, RunPlain,
       RunRegion, RunImport, RunRelease, RunRetireCheck, RunRetire
  <2>3. ASSUME Teardown \/ Closed PROVE build' = build
    BY <2>3 DEF Teardown, Close, ClosePool, CloseRelease, CloseDone, Closed, queueVars
  <2> QED
    BY <2>1, <2>2, <2>3 DEF QueueNext, queueVars
<1> SUFFICES ASSUME ~build.inline, build.deferred, phase' # "run" PROVE DeferredTorn'
  BY <1>2 DEF DeferredTorn
<1>3. CASE Close
  <2>1. PICK op : op = NewOp(Main, "flush", NoRid, {}, TRUE, TRUE)
    OBVIOUS
  <2>2. /\ batch.token = 0 /\ \A c \in Callers : Idle(c)
        /\ Submit(op) /\ phase' = "flushing" /\ UNCHANGED <<build, batch, nextToken>>
    BY <1>3, <2>1 DEF Close
  <2>3. Fresh(op) /\ op.by = Main /\ op.wait /\ op.kind = "flush" /\ ~Immediate(op)
    BY <1>1, <2>1, <2>2, FreshMade DEF Kinds, NewOp, Immediate, OnRenderThread
  <2>4. /\ Pending' = Pending \cup {op} /\ waiting' = Calling(op, "wait") /\ op.seq \in Nat
        /\ \A p \in Pending : p.seq < op.seq
    BY <1>1, <2>2, <2>3, Submitted
  <2>5. waiting' = [waiting EXCEPT ![Main] = [seq |-> op.seq, kind |-> "flush", state |-> "wait"]]
    BY <2>3, <2>4 DEF Calling
  <2>6. /\ waiting'[Main].seq = op.seq /\ waiting'[Main].state # "ok"
        /\ \A c \in Callers \ {Main} : waiting'[c] = NoCall
    BY <1>1, <2>2, <2>5 DEF Idle
  <2>7. \A p \in Pending' : ~(op.seq < p.seq)
    BY <1>1, <2>4
  <2> QED
    BY <2>2, <2>6, <2>7 DEF DeferredTorn
<1>4. ASSUME ~Close PROVE phase # "run"
  BY <1>4, RunStays DEF queueVars
<1>5. ASSUME ~Close, UNCHANGED <<phase, waiting, surface, answered>>, Pending' \subseteq Pending
      PROVE  DeferredTorn'
  BY <1>2, <1>4, <1>5, Zenon DEF DeferredTorn
<1>6. CASE UNCHANGED queueVars
  <2>1. ~Close
    BY <1>6 DEF Close, queueVars
  <2> QED
    BY <1>5, <1>6, <2>1 DEF queueVars, Pending
<1>7. ASSUME NEW c \in Callers, CallerStep(c), ~Close PROVE DeferredTorn'
  <2>1. Return(c) \/ TimeOut(c)
    BY <1>4, <1>7, LateCaller
  <2>2. /\ Pending' = Pending /\ surface' = surface
        /\ phase' = IF phase = "flushing" THEN "flushed" ELSE phase
    BY <2>1 DEF Return, TimeOut, Pending
  <2>3. answered' => answered
    BY <2>1, Zenon DEF Return, TimeOut
  <2>4. ASSUME phase = "flushing", answered' PROVE \A p \in Pending : p.kind = "release"
    <3>1. waiting[c] # NoCall
      BY <2>1 DEF Return, TimeOut, NoCall
    <3>2. c = Main
      BY <2>4, <3>1 DEF DeferredTorn
    <3>3. ~TimeOut(c)
      BY <2>4 DEF TimeOut
    <3>4. waiting[Main].state = "ok"
      BY <2>1, <3>2, <3>3 DEF Return, OnRenderThread
    <3> QED
      BY <2>4, <3>4 DEF DeferredTorn
  <2>5. phase' # "flushing" /\ (phase' = "flushed" => phase \in {"flushing", "flushed"})
    BY <2>2
  <2> QED
    BY <1>2, <2>2, <2>3, <2>4, <2>5 DEF DeferredTorn
<1>8. ASSUME RenderThread, ~Close PROVE DeferredTorn'
  <2>1. CASE RunCallback \/ DrainPop \/ DrainStop
    <3>1. Pending' = Pending
      BY <1>1, <2>1, QueueCallback, QueuePop, QueueStop
    <3>2. UNCHANGED <<phase, waiting, surface, answered>>
      BY <2>1 DEF RunCallback, DrainPop, DrainStop
    <3> QED
      BY <1>5, <1>8, <3>1, <3>2
  <2>2. CASE DrainEnd
    <3>1. drain'.held = <<>> /\ drain'.cur = <<>> /\ queue' = queue
      BY <2>2, DrainsMade DEF DrainEnd
    <3>2. Pending' \subseteq Pending
      BY <3>1, ElemsFew DEF Pending
    <3>3. UNCHANGED <<phase, waiting, surface, answered>>
      BY <2>2 DEF DrainEnd
    <3> QED
      BY <1>5, <1>8, <3>2, <3>3
  <2>3. CASE RunOp
    <3>1. PICK op \in Elems(drain.cur) :
            /\ UNCHANGED <<build, phase, answered, poolOpen>>
            /\ \A r \in TextureRids :
                 \/ surface'[r] = surface[r]
                 \/ surface'[r] = "none"
                 \/ surface'[r] = "pooled" /\ (poolOpen \/ drain.at = "retire")
                 \/ surface'[r] = "staging" /\ op.kind = "region"
                 \/ surface'[r] = "imported" /\ op.kind = "import"
            /\ \A p \in Pending' : p \in Pending \/ (p.kind = "release" /\ p.seq = lastSeq + 1)
            /\ \/ UNCHANGED waiting
               \/ Finish(op) /\ \A p \in Pending' : op.seq < p.seq
      BY <2>3, LateRun
    <3>2. op \in Pending /\ op.seq \in Nat /\ 0 < op.seq
      BY <1>1 DEF Pending, InLine
    <3>3. ASSUME phase = "flushing"
          PROVE  /\ \A c \in Callers \ {Main} : waiting'[c] = NoCall
                 /\ waiting'[Main].seq = waiting[Main].seq
                 /\ waiting'[Main].state = "ok" =>
                      \A p \in Pending' : waiting[Main].seq < p.seq
      <4>1. waiting[Main].seq <= lastSeq /\ waiting[Main].seq \in Nat
        BY <1>1 DEF CallsBefore, Calls
      <4>2. CASE UNCHANGED waiting
        BY <1>1, <3>1, <3>3, <4>1, <4>2 DEF DeferredTorn
      <4>3. CASE Finish(op) /\ ~Awaited(op)
        BY <1>1, <3>1, <3>3, <4>1, <4>3 DEF DeferredTorn, Finish
      <4>4. CASE Finish(op) /\ Awaited(op) /\ \A p \in Pending' : op.seq < p.seq
        <5>1. op.by \in Callers /\ waiting[op.by].seq = op.seq
          BY <4>4 DEF Awaited
        <5>2. op.by = Main
          BY <3>2, <3>3, <5>1 DEF DeferredTorn, NoCall
        <5>3. waiting' = [waiting EXCEPT ![Main].state = "ok"]
          BY <4>4, <5>2 DEF Finish
        <5>4. \A c \in Callers \ {Main} : waiting'[c] = waiting[c]
          BY <1>1, <5>3
        <5>5. waiting'[Main] = [waiting[Main] EXCEPT !.state = "ok"] /\ waiting[Main] \in Calls
          BY <1>1, <5>3
        <5>6. waiting'[Main].seq = waiting[Main].seq
          BY <5>5 DEF Calls
        <5> QED
          BY <3>3, <4>4, <5>1, <5>2, <5>4, <5>6 DEF DeferredTorn
      <4> QED
        BY <3>1, <4>2, <4>3, <4>4
    <3>4. ASSUME phase = "flushing"
          PROVE  \A p \in Pending' : waiting'[Main].seq < p.seq => p.kind = "release"
      BY <3>1, <3>3, <3>4 DEF DeferredTorn
    <3>5. ASSUME phase \in {"flushed", "releasing", "closed"}, answered
          PROVE  \A p \in Pending' : p.kind = "release"
      BY <3>1, <3>5 DEF DeferredTorn
    <3>6. ASSUME phase \in {"releasing", "closed"}, answered
          PROVE  \A r \in TextureRids : surface'[r] \notin {"live", "imported"}
      BY <3>1, <3>2, <3>6 DEF DeferredTorn
    <3>7. \A p \in Pending' : waiting'[Main].seq = waiting[Main].seq
            => (waiting'[Main].seq < p.seq <=> waiting[Main].seq < p.seq)
      OBVIOUS
    <3> QED
      BY <1>2, <3>1, <3>3, <3>4, <3>5, <3>6 DEF DeferredTorn
  <2> QED
    BY <1>8, <2>1, <2>2, <2>3 DEF RenderThread
<1>9. CASE ClosePool
  <2>1. /\ phase = "flushed" /\ phase' = "releasing"
        /\ \A r \in TextureRids :
             surface'[r] = IF surface[r] = "pooled" THEN "none"
                           ELSE IF surface[r] \in {"live", "imported"} THEN "remaining"
                           ELSE surface[r]
        /\ UNCHANGED <<queue, drain, answered>>
    BY <1>9 DEF ClosePool
  <2>2. Pending' = Pending
    BY <2>1 DEF Pending
  <2> QED
    BY <2>1, <2>2 DEF DeferredTorn
<1>10. ASSUME NEW r \in TextureRids, CloseRelease(r) PROVE DeferredTorn'
  <2>1. PICK op : op = NewOp(Main, "release", r, {}, FALSE, TRUE)
    OBVIOUS
  <2>2. /\ phase = "releasing" /\ Idle(Main) /\ Submit(op)
        /\ UNCHANGED <<build, batch, nextToken, phase, answered>>
        /\ surface' = [surface EXCEPT ![r] = IF Immediate(op) THEN "none" ELSE "doomed"]
    BY <1>10, <2>1 DEF CloseRelease
  <2>3. Fresh(op) /\ op.kind = "release"
    BY <1>1, <2>1, <2>2, FreshMade DEF Kinds, NewOp
  <2>4. Pending' \subseteq Pending \cup {op}
    BY <1>1, <2>2, <2>3, Submitted
  <2>5. \A s \in TextureRids : surface'[s] \in {surface[s], "none", "doomed"}
    BY <1>1, <2>2
  <2> QED
    BY <2>2, <2>3, <2>4, <2>5 DEF DeferredTorn
<1>11. CASE CloseDone
  <2>1. UNCHANGED <<queue, drain, surface, answered>> /\ phase = "releasing" /\ phase' = "closed"
    BY <1>11 DEF CloseDone
  <2>2. Pending' = Pending
    BY <2>1 DEF Pending
  <2> QED
    BY <2>1, <2>2 DEF DeferredTorn
<1> QED
  BY <1>3, <1>6, <1>7, <1>8, <1>9, <1>10, <1>11 DEF QueueNext, Teardown, Closed

\* The teardown, in every state and for every build.
THEOREM LateInvariant == QueueSpec => [](SurfaceInv /\ LateInv)
<1>1. QueueInit => SurfaceInv /\ LateInv
  BY WholeStarts DEF LateInv, InlineTorn, DeferredTorn, QueueInit
<1>2. SurfaceInv /\ LateInv /\ [QueueNext]_queueVars => (SurfaceInv /\ LateInv)'
  BY WholeSteps, InlineSteps, DeferredSteps DEF LateInv
<1> QED
  BY <1>1, <1>2, PTL DEF QueueSpec

\* No surface is free or pooled while an operation still names it; the pool stays empty once the
\* teardown has emptied it; and an answered teardown leaves no surface behind: for every build,
\* but that one which defers on another thread may pool one more, and a render thread that
\* does not may import one for a caller that gave up.
THEOREM SurfacesAreAccounted == QueueSpec => []SurfacesAccounted
<1>1. ASSUME SurfaceInv PROVE PooledIsQuiet
  <2>1. Named
    BY <1>1 DEF SurfaceInv, Accounts
  <2> QED
    BY <2>1, FreeQuiet DEF PooledIsQuiet
<1>2. ASSUME SurfaceInv, LateInv PROVE PoolStaysEmpty
  <2>1. ASSUME phase \in {"releasing", "closed"}, build.inline PROVE Pooled = {}
    BY <1>2, <2>1 DEF LateInv, InlineTorn, Pooled
  <2>2. ASSUME phase \in {"releasing", "closed"}, ~build.inline, ~build.deferred, answered
        PROVE  Pooled = {}
    BY <1>2, <2>2 DEF SurfaceInv, TornDown, Pooled
  <2> QED
    BY <2>1, <2>2 DEF PoolStaysEmpty
<1>3. ASSUME SurfaceInv, LateInv PROVE ClosedIsClean
  <2> SUFFICES ASSUME phase = "closed", answered, Pending = {}, NEW r \in TextureRids
               PROVE  \/ surface[r] = "none"
                      \/ surface[r] = "imported" /\ build.inline /\ ~build.deferred
                      \/ surface[r] = "pooled" /\ ~build.inline /\ build.deferred
    BY DEF ClosedIsClean
  <2>1. TornDown /\ ReleasesLast /\ InlineTorn /\ DeferredTorn
    BY <1>3 DEF SurfaceInv, Accounts, LateInv
  <2>2. surface[r] \notin {"doomed", "staging", "remaining"} /\ surface[r] \in States
    BY <1>3, <2>1 DEF SurfaceInv, Accounts, CallsTyped, ReleasesLast, TornDown
  <2>3. CASE build.inline
    BY <2>1, <2>2, <2>3 DEF InlineTorn, States
  <2>4. CASE ~build.inline /\ build.deferred
    BY <2>1, <2>2, <2>4 DEF DeferredTorn, States
  <2>5. CASE ~build.inline /\ ~build.deferred
    BY <2>1, <2>2, <2>5 DEF TornDown
  <2> QED
    BY <2>3, <2>4, <2>5
<1>4. SurfaceInv /\ LateInv => SurfacesAccounted
  BY <1>1, <1>2, <1>3 DEF SurfacesAccounted
<1> QED
  BY <1>4, LateInvariant, PTL

=============================================================================
