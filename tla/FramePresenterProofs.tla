------------------------ MODULE FramePresenterProofs ------------------------
(***************************************************************************)
(* Proofs about FramePresenter, for any number of pictures and of failed   *)
(* copies: what the viewport shows of the ring is never written to, never  *)
(* goes back to an older picture and never is one of a deleted scene; and  *)
(* the cached CPU texture is the frame it is given back for.               *)
(***************************************************************************)
EXTENDS FramePresenter, TLAPS

-----------------------------------------------------------------------------
(* The inductive invariant. *)

Engines == [gpu : Pictures, cpu : Pictures, serial : Pictures, native : BOOLEAN,
            reset : BOOLEAN]
Rings == [made : BOOLEAN, pic : [Slots -> Pictures], cur : Slots, pend : Slots,
          hasCur : BOOLEAN, hasPend : BOOLEAN, crossed : BOOLEAN]
Caches == [pic : Pictures, serial : 0..NoSerial]
Screens == [kind : {"ring", "live", "cpu", "rd", "movie", "none"}, slot : Slots]
Ops == {"none", "queued", "done", "failed"}

\* A picture on the GPU is one the engine has drawn.
TypeOK ==
  /\ inline \in BOOLEAN /\ pacing \in BOOLEAN
  /\ renderer \in Renderers
  /\ eng \in Engines /\ eng.gpu <= eng.serial
  /\ phase \in {"tick", "update", "draw"} /\ movie \in BOOLEAN
  /\ ring \in Rings /\ op \in Ops
  /\ cache \in Caches /\ rd \in Pictures /\ held \in 0..NoSerial
  /\ fails \in 0..MaxFails
  /\ screen \in Screens
  /\ scene \in Pictures /\ drawn \in Pictures

\* The copy in the pending slot has been encoded.
Encoded(r, o) == r.hasPend /\ o = "done"

\* A copy never goes to the current slot, and one that is queued has its slot; a
\* ring that has no current slot yet shows nothing in the first one.
SlotsApart(r, o) ==
  /\ r.hasCur /\ r.hasPend => r.pend # r.cur
  /\ o = "queued" => r.hasPend
  /\ ~r.hasCur => /\ r.cur = 0
                  /\ r.hasPend => r.pend = 0
                  /\ Encoded(r, o) \/ r.pic[0] = Blank

\* The slots hold pictures of the scene sc, up to picture g.
OfTheScene(r, g, sc) ==
  \A s \in Slots : r.pic[s] <= g /\ (r.pic[s] = Blank \/ sc <= r.pic[s])

\* The current slot is no older than the picture d last drawn, nor is the pending
\* one than both.
InOrder(r, o, d) ==
  /\ r.hasCur => d <= r.pic[r.cur]
  /\ Encoded(r, o) => /\ d <= r.pic[r.pend]
                      /\ r.hasCur => r.pic[r.cur] <= r.pic[r.pend]

RingSound(r, o, g, sc, d) == SlotsApart(r, o) /\ OfTheScene(r, g, sc) /\ InOrder(r, o, d)

\* The viewport shows the current slot, or of a ring that has none the first one as
\* long as nothing is copied.
ShowsCurrent ==
  screen.kind = "ring" => screen.slot = ring.cur /\ (ring.hasCur \/ ~ring.hasPend)

RingInv == /\ RingSound(ring, op, eng.gpu, scene, drawn)
           /\ ShowsCurrent
           /\ scene <= eng.gpu /\ drawn <= eng.gpu

\* The cached CPU texture is of a serial that was, and of this one only if it is its
\* frame; and a held serial, which may stand in for the cached one, excludes it.
CacheInv ==
  cache.pic # Blank =>
    /\ cache.serial <= eng.serial
    /\ cache.serial = eng.serial => cache.pic = eng.cpu
    /\ pacing => held = NoSerial

IInv == TypeOK /\ RingInv /\ CacheInv

-----------------------------------------------------------------------------
(* The operations on a ring. *)

\* A ring with nothing in it is sound, whatever was drawn.
LEMMA EmptySound ==
  ASSUME NEW g \in Nat, NEW sc \in Nat, NEW d \in Nat, NEW r \in {NoRing, NewRing},
         NEW o \in Ops \ {"queued"}
  PROVE  r \in Rings /\ ~r.hasPend /\ RingSound(r, o, g, sc, d)
<1>1. /\ r.pic = [s \in Slots |-> Blank] /\ r.cur = 0 /\ r.pend = 0
      /\ ~r.hasCur /\ ~r.hasPend /\ r \in Rings
  <2> DEFINE empty == [s \in Slots |-> Blank]
  <2>1. empty \in [Slots -> Pictures]
    BY FramePresenterAssumption DEF Pictures, Blank
  <2> HIDE DEF empty
  <2>2. /\ NoRing \in Rings /\ NoRing.pic = empty /\ NoRing.cur = 0 /\ NoRing.pend = 0
        /\ ~NoRing.hasCur /\ ~NoRing.hasPend
    <3>1. NoRing = [made |-> FALSE, pic |-> empty, cur |-> 0, pend |-> 0,
                    hasCur |-> FALSE, hasPend |-> FALSE, crossed |-> FALSE]
      BY DEF NoRing, empty
    <3>2. 0 \in Slots
      BY DEF Slots
    <3> QED
      BY <2>1, <3>1, <3>2 DEF Rings
  <2>3. /\ NewRing \in Rings /\ NewRing.pic = NoRing.pic /\ NewRing.cur = NoRing.cur
        /\ NewRing.pend = NoRing.pend /\ NewRing.hasCur = NoRing.hasCur
        /\ NewRing.hasPend = NoRing.hasPend
    BY <2>2 DEF NewRing, Rings
  <2> QED
    BY <2>2, <2>3 DEF empty
<1>2. \A s \in Slots : r.pic[s] = Blank
  BY <1>1
<1>3. SlotsApart(r, o) /\ OfTheScene(r, g, sc) /\ InOrder(r, o, d)
  BY <1>1, <1>2 DEF SlotsApart, OfTheScene, InOrder, Encoded, Slots, Blank
<1> QED
  BY <1>1, <1>3 DEF RingSound

\* The pending slot is promoted, or dropped if its copy failed.
LEMMA PromotedSound ==
  ASSUME NEW g \in Nat, NEW sc \in Nat, NEW d \in Nat, NEW r \in Rings, NEW o \in Ops,
         RingSound(r, o, g, sc, d), ~Waiting(r, o)
  PROVE  /\ Promoted(r, o) \in Rings /\ ~Promoted(r, o).hasPend
         /\ RingSound(Promoted(r, o), "none", g, sc, d)
<1> DEFINE p == Promoted(r, o)
<1>1. CASE Arrived(r, o)
  <2>1. p = [r EXCEPT !.cur = r.pend, !.hasCur = TRUE, !.hasPend = FALSE, !.crossed = FALSE]
    BY <1>1 DEF Promoted
  <2>2. /\ p \in Rings /\ p.pic = r.pic /\ p.cur = r.pend /\ p.hasCur /\ ~p.hasPend
    BY <2>1 DEF Rings
  <2>3. SlotsApart(p, "none") /\ OfTheScene(p, g, sc) /\ InOrder(p, "none", d)
    BY <1>1, <2>2 DEF RingSound, SlotsApart, OfTheScene, InOrder, Encoded, Arrived
  <2> QED
    BY <2>2, <2>3 DEF RingSound
<1>2. CASE ~Arrived(r, o)
  <2>1. p = [r EXCEPT !.hasPend = FALSE, !.crossed = FALSE]
    BY <1>2 DEF Promoted
  <2>2. /\ p \in Rings /\ p.pic = r.pic /\ p.cur = r.cur /\ (p.hasCur <=> r.hasCur)
        /\ ~p.hasPend
    BY <2>1 DEF Rings
  <2>3. ~Encoded(r, o)
    BY <1>2 DEF Waiting, Dropped, Encoded
  <2>4. SlotsApart(p, "none") /\ OfTheScene(p, g, sc) /\ InOrder(p, "none", d)
    BY <2>2, <2>3 DEF RingSound, SlotsApart, OfTheScene, InOrder, Encoded
  <2> QED
    BY <2>2, <2>4 DEF RingSound
<1> QED
  BY <1>1, <1>2

\* A copy is queued into the slot that is not current.
LEMMA PendedSound ==
  ASSUME NEW g \in Nat, NEW sc \in Nat, NEW d \in Nat, NEW r \in Rings, ~r.hasPend,
         RingSound(r, "none", g, sc, d)
  PROVE  /\ Pended(r) \in Rings /\ Pended(r).hasPend
         /\ Pended(r).cur = r.cur /\ (Pended(r).hasCur <=> r.hasCur)
         /\ RingSound(Pended(r), "queued", g, sc, d)
<1> DEFINE p == Pended(r)
<1>1. /\ NextSlot(r) \in Slots
      /\ r.hasCur => NextSlot(r) # r.cur
      /\ ~r.hasCur => NextSlot(r) = 0
  BY DEF NextSlot, Rings, Slots
<1>2. /\ p \in Rings /\ p.hasPend /\ p.pend = NextSlot(r) /\ p.pic = r.pic /\ p.cur = r.cur
      /\ (p.hasCur <=> r.hasCur)
  BY <1>1 DEF Pended, Rings
<1>3. SlotsApart(p, "queued") /\ OfTheScene(p, g, sc) /\ InOrder(p, "queued", d)
  BY <1>1, <1>2 DEF RingSound, SlotsApart, OfTheScene, InOrder, Encoded
<1> QED
  BY <1>2, <1>3 DEF RingSound

\* The copy is of the engine's picture, which is none older than what is shown.
LEMMA CopiedSound ==
  ASSUME TypeOK, NEW sc \in Nat, NEW d \in Nat, NEW r \in Rings, r.hasPend,
         NEW o \in Ops,
         RingSound(r, o, eng.gpu, sc, d), ~Encoded(r, o), sc <= eng.gpu, d <= eng.gpu
  PROVE  /\ Copied(r) \in Rings /\ Copied(r).hasPend
         /\ Copied(r).cur = r.cur /\ (Copied(r).hasCur <=> r.hasCur)
         /\ RingSound(Copied(r), "done", eng.gpu, sc, d)
<1> DEFINE c == Copied(r)
           g == eng.gpu
<1>1. g \in Pictures /\ g \in Nat
  BY FramePresenterAssumption DEF TypeOK, Engines, Pictures
<1>2. /\ c \in Rings /\ c.hasPend /\ c.pend = r.pend /\ c.cur = r.cur
      /\ (c.hasCur <=> r.hasCur)
      /\ c.pic = [r.pic EXCEPT ![r.pend] = g]
  BY <1>1 DEF Copied, Rings
<1>3. /\ r.pic \in [Slots -> Pictures] /\ r.pend \in Slots /\ r.cur \in Slots
  BY DEF Rings
<1>4. /\ c.pic[r.pend] = g
      /\ \A s \in Slots \ {r.pend} : c.pic[s] = r.pic[s]
  BY <1>2, <1>3
<1> HIDE DEF c, g
<1>5. SlotsApart(c, "done")
  BY <1>2, <1>3 DEF RingSound, SlotsApart, Encoded
<1>6. OfTheScene(c, g, sc)
  BY <1>1, <1>3, <1>4 DEF RingSound, OfTheScene, g
<1>7. InOrder(c, "done", d)
  <2>1. r.hasCur => r.cur # r.pend
    BY DEF RingSound, SlotsApart
  <2>2. c.pic[c.pend] = g
    BY <1>2, <1>4
  <2>3. r.hasCur => c.pic[c.cur] = r.pic[r.cur] /\ r.pic[r.cur] <= g /\ d <= r.pic[r.cur]
    BY <1>2, <1>3, <1>4, <2>1 DEF RingSound, OfTheScene, InOrder, g
  <2> QED
    BY <1>2, <2>2, <2>3 DEF InOrder, g
<1> QED
  BY <1>2, <1>5, <1>6, <1>7 DEF RingSound, c, g


\* What the player reads of the ring: a reset forgets it, and starts a new scene.
LEMMA ReadSound ==
  ASSUME TypeOK, RingInv
  PROVE  /\ RingRead \in Rings /\ OpRead \in Ops /\ SceneRead \in Pictures
         /\ HeldRead \in 0..NoSerial
         /\ SceneRead <= eng.gpu
         /\ RingSound(RingRead, OpRead, eng.gpu, SceneRead, drawn)
<1>1. /\ eng.gpu \in Pictures /\ eng.gpu \in Nat /\ drawn \in Nat /\ eng.reset \in BOOLEAN
      /\ NoSerial \in 0..NoSerial
  BY FramePresenterAssumption DEF TypeOK, Engines, Pictures, NoSerial
<1>2. CASE eng.reset
  <2>1. RingRead = NoRing /\ OpRead = "none" /\ SceneRead = eng.gpu /\ HeldRead = NoSerial
    BY <1>2 DEF RingRead, OpRead, SceneRead, HeldRead
  <2>2. "none" \in Ops \ {"queued"}
    BY DEF Ops
  <2>3. NoRing \in Rings /\ RingSound(NoRing, "none", eng.gpu, eng.gpu, drawn)
    BY <1>1, <2>2, EmptySound
  <2> QED
    BY <1>1, <2>1, <2>2, <2>3
<1>3. CASE ~eng.reset
  <2>1. RingRead = ring /\ OpRead = op /\ SceneRead = scene /\ HeldRead = held
    BY <1>3 DEF RingRead, OpRead, SceneRead, HeldRead
  <2> QED
    BY <2>1 DEF TypeOK, RingInv
<1> QED
  BY <1>1, <1>2, <1>3

\* The ring a copy is queued in has no pending slot.
LEMMA RingForSound ==
  ASSUME TypeOK, RingInv, NEW r \in RingFor
  PROVE  r \in Rings /\ ~r.hasPend /\ RingSound(r, "none", eng.gpu, SceneRead, drawn)
<1>1. eng.gpu \in Nat /\ drawn \in Nat /\ SceneRead \in Nat /\ "none" \in Ops \ {"queued"}
  BY FramePresenterAssumption, ReadSound DEF TypeOK, Engines, Pictures, Ops
<1>2. CASE r = NewRing
  BY <1>1, <1>2, EmptySound
<1>3. CASE r # NewRing
  <2>1. ~Waiting(RingRead, OpRead) /\ r = Promoted(RingRead, OpRead)
    BY <1>3 DEF RingFor
  <2> QED
    BY <1>1, <2>1, ReadSound, PromotedSound
<1> QED
  BY <1>2, <1>3

-----------------------------------------------------------------------------
(* The steps. *)

\* A step that leaves the ring alone, and shows nothing else of it.
LEMMA RingStays ==
  ASSUME TypeOK, TypeOK', RingInv, UNCHANGED <<ring, op, scene, drawn>>,
         eng.gpu <= eng'.gpu, screen' = screen \/ screen'.kind # "ring"
  PROVE  RingInv'
<1>1. /\ eng.gpu \in Nat /\ eng'.gpu \in Nat /\ scene \in Nat /\ drawn \in Nat
      /\ ring.pic \in [Slots -> Nat]
  BY FramePresenterAssumption DEF TypeOK, Engines, Pictures, Rings
<1>2. OfTheScene(ring, eng'.gpu, scene)
  BY <1>1 DEF RingInv, RingSound, OfTheScene
<1>3. RingSound(ring, op, eng.gpu, scene, drawn)' 
  BY <1>2 DEF RingInv, RingSound
<1>4. ShowsCurrent'
  BY DEF RingInv, ShowsCurrent
<1>5. scene' <= eng'.gpu /\ drawn' <= eng'.gpu
  BY <1>1 DEF RingInv
<1> QED
  BY <1>3, <1>4, <1>5 DEF RingInv

\* A step that drops the CPU frame's texture or leaves it, with the frame it is of.
LEMMA CacheStays ==
  ASSUME TypeOK, CacheInv, UNCHANGED pacing,
         eng'.serial = eng.serial, eng'.cpu = eng.cpu,
         cache'.pic = Blank \/ (cache' = cache /\ held' \in {held, NoSerial})
  PROVE  CacheInv'
BY DEF CacheInv

\* The presented ring.
LEMMA PresentedSound ==
  ASSUME TypeOK, RingInv, NEW r \in Rings, NEW o \in Ops,
         UNCHANGED <<eng, drawn>>, ring' = r, op' = o, scene' = SceneRead,
         RingSound(r, o, eng.gpu, SceneRead, drawn),
         screen'.kind = "ring" => screen'.slot = r.cur /\ (r.hasCur \/ ~r.hasPend)
  PROVE  RingInv'
<1>1. RingSound(ring, op, eng.gpu, scene, drawn)'
  OBVIOUS
<1>2. scene' <= eng'.gpu /\ drawn' <= eng'.gpu
  BY ReadSound DEF RingInv
<1> QED
  BY <1>1, <1>2 DEF RingInv, ShowsCurrent


\* The numbers.
LEMMA Numbers ==
  /\ Blank \in Pictures /\ Pictures \subseteq 0..NoSerial /\ NoSerial \in 0..NoSerial
  /\ Pictures \subseteq Nat /\ 0..NoSerial \subseteq Nat /\ MaxFails \in Nat
  /\ NoSerial \notin Pictures
BY FramePresenterAssumption DEF Pictures, Blank, NoSerial

\* The textures the viewport can show.
LEMMA ScreensShown ==
  /\ \A s \in Slots : SlotOf(s) \in Screens /\ SlotOf(s).kind = "ring" /\ SlotOf(s).slot = s
  /\ \A t \in {Live, Frame, Uploaded, Movie, Nothing} : t \in Screens /\ t.kind # "ring"
BY DEF SlotOf, Live, Frame, Uploaded, Movie, Nothing, Screens, Slots

\* The engine's new picture is one more than the last.
LEMMA EngineDrawn ==
  ASSUME TypeOK, EngineDraws
  PROVE  /\ eng' \in Engines /\ eng'.gpu <= eng'.serial /\ eng.gpu <= eng'.gpu
         /\ eng'.serial = eng.serial + 1
<1> DEFINE n == eng.serial + 1
<1>1. /\ eng.serial \in Nat /\ eng.serial < MaxPicture /\ eng.gpu \in Nat
      /\ eng.gpu \in Pictures /\ eng.cpu \in Pictures /\ eng.gpu <= eng.serial
  BY Numbers DEF TypeOK, Engines, EngineDraws
<1>2. n \in Pictures /\ n \in Nat /\ eng.gpu <= n
  BY <1>1, FramePresenterAssumption DEF Pictures
<1> HIDE DEF n
<1>3. PICK onGpu \in BOOLEAN, onCpu \in BOOLEAN, native \in BOOLEAN, reset \in BOOLEAN :
        eng' = [gpu |-> IF onGpu THEN n ELSE eng.gpu,
                cpu |-> IF onCpu THEN n ELSE eng.cpu,
                serial |-> n, native |-> native, reset |-> reset]
  BY DEF EngineDraws, n
<1>4. /\ eng' \in Engines /\ eng'.gpu \in {n, eng.gpu} /\ eng'.serial = n
  BY <1>1, <1>2, <1>3 DEF Engines
<1> QED
  BY <1>1, <1>2, <1>4 DEF n

\* The textures the player keeps when it shows a native frame.
LEMMA NativeKept ==
  ASSUME TypeOK
  PROVE  /\ NativeShown \in Caches /\ NativeShown.pic = Blank
         /\ [cache EXCEPT !.pic = Blank] \in Caches
         /\ [cache EXCEPT !.pic = Blank].pic = Blank
<1>1. eng.serial \in 0..NoSerial /\ cache \in Caches
  BY Numbers DEF TypeOK, Engines
<1> QED
  BY <1>1, Numbers DEF NativeShown, Caches

\* Every step keeps the types outside the ring, and between the shell's ticks.
LEMMA TypeTick ==
  ASSUME TypeOK,
         \/ EngineDraws \/ EngineRedraws \/ EngineSkips \/ SetRenderBackend
         \/ MovieChanges \/ ReleaseFrameTexture \/ Draw \/ NoDraw
  PROVE  TypeOK'
<1>1. CASE EngineDraws
  BY <1>1, EngineDrawn DEF TypeOK, EngineDraws
<1>2. CASE EngineRedraws
  BY <1>2 DEF TypeOK, EngineRedraws
<1>3. CASE EngineSkips
  BY <1>3 DEF TypeOK, EngineSkips
<1>4. CASE SetRenderBackend
  BY <1>4 DEF TypeOK, SetRenderBackend
<1>5. CASE MovieChanges
  BY <1>5 DEF TypeOK, MovieChanges
<1>6. CASE ReleaseFrameTexture
  <2>1. NoRing \in Rings
    <3>1. "none" \in Ops \ {"queued"}
      BY DEF Ops
    <3> QED
      BY <3>1, EmptySound, 0 \in Nat
  <2> QED
    BY <1>6, <2>1, NativeKept, Numbers, ScreensShown DEF TypeOK, ReleaseFrameTexture, Ops
<1> DEFINE told == [eng EXCEPT !.reset = FALSE]
<1>7. told \in Engines /\ told.gpu = eng.gpu /\ told.serial = eng.serial
  BY DEF TypeOK, Engines
<1>8. RingPicture \in Pictures
  <2>1. ring.pic[screen.slot] \in Pictures
    BY DEF TypeOK, Rings, Screens
  <2> QED
    BY <2>1, Numbers DEF RingPicture
<1>9. CASE Draw
  <2>1. [ring EXCEPT !.crossed = ring.hasPend] \in Rings
    BY DEF TypeOK, Rings
  <2>2. eng' = told /\ drawn' = RingPicture /\ ring' \in Rings /\ phase' = "tick"
    BY <1>9, <2>1 DEF Draw, NextTick
  <2> HIDE DEF told
  <2> QED
    BY <1>7, <1>8, <1>9, <2>2 DEF TypeOK, Draw, NextTick
<1>10. CASE NoDraw
  <2>1. eng' = told /\ phase' = "tick"
    BY <1>10 DEF NoDraw, NextTick
  <2> HIDE DEF told
  <2> QED
    BY <1>7, <1>10, <2>1 DEF TypeOK, NoDraw, NextTick
<1> QED
  BY <1>1, <1>2, <1>3, <1>4, <1>5, <1>6, <1>9, <1>10


\* Between two updates of the shell, nothing goes into the ring or out of it.
LEMMA RingTick ==
  ASSUME TypeOK, TypeOK', RingInv,
         \/ EngineDraws \/ EngineRedraws \/ EngineSkips \/ SetRenderBackend
         \/ MovieChanges \/ ReleaseFrameTexture \/ NoDraw
  PROVE  RingInv'
<1>1. CASE EngineDraws
  BY <1>1, EngineDrawn, RingStays DEF EngineDraws
<1>2. CASE EngineRedraws \/ EngineSkips \/ SetRenderBackend \/ MovieChanges
  <2>1. eng'.gpu = eng.gpu /\ eng.gpu \in Nat
    BY <1>2, Numbers
    DEF TypeOK, Engines, EngineRedraws, EngineSkips, SetRenderBackend, MovieChanges
  <2> QED
    BY <1>2, <2>1, RingStays DEF EngineRedraws, EngineSkips, SetRenderBackend, MovieChanges
<1>3. CASE NoDraw
  <2>1. eng'.gpu = eng.gpu /\ eng.gpu <= eng.gpu
    BY <1>3, Numbers DEF TypeOK, Engines, NoDraw, NextTick
  <2> QED
    BY <1>3, <2>1, RingStays DEF NoDraw, NextTick
<1>4. CASE ReleaseFrameTexture
  <2>1. /\ ring' = NoRing /\ op' = "none" /\ screen' = Nothing
        /\ UNCHANGED <<eng, scene, drawn>>
    BY <1>4 DEF ReleaseFrameTexture
  <2>2. /\ eng.gpu \in Nat /\ scene \in Nat /\ drawn \in Nat /\ "none" \in Ops \ {"queued"}
    BY Numbers DEF TypeOK, Engines, Ops
  <2>3. RingSound(NoRing, "none", eng.gpu, scene, drawn)
    BY <2>2, EmptySound
  <2>4. RingSound(ring, op, eng.gpu, scene, drawn)'
    BY <2>1, <2>3
  <2>5. ShowsCurrent'
    BY <2>1, ScreensShown DEF ShowsCurrent
  <2> QED
    BY <2>1, <2>4, <2>5 DEF RingInv
<1> QED
  BY <1>1, <1>2, <1>3, <1>4

\* What is drawn of the ring is its current slot, or nothing as long as it has none.
LEMMA RingIsDrawn ==
  ASSUME TypeOK, RingInv
  PROVE  /\ RingPicture <= eng.gpu /\ RingPicture \in Nat
         /\ RingPicture # Blank =>
              /\ screen.kind = "ring" /\ screen.slot = ring.cur
              /\ RingPicture = ring.pic[ring.cur]
              /\ ring.hasCur
<1>1. /\ ring.pic \in [Slots -> Pictures] /\ screen.slot \in Slots /\ eng.gpu \in Nat
      /\ ring.cur \in Slots
  BY Numbers DEF TypeOK, Rings, Screens, Engines
<1>2. CASE screen.kind # "ring"
  BY <1>1, <1>2 DEF RingPicture, Blank
<1>3. CASE screen.kind = "ring"
  <2>1. RingPicture = ring.pic[ring.cur] /\ screen.slot = ring.cur
    BY <1>3 DEF RingPicture, RingInv, ShowsCurrent
  <2>2. RingPicture <= eng.gpu /\ RingPicture \in Nat
    BY <1>1, <2>1, Numbers DEF RingInv, RingSound, OfTheScene
  <2>3. ~ring.hasCur => RingPicture = Blank
    BY <1>3, <2>1 DEF RingInv, RingSound, SlotsApart, ShowsCurrent, Encoded
  <2> QED
    BY <1>3, <2>1, <2>2, <2>3
<1> QED
  BY <1>2, <1>3

\* A drawn frame shows the current slot, and no copy that waits is older.
LEMMA RingDraw ==
  ASSUME TypeOK, RingInv, Draw
  PROVE  RingInv'
<1> DEFINE c == [ring EXCEPT !.crossed = ring.hasPend]
<1>1. /\ c \in Rings /\ c.pic = ring.pic /\ c.cur = ring.cur /\ c.pend = ring.pend
      /\ (c.hasCur <=> ring.hasCur) /\ (c.hasPend <=> ring.hasPend)
  BY DEF TypeOK, Rings
<1>2. /\ ring' = c /\ eng'.gpu = eng.gpu /\ UNCHANGED <<op, scene, screen>>
      /\ drawn' = RingPicture
  BY DEF Draw, NextTick, TypeOK, Engines
<1> HIDE DEF c
<1>3. SlotsApart(c, op) /\ OfTheScene(c, eng.gpu, scene)
  BY <1>1 DEF RingInv, RingSound, SlotsApart, OfTheScene, Encoded
<1>4. InOrder(c, op, RingPicture)
  <2>1. /\ ring.pic \in [Slots -> Nat] /\ ring.cur \in Slots /\ ring.pend \in Slots
    BY Numbers DEF TypeOK, Rings
  <2>2. CASE RingPicture = Blank
    <3>1. c.pic[c.cur] >= 0 /\ c.pic[c.pend] >= 0
      BY <1>1, <2>1
    <3> QED
      BY <1>1, <2>2, <3>1 DEF InOrder, RingInv, RingSound, Encoded, Blank
  <2>3. CASE RingPicture # Blank
    <3>1. RingPicture = ring.pic[ring.cur] /\ ring.hasCur
      BY <2>3, RingIsDrawn
    <3> QED
      BY <1>1, <2>1, <3>1 DEF InOrder, RingInv, RingSound, Encoded
  <2> QED
    BY <2>2, <2>3
<1>5. RingSound(ring, op, eng.gpu, scene, drawn)'
  BY <1>2, <1>3, <1>4 DEF RingSound
<1>6. ShowsCurrent'
  BY <1>1, <1>2 DEF RingInv, ShowsCurrent
<1>7. scene' <= eng'.gpu /\ drawn' <= eng'.gpu
  BY <1>2, RingIsDrawn DEF RingInv
<1> QED
  BY <1>5, <1>6, <1>7 DEF RingInv

\* The render thread's copy goes into the pending slot, or fails.
LEMMA EncodeSteps ==
  ASSUME TypeOK, RingInv, EncodeCopy
  PROVE  TypeOK' /\ RingInv'
<1>1. /\ op = "queued" /\ ring.hasPend /\ ring \in Rings /\ op \in Ops
      /\ UNCHANGED <<eng, screen, scene, drawn>>
      /\ RingSound(ring, op, eng.gpu, scene, drawn)
  BY DEF EncodeCopy, RingInv, RingSound, SlotsApart, TypeOK
<1>2. /\ scene \in Nat /\ drawn \in Nat /\ scene <= eng.gpu /\ drawn <= eng.gpu
      /\ "done" \in Ops /\ "failed" \in Ops /\ ~Encoded(ring, op) /\ ~Encoded(ring, "failed")
  BY <1>1, Numbers DEF TypeOK, RingInv, Ops, Encoded
<1>3. CASE op' = "done" /\ ring' = Copied(ring) /\ UNCHANGED fails
  <2>1. /\ Copied(ring) \in Rings /\ Copied(ring).cur = ring.cur
        /\ (Copied(ring).hasCur <=> ring.hasCur)
        /\ RingSound(Copied(ring), "done", eng.gpu, scene, drawn)
    BY <1>1, <1>2, CopiedSound
  <2>2. TypeOK'
    BY <1>1, <1>2, <1>3, <2>1 DEF TypeOK, EncodeCopy
  <2>3. RingSound(ring, op, eng.gpu, scene, drawn)'
    BY <1>1, <1>3, <2>1
  <2>4. ShowsCurrent'
    BY <1>1, <1>3, <2>1 DEF RingInv, ShowsCurrent
  <2> QED
    BY <1>1, <1>2, <2>2, <2>3, <2>4 DEF RingInv
<1>4. CASE fails < MaxFails /\ op' = "failed" /\ fails' = fails + 1 /\ UNCHANGED ring
  <2>1. TypeOK'
    <3>1. fails + 1 \in 0..MaxFails
      BY <1>4, Numbers DEF TypeOK
    <3> QED
      BY <1>1, <1>2, <1>4, <3>1 DEF TypeOK, EncodeCopy
  <2>2. RingSound(ring, "failed", eng.gpu, scene, drawn)
    BY <1>1, <1>2 DEF RingSound, SlotsApart, InOrder, OfTheScene
  <2>3. RingSound(ring, op, eng.gpu, scene, drawn)'
    BY <1>1, <1>4, <2>2
  <2>4. ShowsCurrent'
    BY <1>1, <1>4 DEF RingInv, ShowsCurrent
  <2> QED
    BY <1>1, <1>2, <2>1, <2>3, <2>4 DEF RingInv
<1> QED
  BY <1>3, <1>4 DEF EncodeCopy

\* An update that presents the ring r.
LEMMA PresentedSteps ==
  ASSUME IInv, NEW r \in Rings, NEW o \in Ops, Presented(r), op' = o,
         RingSound(r, o, eng.gpu, SceneRead, drawn),
         screen' \in Screens,
         screen'.kind = "ring" => screen'.slot = r.cur /\ (r.hasCur \/ ~r.hasPend),
         cache' \in Caches, cache'.pic = Blank, fails' \in 0..MaxFails
  PROVE  IInv'
<1>1. /\ TypeOK /\ RingInv
  BY DEF IInv
<1>2. /\ UNCHANGED <<inline, pacing, renderer, eng, movie, rd, drawn>>
      /\ phase' = "draw" /\ ring' = r /\ held' = HeldRead /\ scene' = SceneRead
  BY DEF Presented, Updating
<1>3. RingInv'
  BY <1>1, <1>2, PresentedSound
<1>4. TypeOK'
  BY <1>1, <1>2, ReadSound DEF TypeOK
<1>5. CacheInv'
  BY DEF CacheInv
<1> QED
  BY <1>3, <1>4, <1>5 DEF IInv

\* The ring shows its current slot or none of its slots.
LEMMA RingShown ==
  ASSUME NEW r \in Rings
  PROVE  /\ RingShows(r) \in Screens
         /\ RingShows(r).kind = "ring" => RingShows(r).slot = r.cur /\ r.hasCur
         /\ SlotOf(r.cur) \in Screens /\ SlotOf(r.cur).slot = r.cur
<1>1. r.cur \in Slots
  BY DEF Rings
<1> QED
  BY <1>1, ScreensShown DEF RingShows

\* The updates that show the ring.
LEMMA RingSteps ==
  ASSUME IInv, KeepWaiting \/ QueueCopy \/ CopyAtOnce \/ CopyRefused
  PROVE  IInv'
<1>1. /\ TypeOK /\ RingInv /\ fails \in 0..MaxFails /\ drawn \in Nat /\ drawn <= eng.gpu
      /\ eng.gpu \in Nat
  BY Numbers DEF IInv, TypeOK, RingInv, Engines
<1>2. SceneRead \in Nat /\ SceneRead <= eng.gpu
  BY <1>1, Numbers, ReadSound
<1>3. CASE KeepWaiting
  <2>1. /\ RingRead \in Rings /\ OpRead \in Ops
        /\ RingSound(RingRead, OpRead, eng.gpu, SceneRead, drawn)
    BY <1>1, ReadSound
  <2>2. /\ Presented(RingRead) /\ op' = OpRead /\ cache' = NativeShown
        /\ screen' = RingShows(RingRead) /\ fails' = fails
    BY <1>3 DEF KeepWaiting
  <2> QED
    BY <1>1, <2>1, <2>2, RingShown, NativeKept, PresentedSteps
<1>4. CASE QueueCopy
  <2>1. PICK r \in RingFor :
          /\ Presented(Pended(r))
          /\ op' = "queued" /\ cache' = NativeShown /\ screen' = RingShows(r)
    BY <1>4 DEF QueueCopy
  <2>2. r \in Rings /\ ~r.hasPend /\ RingSound(r, "none", eng.gpu, SceneRead, drawn)
    BY <1>1, RingForSound
  <2>3. /\ Pended(r) \in Rings /\ Pended(r).cur = r.cur /\ (Pended(r).hasCur <=> r.hasCur)
        /\ RingSound(Pended(r), "queued", eng.gpu, SceneRead, drawn)
    BY <1>1, <1>2, <2>2, PendedSound
  <2>4. "queued" \in Ops /\ fails' = fails
    BY <1>4 DEF QueueCopy, Ops
  <2>5. /\ screen' \in Screens
        /\ screen'.kind = "ring" => screen'.slot = Pended(r).cur /\ Pended(r).hasCur
    BY <2>1, <2>2, <2>3, RingShown
  <2> QED
    BY <1>1, <2>1, <2>3, <2>4, <2>5, NativeKept, PresentedSteps
<1>5. CASE CopyAtOnce
  <2>1. PICK r \in RingFor :
          /\ Presented(Copied(Pended(r)))
          /\ op' = "done" /\ cache' = NativeShown /\ screen' = RingShows(r)
    BY <1>5 DEF CopyAtOnce
  <2>2. r \in Rings /\ ~r.hasPend /\ RingSound(r, "none", eng.gpu, SceneRead, drawn)
    BY <1>1, RingForSound
  <2> DEFINE p == Pended(r)
             c == Copied(p)
  <2>3. /\ p \in Rings /\ p.hasPend /\ p.cur = r.cur /\ (p.hasCur <=> r.hasCur)
        /\ RingSound(p, "queued", eng.gpu, SceneRead, drawn)
    BY <1>1, <1>2, <2>2, PendedSound
  <2> HIDE DEF p
  <2>4. "queued" \in Ops /\ "done" \in Ops /\ fails' = fails /\ ~Encoded(p, "queued")
    BY <1>5 DEF CopyAtOnce, Ops, Encoded
  <2>5. /\ c \in Rings /\ c.cur = r.cur /\ (c.hasCur <=> r.hasCur)
        /\ RingSound(c, "done", eng.gpu, SceneRead, drawn)
    BY <1>1, <1>2, <2>3, <2>4, CopiedSound
  <2>6. /\ screen' \in Screens
        /\ screen'.kind = "ring" => screen'.slot = c.cur /\ c.hasCur
    BY <2>1, <2>2, <2>5, RingShown
  <2>7. Presented(c)
    BY <2>1 DEF p
  <2> HIDE DEF c
  <2> QED
    BY <1>1, <2>1, <2>4, <2>5, <2>6, <2>7, NativeKept, PresentedSteps
<1>6. CASE CopyRefused
  <2>1. PICK r \in RingFor : Presented(r) /\ screen' = SlotOf(r.cur)
    BY <1>6 DEF CopyRefused
  <2>2. r \in Rings /\ ~r.hasPend /\ RingSound(r, "none", eng.gpu, SceneRead, drawn)
    BY <1>1, RingForSound
  <2>3. /\ op' = "none" /\ "none" \in Ops /\ cache' = [cache EXCEPT !.pic = Blank]
        /\ fails' \in 0..MaxFails
    BY <1>1, <1>6, Numbers DEF CopyRefused, Ops
  <2> QED
    BY <1>1, <2>1, <2>2, <2>3, RingShown, NativeKept, PresentedSteps
<1> QED
  BY <1>3, <1>4, <1>5, <1>6


\* The updates that show something else: a movie, the provider's own texture, a
\* held one, the CPU frame, or what was there.
LEMMA OtherSteps ==
  ASSUME IInv, ShowMovie \/ ShowLive \/ HoldLast \/ ShowCached \/ ReadBack \/ NoFrame
  PROVE  IInv'
<1>1. /\ TypeOK /\ RingInv /\ CacheInv
      /\ eng.gpu \in Nat /\ drawn \in Nat /\ SceneRead \in Nat
      /\ eng.serial \in Pictures /\ eng.cpu \in Pictures /\ cache \in Caches
  BY Numbers, ReadSound DEF IInv, TypeOK, Engines
<1>2. CASE ShowMovie
  <2>1. TypeOK'
    BY <1>1, <1>2, ScreensShown DEF TypeOK, ShowMovie, Updating
  <2>2. RingInv' /\ CacheInv'
    BY <1>1, <1>2, <2>1, ScreensShown, RingStays, CacheStays DEF ShowMovie
  <2> QED
    BY <2>1, <2>2 DEF IInv
<1>3. CASE ShowLive
  <2>1. /\ ring' = NoRing /\ op' = "none" /\ screen' = Live /\ cache' = NativeShown
        /\ scene' = SceneRead /\ held' \in {eng.serial, HeldRead} /\ phase' = "draw"
        /\ UNCHANGED <<inline, pacing, renderer, eng, movie, rd, fails, drawn>>
    BY <1>3 DEF ShowLive, Updating
  <2>2. "none" \in Ops \ {"queued"}
    BY DEF Ops
  <2>3. NoRing \in Rings /\ RingSound(NoRing, "none", eng.gpu, SceneRead, drawn)
    BY <1>1, <2>2, EmptySound
  <2>4. RingInv'
    BY <1>1, <2>1, <2>2, <2>3, ScreensShown, PresentedSound
  <2>5. TypeOK'
    <3>1. held' \in 0..NoSerial
      BY <1>1, <2>1, ReadSound, Numbers
    <3> QED
      BY <1>1, <2>1, <2>2, <2>3, <3>1, ReadSound, NativeKept, ScreensShown DEF TypeOK
  <2>6. CacheInv'
    BY <1>1, <2>1, NativeKept DEF CacheInv
  <2> QED
    BY <2>4, <2>5, <2>6 DEF IInv
<1>4. CASE HoldLast
  <2> DEFINE c == [cache EXCEPT !.serial = held]
  <2>1. c \in Caches /\ c.pic = cache.pic
    BY <1>1 DEF TypeOK, Caches
  <2>2. /\ cache' = c /\ screen' = Live /\ phase' = "draw" /\ pacing /\ held # NoSerial
        /\ UNCHANGED <<inline, pacing, renderer, eng, movie, ring, op, rd, held, fails,
                       scene, drawn>>
    BY <1>4 DEF HoldLast, Updating, Holding
  <2> HIDE DEF c
  <2>3. TypeOK'
    BY <1>1, <2>1, <2>2, ScreensShown DEF TypeOK
  <2>4. cache'.pic = Blank
    BY <1>1, <2>1, <2>2 DEF CacheInv
  <2>5. RingInv'
    BY <1>1, <2>2, <2>3, ScreensShown, RingStays
  <2>6. CacheInv'
    BY <2>4 DEF CacheInv
  <2> QED
    BY <2>3, <2>5, <2>6 DEF IInv
<1>5. CASE ShowCached \/ ReadBack \/ NoFrame
  <2>1. /\ phase' = "draw" /\ held' = (IF pacing THEN NoSerial ELSE held)
        /\ UNCHANGED <<inline, pacing, renderer, eng, movie, ring, op, scene, drawn>>
    BY <1>5 DEF ShowCached, ReadBack, NoFrame, FallBack, Updating
  <2>2. held' \in {held, NoSerial} /\ (pacing => held' = NoSerial)
    BY <2>1
  <2> DEFINE read == [pic |-> eng.cpu, serial |-> eng.serial]
             kept == [pic |-> Blank, serial |-> eng.serial]
  <2>3. \/ UNCHANGED <<cache, rd, screen>>
        \/ UNCHANGED <<cache, rd>> /\ screen' = Frame
        \/ UNCHANGED rd /\ screen' = Frame /\ cache' = read
        \/ rd' = eng.cpu /\ screen' = Uploaded /\ cache' = kept
    BY <1>5 DEF ShowCached, ReadBack, NoFrame
  <2>4. /\ read \in Caches /\ read.pic = eng.cpu /\ read.serial = eng.serial
        /\ kept \in Caches /\ kept.pic = Blank
    BY <1>1, Numbers DEF Caches
  <2> HIDE DEF read, kept
  <2>5. fails' \in 0..MaxFails
    <3>1. fails' = fails \/ (fails < MaxFails /\ fails' = fails + 1)
      BY <1>5 DEF ShowCached, ReadBack, NoFrame
    <3> QED
      BY <1>1, <3>1, Numbers DEF TypeOK
  <2>6. /\ cache' \in Caches /\ rd' \in Pictures /\ screen' \in Screens
        /\ screen' = screen \/ screen'.kind # "ring"
    <3>1. screen' \in {screen, Frame, Uploaded} /\ rd' \in {rd, eng.cpu}
          /\ cache' \in {cache, read, kept}
      BY <2>3
    <3> QED
      BY <1>1, <2>4, <3>1, ScreensShown DEF TypeOK
  <2>7. held' \in 0..NoSerial
    BY <1>1, <2>2, Numbers DEF TypeOK
  <2>8. TypeOK'
    BY <1>1, <2>1, <2>5, <2>6, <2>7 DEF TypeOK
  <2>9. RingInv'
    <3>1. eng.gpu <= eng'.gpu
      BY <1>1, <2>1
    <3> QED
      BY <1>1, <2>1, <2>6, <2>8, <3>1, RingStays
  <2>10. CacheInv'
    <3>1. CASE cache' = cache
      BY <1>1, <2>1, <2>2, <3>1, CacheStays
    <3>2. CASE cache' = read
      <4>1. eng.serial \in Nat /\ cache'.serial = eng'.serial /\ cache'.pic = eng'.cpu
        BY <1>1, <2>1, <2>4, <3>2, Numbers
      <4> QED
        BY <2>1, <2>2, <4>1 DEF CacheInv
    <3>3. CASE cache' = kept
      BY <2>4, <3>3 DEF CacheInv
    <3> QED
      BY <2>3, <3>1, <3>2, <3>3
  <2> QED
    BY <2>8, <2>9, <2>10 DEF IInv
<1> QED
  BY <1>2, <1>3, <1>4, <1>5

\* Between two updates the cached texture is left or dropped, and the engine's next
\* frame has another serial than every one before.
LEMMA CacheTick ==
  ASSUME TypeOK, CacheInv,
         \/ EngineDraws \/ EngineRedraws \/ EngineSkips \/ SetRenderBackend
         \/ MovieChanges \/ ReleaseFrameTexture \/ Draw \/ NoDraw \/ EncodeCopy
  PROVE  CacheInv'
<1>1. CASE EngineDraws
  <2>1. /\ eng'.serial = eng.serial + 1 /\ UNCHANGED <<pacing, cache, held>>
        /\ eng.serial \in Nat /\ cache.serial \in Nat
    BY <1>1, EngineDrawn, Numbers DEF EngineDraws, TypeOK, Engines, Caches
  <2> QED
    BY <2>1 DEF CacheInv
<1>2. CASE EngineRedraws \/ EngineSkips \/ SetRenderBackend \/ MovieChanges \/ EncodeCopy
  BY <1>2, CacheStays
  DEF EngineRedraws, EngineSkips, SetRenderBackend, MovieChanges, EncodeCopy
<1>3. CASE ReleaseFrameTexture
  BY <1>3, NativeKept DEF ReleaseFrameTexture, CacheInv
<1>4. CASE Draw \/ NoDraw
  <2>1. /\ eng'.serial = eng.serial /\ eng'.cpu = eng.cpu /\ UNCHANGED <<pacing, cache, held>>
    BY <1>4 DEF Draw, NoDraw, NextTick, TypeOK, Engines
  <2> QED
    BY <2>1, CacheStays
<1> QED
  BY <1>1, <1>2, <1>3, <1>4

-----------------------------------------------------------------------------
(* The theorems. *)

\* The player starts with no ring, no cached texture and nothing shown.
LEMMA InitSound == Init => IInv
<1> SUFFICES ASSUME Init PROVE IInv
  OBVIOUS
<1>1. "none" \in Ops \ {"queued"} /\ 0 \in Nat /\ 0 \in Pictures /\ NoSerial \in 0..NoSerial
  BY Numbers DEF Ops, Blank
<1>2. NoRing \in Rings /\ ~NoRing.hasPend /\ RingSound(NoRing, "none", 0, 0, 0)
  BY <1>1, EmptySound
<1>3. TypeOK
  <2>1. eng \in Engines /\ eng.gpu = 0 /\ eng.serial = 0 /\ cache \in Caches
    BY <1>1 DEF Init, Engines, Caches, Blank
  <2>2. /\ fails \in 0..MaxFails /\ eng.gpu <= eng.serial
    BY <2>1, Numbers DEF Init
  <2>3. /\ inline \in BOOLEAN /\ pacing \in BOOLEAN /\ renderer \in Renderers
        /\ phase = "tick" /\ movie = FALSE /\ ring = NoRing /\ op = "none"
        /\ rd = 0 /\ held = NoSerial /\ screen = Nothing /\ scene = 0 /\ drawn = 0
    BY DEF Init, Blank
  <2> QED
    BY <1>1, <1>2, <2>1, <2>2, <2>3, ScreensShown DEF TypeOK
<1>4. RingInv
  BY <1>2, ScreensShown DEF Init, RingInv, ShowsCurrent, Blank
<1>5. CacheInv
  BY DEF Init, CacheInv
<1> QED
  BY <1>3, <1>4, <1>5 DEF IInv

\* Every step of the engine, the render thread and the shell keeps the ring and the
\* cached texture sound.
LEMMA NextSound == IInv /\ [Next]_vars => IInv'
<1> SUFFICES ASSUME IInv, [Next]_vars PROVE IInv'
  OBVIOUS
<1>1. TypeOK /\ RingInv /\ CacheInv
  BY DEF IInv
<1>2. CASE \/ EngineDraws \/ EngineRedraws \/ EngineSkips \/ SetRenderBackend
           \/ MovieChanges \/ ReleaseFrameTexture \/ NoDraw
  BY <1>1, <1>2, TypeTick, RingTick, CacheTick DEF IInv
<1>3. CASE Draw
  BY <1>1, <1>3, TypeTick, RingDraw, CacheTick DEF IInv
<1>4. CASE EncodeCopy
  BY <1>1, <1>4, EncodeSteps, CacheTick DEF IInv
<1>5. CASE Update
  BY <1>5, RingSteps, OtherSteps DEF Update
<1>6. CASE UNCHANGED vars
  BY <1>1, <1>6
  DEF vars, IInv, TypeOK, RingInv, RingSound, SlotsApart, OfTheScene, InOrder, Encoded,
      ShowsCurrent, CacheInv
<1> QED
  BY <1>2, <1>3, <1>4, <1>5, <1>6 DEF Next

\* In every state the player reaches, the ring, the cached texture and the screen are
\* what the invariant says.
THEOREM PresentationInvariant == Spec => []IInv
BY InitSound, NextSound, PTL DEF Spec

\* What the invariant says of the ring is enough: the shown slot is not written, the
\* pictures drawn never go back, and none of them is of a deleted scene.
LEMMA InvRingSafe == IInv => RingSafe
<1> SUFFICES ASSUME IInv PROVE RingSafe
  OBVIOUS
<1>1. /\ TypeOK /\ RingInv
      /\ ring.pic \in [Slots -> Pictures] /\ ring.cur \in Slots /\ eng.gpu \in Pictures
      /\ scene \in Nat /\ drawn \in Nat
  BY Numbers DEF IInv, TypeOK, Rings, Engines
<1>2. ShownSlotStable
  BY <1>1 DEF RingInv, RingSound, SlotsApart, ShowsCurrent, ShownSlotStable
<1>3. RingForward
  <2>1. RingPicture # Blank => drawn <= RingPicture
    BY <1>1, RingIsDrawn DEF RingInv, RingSound, InOrder
  <2> QED
    BY <1>1, <2>1, RingIsDrawn DEF RingForward
<1>4. NoGhost
  <2> SUFFICES ASSUME screen.kind = "ring"
               PROVE  ring.pic[screen.slot] \in {Blank} \cup scene..MaxPicture
    BY DEF NoGhost
  <2>1. screen.slot = ring.cur /\ ring.pic[ring.cur] \in Pictures
    BY <1>1 DEF RingInv, ShowsCurrent
  <2>2. ring.pic[ring.cur] = Blank \/ scene <= ring.pic[ring.cur]
    BY <1>1 DEF RingInv, RingSound, OfTheScene
  <2> QED
    BY <1>1, <2>1, <2>2, FramePresenterAssumption DEF Pictures
<1> QED
  BY <1>2, <1>3, <1>4 DEF RingSafe

\* However updates, skipped ticks, undrawn frames, failed copies, resets and changes of
\* renderer follow each other, the viewport shows a slot of the ring only while no copy
\* goes into it, never an older picture after a newer one, and never one of a scene
\* whose end the player has read.
THEOREM RingShownSafely == Spec => []RingSafe
BY PresentationInvariant, InvRingSafe, PTL

\* The cached CPU texture is given back only for the frame it was made of, whatever
\* native or held texture was shown since and had its serial recorded in its place.
THEOREM CacheShownTruly == Spec => []CacheCurrent
<1>1. IInv => CacheCurrent
  BY DEF IInv, CacheInv, CacheCurrent, CachedFrame
<1> QED
  BY <1>1, PresentationInvariant, PTL
=============================================================================
