---------------------------- MODULE PlayerProofs ----------------------------
(***************************************************************************)
(* Theorems about the player of the Godot extension: RuntimeTiming, its    *)
(* clocks and its music, for every unit of time, every rate and every      *)
(* sequence of deltas; RuntimePlayer, its requests, movies, videos and     *)
(* frame output option, for every number of engines, requests, failures,   *)
(* settings and pictures.                                                  *)
(***************************************************************************)
EXTENDS RuntimeTiming, RuntimePlayer, TLAPS

-----------------------------------------------------------------------------
(* Quotients. *)

\* A quotient and its rest.
LEMMA Quotient ==
  ASSUME NEW a \in Nat, NEW n \in Nat \ {0}
  PROVE  /\ a \div n \in Nat /\ a % n \in Nat
         /\ a = n * (a \div n) + (a % n)
         /\ a % n < n
  OBVIOUS

\* They are the only ones.
LEMMA QuotientUnique ==
  ASSUME NEW a \in Nat, NEW n \in Nat \ {0}, NEW q \in Nat, NEW r \in Nat,
         a = n * q + r, r < n
  PROVE  q = a \div n /\ r = a % n
<1> DEFINE p == a \div n
           s == a % n
<1>1. p \in Nat /\ s \in Nat /\ a = n * p + s /\ s < n
  BY Quotient
<1> HIDE DEF p, s
<1>2. ASSUME q < p PROVE FALSE
  <2>1. n * p >= n * (q + 1)
    BY <1>1, <1>2
  <2> QED
    BY <2>1, <1>1
<1>3. ASSUME p < q PROVE FALSE
  <2>1. n * q >= n * (p + 1)
    BY <1>1, <1>3
  <2> QED
    BY <2>1, <1>1
<1>4. p = q
  BY <1>1, <1>2, <1>3
<1>5. r = s
  BY <1>1, <1>4
<1> QED
  BY <1>4, <1>5 DEF p, s

\* A part of a number, in whole units, is at most its quotient.
LEMMA QuotientLeast ==
  ASSUME NEW a \in Nat, NEW n \in Nat \ {0}, NEW q \in Nat, n * q <= a
  PROVE  q <= a \div n
<1> DEFINE p == a \div n
           s == a % n
<1>1. p \in Nat /\ s \in Nat /\ a = n * p + s /\ s < n
  BY Quotient
<1> HIDE DEF p, s
<1>2. ASSUME p < q PROVE FALSE
  <2>1. n * q >= n * (p + 1)
    BY <1>1, <1>2
  <2> QED
    BY <2>1, <1>1
<1>3. q <= p
  BY <1>1, <1>2
<1> QED
  BY <1>3 DEF p

-----------------------------------------------------------------------------
(* The inductive invariant. *)

\* Whole frames have passed, and none of them was ticked twice.
FramesPassed ==
  /\ phaseSeconds < LogicalFrame
  /\ \E q \in Nat : host = LogicalFrame * q + phaseSeconds /\ ticks <= q

\* The limiter's deadline: intervals it rendered in, and what is left of the time
\* since, never more than all the time, and exactly that while ticks are steady.
DeadlineKept ==
  /\ ~limiter.initialized => limiter.age = 0 /\ limiter.elapsed = 0
  /\ limiter.initialized =>
       /\ limiter.rendered >= 1
       /\ Interval * (limiter.rendered - 1) + limiter.age <= limiter.elapsed
       /\ limiter.steady =>
            /\ Interval * (limiter.rendered - 1) + limiter.age = limiter.elapsed
            /\ limiter.age < Interval

IInv ==
  /\ TypeOK
  /\ TimeConserved
  /\ MillisecondsFollow
  /\ paced => FramesPassed
  /\ DeadlineKept

\* It gives the rounded statements the runs check.
LEMMA Rounds == IInv => ClocksAgree
<1> SUFFICES ASSUME IInv PROVE ClocksAgree
  OBVIOUS
<1> USE RuntimeTimingAssumption
<1>1. NoBurst
  <2> SUFFICES ASSUME paced PROVE phaseSeconds = host % LogicalFrame /\ ticks <= host \div LogicalFrame
    BY DEF NoBurst
  <2>1. phaseSeconds \in Nat /\ host \in Nat /\ ticks \in Nat
    BY DEF IInv, TypeOK
  <2>2. PICK q \in Nat : host = LogicalFrame * q + phaseSeconds /\ ticks <= q
    BY DEF IInv, FramesPassed
  <2>3. phaseSeconds < LogicalFrame
    BY DEF IInv, FramesPassed
  <2>4. q = host \div LogicalFrame /\ phaseSeconds = host % LogicalFrame
    BY <2>1, <2>2, <2>3, QuotientUnique
  <2> QED
    BY <2>2, <2>4
<1>2. RateKept
  <2> SUFFICES ASSUME limiter.initialized
               PROVE  /\ limiter.rendered <= limiter.elapsed \div Interval + 1
                      /\ limiter.steady => limiter.rendered = limiter.elapsed \div Interval + 1
    BY DEF RateKept
  <2>1. /\ limiter.rendered \in Nat /\ limiter.elapsed \in Nat /\ limiter.age \in Nat
        /\ limiter.rendered >= 1
        /\ Interval * (limiter.rendered - 1) + limiter.age <= limiter.elapsed
    BY DEF IInv, TypeOK, DeadlineKept
  <2> DEFINE q == limiter.rendered - 1
  <2>2. q \in Nat /\ Interval * q <= limiter.elapsed
    BY <2>1
  <2>3. q <= limiter.elapsed \div Interval
    BY <2>1, <2>2, QuotientLeast
  <2>4. limiter.elapsed \div Interval \in Nat
    BY <2>1, Quotient
  <2>5. ASSUME limiter.steady PROVE q = limiter.elapsed \div Interval
    <3>1. limiter.elapsed = Interval * q + limiter.age /\ limiter.age < Interval
      BY <2>5 DEF IInv, DeadlineKept
    <3> QED
      BY <2>1, <2>2, <3>1, QuotientUnique
  <2> QED
    BY <2>1, <2>3, <2>4, <2>5
<1> QED
  BY <1>1, <1>2 DEF IInv, ClocksAgree

-----------------------------------------------------------------------------
(* The clocks. *)

\* The quantizer gives whole milliseconds and keeps at most half of one.
LEMMA Quantizes ==
  ASSUME NEW d \in Nat, MillisecondsFollow, remainder \in Int
  PROVE  /\ Quantized(d) \in Nat /\ Remaining(d) \in Int
         /\ Quantized(d) * Milli + Remaining(d) = d + remainder
         /\ 2 * Remaining(d) \in -Milli..Milli
<1> USE RuntimeTimingAssumption
<1> DEFINE a == 2 * (d + remainder) + Milli
           n == 2 * Milli
           k == a \div n
           r == a % n
<1>1. 2 * remainder >= -Milli
  BY DEF MillisecondsFollow
<1>2. a \in Nat /\ n \in Nat \ {0}
  BY <1>1
<1>3. k \in Nat /\ r \in Nat /\ a = n * k + r /\ r < n
  BY <1>2, Quotient
<1>4. Quantized(d) = k
  BY DEF Quantized, Rounded
<1> HIDE DEF k, r
<1>5. Remaining(d) = d + remainder - k * Milli
  BY <1>4 DEF Remaining
<1>6. k * Milli \in Int /\ n * k = 2 * (k * Milli)
  BY <1>3
<1> DEFINE m == k * Milli
<1> HIDE DEF m
<1>7. m \in Int /\ 2 * (d + remainder) + Milli = 2 * m + r
  BY <1>3, <1>6 DEF m
<1>8. Remaining(d) = d + remainder - m
  BY <1>5 DEF m
<1>9. 2 * Remaining(d) \in -Milli..Milli /\ Remaining(d) \in Int
  BY <1>3, <1>7, <1>8
<1>10. Quantized(d) * Milli + Remaining(d) = d + remainder
  BY <1>4, <1>7, <1>8 DEF m
<1> QED
  BY <1>3, <1>4, <1>9, <1>10

\* A fade keeps volumes and the players in play.
LEMMA FadeTyped ==
  ASSUME TypeOK, NEW d \in Nat, Fade(d)
  PROVE  /\ loads' \in 0..MaxLoads
         /\ bgm' \in [player : Players \cup {NoPlayer}, name : Tracks \cup {NoName}]
         /\ fadeIn' \in Fades /\ fadeOut' \in Fades
         /\ volume' \in [Players -> Nat] /\ playing' \subseteq Players
<1> USE RuntimeTimingAssumption
<1> DEFINE stepped(f) == Towards(volume[f.player], f.target, d)
<1>1. ASSUME NEW v \in Nat, NEW t \in Nat PROVE Towards(v, t, d) \in Nat
  BY DEF Towards
<1>2. ASSUME NEW f \in Fades, f.player \in Players PROVE stepped(f) \in Nat
  BY <1>1, <1>2 DEF TypeOK, Fades
<1>3. volume' \in [Players -> Nat]
  <2>1. fadeIn \in Fades /\ fadeOut \in Fades /\ volume \in [Players -> Nat]
    BY DEF TypeOK
  <2>2. \A p \in Players :
          (IF p = fadeIn.player THEN stepped(fadeIn)
           ELSE IF p = fadeOut.player THEN stepped(fadeOut)
           ELSE volume[p]) \in Nat
    BY <1>2, <2>1
  <2> QED
    BY <2>2 DEF Fade
<1>4. fadeIn' \in Fades /\ fadeOut' \in Fades
  BY DEF Fade, TypeOK, Fades, NoFade, NoPlayer
<1>5. playing' \subseteq Players
  BY DEF Fade, TypeOK
<1> QED
  BY <1>3, <1>4, <1>5 DEF Fade, TypeOK

\* What a tick of the runtime gives is counted to the last unit.
LEMMA RuntimeTickTyped ==
  ASSUME TypeOK, MillisecondsFollow, NEW d \in Nat, RuntimeTick(d)
  PROVE  /\ given' \in Nat /\ given' = given + d
         /\ millis' \in Nat /\ remainder' \in Int
         /\ MillisecondsFollow'
<1> USE RuntimeTimingAssumption
<1>1. remainder \in Int /\ given \in Nat /\ millis \in Nat
  BY DEF TypeOK
<1>2. /\ Quantized(d) \in Nat /\ Remaining(d) \in Int
      /\ Quantized(d) * Milli + Remaining(d) = d + remainder
      /\ 2 * Remaining(d) \in -Milli..Milli
  BY <1>1, Quantizes
<1>3. given' = given + d /\ millis' = millis + Quantized(d) /\ remainder' = Remaining(d)
  BY DEF RuntimeTick
<1>4. (millis + Quantized(d)) * Milli = millis * Milli + Quantized(d) * Milli
  BY <1>1, <1>2
<1>5. millis * Milli \in Int /\ Quantized(d) * Milli \in Int
  BY <1>1, <1>2
<1>6. millis * Milli + remainder = given
  BY DEF MillisecondsFollow
<1>7. millis' * Milli + remainder' = given'
  BY <1>1, <1>2, <1>3, <1>4, <1>5, <1>6
<1> QED
  BY <1>1, <1>2, <1>3, <1>7 DEF MillisecondsFollow

\* A frame that is not completed waits with its time.
LEMMA FrameWaits ==
  ASSUME TypeOK, FramesPassed, NEW d \in Nat, Completed(d) = 0,
         phaseSeconds' = phaseSeconds + d, host' = host + d, ticks' = ticks
  PROVE  phaseSeconds' \in Nat /\ FramesPassed'
<1> USE RuntimeTimingAssumption
<1>1. phaseSeconds \in Nat /\ host \in Nat /\ ticks \in Nat
  BY DEF TypeOK
<1>2. PICK q \in Nat : host = LogicalFrame * q + phaseSeconds /\ ticks <= q
  BY DEF FramesPassed
<1>3. phaseSeconds + d \in Nat
  BY <1>1
<1>4. (phaseSeconds + d) % LogicalFrame < LogicalFrame /\ phaseSeconds + d = LogicalFrame * 0 + ((phaseSeconds + d) % LogicalFrame)
  BY <1>3, Quotient DEF Completed
<1>5. (phaseSeconds + d) % LogicalFrame \in Nat
  BY <1>3, Quotient
<1>6. phaseSeconds' < LogicalFrame
  BY <1>3, <1>4, <1>5
<1>7. host' = LogicalFrame * q + phaseSeconds' /\ ticks' <= q
  BY <1>1, <1>2
<1> QED
  BY <1>3, <1>6, <1>7 DEF FramesPassed

\* All the frames completed at once are one tick.
LEMMA FramesTicked ==
  ASSUME TypeOK, FramesPassed, NEW d \in Nat, Completed(d) # 0,
         phaseSeconds' = PhaseAfter(d), host' = host + d, ticks' = ticks + 1
  PROVE  phaseSeconds' \in Nat /\ FramesPassed'
<1> USE RuntimeTimingAssumption
<1>1. phaseSeconds \in Nat /\ host \in Nat /\ ticks \in Nat /\ phaseSeconds + d \in Nat
  BY DEF TypeOK
<1>2. PICK q \in Nat : host = LogicalFrame * q + phaseSeconds /\ ticks <= q
  BY DEF FramesPassed
<1> DEFINE c == Completed(d)
           r == (phaseSeconds + d) % LogicalFrame
<1>3. c \in Nat /\ r \in Nat /\ phaseSeconds + d = LogicalFrame * c + r /\ r < LogicalFrame
  BY <1>1, Quotient DEF Completed
<1>4. c # 0
  OBVIOUS
<1>5. phaseSeconds' = phaseSeconds + d - c * LogicalFrame
  BY DEF PhaseAfter
<1> HIDE DEF c, r
<1>6. phaseSeconds' = r
  BY <1>1, <1>3, <1>5
<1>7. host' = LogicalFrame * (q + c) + r
  BY <1>1, <1>2, <1>3
<1>8. q + c \in Nat /\ ticks' <= q + c
  BY <1>1, <1>2, <1>3, <1>4
<1> QED
  BY <1>3, <1>6, <1>7, <1>8 DEF FramesPassed

\* The limiter's next deadline is an interval after this one, or the present.
LEMMA LimiterKeeps ==
  ASSUME TypeOK, DeadlineKept, NEW t \in Nat \ {0}, limiter' = Limited(limiter, t)
  PROVE  /\ limiter' \in [limit : BOOLEAN, initialized : BOOLEAN, age : Nat,
                          elapsed : Nat, rendered : Nat, steady : BOOLEAN]
         /\ DeadlineKept'
<1> USE RuntimeTimingAssumption
<1> DEFINE Limiters == [limit : BOOLEAN, initialized : BOOLEAN, age : Nat,
                        elapsed : Nat, rendered : Nat, steady : BOOLEAN]
<1>1. limiter \in Limiters
  BY DEF TypeOK
<1>2. CASE ~limiter.limit
  <2>1. limiter' = limiter
    BY <1>2 DEF Limited
  <2> QED
    BY <1>1, <2>1 DEF DeadlineKept
<1>3. CASE limiter.limit /\ ~limiter.initialized
  <2>1. limiter' = [limiter EXCEPT !.initialized = TRUE, !.rendered = 1]
    BY <1>3 DEF Limited
  <2>2. limiter' = [limit |-> limiter.limit, initialized |-> TRUE, age |-> limiter.age,
                    elapsed |-> limiter.elapsed, rendered |-> 1,
                    steady |-> limiter.steady]
    BY <1>1, <2>1
  <2>3. limiter' \in Limiters
    BY <1>1, <2>2
  <2>4. limiter.age = 0 /\ limiter.elapsed = 0
    BY <1>3 DEF DeadlineKept
  <2>5. DeadlineKept'
    BY <2>2, <2>4 DEF DeadlineKept
  <2> QED
    BY <2>3, <2>5
<1>4. CASE limiter.limit /\ limiter.initialized
  <2> DEFINE age == limiter.age + t
             due == age >= Interval
  <2>1. limiter' = [limiter EXCEPT !.age = IF due THEN AgeAfter(age - Interval) ELSE age,
                                   !.rendered = IF due THEN @ + 1 ELSE @,
                                   !.elapsed = @ + t,
                                   !.steady = @ /\ t <= Interval]
    BY <1>4 DEF Limited
  <2>2. /\ limiter.age \in Nat /\ limiter.elapsed \in Nat /\ limiter.rendered \in Nat
        /\ limiter.rendered >= 1
        /\ Interval * (limiter.rendered - 1) + limiter.age <= limiter.elapsed
        /\ limiter.steady =>
             /\ Interval * (limiter.rendered - 1) + limiter.age = limiter.elapsed
             /\ limiter.age < Interval
    BY <1>1, <1>4 DEF DeadlineKept
  <2>3. /\ limiter'.age = (IF due THEN AgeAfter(age - Interval) ELSE age)
        /\ limiter'.rendered = (IF due THEN limiter.rendered + 1 ELSE limiter.rendered)
        /\ limiter'.elapsed = limiter.elapsed + t
        /\ limiter'.steady = (limiter.steady /\ t <= Interval)
        /\ limiter'.limit = limiter.limit /\ limiter'.initialized = limiter.initialized
    BY <1>1, <2>1
  <2>4. limiter'.age \in Nat
    BY <2>2, <2>3 DEF AgeAfter
  <2>5. limiter' \in Limiters
    <3>1. limiter' = [limit |-> limiter.limit, initialized |-> limiter.initialized,
                      age |-> limiter'.age, elapsed |-> limiter'.elapsed,
                      rendered |-> limiter'.rendered, steady |-> limiter'.steady]
      BY <1>1, <2>1
    <3>2. limiter'.elapsed \in Nat /\ limiter'.rendered \in Nat
      BY <2>2, <2>3
    <3>3. limiter'.steady \in BOOLEAN
      BY <1>1, <2>3, Zenon
    <3>4. limiter.limit \in BOOLEAN /\ limiter.initialized \in BOOLEAN
      BY <1>1
    <3> QED
      BY <2>4, <3>1, <3>2, <3>3, <3>4
  <2>6. CASE ~due
    BY <1>4, <2>2, <2>3, <2>5, <2>6 DEF DeadlineKept
  <2>7. CASE due
    <3>0. limiter'.initialized /\ limiter'.rendered >= 1
      <4>1. limiter'.rendered >= 1
        BY <2>2, <2>3, <2>7
      <4> QED
        BY <1>4, <2>3, <4>1, Zenon
    <3>1. /\ limiter'.rendered = limiter.rendered + 1
          /\ Interval * (limiter'.rendered - 1) = Interval * (limiter.rendered - 1) + Interval
      BY <2>2, <2>3, <2>7
    <3>2. CASE age - Interval > Interval
      <4>1. limiter'.age = 0
        BY <2>3, <2>7, <3>2 DEF AgeAfter
      <4>2. ~limiter'.steady
        <5>1. limiter.steady => limiter.age < Interval
          BY <2>2
        <5>2. t <= Interval => limiter.age > Interval
          BY <2>2, <3>2
        <5>3. limiter.age < Interval => ~(limiter.age > Interval)
          BY <2>2
        <5> QED
          BY <2>3, <5>1, <5>2, <5>3, Zenon
      <4>3. Interval * (limiter'.rendered - 1) + limiter'.age <= limiter'.elapsed
        <5>1. Interval * (limiter.rendered - 1) \in Int
          BY <2>2
        <5> QED
          BY <2>2, <2>3, <3>1, <3>2, <4>1, <5>1
      <4> QED
        BY <2>5, <3>0, <4>2, <4>3, Zenon DEF DeadlineKept
    <3>3. CASE ~(age - Interval > Interval)
      <4>1. limiter'.age = age - Interval
        BY <2>3, <2>7, <3>3 DEF AgeAfter
      <4>2. Interval * (limiter'.rendered - 1) + limiter'.age
              = Interval * (limiter.rendered - 1) + limiter.age + t
        BY <2>2, <3>1, <4>1
      <4>3. ASSUME limiter'.steady
            PROVE  /\ Interval * (limiter'.rendered - 1) + limiter'.age = limiter'.elapsed
                   /\ limiter'.age < Interval
        <5>1. limiter.steady /\ t <= Interval
          BY <2>3, <4>3, Zenon
        <5> QED
          BY <2>2, <2>3, <4>1, <4>2, <5>1
      <4>4. Interval * (limiter'.rendered - 1) + limiter'.age <= limiter'.elapsed
        <5>1. Interval * (limiter.rendered - 1) \in Int
          BY <2>2
        <5> QED
          BY <2>2, <2>3, <4>2, <5>1
      <4> QED
        BY <2>5, <3>0, <4>3, <4>4, Zenon DEF DeadlineKept
    <3> QED
      BY <3>2, <3>3
  <2> QED
    BY <2>6, <2>7
<1> QED
  BY <1>2, <1>3, <1>4

-----------------------------------------------------------------------------
(* The steps. *)

\* Clocks at zero satisfy the invariant.
LEMMA Initial == TimingInit => IInv
<1> SUFFICES ASSUME TimingInit PROVE IInv
  OBVIOUS
<1> USE RuntimeTimingAssumption
<1>1. TypeOK
  BY DEF TimingInit, TypeOK, Unlimited, NoFade, Fades, NoPlayer
<1>2. TimeConserved
  BY DEF TimingInit, TimeConserved
<1>3. MillisecondsFollow
  BY DEF TimingInit, MillisecondsFollow
<1>4. FramesPassed
  BY DEF TimingInit, FramesPassed
<1>5. DeadlineKept
  BY DEF TimingInit, DeadlineKept, Unlimited
<1> QED
  BY <1>1, <1>2, <1>3, <1>4, <1>5 DEF IInv

\* The clocks' part of the invariant speaks only of the clock and the limiter.
LEMMA ClocksQuiet ==
  ASSUME IInv, UNCHANGED <<paced, clock, limiter>>
  PROVE  /\ TimeConserved' /\ MillisecondsFollow' /\ (paced => FramesPassed)'
         /\ DeadlineKept'
  BY DEF IInv, clock, TimeConserved, MillisecondsFollow, FramesPassed, DeadlineKept

\* A tick without a frame limit keeps the clocks in agreement.
LEMMA TickUnpacedStep ==
  ASSUME IInv, TickUnpaced
  PROVE  IInv'
<1> USE RuntimeTimingAssumption
<1>1. TypeOK /\ TimeConserved /\ MillisecondsFollow /\ DeadlineKept
  BY DEF IInv
<1>2. ~paced /\ UNCHANGED <<paced, phaseSeconds, pendingSeconds, ticks>>
  BY DEF TickUnpaced
<1>3. PICK d \in Deltas : host' = host + d /\ RuntimeTick(d)
  BY DEF TickUnpaced
<1>4. PICK t \in Deltas : limiter' = Limited(limiter, t)
  BY DEF TickUnpaced
<1>5. d \in Nat /\ t \in Nat \ {0}
  OBVIOUS
<1>6. /\ given' \in Nat /\ given' = given + d
      /\ millis' \in Nat /\ remainder' \in Int
      /\ MillisecondsFollow'
  BY <1>1, <1>3, <1>5, RuntimeTickTyped
<1>7. /\ loads' \in 0..MaxLoads
      /\ bgm' \in [player : Players \cup {NoPlayer}, name : Tracks \cup {NoName}]
      /\ fadeIn' \in Fades /\ fadeOut' \in Fades
      /\ volume' \in [Players -> Nat] /\ playing' \subseteq Players
  BY <1>1, <1>3, <1>5, FadeTyped DEF RuntimeTick
<1>8. /\ limiter' \in [limit : BOOLEAN, initialized : BOOLEAN, age : Nat,
                       elapsed : Nat, rendered : Nat, steady : BOOLEAN]
      /\ DeadlineKept'
  BY <1>1, <1>4, <1>5, LimiterKeeps
<1>9. TypeOK'
  BY <1>1, <1>2, <1>3, <1>5, <1>6, <1>7, <1>8 DEF TypeOK
<1>10. TimeConserved'
  BY <1>1, <1>2, <1>3, <1>5, <1>6 DEF TypeOK, TimeConserved
<1> QED
  BY <1>2, <1>6, <1>8, <1>9, <1>10 DEF IInv

\* A tick under a frame limit keeps them in agreement, whether it is let through or held back.
LEMMA TickPacedStep ==
  ASSUME IInv, TickPaced
  PROVE  IInv'
<1> USE RuntimeTimingAssumption
<1>1. TypeOK /\ TimeConserved /\ MillisecondsFollow /\ DeadlineKept /\ FramesPassed
  BY DEF IInv, TickPaced
<1>2. paced /\ UNCHANGED <<paced, limiter>>
  BY DEF TickPaced
<1>3. DeadlineKept'
  BY <1>1, <1>2 DEF DeadlineKept
<1>4. PICK d \in Deltas :
        /\ host' = host + d
        /\ IF Completed(d) = 0
           THEN /\ phaseSeconds' = phaseSeconds + d /\ pendingSeconds' = PendingAfter(d)
                /\ UNCHANGED <<given, millis, remainder, ticks, music>>
           ELSE /\ phaseSeconds' = PhaseAfter(d) /\ pendingSeconds' = 0 /\ ticks' = ticks + 1
                /\ RuntimeTick(PendingAfter(d))
  BY DEF TickPaced
<1>5. /\ d \in Nat /\ phaseSeconds \in Nat /\ pendingSeconds \in Nat /\ host \in Nat
      /\ given \in Nat /\ ticks \in Nat
  BY <1>1 DEF TypeOK
<1>6. PendingAfter(d) = pendingSeconds + d /\ PendingAfter(d) \in Nat
  BY <1>5 DEF PendingAfter
<1>7. CASE Completed(d) = 0
  <2>1. /\ phaseSeconds' = phaseSeconds + d /\ pendingSeconds' = pendingSeconds + d
        /\ UNCHANGED <<given, millis, remainder, ticks, music>>
    BY <1>4, <1>6, <1>7
  <2>2. phaseSeconds' \in Nat /\ FramesPassed'
    BY <1>1, <1>4, <1>5, <1>7, <2>1, FrameWaits
  <2>3. TimeConserved'
    BY <1>1, <1>4, <1>5, <2>1 DEF TimeConserved
  <2>4. MillisecondsFollow'
    BY <1>1, <2>1 DEF MillisecondsFollow
  <2>5. TypeOK'
    BY <1>1, <1>2, <1>4, <1>5, <2>1, <2>2 DEF TypeOK, music
  <2> QED
    BY <1>3, <2>2, <2>3, <2>4, <2>5 DEF IInv
<1>8. CASE Completed(d) # 0
  <2>1. /\ phaseSeconds' = PhaseAfter(d) /\ pendingSeconds' = 0 /\ ticks' = ticks + 1
        /\ RuntimeTick(PendingAfter(d))
    BY <1>4, <1>8
  <2>2. phaseSeconds' \in Nat /\ FramesPassed'
    BY <1>1, <1>4, <1>5, <1>8, <2>1, FramesTicked
  <2>3. /\ given' \in Nat /\ given' = given + PendingAfter(d)
        /\ millis' \in Nat /\ remainder' \in Int
        /\ MillisecondsFollow'
    BY <1>1, <1>6, <2>1, RuntimeTickTyped
  <2>4. /\ loads' \in 0..MaxLoads
        /\ bgm' \in [player : Players \cup {NoPlayer}, name : Tracks \cup {NoName}]
        /\ fadeIn' \in Fades /\ fadeOut' \in Fades
        /\ volume' \in [Players -> Nat] /\ playing' \subseteq Players
    BY <1>1, <1>6, <2>1, FadeTyped DEF RuntimeTick
  <2>5. TimeConserved'
    BY <1>1, <1>4, <1>5, <1>6, <2>1, <2>3 DEF TimeConserved
  <2>6. TypeOK'
    BY <1>1, <1>2, <1>4, <1>5, <2>1, <2>2, <2>3, <2>4 DEF TypeOK
  <2> QED
    BY <1>3, <2>2, <2>3, <2>5, <2>6 DEF IInv
<1> QED
  BY <1>7, <1>8

\* The other operations begin the clocks or the limiter anew, or only play music.
LEMMA OtherStep ==
  ASSUME IInv, SetFpsLimit \/ Reset \/ SameTrack \/ StopMusic \/ NewTrack \/ LoadFails
  PROVE  IInv'
<1> USE RuntimeTimingAssumption
<1>1. TypeOK
  BY DEF IInv
<1>2. CASE SetFpsLimit
  <2>1. limiter' = Unlimited \/ limiter' = [Unlimited EXCEPT !.limit = TRUE]
    BY <1>2 DEF SetFpsLimit
  <2>2. DeadlineKept'
    BY <2>1 DEF DeadlineKept, Unlimited
  <2>3. limiter' \in [limit : BOOLEAN, initialized : BOOLEAN, age : Nat,
                       elapsed : Nat, rendered : Nat, steady : BOOLEAN]
    <3>1. PICK l \in BOOLEAN :
            limiter' = [limit |-> l, initialized |-> FALSE, age |-> 0,
                        elapsed |-> 0, rendered |-> 0, steady |-> TRUE]
      BY <2>1 DEF Unlimited
    <3> QED
      BY <3>1
  <2>4. UNCHANGED <<paced, clock, music>>
    BY <1>2 DEF SetFpsLimit
  <2>5. TypeOK'
    BY <1>1, <2>3, <2>4 DEF TypeOK, clock, music
  <2> QED
    BY <2>2, <2>4, <2>5
    DEF IInv, clock, TimeConserved, MillisecondsFollow, FramesPassed
<1>3. CASE Reset
  <2>1. /\ phaseSeconds' = 0 /\ pendingSeconds' = 0 /\ remainder' = 0
        /\ host' = 0 /\ given' = 0 /\ millis' = 0 /\ ticks' = 0
        /\ UNCHANGED <<paced, limiter, music>>
    BY <1>3 DEF Reset
  <2>2. FramesPassed'
    BY <2>1 DEF FramesPassed
  <2>3. TimeConserved' /\ MillisecondsFollow'
    BY <2>1 DEF TimeConserved, MillisecondsFollow
  <2>4. TypeOK'
    BY <1>1, <2>1 DEF TypeOK, music
  <2> QED
    BY <2>1, <2>2, <2>3, <2>4 DEF IInv, DeadlineKept
<1>4. CASE SameTrack
  <2>1. UNCHANGED <<paced, clock, limiter, loads, bgm, fadeOut, playing>>
    BY <1>4 DEF SameTrack
  <2>2. PICK target \in Volumes, faded \in BOOLEAN :
          IF ~faded \/ volume[bgm.player] = target
          THEN /\ volume' = [volume EXCEPT ![bgm.player] = target]
               /\ fadeIn' = NoFade
          ELSE /\ fadeIn' = [player |-> bgm.player, target |-> target]
               /\ UNCHANGED volume
    BY <1>4 DEF SameTrack
  <2>3. target \in Nat
    OBVIOUS
  <2>4. volume' \in [Players -> Nat] /\ fadeIn' \in Fades
    BY <1>1, <2>2, <2>3 DEF TypeOK, Fades, NoFade
  <2>5. TypeOK'
    BY <1>1, <2>1, <2>4 DEF TypeOK, clock
  <2> QED
    BY <2>1, <2>5, ClocksQuiet DEF IInv
<1>5. CASE StopMusic
  <2>1. UNCHANGED <<paced, clock, limiter, loads, volume>>
    BY <1>5 DEF StopMusic
  <2>2. /\ fadeIn' \in Fades /\ fadeOut' \in Fades /\ playing' \subseteq Players
        /\ bgm' = [player |-> NoPlayer, name |-> NoName]
    BY <1>1, <1>5 DEF StopMusic, TypeOK, Fades, NoFade, FadeInLeft, FadedOut
  <2>3. TypeOK'
    BY <1>1, <2>1, <2>2 DEF TypeOK, clock
  <2> QED
    BY <2>1, <2>3, ClocksQuiet DEF IInv
<1>6. CASE NewTrack
  <2>1. UNCHANGED <<paced, clock, limiter>> /\ loads' = loads + 1 /\ loads < MaxLoads
    BY <1>6 DEF NewTrack
  <2>2. loads' \in 0..MaxLoads /\ loads' \in Players
    BY <1>1, <2>1 DEF TypeOK, Players
  <2>3. PICK name \in Tracks \ {bgm.name}, target \in Volumes, out \in BOOLEAN, in \in BOOLEAN :
          /\ bgm' = [player |-> loads', name |-> name]
          /\ volume' = [volume EXCEPT ![loads'] = IF in THEN 0 ELSE target]
          /\ fadeIn' = IF in /\ target # 0 THEN [player |-> loads', target |-> target]
                       ELSE FadeInLeft
          /\ fadeOut' = FadedOut(out)
          /\ playing' = (playing \ Silenced(out)) \cup {loads'}
    BY <1>6 DEF NewTrack
  <2>4. target \in Nat
    OBVIOUS
  <2>5. /\ bgm' \in [player : Players \cup {NoPlayer}, name : Tracks \cup {NoName}]
        /\ volume' \in [Players -> Nat] /\ playing' \subseteq Players
    BY <1>1, <2>2, <2>3, <2>4 DEF TypeOK
  <2>6. fadeIn' \in Fades /\ fadeOut' \in Fades
    BY <1>1, <2>2, <2>3, <2>4 DEF TypeOK, Fades, NoFade, FadeInLeft, FadedOut
  <2>7. TypeOK'
    BY <1>1, <2>1, <2>2, <2>5, <2>6 DEF TypeOK, clock
  <2> QED
    BY <2>1, <2>7, ClocksQuiet DEF IInv
<1>7. CASE LoadFails
  <2>1. /\ UNCHANGED <<paced, clock, limiter, volume>>
        /\ loads' = loads + 1 /\ loads < MaxLoads
        /\ bgm' = [player |-> loads', name |-> NoName]
    BY <1>7 DEF LoadFails
  <2>2. loads' \in 0..MaxLoads /\ loads' \in Players
    BY <1>1, <2>1 DEF TypeOK, Players
  <2>3. fadeIn' \in Fades /\ fadeOut' \in Fades /\ playing' \subseteq Players
    BY <1>1, <1>7 DEF LoadFails, TypeOK, Fades, NoFade, FadeInLeft, FadedOut
  <2>4. TypeOK'
    BY <1>1, <2>1, <2>2, <2>3 DEF TypeOK, clock
  <2> QED
    BY <2>1, <2>4, ClocksQuiet DEF IInv
<1> QED
  BY <1>2, <1>3, <1>4, <1>5, <1>6, <1>7

\* Every step of the program keeps the clocks together.
LEMMA Step == IInv /\ [TimingNext]_timingVars => IInv'
<1> SUFFICES ASSUME IInv, [TimingNext]_timingVars PROVE IInv'
  OBVIOUS
<1>1. CASE TickUnpaced
  BY <1>1, TickUnpacedStep
<1>2. CASE TickPaced
  BY <1>2, TickPacedStep
<1>3. CASE SetFpsLimit \/ Reset \/ SameTrack \/ StopMusic \/ NewTrack \/ LoadFails
  BY <1>3, OtherStep
<1>4. CASE UNCHANGED timingVars
  <2>1. TypeOK'
    BY <1>4 DEF IInv, TypeOK, timingVars, clock, music
  <2> QED
    BY <1>4, <2>1, ClocksQuiet DEF IInv, timingVars
<1> QED
  BY <1>1, <1>2, <1>3, <1>4 DEF TimingNext

-----------------------------------------------------------------------------
(* The theorems. *)

\* The invariant holds in every reachable state.
THEOREM Inductive == TimingSpec => []IInv
<1>1. TimingInit => IInv
  BY Initial
<1>2. IInv /\ [TimingNext]_timingVars => IInv'
  BY Step
<1> QED
  BY <1>1, <1>2, PTL DEF TimingSpec

\* Every reachable state of the clocks, the limiter and the fades is well typed.
THEOREM TypeCorrect == TimingSpec => []TypeOK
<1>1. IInv => TypeOK
  BY DEF IInv
<1> QED
  BY <1>1, Inductive, PTL

\* The runtime's clocks agree with the host's, for every unit of time, every frame
\* length and rate, and every sequence of deltas, limits and resets.
THEOREM ClocksAgreeAlways == TimingSpec => []ClocksAgree
<1>1. IInv => ClocksAgree
  BY Rounds
<1> QED
  BY <1>1, Inductive, PTL

-----------------------------------------------------------------------------
(* The music. *)

\* A player is numbered when it is loaded, so a new one is another.
MusicInv == TypeOK /\ MusicInHand /\ bgm.player <= loads

\* What a change of the track leaves playing fades out.
LEMMA TrackLeft ==
  ASSUME MusicInv, NEW faded \in BOOLEAN
  PROVE  /\ playing \ Silenced(faded) \subseteq {FadedOut(faded).player}
         /\ FadedOut(faded).player \in {NoPlayer, bgm.player}
         /\ FadeInLeft.player = NoPlayer
<1>1. /\ playing \subseteq {bgm.player, fadeOut.player}
      /\ fadeIn.player \in {NoPlayer, bgm.player}
  BY DEF MusicInv, MusicInHand
<1>2. FadeInLeft.player = NoPlayer
  BY <1>1 DEF FadeInLeft, NoFade
<1>3. CASE FadesOut(faded)
  BY <1>1, <1>2, <1>3 DEF FadedOut, Silenced, OldFadeStops
<1>4. CASE ~FadesOut(faded)
  BY <1>1, <1>2, <1>4 DEF FadedOut, Silenced, OldFadeStops, NoFade
<1> QED
  BY <1>3, <1>4

\* With nothing loaded no music is out of hand.
LEMMA MusicInitial == TimingInit => MusicInv
<1> SUFFICES ASSUME TimingInit PROVE MusicInv
  OBVIOUS
<1>1. TypeOK
  BY Initial DEF IInv
<1> QED
  BY <1>1 DEF TimingInit, MusicInv, MusicInHand, NoFade, NoPlayer

\* Loading, playing, fading, stopping and the passage of a fade keep music in hand.
LEMMA MusicStep ==
  ASSUME MusicInv, [TimingNext]_timingVars, TypeOK'
  PROVE  MusicInv'
<1> USE RuntimeTimingAssumption
<1>1. /\ playing \subseteq {bgm.player, fadeOut.player}
      /\ fadeIn.player \in {NoPlayer, bgm.player}
      /\ fadeOut.player # NoPlayer => fadeOut.player # bgm.player
      /\ bgm.player <= loads
  BY DEF MusicInv, MusicInHand
<1>2. loads \in Nat /\ bgm.player \in Nat /\ TypeOK
  <2>1. TypeOK
    BY DEF MusicInv
  <2>2. bgm.player \in Players \cup {NoPlayer} /\ loads \in 0..MaxLoads
    BY <2>1 DEF TypeOK
  <2> QED
    BY <2>1, <2>2 DEF Players, NoPlayer
<1>3. CASE UNCHANGED music
  BY <1>1, <1>3 DEF MusicInv, MusicInHand, music
<1>4. CASE TickUnpaced \/ TickPaced
  <2>1. CASE UNCHANGED music
    BY <2>1, <1>3
  <2>2. CASE \E d \in Nat : Fade(d)
    <3>1. PICK d \in Nat : Fade(d)
      BY <2>2
    <3>2. /\ UNCHANGED <<loads, bgm>>
          /\ fadeIn' = fadeIn \/ fadeIn' = NoFade
      BY <3>1 DEF Fade
    <3>3. \/ fadeOut' = fadeOut /\ playing' = playing
          \/ fadeOut' = NoFade /\ playing' = playing \ {fadeOut.player}
      BY <3>1 DEF Fade
    <3> QED
      BY <1>1, <3>2, <3>3 DEF MusicInv, MusicInHand, NoFade
  <2>3. ASSUME ~(UNCHANGED music) PROVE \E d \in Nat : Fade(d)
    <3>1. CASE TickUnpaced
      BY <3>1 DEF TickUnpaced, RuntimeTick
    <3>2. CASE TickPaced
      <4>1. pendingSeconds \in Nat
        BY <1>2 DEF TypeOK
      <4>2. PICK d \in Deltas : RuntimeTick(PendingAfter(d))
        BY <2>3, <3>2 DEF TickPaced
      <4>3. PendingAfter(d) \in Nat
        BY <4>1 DEF PendingAfter
      <4> QED
        BY <4>2, <4>3 DEF RuntimeTick
    <3> QED
      BY <1>4, <3>1, <3>2
  <2> QED
    BY <2>1, <2>2, <2>3
<1>5. CASE SameTrack
  <2>1. UNCHANGED <<loads, bgm, fadeOut, playing>> /\ fadeIn'.player \in {NoPlayer, bgm.player}
    BY <1>5 DEF SameTrack, NoFade
  <2> QED
    BY <1>1, <2>1 DEF MusicInv, MusicInHand
<1>6. CASE StopMusic
  <2>1. PICK faded \in BOOLEAN :
          fadeOut' = FadedOut(faded) /\ playing' = playing \ Silenced(faded)
    BY <1>6 DEF StopMusic
  <2>2. fadeIn' = FadeInLeft /\ bgm'.player = NoPlayer /\ loads' = loads
    BY <1>6 DEF StopMusic
  <2>3. MusicInHand'
    BY <2>1, <2>2, TrackLeft DEF MusicInHand
  <2> QED
    BY <1>2, <2>2, <2>3 DEF MusicInv, NoPlayer
<1>7. CASE NewTrack
  <2>1. PICK out \in BOOLEAN :
          fadeOut' = FadedOut(out) /\ playing' = (playing \ Silenced(out)) \cup {loads'}
    BY <1>7 DEF NewTrack
  <2>2. bgm'.player = loads' /\ loads' = loads + 1
    BY <1>7 DEF NewTrack
  <2>3. fadeIn'.player \in {NoPlayer, loads'}
    BY <1>7, TrackLeft DEF NewTrack
  <2>4. fadeOut'.player # loads'
    BY <1>1, <1>2, <2>1, <2>2, TrackLeft DEF NoPlayer
  <2>5. MusicInHand'
    BY <2>1, <2>2, <2>3, <2>4, TrackLeft DEF MusicInHand
  <2> QED
    BY <1>2, <2>2, <2>5 DEF MusicInv
<1>8. CASE LoadFails
  <2>1. PICK out \in BOOLEAN :
          fadeOut' = FadedOut(out) /\ playing' = playing \ Silenced(out)
    BY <1>8 DEF LoadFails
  <2>2. bgm'.player = loads' /\ loads' = loads + 1 /\ fadeIn' = FadeInLeft
    BY <1>8 DEF LoadFails
  <2>3. fadeOut'.player # loads'
    BY <1>1, <1>2, <2>1, <2>2, TrackLeft DEF NoPlayer
  <2>4. MusicInHand'
    BY <2>1, <2>2, <2>3, TrackLeft DEF MusicInHand
  <2> QED
    BY <1>2, <2>2, <2>4 DEF MusicInv
<1>9. CASE SetFpsLimit \/ Reset
  BY <1>3, <1>9 DEF SetFpsLimit, Reset
<1>10. CASE UNCHANGED timingVars
  BY <1>3, <1>10 DEF timingVars
<1> QED
  BY <1>4, <1>5, <1>6, <1>7, <1>8, <1>9, <1>10 DEF TimingNext

\* Music that plays can be stopped, and no fade works on a player that was freed,
\* for any number of loads, volumes and fades cut short.
THEOREM MusicStaysInHand == TimingSpec => []MusicInHand
<1>1. TimingInit => MusicInv
  BY MusicInitial
<1>2. MusicInv /\ TypeOK' /\ [TimingNext]_timingVars => MusicInv'
  BY MusicStep
<1>3. MusicInv => MusicInHand
  BY DEF MusicInv
<1> QED
  BY <1>1, <1>2, <1>3, TypeCorrect, PTL DEF TimingSpec

-----------------------------------------------------------------------------
(* RuntimePlayer: the inductive invariant. *)

Medias == [open : BOOLEAN, speed : {0, 1}, ended : BOOLEAN, broken : BOOLEAN,
           due : Nat, rgba : Nat, serial : Nat]
Textures == [picture : Nat, serial : Nat]
Movies == [active : BOOLEAN, skippable : BOOLEAN]
Videos == [open : BOOLEAN, polled : BOOLEAN, serial : Nat,
           status : {"idle", "ended", "paused", "playing"}, view : Nat,
           hidden : BOOLEAN, resume : BOOLEAN]
Effects == [enabled : BOOLEAN, bypass : BOOLEAN]

OptionTyped ==
  /\ effect \in Effects /\ native \in BOOLEAN /\ ready \in BOOLEAN
  /\ raw \in BOOLEAN /\ output \in {"raw", "surface"}
  /\ fails \in Nat /\ toggles \in Nat

PlayerTyped ==
  /\ handle \in BOOLEAN /\ engines \in Nat /\ game \in BOOLEAN /\ left \in SUBSET Kinds
  /\ posted \in Seq(Requests) /\ requests \in Nat
  /\ waiting \in [Kinds -> {0, 1}] /\ stray \in SUBSET Kinds
  /\ stage \in {"idle", "drain", "movie"}
  /\ media \in Medias /\ texture \in Textures /\ pictures \in Nat
  /\ movie \in Movies /\ video \in Videos /\ videos \in Nat
  /\ dialog \in BOOLEAN /\ shell \in Nat
  /\ OptionTyped

\* A request of kind k waits for its answer in the queue or with one who will give it, and
\* the runtime asks for nothing else of the kind meanwhile.
Once(k) ==
  /\ Outstanding(k) => waiting[k] = 1
  /\ \A i \in DOMAIN posted : KindOf(posted[i]) = k => waiting[k] = 1 /\ ~Outstanding(k)
  /\ \A i, j \in DOMAIN posted : KindOf(posted[i]) = k /\ KindOf(posted[j]) = k => i = j
  /\ k = "native" => shell \in {0, 1}

\* So it is with every kind of which nothing was open when the game was opened.
OnceEach == game => \A k \in Kinds \ left : Once(k)

\* A game runs in an engine, is ticked, and no video is open meanwhile.
GameAlone ==
  /\ game => handle
  /\ stage # "idle" => game
  /\ video.open => ~game

\* The texture is of the picture read last; the poll knows its serial.
VideoKept ==
  video.open /\ ~media.broken =>
    /\ video.view = media.rgba
    /\ video.polled => video.serial = media.serial
    /\ ~video.polled => media.rgba = NoPicture
    /\ texture.picture # NoPicture => texture.serial = media.serial

PlayerInv ==
  PlayerTyped /\ OnceEach /\ GameAlone /\ AnswersExpected /\ MovieHasMedia /\ BelievedRaw
  /\ VideoKept

\* What a media handle may become is one.
LEMMA MediaTyped ==
  /\ Closed \in Medias /\ Opened \in Medias
  /\ \A m \in Medias : /\ Play(m) \in Medias /\ Pause(m) \in Medias /\ Seek(m) \in Medias
                       /\ Ended(m) \in Medias /\ Broken(m) \in Medias
                       /\ UpdateFrame(m) \in Medias
                       /\ \A n \in Nat : Decoded(m, n) \in Medias
<1>1. Closed \in Medias
  BY DEF Medias, Closed, NoPicture
<1>2. Opened \in Medias
  BY <1>1 DEF Medias, Opened
<1> SUFFICES ASSUME NEW m \in Medias, NEW n \in Nat
             PROVE  /\ Play(m) \in Medias /\ Pause(m) \in Medias /\ Seek(m) \in Medias
                    /\ Ended(m) \in Medias /\ Broken(m) \in Medias
                    /\ UpdateFrame(m) \in Medias /\ Decoded(m, n) \in Medias
  BY <1>1, <1>2
<1>3. Play(m) \in Medias /\ Pause(m) \in Medias
  BY DEF Medias, Play, Pause
<1>4. Seek(m) \in Medias /\ Decoded(m, n) \in Medias
  BY DEF Medias, Seek, Decoded, NoPicture
<1>5. Ended(m) \in Medias /\ Broken(m) \in Medias
  BY DEF Medias, Ended, Broken
<1>6. UpdateFrame(m) \in Medias
  <2>1. CASE m.broken \/ m.due = NoPicture
    BY <2>1 DEF UpdateFrame
  <2>2. CASE ~(m.broken \/ m.due = NoPicture)
    <3>1. PICK x \in Nat, y \in Nat : x = m.due /\ y = m.serial + 1
      BY DEF Medias
    <3>2. UpdateFrame(m) = [m EXCEPT !.rgba = x, !.due = 0, !.serial = y]
      BY <2>2, <3>1 DEF UpdateFrame, NoPicture
    <3>3. [m EXCEPT !.rgba = x] \in Medias
      BY DEF Medias
    <3>4. [m EXCEPT !.rgba = x, !.due = 0] \in Medias
      BY <3>3 DEF Medias
    <3>5. [m EXCEPT !.rgba = x, !.due = 0, !.serial = y] \in Medias
      BY <3>4 DEF Medias
    <3> QED
      BY <3>2, <3>5
  <2> QED
    BY <2>1, <2>2
<1> QED
  BY <1>3, <1>4, <1>5, <1>6

\* So is the texture made of it.
LEMMA TextureTyped ==
  /\ NoTexture \in Textures
  /\ \A t \in Textures, m \in Medias : UpdateTexture(t, m) \in Textures
BY DEF Textures, NoTexture, Medias, UpdateTexture, NoPicture

\* A video that was just opened.
LEMMA VideoTyped == NoVideo \in Videos /\ [NoVideo EXCEPT !.open = TRUE] \in Videos
<1>1. NoVideo \in Videos
  BY DEF NoVideo, Videos, NoPicture
<1> QED
  BY <1>1 DEF Videos

\* Before the first engine the invariant holds.
LEMMA PlayerInitial == PlayerInit => PlayerInv
<1> SUFFICES ASSUME PlayerInit PROVE PlayerInv
  OBVIOUS
<1>1. PlayerTyped
  <2>1. movie \in Movies /\ effect \in Effects
    BY DEF PlayerInit, NoMovie, Movies, Effects
  <2>2. media \in Medias /\ texture \in Textures /\ video \in Videos
    BY MediaTyped, TextureTyped, VideoTyped DEF PlayerInit
  <2>3. waiting \in [Kinds -> {0, 1}] /\ posted \in Seq(Requests)
    BY DEF PlayerInit, NoneWaiting
  <2> QED
    BY <2>1, <2>2, <2>3 DEF PlayerInit, PlayerTyped, OptionTyped
<1>2. OnceEach
  BY DEF PlayerInit, OnceEach
<1>3. GameAlone /\ AnswersExpected /\ MovieHasMedia /\ BelievedRaw /\ VideoKept
  BY DEF PlayerInit, GameAlone, AnswersExpected, MovieHasMedia, BelievedRaw, VideoKept, NoVideo
<1> QED
  BY <1>1, <1>2, <1>3 DEF PlayerInv

\* Every request is of a kind.
LEMMA KindsOfRequests == \A r \in Requests : KindOf(r) \in Kinds
BY DEF Requests, Kinds, KindOf

\* The queue without its first request.
LEMMA HeadTaken ==
  ASSUME posted \in Seq(Requests), posted # <<>>, posted' = Tail(posted)
  PROVE  /\ posted' \in Seq(Requests) /\ Head(posted) \in Requests
         /\ 1 \in DOMAIN posted /\ Head(posted) = posted[1]
         /\ \A i \in DOMAIN posted' : /\ i \in Nat /\ i + 1 \in DOMAIN posted /\ i + 1 # 1
                                      /\ posted'[i] = posted[i + 1]
<1>1. posted' \in Seq(Requests) /\ DOMAIN posted' = 1..(Len(posted) - 1) /\ Len(posted) \in Nat
  OBVIOUS
<1> QED
  BY <1>1

\* The queue with one request more.
LEMMA RequestAdded ==
  ASSUME posted \in Seq(Requests), NEW r \in Requests, posted' = Append(posted, r)
  PROVE  /\ posted' \in Seq(Requests)
         /\ \A i \in DOMAIN posted' : \/ i = Len(posted) + 1 /\ posted'[i] = r
                                      \/ i \in DOMAIN posted /\ posted'[i] = posted[i]
OBVIOUS

\* An answer to a request that is waited for, or of a kind that was left, is expected.
LEMMA AnswerGiven ==
  ASSUME PlayerTyped, AnswersExpected, UNCHANGED left, NEW k \in Kinds, Submit(k),
         game /\ k \notin left => waiting[k] = 1
  PROVE  /\ waiting' \in [Kinds -> {0, 1}] /\ stray' \in SUBSET Kinds /\ AnswersExpected'
         /\ \A j \in Kinds \ {k} : waiting'[j] = waiting[j]
<1>1. \/ UNCHANGED <<waiting, stray>>
      \/ /\ waiting' = [waiting EXCEPT ![k] = 0]
         /\ stray' = stray \/ (k \in left /\ stray' = stray \cup {k})
  BY DEF Submit, PlayerTyped
<1>2. CASE UNCHANGED <<waiting, stray>>
  BY <1>2 DEF PlayerTyped, AnswersExpected
<1>3. CASE /\ waiting' = [waiting EXCEPT ![k] = 0]
           /\ stray' = stray \/ (k \in left /\ stray' = stray \cup {k})
  BY <1>3 DEF PlayerTyped, AnswersExpected
<1> QED
  BY <1>1, <1>2, <1>3

\* What the others of the kinds do leaves kind k as it is.
LEMMA OtherKind ==
  ASSUME PlayerTyped, NEW k \in Kinds, Once(k), waiting'[k] = waiting[k],
         Outstanding(k)' <=> Outstanding(k), k = "native" => shell' = shell,
         \/ posted' = posted
         \/ posted # <<>> /\ posted' = Tail(posted)
         \/ \E r \in Requests : posted' = Append(posted, r) /\ KindOf(r) # k
  PROVE  Once(k)'
<1>0. posted \in Seq(Requests)
  BY DEF PlayerTyped
<1>1. CASE posted' = posted
  BY <1>1 DEF Once
<1>2. CASE posted # <<>> /\ posted' = Tail(posted)
  <2>1. \A i \in DOMAIN posted' : /\ i \in Nat /\ i + 1 \in DOMAIN posted
                                  /\ posted'[i] = posted[i + 1]
    BY <1>0, <1>2, HeadTaken
  <2>2. \A i, j \in DOMAIN posted' : KindOf(posted'[i]) = k /\ KindOf(posted'[j]) = k => i = j
    <3> SUFFICES ASSUME NEW i \in DOMAIN posted', NEW j \in DOMAIN posted',
                        KindOf(posted'[i]) = k, KindOf(posted'[j]) = k
                 PROVE  i = j
      OBVIOUS
    <3>1. i + 1 = j + 1
      BY <2>1 DEF Once
    <3> QED
      BY <2>1, <3>1
  <2> QED
    BY <2>1, <2>2 DEF Once
<1>3. CASE \E r \in Requests : posted' = Append(posted, r) /\ KindOf(r) # k
  <2>1. \A i \in DOMAIN posted' : KindOf(posted'[i]) = k
                                  => i \in DOMAIN posted /\ posted'[i] = posted[i]
    BY <1>0, <1>3, RequestAdded
  <2> QED
    BY <2>1 DEF Once
<1> QED
  BY <1>1, <1>2, <1>3

\* A request that is asked is the only one of its kind.
LEMMA AskedOnce ==
  ASSUME PlayerTyped, NEW k \in Kinds, Once(k), waiting[k] = 0, waiting'[k] = 1,
         NEW r \in Requests, KindOf(r) = k, posted' = Append(posted, r),
         Outstanding(k)' <=> Outstanding(k), shell' = shell
  PROVE  Once(k)'
<1>1. \A i \in DOMAIN posted' : KindOf(posted'[i]) = k => i = Len(posted) + 1
  BY RequestAdded DEF PlayerTyped, Once
<1>2. ~Outstanding(k)
  BY DEF Once
<1> QED
  BY <1>1, <1>2 DEF Once

\* A request that leaves the queue is answered, or with one who will answer it.
LEMMA ServedOnce ==
  ASSUME PlayerTyped, NEW k \in Kinds, Once(k), posted # <<>>, posted' = Tail(posted),
         KindOf(Head(posted)) = k, Outstanding(k)' => waiting'[k] = 1,
         k = "native" => shell' \in {0, 1}
  PROVE  Once(k)'
<1>1. \A i \in DOMAIN posted' : KindOf(posted'[i]) # k
  BY HeadTaken DEF PlayerTyped, Once
<1> QED
  BY <1>1 DEF Once

\* A request that was served is answered by the one who had it.
LEMMA AnsweredOnce ==
  ASSUME PlayerTyped, NEW k \in Kinds, Once(k), UNCHANGED posted,
         Outstanding(k), ~(Outstanding(k)'), k = "native" => shell' = 0
  PROVE  Once(k)'
BY DEF Once

\* The option is sent, or refused, and believed to be what it is.
LEMMA SyncTyped ==
  ASSUME OptionTyped, BelievedRaw, NEW e \in Effects, NEW n \in BOOLEAN, NEW r \in BOOLEAN,
         Sync(FALSE, e, n, r), UNCHANGED handle
  PROVE  /\ raw' \in BOOLEAN /\ output' \in {"raw", "surface"} /\ fails' \in Nat
         /\ BelievedRaw'
<1>1. Wanted(e, n, r) \in BOOLEAN
  BY DEF Wanted, Effects
<1>2. CASE ~handle \/ Wanted(e, n, r) = raw
  <2>1. raw' = Wanted(e, n, r) /\ UNCHANGED <<output, fails>>
    BY <1>2 DEF Sync
  <2> QED
    BY <1>1, <1>2, <2>1 DEF OptionTyped, BelievedRaw
<1>3. CASE ~(~handle \/ Wanted(e, n, r) = raw)
  <2>1. \/ /\ raw' = TRUE /\ output' = "raw" /\ UNCHANGED fails
        \/ /\ raw' = FALSE /\ output' = "surface" /\ UNCHANGED fails
        \/ fails' = fails + 1 /\ raw' = FALSE /\ UNCHANGED output
    BY <1>1, <1>3 DEF Sync
  <2>2. output \in {"raw", "surface"} /\ fails \in Nat /\ fails + 1 \in Nat
    BY DEF OptionTyped
  <2> QED
    BY <2>1, <2>2, Zenon DEF BelievedRaw
<1> QED
  BY <1>2, <1>3

\* The settings and the engine's option keep their types, and the player its belief.
LEMMA OptionKept ==
  ASSUME OptionTyped, BelievedRaw, PlayerNext
  PROVE  OptionTyped' /\ BelievedRaw'
<1> DEFINE Kept == /\ effect' \in Effects /\ native' \in BOOLEAN /\ ready' \in BOOLEAN
                   /\ raw' \in BOOLEAN /\ output' \in {"raw", "surface"}
                   /\ fails' \in Nat /\ toggles' \in Nat
                   /\ BelievedRaw'
<1>1. ASSUME SetFrameEnhancement PROVE Kept
  <2>1. PICK on \in BOOLEAN : effect' = [enabled |-> on, bypass |-> FALSE]
    BY <1>1 DEF SetFrameEnhancement
  <2>2. PICK e \in Effects : e = effect'
    BY <2>1 DEF Effects
  <2>3. Sync(FALSE, e, native, ready) /\ UNCHANGED <<handle, native, ready>>
    BY <1>1, <2>2 DEF SetFrameEnhancement, session
  <2>4. toggles' \in Nat
    BY <1>1 DEF SetFrameEnhancement, OptionTyped
  <2>5. native \in BOOLEAN /\ ready \in BOOLEAN
    BY DEF OptionTyped
  <2> QED
    BY <2>2, <2>3, <2>4, <2>5, SyncTyped
<1>2. ASSUME SetFrameNativeOutput PROVE Kept
  <2>1. PICK n \in BOOLEAN : n = native'
    BY <1>2 DEF SetFrameNativeOutput, OptionTyped
  <2>2. Sync(FALSE, effect, n, ready) /\ UNCHANGED <<handle, effect, ready>>
    BY <1>2, <2>1 DEF SetFrameNativeOutput, session
  <2>3. toggles' \in Nat
    BY <1>2 DEF SetFrameNativeOutput, OptionTyped
  <2>4. effect \in Effects /\ ready \in BOOLEAN
    BY DEF OptionTyped
  <2> QED
    BY <2>1, <2>2, <2>3, <2>4, SyncTyped
<1>3. ASSUME DeviceReady PROVE Kept
  BY <1>3 DEF DeviceReady, session, OptionTyped, BelievedRaw
<1>4. ASSUME UpdateFrameTexture PROVE Kept
  <2>1. effect \in Effects /\ native \in BOOLEAN /\ ready \in BOOLEAN /\ toggles \in Nat
    BY DEF OptionTyped
  <2>2. effect' = effect \/ effect' = [effect EXCEPT !.bypass = TRUE]
    BY <1>4 DEF UpdateFrameTexture
  <2>3. PICK e \in Effects : e = effect'
    BY <2>1, <2>2 DEF Effects
  <2>4. Sync(FALSE, e, native, ready) /\ UNCHANGED <<handle, native, ready, toggles>>
    BY <1>4, <2>3 DEF UpdateFrameTexture, session
  <2> QED
    BY <2>1, <2>3, <2>4, SyncTyped
<1>5. ASSUME InitializeEngine PROVE Kept
  <2>1. Wanted(effect, native, ready) \in BOOLEAN
    BY DEF Wanted, OptionTyped, Effects
  <2>2. UNCHANGED <<effect, native, ready, toggles>>
    BY <1>5 DEF InitializeEngine, settings
  <2>3. \/ raw' = TRUE /\ output' = "raw" /\ UNCHANGED fails
        \/ raw' = FALSE /\ output' = "surface" /\ UNCHANGED fails
        \/ raw' = FALSE /\ output' = "surface" /\ fails' = fails + 1
    BY <1>5, <2>1 DEF InitializeEngine, ForceNew
  <2>4. /\ effect \in Effects /\ native \in BOOLEAN /\ ready \in BOOLEAN
        /\ output \in {"raw", "surface"} /\ toggles \in Nat
        /\ fails \in Nat /\ fails + 1 \in Nat
    BY DEF OptionTyped
  <2> QED
    BY <2>2, <2>3, <2>4, Zenon DEF BelievedRaw
<1>6. ASSUME DestroyEngine PROVE Kept
  BY <1>6 DEF DestroyEngine, settings, OptionTyped, BelievedRaw
<1>7. ASSUME UNCHANGED <<handle, settings, raw, output, fails>> PROVE Kept
  BY <1>7 DEF settings, OptionTyped, BelievedRaw
<1>8. OpenGame \/ RuntimeAsks \/ ShowMovie \/ OpenVideo \/ ProcessVideo \/ ToggleVideo \/ AppPaused
        \/ AppResumed \/ CloseVideo \/ MediaDecodes \/ MediaEnds \/ PressSkips
        \/ UserAnswers \/ ShellAnswers
      => UNCHANGED <<handle, settings, raw, output, fails>>
  BY DEF OpenGame, RuntimeAsks, ShowMovie, OpenVideo, ProcessVideo, ToggleVideo, AppPaused,
     AppResumed, CloseVideo, MediaDecodes, MediaEnds, PressSkips, UserAnswers, ShellAnswers,
     engine, session, settings
<1>9. Ticking => UNCHANGED <<handle, settings, raw, output, fails>>
  BY DEF Ticking, BeginTick, ServeText, ServeMalformed, ServeMovie, ServeUnplayable, ServeNative,
     EndDrain, UpdateMovie, Serve, session, settings
<1>10. ASSUME GameFails PROVE Kept
  BY <1>10 DEF GameFails, settings, OptionTyped, BelievedRaw
<1> QED
  BY <1>1, <1>2, <1>3, <1>4, <1>5, <1>6, <1>7, <1>8, <1>9, <1>10 DEF PlayerNext, OptionTyped

\* What a media handle keeps of what it has shown.
KeptMedia(m, n) ==
  /\ n.open = m.open /\ n.rgba = m.rgba /\ n.serial = m.serial
  /\ m.broken => n.broken

\* The decoder and the controls change nothing that was shown.
LEMMA MediaKept ==
  ASSUME NEW m \in Medias, NEW p \in Nat
  PROVE  /\ KeptMedia(m, Play(m)) /\ KeptMedia(m, Pause(m)) /\ KeptMedia(m, Seek(m))
         /\ KeptMedia(m, Ended(m)) /\ KeptMedia(m, Broken(m)) /\ KeptMedia(m, Decoded(m, p))
         /\ KeptMedia(m, Play(Seek(m)))
BY DEF Medias, KeptMedia, Play, Pause, Seek, Ended, Broken, Decoded

\* A poll takes the picture that is due, with the next serial, or nothing.
LEMMA FrameUpdated ==
  ASSUME NEW m \in Medias
  PROVE  /\ UpdateFrame(m).open = m.open /\ UpdateFrame(m).broken = m.broken
         /\ \/ UpdateFrame(m) = m
            \/ /\ UpdateFrame(m).serial = m.serial + 1
               /\ UpdateFrame(m).rgba # NoPicture
BY DEF Medias, UpdateFrame

\* The screen of a video goes on showing what was read, when the controls are used or the
\* decoder works.
LEMMA VideoGoesOn ==
  ASSUME VideoKept, KeptMedia(media, media'), UNCHANGED texture,
         UNCHANGED <<video.open, video.view, video.polled, video.serial>>
  PROVE  VideoKept'
BY DEF VideoKept, KeptMedia

\* The media, the texture, the movie and the video keep their types; a running movie keeps its
\* player, and the screen of a video its picture.
LEMMA FilmKept ==
  ASSUME PlayerTyped, OnceEach, GameAlone, MovieHasMedia, VideoKept, PlayerNext
  PROVE  /\ media' \in Medias /\ texture' \in Textures /\ pictures' \in Nat
         /\ movie' \in Movies /\ video' \in Videos /\ videos' \in Nat
         /\ MovieHasMedia' /\ VideoKept'
<1> DEFINE Kept == /\ media' \in Medias /\ texture' \in Textures /\ pictures' \in Nat
                   /\ movie' \in Movies /\ video' \in Videos /\ videos' \in Nat
                   /\ MovieHasMedia' /\ VideoKept'
<1> USE DEF film, watching, session
<1>t. /\ media \in Medias /\ texture \in Textures /\ pictures \in Nat
      /\ movie \in Movies /\ video \in Videos /\ videos \in Nat
      /\ movie.active \in BOOLEAN /\ video.open \in BOOLEAN
  BY DEF PlayerTyped, Movies, Videos
<1>m. NoMovie \in Movies /\ ~NoMovie.active
  BY DEF NoMovie, Movies
<1>1. ASSUME UNCHANGED <<film, movie, watching>>,
             game' /\ movie.active /\ "movie" \notin left' => game /\ "movie" \notin left
      PROVE  Kept
  BY <1>1, <1>t DEF MovieHasMedia, VideoKept
<1>2. ASSUME UNCHANGED <<pictures, watching>>, ~video.open, media' \in Medias,
             texture' \in Textures, movie' \in Movies, movie'.active => media'.open
      PROVE  Kept
  BY <1>2, <1>t DEF MovieHasMedia, VideoKept
<1>3. ASSUME InitializeEngine PROVE Kept
  BY <1>1, <1>3 DEF InitializeEngine
<1>4. ASSUME DestroyEngine PROVE Kept
  BY <1>4, <1>t, MediaTyped, TextureTyped
  DEF DestroyEngine, Close, MovieHasMedia, VideoKept
<1>17. ASSUME OpenGame \/ GameFails PROVE Kept
  <2>1. CASE OpenGame
    <3>1. movie.active => "movie" \in left'
      BY <2>1 DEF OpenGame, StillOpen, Outstanding, Kinds
    <3> QED
      BY <1>1, <2>1, <3>1 DEF OpenGame
  <2>2. CASE GameFails
    BY <1>1, <2>2 DEF GameFails
  <2> QED
    BY <1>17, <2>1, <2>2
<1>5. ASSUME Ticking PROVE Kept
  <2>0. ~video.open
    BY <1>5 DEF Ticking, GameAlone, BeginTick, ServeText, ServeMalformed, ServeMovie,
       ServeUnplayable, ServeNative, EndDrain, UpdateMovie, Serve
  <2>2. ASSUME BeginTick \/ EndDrain PROVE Kept
    BY <2>2, <1>1 DEF BeginTick, EndDrain
  <2>3. ASSUME ServeText \/ ServeMalformed \/ ServeNative PROVE Kept
    BY <2>3, <1>1 DEF ServeText, ServeMalformed, ServeNative, Serve
  <2>4. ASSUME ServeMovie PROVE Kept
    <3>1. UNCHANGED <<pictures, watching>>
      BY <2>4 DEF ServeMovie, Serve
    <3>2. \/ /\ media' = Play(Opened) /\ texture' = NoTexture
             /\ \E s \in BOOLEAN : movie' = [active |-> TRUE, skippable |-> s]
          \/ movie' = NoMovie /\ Close
      BY <2>4 DEF ServeMovie, Finished
    <3>3. Play(Opened) \in Medias /\ Play(Opened).open
      BY MediaTyped DEF Play, Opened, Closed
    <3>4. \A s \in BOOLEAN : [active |-> TRUE, skippable |-> s] \in Movies
      BY DEF Movies
    <3> QED
      BY <1>2, <1>m, <2>0, <3>1, <3>2, <3>3, <3>4, MediaTyped, TextureTyped DEF Close
  <2>5. ASSUME ServeUnplayable PROVE Kept
    <3>1. "movie" \notin left => ~movie.active
      <4>1. posted # <<>> /\ Head(posted) = "unplayable" /\ posted' = Tail(posted) /\ game
        BY <2>5 DEF ServeUnplayable, Serve, GameAlone
      <4>2. "movie" \notin left => Once("movie")
        BY <4>1 DEF OnceEach, Kinds
      <4>3. KindOf(posted[1]) = "movie" /\ 1 \in DOMAIN posted
        BY <4>1, HeadTaken DEF KindOf, PlayerTyped
      <4> QED
        BY <4>2, <4>3 DEF Once, Outstanding
    <3>2. UNCHANGED <<game, left, pictures, watching, movie>> /\ Close
      BY <2>5 DEF ServeUnplayable, Serve
    <3> QED
      BY <1>t, <2>0, <3>1, <3>2, MediaTyped, TextureTyped DEF Close, MovieHasMedia, VideoKept
  <2>6. ASSUME UpdateMovie PROVE Kept
    <3>1. UNCHANGED <<game, left, pictures, watching>>
      BY <2>6 DEF UpdateMovie
    <3>2. CASE movie.active /\ Over
      <4>1. movie' = NoMovie /\ Close
        BY <2>6, <3>2 DEF UpdateMovie, Finished
      <4> QED
        BY <1>2, <1>m, <2>0, <3>1, <4>1, MediaTyped, TextureTyped DEF Close
    <3>3. CASE ~(movie.active /\ Over)
      <4>1. UNCHANGED <<texture, movie>> /\ (media' = media \/ media' = UpdateFrame(media))
        BY <2>6, <3>3 DEF UpdateMovie
      <4>2. media' \in Medias /\ media'.open = media.open
        BY <1>t, <4>1, MediaTyped, FrameUpdated
      <4> QED
        BY <1>t, <2>0, <3>1, <4>1, <4>2 DEF MovieHasMedia, VideoKept
    <3> QED
      BY <3>2, <3>3
  <2> QED
    BY <1>5, <2>2, <2>3, <2>4, <2>5, <2>6 DEF Ticking
<1>6. ASSUME ShowMovie PROVE Kept
  BY <1>6, <1>t, TextureTyped DEF ShowMovie, engine, GameAlone, MovieHasMedia, VideoKept
<1>7. ASSUME OpenVideo PROVE Kept
  <2>1. /\ ~video.open /\ ~game /\ videos' \in Nat
        /\ UNCHANGED <<game, pictures, movie>>
    BY <1>7, <1>t DEF OpenVideo, engine
  <2>2. CASE /\ media' = Play(Opened) /\ texture' = NoTexture
             /\ video' = [NoVideo EXCEPT !.open = TRUE]
    <3>1. media' \in Medias /\ texture' \in Textures /\ video' \in Videos
      BY <2>2, MediaTyped, TextureTyped, VideoTyped
    <3>2. ~media'.broken /\ media'.rgba = NoPicture
      BY <2>2 DEF Play, Opened, Closed
    <3>3. video'.view = NoPicture /\ ~video'.polled
      BY <2>2 DEF NoVideo
    <3>4. texture'.picture = NoPicture
      BY <2>2 DEF NoTexture
    <3> QED
      BY <1>t, <2>1, <3>1, <3>2, <3>3, <3>4 DEF MovieHasMedia, VideoKept
  <2>3. CASE Close /\ UNCHANGED video
    BY <1>t, <2>1, <2>3, MediaTyped, TextureTyped DEF Close, MovieHasMedia, VideoKept
  <2> QED
    BY <1>7, <2>2, <2>3 DEF OpenVideo
<1>8. ASSUME ProcessVideo PROVE Kept
  <2>1. video.open /\ ~game /\ media' = UpdateFrame(media)
    BY <1>8 DEF ProcessVideo, GameAlone
  <2>2. UNCHANGED <<game, pictures, videos, movie>>
    BY <1>8 DEF ProcessVideo, engine
  <2>3. /\ media' \in Medias /\ media'.open = media.open /\ media'.broken = media.broken
        /\ \/ media' = media
           \/ media'.serial = media.serial + 1 /\ media'.rgba # NoPicture
    BY <1>t, <2>1, MediaTyped, FrameUpdated
  <2> DEFINE serial == PolledSerial(media')
             fetch == FrameReady(media') /\ ~(video.polled /\ video.serial = serial)
  <2>4. /\ texture' = IF fetch THEN UpdateTexture(texture, media') ELSE texture
        /\ video' = [video EXCEPT !.polled = TRUE, !.serial = serial,
                       !.status = Status(media'),
                       !.view = IF fetch THEN texture'.picture ELSE @]
    BY <1>8 DEF ProcessVideo
  <2>5. serial \in Nat /\ Status(media') \in {"idle", "ended", "paused", "playing"}
    BY <2>3 DEF PolledSerial, Status, Medias
  <2>6. texture' \in Textures /\ texture'.picture \in Nat
    BY <1>t, <2>3, <2>4, TextureTyped DEF Textures
  <2>7. /\ video' \in Videos /\ video'.open /\ video'.polled /\ video'.serial = serial
        /\ video'.view = IF fetch THEN texture'.picture ELSE video.view
    <3> HIDE DEF serial, fetch
    <3> QED
      BY <1>t, <2>1, <2>4, <2>5, <2>6 DEF Videos
  <2>8. ASSUME ~media'.broken
        PROVE  /\ video'.view = media'.rgba /\ video'.serial = media'.serial
               /\ texture'.picture # NoPicture => texture'.serial = media'.serial
    <3>1. /\ serial = media'.serial /\ ~media.broken
          /\ fetch <=> media'.rgba # NoPicture /\ ~(video.polled /\ video.serial = media'.serial)
      BY <2>3, <2>8 DEF PolledSerial, FrameReady, Readable
    <3>2. /\ video.view = media.rgba
          /\ video.polled => video.serial = media.serial
          /\ ~video.polled => media.rgba = NoPicture
          /\ texture.picture # NoPicture => texture.serial = media.serial
      BY <2>1, <3>1 DEF VideoKept
    <3>3. CASE media' = media
      <4>1. ~fetch
        BY <3>1, <3>2, <3>3
      <4> QED
        BY <2>4, <2>7, <3>1, <3>2, <3>3, <4>1
    <3>4. CASE media'.serial = media.serial + 1 /\ media'.rgba # NoPicture
      <4>1. media'.serial # media.serial
        BY <1>t, <3>4 DEF Medias
      <4>2. fetch
        BY <3>1, <3>2, <3>4, <4>1
      <4>3. UpdateTexture(texture, media') = [picture |-> media'.rgba, serial |-> media'.serial]
        BY <3>2, <3>4, <4>1 DEF UpdateTexture, Readable
      <4>4. texture'.picture = media'.rgba /\ texture'.serial = media'.serial
        BY <2>4, <4>2, <4>3
      <4> QED
        BY <2>7, <3>1, <4>2, <4>4
    <3> QED
      BY <2>3, <3>3, <3>4
  <2> QED
    BY <1>t, <2>1, <2>2, <2>3, <2>6, <2>7, <2>8 DEF MovieHasMedia, VideoKept
<1>9. ASSUME UNCHANGED <<game, left, texture, movie, videos>>, pictures' \in Nat, media' \in Medias,
             KeptMedia(media, media'), video' \in Videos,
             UNCHANGED <<video.open, video.view, video.polled, video.serial>>
      PROVE  Kept
  BY <1>t, <1>9, VideoGoesOn DEF KeptMedia, MovieHasMedia
<1>10. ASSUME ToggleVideo PROVE Kept
  <2>1. \/ media' = Pause(media) \/ media' = Play(Seek(media)) \/ media' = Play(media)
    BY <1>10 DEF ToggleVideo
  <2> QED
    BY <1>t, <1>9, <1>10, <2>1, MediaTyped, MediaKept DEF ToggleVideo, engine
<1>11. ASSUME AppPaused \/ AppResumed PROVE Kept
  <2>1. media' = Pause(media) \/ media' = Play(media) \/ media' = media
    BY <1>11 DEF AppPaused, AppResumed
  <2>2. media' \in Medias /\ KeptMedia(media, media')
    <3>1. KeptMedia(media, media)
      BY DEF KeptMedia
    <3> QED
      BY <1>t, <2>1, <3>1, MediaTyped, MediaKept
  <2>3. PICK b \in BOOLEAN, c \in BOOLEAN : video' = [video EXCEPT !.hidden = b, !.resume = c]
    BY <1>11 DEF AppPaused, AppResumed
  <2>4. /\ video' \in Videos
        /\ UNCHANGED <<video.open, video.view, video.polled, video.serial>>
    BY <1>t, <2>3 DEF Videos
  <2> QED
    BY <1>t, <1>9, <1>11, <2>2, <2>4 DEF AppPaused, AppResumed, engine
<1>12. ASSUME CloseVideo PROVE Kept
  <2>1. ~game
    BY <1>12 DEF CloseVideo, GameAlone
  <2>2. ~NoVideo.open
    BY DEF NoVideo
  <2> QED
    BY <1>12, <1>t, <2>1, <2>2, MediaTyped, TextureTyped, VideoTyped
    DEF CloseVideo, Close, engine, MovieHasMedia, VideoKept
<1>13. ASSUME MediaDecodes PROVE Kept
  BY <1>t, <1>9, <1>13, MediaTyped, MediaKept DEF MediaDecodes, engine
<1>14. ASSUME MediaEnds PROVE Kept
  BY <1>t, <1>9, <1>14, MediaTyped, MediaKept DEF MediaEnds, engine
<1>15. ASSUME PressSkips PROVE Kept
  <2>1. ~video.open
    BY <1>15, <1>t DEF PressSkips, GameAlone
  <2>2. UNCHANGED <<pictures, watching>> /\ movie' = NoMovie /\ Close
    BY <1>15 DEF PressSkips, Finished
  <2> QED
    BY <1>2, <1>m, <2>1, <2>2, MediaTyped, TextureTyped DEF Close
<1>16. ASSUME SetFrameEnhancement \/ SetFrameNativeOutput \/ DeviceReady \/ UpdateFrameTexture
              \/ RuntimeAsks \/ UserAnswers \/ ShellAnswers
       PROVE  UNCHANGED <<game, left, film, movie, watching>>
  BY <1>16 DEF SetFrameEnhancement, SetFrameNativeOutput, DeviceReady, UpdateFrameTexture,
     RuntimeAsks, UserAnswers, ShellAnswers
<1> QED
  BY <1>1, <1>3, <1>4, <1>5, <1>6, <1>7, <1>8, <1>10, <1>11, <1>12, <1>13, <1>14, <1>15, <1>16,
     <1>17
  DEF PlayerNext

\* The types of what no answer depends on; a game has an engine, is ticked, and no video is
\* open meanwhile.
LEMMA GamesKept ==
  ASSUME PlayerTyped, GameAlone, PlayerNext
  PROVE  /\ handle' \in BOOLEAN /\ engines' \in Nat /\ game' \in BOOLEAN /\ requests' \in Nat
         /\ stage' \in {"idle", "drain", "movie"} /\ GameAlone'
<1> USE DEF session, watching
<1>1. /\ handle \in BOOLEAN /\ engines \in Nat /\ game \in BOOLEAN /\ requests \in Nat
      /\ engines + 1 \in Nat /\ requests + 1 \in Nat /\ stage \in {"idle", "drain", "movie"}
      /\ video.open \in BOOLEAN
  BY DEF PlayerTyped, Videos
<1>2. /\ handle' \in {handle, TRUE, FALSE} /\ engines' \in {engines, engines + 1}
      /\ requests' \in {requests, requests + 1} /\ game' \in {game, TRUE, FALSE}
      /\ stage' \in {stage, "idle", "drain", "movie"}
  BY DEF PlayerNext, SetFrameEnhancement, SetFrameNativeOutput, DeviceReady, UpdateFrameTexture,
     InitializeEngine, DestroyEngine, OpenGame, GameFails, RuntimeAsks, Ticking, BeginTick,
     ServeText, ServeMalformed, ServeMovie, ServeUnplayable, ServeNative, EndDrain, UpdateMovie,
     Serve, ShowMovie, OpenVideo, ProcessVideo, ToggleVideo, AppPaused, AppResumed, CloseVideo,
     MediaDecodes, MediaEnds, PressSkips, UserAnswers, ShellAnswers, engine
<1>3. GameAlone'
  <2>1. ASSUME SetFrameEnhancement \/ SetFrameNativeOutput \/ DeviceReady \/ UpdateFrameTexture
               \/ InitializeEngine \/ GameFails \/ RuntimeAsks \/ ShowMovie \/ ToggleVideo
               \/ MediaDecodes \/ MediaEnds \/ PressSkips \/ UserAnswers \/ ShellAnswers
        PROVE  /\ game' => (game /\ (handle => handle'))
               /\ (stage' # "idle") => (stage # "idle" /\ game' = game)
               /\ video'.open => video.open
    <3>1. ASSUME \/ SetFrameEnhancement \/ SetFrameNativeOutput \/ DeviceReady
                 \/ UpdateFrameTexture \/ RuntimeAsks \/ PressSkips \/ UserAnswers
                 \/ ShellAnswers
          PROVE  UNCHANGED <<handle, game, stage, video>>
      <4>1. CASE SetFrameEnhancement \/ SetFrameNativeOutput \/ DeviceReady \/ UpdateFrameTexture
        BY <4>1 DEF SetFrameEnhancement, SetFrameNativeOutput, DeviceReady, UpdateFrameTexture,
           session, watching
      <4>2. CASE RuntimeAsks \/ PressSkips \/ UserAnswers \/ ShellAnswers
        BY <4>2 DEF RuntimeAsks, PressSkips, UserAnswers, ShellAnswers, session, watching
      <4> QED
        BY <3>1, <4>1, <4>2
    <3>2. CASE InitializeEngine
      BY <3>2 DEF InitializeEngine, watching, Idle
    <3>3. CASE GameFails
      BY <3>3 DEF GameFails, watching, Idle
    <3>4. CASE ShowMovie \/ MediaDecodes \/ MediaEnds
      BY <3>4 DEF ShowMovie, MediaDecodes, MediaEnds, engine, session, watching, Idle
    <3>5. CASE ToggleVideo
      BY <3>5 DEF ToggleVideo, engine, session, watching
    <3> QED
      BY <2>1, <3>1, <3>2, <3>3, <3>4, <3>5
  <2>2. ASSUME DestroyEngine \/ OpenGame
        PROVE  stage' = "idle" /\ ~video'.open /\ (game' => handle')
    BY <2>2 DEF DestroyEngine, OpenGame, Idle
  <2>3. ASSUME Ticking PROVE game /\ UNCHANGED <<handle, game, video>>
    BY <2>3 DEF Ticking, BeginTick, ServeText, ServeMalformed, ServeMovie, ServeUnplayable,
       ServeNative, EndDrain, UpdateMovie, Serve, GameAlone
  <2>4. ASSUME OpenVideo PROVE ~game /\ ~game' /\ stage' = stage
    BY <2>4, <1>1 DEF OpenVideo, engine
  <2>5. ASSUME ProcessVideo \/ AppPaused \/ AppResumed \/ CloseVideo
        PROVE  ~game /\ ~game' /\ stage' = stage
    BY <2>5 DEF ProcessVideo, AppPaused, AppResumed, CloseVideo, engine, GameAlone
  <2> QED
    BY <1>1, <2>1, <2>2, <2>3, <2>4, <2>5 DEF PlayerNext, GameAlone
<1> QED
  BY <1>1, <1>2, <1>3

\* The head of the queue is of a kind that is waited for, unless something of the kind was
\* left, and nobody else is about to answer it.
LEMMA HeadAwaited ==
  ASSUME PlayerTyped, OnceEach, GameAlone, NEW r \in Requests, Serve(r)
  PROVE  /\ game /\ UNCHANGED <<game, left>> /\ KindOf(r) \in Kinds
         /\ posted # <<>> /\ Head(posted) = r /\ posted' = Tail(posted)
         /\ KindOf(r) \notin left => /\ waiting[KindOf(r)] = 1 /\ ~Outstanding(KindOf(r))
<1>1. /\ game /\ UNCHANGED <<game, left>> /\ posted # <<>> /\ Head(posted) = r
      /\ posted' = Tail(posted)
  BY DEF Serve, GameAlone, session
<1>2. KindOf(r) \in Kinds
  BY KindsOfRequests
<1>3. 1 \in DOMAIN posted /\ posted[1] = r
  BY <1>1, HeadTaken DEF PlayerTyped
<1>4. KindOf(r) \notin left => Once(KindOf(r))
  BY <1>1, <1>2 DEF OnceEach
<1> QED
  BY <1>1, <1>2, <1>3, <1>4 DEF Once

\* Somebody who is about to answer answers a request that is waited for, unless something of
\* the kind was left.
LEMMA Awaited ==
  ASSUME OnceEach, NEW k \in Kinds, Outstanding(k)
  PROVE  game /\ k \notin left => waiting[k] = 1
BY DEF OnceEach, Once

\* The queue, the waits and the answers keep their types, and every answer is expected.
LEMMA AnswersTold ==
  ASSUME PlayerTyped, OnceEach, GameAlone, AnswersExpected, PlayerNext
  PROVE  /\ posted' \in Seq(Requests) /\ waiting' \in [Kinds -> {0, 1}]
         /\ stray' \in SUBSET Kinds /\ left' \in SUBSET Kinds
         /\ dialog' \in BOOLEAN /\ shell' \in Nat /\ AnswersExpected'
<1> DEFINE Kept == /\ posted' \in Seq(Requests) /\ waiting' \in [Kinds -> {0, 1}]
                   /\ stray' \in SUBSET Kinds /\ left' \in SUBSET Kinds
                   /\ dialog' \in BOOLEAN /\ shell' \in Nat /\ AnswersExpected'
<1> USE DEF session
<1>t. /\ posted \in Seq(Requests) /\ waiting \in [Kinds -> {0, 1}]
      /\ stray \in SUBSET Kinds /\ left \in SUBSET Kinds
      /\ dialog \in BOOLEAN /\ shell \in Nat
  BY DEF PlayerTyped
<1>k. "text" \in Kinds /\ "movie" \in Kinds /\ "native" \in Kinds
  BY DEF Kinds
<1>r. /\ Requests = {"text", "malformed", "movie", "unplayable", "native"}
      /\ KindOf("text") = "text" /\ KindOf("malformed") = "text" /\ KindOf("movie") = "movie"
      /\ KindOf("unplayable") = "movie" /\ KindOf("native") = "native"
  BY DEF Requests, KindOf
\* Nothing is answered.
<1>1. ASSUME UNCHANGED <<left, waiting, stray>>, posted' \in Seq(Requests), dialog' \in BOOLEAN,
             shell' \in Nat
      PROVE  Kept
  BY <1>1, <1>t DEF AnswersExpected
\* An answer.
<1>2. ASSUME NEW k \in Kinds, Submit(k), game /\ k \notin left => waiting[k] = 1,
             UNCHANGED left, posted' \in Seq(Requests), dialog' \in BOOLEAN, shell' \in Nat
      PROVE  Kept
  BY <1>2, <1>t, AnswerGiven
<1>3. ASSUME SetFrameEnhancement \/ SetFrameNativeOutput \/ DeviceReady \/ UpdateFrameTexture
             \/ EndDrain \/ ShowMovie \/ ProcessVideo \/ ToggleVideo \/ AppPaused \/ AppResumed
             \/ CloseVideo \/ MediaDecodes \/ MediaEnds \/ InitializeEngine \/ GameFails
             \/ BeginTick \/ OpenVideo
      PROVE  Kept
  <2>1. UNCHANGED <<left, posted, waiting, stray, dialog, shell>>
    BY <1>3 DEF SetFrameEnhancement, SetFrameNativeOutput, DeviceReady, UpdateFrameTexture,
       EndDrain, ShowMovie, ProcessVideo, ToggleVideo, AppPaused, AppResumed, CloseVideo,
       MediaDecodes, MediaEnds, InitializeEngine, GameFails, BeginTick, OpenVideo, engine
  <2> QED
    BY <1>1, <1>t, <2>1
<1>4. ASSUME DestroyEngine PROVE Kept
  <2>1. NoneWaiting \in [Kinds -> {0, 1}] /\ <<>> \in Seq(Requests)
    BY DEF NoneWaiting
  <2>2. posted' = <<>> /\ waiting' = NoneWaiting /\ UNCHANGED <<left, stray, dialog, shell>>
    BY <1>4 DEF DestroyEngine
  <2> QED
    BY <1>t, <2>1, <2>2 DEF AnswersExpected
<1>5. ASSUME OpenGame PROVE Kept
  <2>1. NoneWaiting \in [Kinds -> {0, 1}]
    BY DEF NoneWaiting
  <2>2. StillOpen \in SUBSET Kinds
    <3>1. \A i \in DOMAIN posted : KindOf(posted[i]) \in Kinds
      BY <1>t, KindsOfRequests
    <3> QED
      BY <3>1 DEF StillOpen
  <2>3. /\ waiting' = NoneWaiting /\ stray' = {} /\ left' = StillOpen
        /\ UNCHANGED <<posted, dialog, shell>>
    BY <1>5 DEF OpenGame
  <2> QED
    BY <1>t, <2>1, <2>2, <2>3 DEF AnswersExpected
<1>6. ASSUME RuntimeAsks PROVE Kept
  <2>1. PICK r \in Requests : /\ posted' = Append(posted, r)
                              /\ waiting' = [waiting EXCEPT ![KindOf(r)] = 1]
    BY <1>6 DEF RuntimeAsks
  <2>2. UNCHANGED <<left, stray, dialog, shell>>
    BY <1>6 DEF RuntimeAsks
  <2>3. posted' \in Seq(Requests)
    BY <1>t, <2>1, RequestAdded
  <2>4. waiting' \in [Kinds -> {0, 1}]
    BY <1>t, <2>1
  <2> QED
    BY <1>t, <2>2, <2>3, <2>4 DEF AnswersExpected
<1>7. ASSUME NEW r \in Requests, Serve(r), dialog' \in BOOLEAN, shell' \in Nat,
             UNCHANGED <<waiting, stray>> \/ Submit(KindOf(r))
      PROVE  Kept
  <2>1. /\ posted # <<>> /\ posted' = Tail(posted) /\ UNCHANGED left /\ KindOf(r) \in Kinds
        /\ KindOf(r) \notin left => waiting[KindOf(r)] = 1
    BY <1>7, HeadAwaited
  <2>2. posted' \in Seq(Requests)
    BY <1>t, <2>1, HeadTaken
  <2>3. CASE UNCHANGED <<waiting, stray>>
    BY <1>1, <1>7, <2>1, <2>2, <2>3
  <2>4. CASE Submit(KindOf(r))
    BY <1>2, <1>7, <2>1, <2>2, <2>4
  <2> QED
    BY <1>7, <2>3, <2>4
<1>8. ASSUME ServeText PROVE Kept
  <2>1. Serve("text") /\ dialog' = TRUE /\ UNCHANGED shell
        /\ (UNCHANGED <<waiting, stray>> \/ Submit("text"))
    BY <1>8 DEF ServeText
  <2> QED
    BY <1>7, <1>r, <1>t, <2>1
<1>9. ASSUME ServeMalformed PROVE Kept
  <2>1. Serve("malformed") /\ Submit("text") /\ UNCHANGED <<dialog, shell>>
    BY <1>9 DEF ServeMalformed
  <2> QED
    BY <1>7, <1>r, <1>t, <2>1
<1>10. ASSUME ServeMovie PROVE Kept
  <2>1. Serve("movie") /\ UNCHANGED <<dialog, shell>>
        /\ (UNCHANGED <<waiting, stray>> \/ Submit("movie"))
    BY <1>10 DEF ServeMovie, Finished
  <2> QED
    BY <1>7, <1>r, <1>t, <2>1
<1>11. ASSUME ServeUnplayable PROVE Kept
  <2>1. Serve("unplayable") /\ Submit("movie") /\ UNCHANGED <<dialog, shell>>
    BY <1>11 DEF ServeUnplayable
  <2> QED
    BY <1>7, <1>r, <1>t, <2>1
<1>12. ASSUME ServeNative PROVE Kept
  <2>1. /\ Serve("native") /\ UNCHANGED dialog /\ shell' \in {shell, shell + 1}
        /\ UNCHANGED <<waiting, stray>> \/ Submit("native")
    BY <1>12 DEF ServeNative
  <2>2. shell' \in Nat
    BY <1>t, <2>1
  <2> QED
    BY <1>7, <1>r, <1>t, <2>1, <2>2
<1>13. ASSUME UpdateMovie \/ PressSkips PROVE Kept
  <2>1. UNCHANGED <<left, posted, dialog, shell>>
    BY <1>13 DEF UpdateMovie, PressSkips
  <2>2. UNCHANGED <<waiting, stray>> \/ (movie.active /\ Submit("movie"))
    BY <1>13 DEF UpdateMovie, PressSkips, Finished
  <2>3. CASE UNCHANGED <<waiting, stray>>
    BY <1>1, <1>t, <2>1, <2>3
  <2>4. CASE movie.active /\ Submit("movie")
    <3>1. game /\ "movie" \notin left => waiting["movie"] = 1
      BY <1>k, <2>4, Awaited DEF Outstanding
    <3> QED
      BY <1>2, <1>k, <1>t, <2>1, <2>4, <3>1
  <2> QED
    BY <2>2, <2>3, <2>4
<1>14. ASSUME UserAnswers PROVE Kept
  <2>1. dialog /\ dialog' = FALSE /\ Submit("text") /\ UNCHANGED <<left, posted, shell>>
    BY <1>14 DEF UserAnswers, CloseDialog
  <2>2. game /\ "text" \notin left => waiting["text"] = 1
    BY <1>k, <2>1, Awaited DEF Outstanding
  <2> QED
    BY <1>2, <1>k, <1>t, <2>1, <2>2
<1>15. ASSUME ShellAnswers PROVE Kept
  <2>1. /\ shell > 0 /\ shell' = shell - 1 /\ Submit("native")
        /\ UNCHANGED <<left, posted, dialog>>
    BY <1>15 DEF ShellAnswers
  <2>2. game /\ "native" \notin left => waiting["native"] = 1
    BY <1>k, <2>1, Awaited DEF Outstanding
  <2>3. shell' \in Nat
    BY <1>t, <2>1
  <2> QED
    BY <1>2, <1>k, <1>t, <2>1, <2>2, <2>3
<1> QED
  BY <1>3, <1>4, <1>5, <1>6, <1>8, <1>9, <1>10, <1>11, <1>12, <1>13, <1>14, <1>15
  DEF PlayerNext, Ticking

\* While a game runs, a step keeps the order of the requests of a kind of which nothing was left.
LEMMA OnceKept ==
  ASSUME PlayerTyped, OnceEach, GameAlone, game, game', NEW k \in Kinds \ left, PlayerNext
  PROVE  Once(k)'
<1> USE DEF session
<1>t. /\ posted \in Seq(Requests) /\ waiting \in [Kinds -> {0, 1}] /\ shell \in Nat
      /\ k \in Kinds /\ k \in {"text", "movie", "native"}
  BY DEF PlayerTyped, Kinds
<1>o. Once(k)
  BY DEF OnceEach
<1>r. /\ Requests = {"text", "malformed", "movie", "unplayable", "native"}
      /\ KindOf("text") = "text" /\ KindOf("malformed") = "text" /\ KindOf("movie") = "movie"
      /\ KindOf("unplayable") = "movie" /\ KindOf("native") = "native"
  BY DEF Requests, KindOf
\* An answer leaves the other kinds alone.
<1>s. ASSUME NEW j, Submit(j), j # k PROVE waiting'[k] = waiting[k]
  BY <1>s, <1>t DEF Submit
<1>1. ASSUME UNCHANGED <<posted, waiting, dialog, shell>>, movie'.active <=> movie.active
      PROVE  Once(k)'
  BY <1>1, <1>o, <1>t, OtherKind DEF Outstanding
\* A request of this kind is served: it is answered, or somebody has it.
<1>2. ASSUME NEW r \in Requests, Serve(r), KindOf(r) = k,
             UNCHANGED waiting \/ ~(Outstanding(k)'), k = "native" => shell' \in {0, 1}
      PROVE  Once(k)'
  <2>1. /\ posted # <<>> /\ Head(posted) = r /\ posted' = Tail(posted) /\ waiting[k] = 1
    BY <1>2, HeadAwaited
  <2> QED
    BY <1>2, <1>o, <1>t, <2>1, ServedOnce
\* One of another kind is.
<1>3. ASSUME NEW r \in Requests, Serve(r), KindOf(r) # k,
             UNCHANGED <<waiting, stray>> \/ Submit(KindOf(r)), Outstanding(k)' <=> Outstanding(k),
             k = "native" => shell' = shell
      PROVE  Once(k)'
  <2>1. posted # <<>> /\ posted' = Tail(posted)
    BY <1>3, HeadAwaited
  <2>2. waiting'[k] = waiting[k]
    BY <1>3, <1>s
  <2> QED
    BY <1>3, <1>o, <1>t, <2>1, <2>2, OtherKind
<1>4. ASSUME SetFrameEnhancement \/ SetFrameNativeOutput \/ DeviceReady \/ UpdateFrameTexture
             \/ EndDrain \/ ShowMovie \/ ProcessVideo \/ ToggleVideo \/ AppPaused \/ AppResumed
             \/ CloseVideo \/ MediaDecodes \/ MediaEnds \/ InitializeEngine \/ BeginTick
             \/ OpenVideo
      PROVE  Once(k)'
  <2>1. UNCHANGED <<posted, waiting, dialog, shell, movie>>
    BY <1>4 DEF SetFrameEnhancement, SetFrameNativeOutput, DeviceReady, UpdateFrameTexture,
       EndDrain, ShowMovie, ProcessVideo, ToggleVideo, AppPaused, AppResumed, CloseVideo,
       MediaDecodes, MediaEnds, InitializeEngine, BeginTick, OpenVideo, engine
  <2> QED
    BY <1>1, <2>1
<1>5. ~DestroyEngine /\ ~OpenGame /\ ~GameFails
  BY DEF DestroyEngine, OpenGame, GameFails
<1>6. ASSUME RuntimeAsks PROVE Once(k)'
  <2>1. PICK r \in Requests : /\ waiting[KindOf(r)] = 0 /\ posted' = Append(posted, r)
                              /\ waiting' = [waiting EXCEPT ![KindOf(r)] = 1]
    BY <1>6 DEF RuntimeAsks
  <2>2. UNCHANGED <<dialog, shell, movie>>
    BY <1>6 DEF RuntimeAsks
  <2>3. Outstanding(k)' <=> Outstanding(k)
    BY <2>2 DEF Outstanding
  <2>4. CASE KindOf(r) = k
    BY <1>o, <1>t, <2>1, <2>2, <2>3, <2>4, AskedOnce
  <2>5. CASE KindOf(r) # k
    BY <1>o, <1>t, <2>1, <2>2, <2>3, <2>5, OtherKind
  <2> QED
    BY <2>4, <2>5
<1>7. ASSUME ServeText PROVE Once(k)'
  <2>1. /\ Serve("text") /\ dialog' = TRUE /\ UNCHANGED <<shell, movie>>
        /\ IF dialog THEN Submit("text") ELSE UNCHANGED <<waiting, stray>>
    BY <1>7 DEF ServeText
  <2>2. CASE k = "text"
    <3>1. ~dialog
      BY <1>r, <2>1, <2>2, HeadAwaited DEF Outstanding
    <3> QED
      BY <1>2, <1>r, <2>1, <2>2, <3>1
  <2>3. CASE k # "text"
    <3>1. Outstanding(k)' <=> Outstanding(k)
      BY <2>1, <2>3 DEF Outstanding
    <3> QED
      BY <1>3, <1>r, <2>1, <2>3, <3>1
  <2> QED
    BY <2>2, <2>3
<1>8. ASSUME ServeMalformed PROVE Once(k)'
  <2>1. Serve("malformed") /\ Submit("text") /\ UNCHANGED <<movie, dialog, shell>>
    BY <1>8 DEF ServeMalformed
  <2>2. Outstanding(k)' <=> Outstanding(k)
    BY <2>1 DEF Outstanding
  <2>3. CASE k = "text"
    <3>1. ~Outstanding(k)
      BY <1>r, <2>1, <2>3, HeadAwaited
    <3> QED
      BY <1>2, <1>r, <2>1, <2>2, <2>3, <3>1
  <2>4. CASE k # "text"
    BY <1>3, <1>r, <2>1, <2>2, <2>4
  <2> QED
    BY <2>3, <2>4
<1>9. ASSUME ServeMovie PROVE Once(k)'
  <2>1. /\ Serve("movie") /\ UNCHANGED <<dialog, shell>>
        /\ UNCHANGED <<waiting, stray>> \/ (movie' = NoMovie /\ Submit("movie"))
    BY <1>9 DEF ServeMovie, Finished
  <2>2. CASE k = "movie"
    <3>1. UNCHANGED waiting \/ ~(Outstanding(k)')
      BY <2>1, <2>2 DEF Outstanding, NoMovie
    <3> QED
      BY <1>2, <1>r, <2>1, <2>2, <3>1
  <2>3. CASE k # "movie"
    <3>1. Outstanding(k)' <=> Outstanding(k)
      BY <2>1, <2>3 DEF Outstanding
    <3> QED
      BY <1>3, <1>r, <2>1, <2>3, <3>1
  <2> QED
    BY <2>2, <2>3
<1>10. ASSUME ServeUnplayable PROVE Once(k)'
  <2>1. Serve("unplayable") /\ Submit("movie") /\ UNCHANGED <<movie, dialog, shell>>
    BY <1>10 DEF ServeUnplayable
  <2>2. Outstanding(k)' <=> Outstanding(k)
    BY <2>1 DEF Outstanding
  <2>3. CASE k = "movie"
    <3>1. ~Outstanding(k)
      BY <1>r, <2>1, <2>3, HeadAwaited
    <3> QED
      BY <1>2, <1>r, <2>1, <2>2, <2>3, <3>1
  <2>4. CASE k # "movie"
    BY <1>3, <1>r, <2>1, <2>2, <2>4
  <2> QED
    BY <2>3, <2>4
<1>11. ASSUME ServeNative PROVE Once(k)'
  <2>1. /\ Serve("native") /\ UNCHANGED <<movie, dialog>>
        /\ \/ shell' = shell + 1 /\ UNCHANGED <<waiting, stray>>
           \/ Submit("native") /\ UNCHANGED shell
    BY <1>11 DEF ServeNative
  <2>2. CASE k = "native"
    <3>1. shell = 0
      <4>1. ~Outstanding(k)
        BY <1>r, <2>1, <2>2, HeadAwaited
      <4> QED
        BY <1>t, <2>2, <4>1 DEF Outstanding
    <3>2. shell' \in {0, 1} /\ (UNCHANGED waiting \/ ~(Outstanding(k)'))
      BY <2>1, <2>2, <3>1 DEF Outstanding
    <3> QED
      BY <1>2, <1>r, <2>1, <2>2, <3>2
  <2>3. CASE k # "native"
    <3>1. Outstanding(k)' <=> Outstanding(k)
      BY <2>1, <2>3 DEF Outstanding
    <3> QED
      BY <1>3, <1>r, <2>1, <2>3, <3>1
  <2> QED
    BY <2>2, <2>3
<1>12. ASSUME UpdateMovie \/ PressSkips PROVE Once(k)'
  <2>1. UNCHANGED <<posted, dialog, shell>>
    BY <1>12 DEF UpdateMovie, PressSkips
  <2>2. \/ UNCHANGED <<movie, waiting, stray>>
        \/ movie.active /\ movie' = NoMovie /\ Submit("movie")
    BY <1>12 DEF UpdateMovie, PressSkips, Finished
  <2>3. CASE UNCHANGED <<movie, waiting, stray>>
    BY <1>1, <2>1, <2>3
  <2>4. CASE movie.active /\ movie' = NoMovie /\ Submit("movie")
    <3>1. CASE k = "movie"
      <4>1. Outstanding(k) /\ ~(Outstanding(k)')
        BY <2>4, <3>1 DEF Outstanding, NoMovie
      <4> QED
        BY <1>o, <1>t, <2>1, <3>1, <4>1, AnsweredOnce
    <3>2. CASE k # "movie"
      <4>1. (Outstanding(k)' <=> Outstanding(k)) /\ waiting'[k] = waiting[k]
        BY <1>s, <2>1, <2>4, <3>2 DEF Outstanding
      <4> QED
        BY <1>o, <1>t, <2>1, <4>1, OtherKind
    <3> QED
      BY <3>1, <3>2
  <2> QED
    BY <2>2, <2>3, <2>4
<1>13. ASSUME UserAnswers PROVE Once(k)'
  <2>1. dialog /\ dialog' = FALSE /\ Submit("text") /\ UNCHANGED <<posted, movie, shell>>
    BY <1>13 DEF UserAnswers, CloseDialog
  <2>2. CASE k = "text"
    <3>1. Outstanding(k) /\ ~(Outstanding(k)')
      BY <2>1, <2>2 DEF Outstanding
    <3> QED
      BY <1>o, <1>t, <2>1, <2>2, <3>1, AnsweredOnce
  <2>3. CASE k # "text"
    <3>1. (Outstanding(k)' <=> Outstanding(k)) /\ waiting'[k] = waiting[k]
      BY <1>s, <2>1, <2>3 DEF Outstanding
    <3> QED
      BY <1>o, <1>t, <2>1, <3>1, OtherKind
  <2> QED
    BY <2>2, <2>3
<1>14. ASSUME ShellAnswers PROVE Once(k)'
  <2>1. /\ shell > 0 /\ shell' = shell - 1 /\ Submit("native")
        /\ UNCHANGED <<posted, movie, dialog>>
    BY <1>14 DEF ShellAnswers
  <2>2. CASE k = "native"
    <3>1. shell' = 0
      BY <1>o, <1>t, <2>1, <2>2 DEF Once
    <3>2. Outstanding(k) /\ ~(Outstanding(k)')
      BY <2>1, <2>2, <3>1 DEF Outstanding
    <3> QED
      BY <1>o, <1>t, <2>1, <3>1, <3>2, AnsweredOnce
  <2>3. CASE k # "native"
    <3>1. (Outstanding(k)' <=> Outstanding(k)) /\ waiting'[k] = waiting[k]
      BY <1>s, <2>1, <2>3 DEF Outstanding
    <3> QED
      BY <1>o, <1>t, <2>1, <2>3, <3>1, OtherKind
  <2> QED
    BY <2>2, <2>3
<1> QED
  BY <1>4, <1>5, <1>6, <1>7, <1>8, <1>9, <1>10, <1>11, <1>12, <1>13, <1>14
  DEF PlayerNext, Ticking

\* The requests of every kind of which nothing was left stay in order, from game to game.
LEMMA OrderKept ==
  ASSUME PlayerTyped, OnceEach, GameAlone, PlayerNext
  PROVE  OnceEach'
<1> SUFFICES ASSUME game', NEW k \in Kinds \ left' PROVE Once(k)'
  BY DEF OnceEach
<1>1. CASE OpenGame
  <2>1. left' = StillOpen /\ UNCHANGED <<posted, dialog, movie, shell>>
    BY <1>1 DEF OpenGame
  <2>2. ~Outstanding(k) /\ \A i \in DOMAIN posted : KindOf(posted[i]) # k
    BY <2>1 DEF StillOpen
  <2>3. ~(Outstanding(k)') /\ (k = "native" => shell = 0)
    BY <2>1, <2>2 DEF Outstanding, PlayerTyped
  <2> QED
    BY <2>1, <2>2, <2>3 DEF Once
<1>2. CASE ~OpenGame
  <2>1. game /\ left' = left
    BY <1>2 DEF PlayerNext, SetFrameEnhancement, SetFrameNativeOutput, DeviceReady,
       UpdateFrameTexture, InitializeEngine, DestroyEngine, GameFails, RuntimeAsks, Ticking,
       BeginTick, ServeText, ServeMalformed, ServeMovie, ServeUnplayable, ServeNative, EndDrain,
       UpdateMovie, Serve, ShowMovie, OpenVideo, ProcessVideo, ToggleVideo, AppPaused,
       AppResumed, CloseVideo, MediaDecodes, MediaEnds, PressSkips, UserAnswers, ShellAnswers,
       engine, session
  <2> QED
    BY <2>1, OnceKept
<1> QED
  BY <1>1, <1>2

\* Every step keeps the invariant.
LEMMA PlayerStep == PlayerInv /\ [PlayerNext]_playerVars => PlayerInv'
<1> SUFFICES ASSUME PlayerInv, [PlayerNext]_playerVars PROVE PlayerInv'
  OBVIOUS
<1>1. ASSUME PlayerNext PROVE PlayerInv'
  <2>1. /\ PlayerTyped /\ OnceEach /\ GameAlone /\ AnswersExpected
        /\ MovieHasMedia /\ BelievedRaw /\ VideoKept
    BY DEF PlayerInv
  <2>2. PlayerTyped'
    <3>1. OptionTyped
      BY <2>1 DEF PlayerTyped
    <3> QED
      BY <1>1, <2>1, <3>1, OptionKept, FilmKept, GamesKept, AnswersTold DEF PlayerTyped
  <2> QED
    BY <1>1, <2>1, <2>2, OptionKept, FilmKept, GamesKept, AnswersTold, OrderKept
    DEF PlayerInv, PlayerTyped
<1>2. CASE UNCHANGED playerVars
  BY <1>2 DEF playerVars, session, film, watching, settings, PlayerInv, PlayerTyped, OptionTyped,
     OnceEach, Once, Outstanding, GameAlone, AnswersExpected, MovieHasMedia, BelievedRaw, VideoKept
<1> QED
  BY <1>1, <1>2

\* The invariant of the player.
LEMMA PlayerInvariant == PlayerSpec => []PlayerInv
BY PlayerInitial, PlayerStep, PTL DEF PlayerSpec

\* drain_platform_requests, update_runtime_movie, send_pointer_event, the text dialog and the
\* shell's handlers: a game gets no answer it does not wait for, but of a kind of which something
\* was open when it was opened, whatever the order of ticks, presses, answers, failures and
\* games that are closed at any moment.
THEOREM AnswersAreExpected == PlayerSpec => []AnswersExpected
<1>1. PlayerInv => AnswersExpected
  BY DEF PlayerInv
<1> QED
  BY <1>1, PlayerInvariant, PTL

\* What the player believes of its engine's output option, of its movie (unless an earlier game
\* left it) and of the video on the screen is so, however many engines, games, refused options,
\* pictures and videos there are.
THEOREM BeliefsAreTrue == PlayerSpec => []BeliefsHold
<1>1. PlayerInv => BeliefsHold
  BY DEF PlayerInv, BeliefsHold, VideoShown, VideoKept
<1> QED
  BY <1>1, PlayerInvariant, PTL

\* sync_frame_effect_source_mode and initialize_engine: the player never believes that the
\* engine publishes its raw source when it does not, however games are closed.
THEOREM OptionIsBelieved == PlayerSpec => []BelievedRaw
<1>1. PlayerInit => OptionTyped /\ BelievedRaw
  <2>1. [enabled |-> FALSE, bypass |-> FALSE] \in Effects
    BY DEF Effects
  <2> SUFFICES ASSUME PlayerInit PROVE OptionTyped /\ BelievedRaw
    OBVIOUS
  <2>2. effect \in Effects /\ fails \in Nat /\ toggles \in Nat /\ native \in BOOLEAN
    BY <2>1 DEF PlayerInit
  <2>3. ready \in BOOLEAN /\ raw = FALSE /\ output = "surface"
    BY DEF PlayerInit
  <2> QED
    BY <2>2, <2>3 DEF OptionTyped, BelievedRaw
<1>2. OptionTyped /\ BelievedRaw /\ [PlayerNext]_playerVars => (OptionTyped /\ BelievedRaw)'
  <2>1. CASE PlayerNext
    BY <2>1, OptionKept
  <2>2. CASE UNCHANGED playerVars
    BY <2>2 DEF playerVars, session, settings, OptionTyped, BelievedRaw
  <2> QED
    BY <2>1, <2>2
<1> QED
  BY <1>1, <1>2, PTL DEF PlayerSpec

=============================================================================
