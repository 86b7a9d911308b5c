----------------------------- MODULE SessionProofs -----------------------------
(***************************************************************************)
(* Proofs about a handle and its runtime provider.  ProviderSession, for   *)
(* every set of providers, priorities, options, values and sizes: the best *)
(* provider is selected, settings reach the runtime, a runtime that the    *)
(* host has paused stays paused, and none is resumed against an inactive   *)
(* audio session.  RuntimeReports, for lines of any length, any size of    *)
(* the buffer and any capacity: what the runtime reports reaches the shell *)
(* once and in order.                                                      *)
(***************************************************************************)
EXTENDS ProviderSession, RuntimeReports, SequenceTheorems, WellFoundedInduction, TLAPS

-----------------------------------------------------------------------------
(* Pause and resume. *)

\* A resume waits for the audio session only while the host wants its runtime to
\* run: this is what lets a tick complete it without asking the host again.
HeldOnlyIfWanted == hostPaused => ~ resumePending

PauseInv == PausedStaysPaused /\ HeldOnlyIfWanted

\* No opening, pause, resume or tick breaks the invariant of the pause.
LEMMA PauseStep == ASSUME PauseInv, [Next]_vars PROVE PauseInv'
<1> USE DEF PauseInv, PausedStaysPaused, HeldOnlyIfWanted
<1>1. CASE UNCHANGED <<resumePending, paused, hostPaused>>
  BY <1>1
<1>2. CASE Pause
  BY <1>2 DEF Pause
<1>3. CASE Resume
  BY <1>3 DEF Resume
<1>4. CASE TickResumes
  \* Only a host that wants its runtime to run has a resume to complete.
  <2>1. ~ hostPaused /\ hostPaused' = hostPaused
    BY <1>4 DEF TickResumes, past
  <2> QED BY <2>1
<1>5. ASSUME NEW p \in Providers, Register(p) PROVE PauseInv'
  BY <1>1, <1>5 DEF Register, handle, inner, past
<1>6. ASSUME NEW id, SetRuntime(id) PROVE PauseInv'
  BY <1>1, <1>6 DEF SetRuntime, inner, past
<1>7. ASSUME NEW o \in Options, NEW v \in Values, SetOption(o, v) PROVE PauseInv'
  BY <1>1, <1>7 DEF SetOption, past
<1>8. ASSUME NEW s \in Sizes, SetSurface(s) PROVE PauseInv'
  BY <1>1, <1>8 DEF SetSurface, past
<1>9. CASE OpenLegacy \/ CreateFails
  BY <1>1, <1>9 DEF OpenLegacy, CreateFails, inner, past
<1>10. CASE OpenFirst \/ OpenAgain
  BY <1>1, <1>10 DEF OpenFirst, OpenAgain, handle, past
<1>11. CASE AudioChanges
  BY <1>1, <1>11 DEF AudioChanges, handle, inner, past
<1>12. CASE UNCHANGED vars
  BY <1>1, <1>12 DEF vars, handle, inner, past
<1> QED
  BY <1>2, <1>3, <1>4, <1>5, <1>6, <1>7, <1>8, <1>9, <1>10, <1>11, <1>12 DEF Next

\* A runtime that the host has paused stays paused, whatever the audio session does
\* and however many ticks follow: a pause forgets the resume that was held.
THEOREM StaysPaused == Spec => []PausedStaysPaused
<1>1. Init => PauseInv
  BY DEF Init, PauseInv, PausedStaysPaused, HeldOnlyIfWanted
<1>2. PauseInv /\ [Next]_vars => PauseInv'
  BY PauseStep
<1>3. PauseInv => PausedStaysPaused
  BY DEF PauseInv
<1> QED BY <1>1, <1>2, <1>3, PTL DEF Spec

\* Neither a resume nor a tick takes a runtime out of its pause while the audio
\* session is inactive.
THEOREM ResumedOnlyActive == Spec => ResumesOnlyActive
<1>1. [Next]_vars => [paused /\ ~ paused' => audioActive]_vars
  <2> SUFFICES ASSUME [Next]_vars, paused, ~ paused' PROVE audioActive
    OBVIOUS
  <2>1. CASE Resume \/ TickResumes
    BY <2>1 DEF Resume, TickResumes, RuntimeResumes
  <2>2. CASE Pause
    BY <2>2 DEF Pause
  <2>3. CASE UNCHANGED paused
    BY <2>3
  <2>4. ASSUME NEW p \in Providers, Register(p) PROVE UNCHANGED paused
    BY <2>4 DEF Register, inner
  <2>5. ASSUME NEW id, SetRuntime(id) PROVE UNCHANGED paused
    BY <2>5 DEF SetRuntime, inner
  <2>6. ASSUME NEW o \in Options, NEW v \in Values, SetOption(o, v) PROVE UNCHANGED paused
    BY <2>6 DEF SetOption
  <2>7. ASSUME NEW s \in Sizes, SetSurface(s) PROVE UNCHANGED paused
    BY <2>7 DEF SetSurface
  <2>8. ASSUME OpenLegacy \/ CreateFails \/ OpenFirst \/ OpenAgain \/ AudioChanges
        PROVE  UNCHANGED paused
    BY <2>8 DEF OpenLegacy, CreateFails, OpenFirst, OpenAgain, AudioChanges, inner
  <2>9. CASE UNCHANGED vars
    BY <2>9, <2>3 DEF vars, inner
  <2> QED BY <2>1, <2>2, <2>3, <2>4, <2>5, <2>6, <2>7, <2>8, <2>9 DEF Next
<1> QED BY <1>1, PTL DEF Spec, ResumesOnlyActive

-----------------------------------------------------------------------------
(* Settings. *)

\* What the settings rest on: options are recorded by key, and a runtime exists from
\* the selection of a provider on.
SettingsTyped ==
  /\ options \in [Options -> Values \cup {None}]
  /\ given \in [Options -> Values \cup {None}]
  /\ (runtime # "none") <=> (backend = "provider")

SettingsInv == SettingsTyped /\ SettingsReachRuntime

\* Replaying the recorded options gives the runtime all of them.
LEMMA ReplayGivesAll ==
  ASSUME options \in [Options -> Values \cup {None}], Give(Recorded)
  PROVE  given' = options
BY DEF Give, Recorded

\* A replay of any of the options leaves each given its value or nothing.
LEMMA GiveTyped ==
  ASSUME options \in [Options -> Values \cup {None}], NEW keys, Give(keys)
  PROVE  given' \in [Options -> Values \cup {None}]
BY DEF Give

\* No setting, opening or replay breaks the invariant of the settings.
LEMMA SettingsStep == ASSUME SettingsInv, [Next]_vars PROVE SettingsInv'
<1> USE DEF SettingsInv, SettingsTyped, SettingsReachRuntime
<1>1. CASE UNCHANGED <<backend, options, surface, runtime, given, rtSurface, replayStopped>>
  BY <1>1
<1>2. ASSUME NEW o \in Options, NEW v \in Values, SetOption(o, v) PROVE SettingsInv'
  <2>1. UNCHANGED <<backend, surface, runtime, rtSurface, replayStopped>>
    BY <1>2 DEF SetOption, past
  <2>2. CASE backend = "provider"
    BY <1>2, <2>1, <2>2 DEF SetOption
  <2>3. CASE backend # "provider"
    BY <1>2, <2>1, <2>3 DEF SetOption
  <2> QED BY <2>2, <2>3
<1>3. ASSUME NEW s \in Sizes, SetSurface(s) PROVE SettingsInv'
  BY <1>3 DEF SetSurface, past
<1>4. CASE OpenFirst
  <2>1. backend' = "provider" /\ runtime' # "none" /\ UNCHANGED <<options, surface>>
    BY <1>4 DEF OpenFirst, Outcome
  <2>2. CASE ReplayDone
    <3>1. given' = options /\ rtSurface' = surface
      BY <2>2, ReplayGivesAll DEF ReplayDone
    <3> QED BY <2>1, <3>1
  <2>3. CASE ReplayStops
    <3>1. replayStopped' = TRUE
      BY <2>3 DEF ReplayStops
    <3>2. given' \in [Options -> Values \cup {None}]
      BY <2>3, GiveTyped DEF ReplayStops
    <3> QED BY <2>1, <3>1, <3>2
  <2> QED BY <1>4, <2>2, <2>3 DEF OpenFirst
<1>5. CASE OpenAgain
  BY <1>5 DEF OpenAgain, Outcome, handle, past
<1>6. CASE OpenLegacy
  BY <1>6 DEF OpenLegacy, inner, past
<1>7. ASSUME NEW p \in Providers, Register(p) PROVE SettingsInv'
  BY <1>1, <1>7 DEF Register, handle, inner, past
<1>8. ASSUME NEW id, SetRuntime(id) PROVE SettingsInv'
  BY <1>1, <1>8 DEF SetRuntime, inner, past
<1>9. CASE CreateFails
  BY <1>1, <1>9 DEF CreateFails, inner, past
<1>10. CASE Pause \/ Resume \/ TickResumes
  BY <1>1, <1>10 DEF Pause, Resume, TickResumes, past
<1>11. CASE AudioChanges
  BY <1>1, <1>11 DEF AudioChanges, handle, inner, past
<1>12. CASE UNCHANGED vars
  BY <1>1, <1>12 DEF vars, handle, inner, past
<1> QED
  BY <1>2, <1>3, <1>4, <1>5, <1>6, <1>7, <1>8, <1>9, <1>10, <1>11, <1>12 DEF Next

\* Options and surface sizes set before the selection of a provider or after it all
\* reach its runtime, as long as the replay of SelectBackendLocked is not cut short.
THEOREM SettingsReach == Spec => []SettingsReachRuntime
<1>1. Init => SettingsInv
  BY DEF Init, Nothing, SettingsInv, SettingsTyped, SettingsReachRuntime
<1>2. SettingsInv /\ [Next]_vars => SettingsInv'
  BY SettingsStep
<1>3. SettingsInv => SettingsReachRuntime
  BY DEF SettingsInv
<1> QED BY <1>1, <1>2, <1>3, PTL DEF Spec

-----------------------------------------------------------------------------
(* The selection. *)

\* A provider is registered once.
RegisteredOnce ==
  /\ registry \in Seq(Providers)
  /\ \A i, j \in DOMAIN registry : registry[i] = registry[j] => i = j

\* A registration appends an id that is not there yet; nothing else changes the
\* registry.
LEMMA RegistryStep == ASSUME RegisteredOnce, [Next]_vars PROVE RegisteredOnce'
<1> USE DEF RegisteredOnce
<1>1. CASE UNCHANGED registry
  BY <1>1
<1>2. ASSUME NEW p \in Providers, Register(p) PROVE RegisteredOnce'
  <2> DEFINE r == Append(registry, p)
  <2>1. /\ r \in Seq(Providers) /\ DOMAIN registry = 1..Len(registry)
        /\ DOMAIN r = 1..(Len(registry) + 1) /\ Len(registry) \in Nat
        /\ r[Len(registry) + 1] = p /\ \A i \in 1..Len(registry) : r[i] = registry[i]
    OBVIOUS
  <2>2. \A i \in 1..Len(registry) : registry[i] # p
    BY <1>2, <2>1 DEF Register, ToSet
  <2>3. registry' = r
    BY <1>2 DEF Register
  <2> HIDE DEF r
  <2>4. \A i, j \in DOMAIN r : r[i] = r[j] => i = j
    <3> SUFFICES ASSUME NEW i \in DOMAIN r, NEW j \in DOMAIN r, r[i] = r[j] PROVE i = j
      OBVIOUS
    <3>1. i \in 1..Len(registry) \/ i = Len(registry) + 1
      BY <2>1
    <3>2. j \in 1..Len(registry) \/ j = Len(registry) + 1
      BY <2>1
    <3> QED
      BY <2>1, <2>2, <3>1, <3>2
  <2> QED
    BY <2>1, <2>3, <2>4
<1>3. ASSUME NEW id, SetRuntime(id) PROVE UNCHANGED registry
  BY <1>3 DEF SetRuntime
<1>4. ASSUME NEW o \in Options, NEW v \in Values, SetOption(o, v) PROVE UNCHANGED registry
  BY <1>4 DEF SetOption
<1>5. ASSUME NEW s \in Sizes, SetSurface(s) PROVE UNCHANGED registry
  BY <1>5 DEF SetSurface
<1>6. ASSUME \/ OpenLegacy \/ CreateFails \/ OpenFirst \/ OpenAgain
             \/ Pause \/ Resume \/ TickResumes \/ AudioChanges \/ UNCHANGED vars
      PROVE  UNCHANGED registry
  BY <1>6 DEF OpenLegacy, CreateFails, OpenFirst, OpenAgain, Pause, Resume, TickResumes,
              AudioChanges, vars
<1> QED
  BY <1>1, <1>2, <1>3, <1>4, <1>5, <1>6 DEF Next

\* A set of natural numbers that is not empty has a least element.
LEMMA LeastNumber ==
  ASSUME NEW T, T \subseteq Nat, T # {}
  PROVE  \E n \in T : \A m \in T : n <= m
<1> DEFINE R == OpToRel(<, Nat)
<1>1. IsWellFoundedOn(R, Nat)
  BY NatLessThanWellFounded
<1>2. \A x, y \in Nat : y < x => <<y, x>> \in R
  BY DEF OpToRel
<1> HIDE DEF R
<1>3. PICK x \in T : \A y \in T : ~ (<<y, x>> \in R)
  BY <1>1, WFMin
<1>4. \A y \in T : ~ (y < x)
  BY <1>2, <1>3
<1> QED
  BY <1>3, <1>4

\* What the loop knows after n candidates, as a function of n that its turns define.
Turns(b, n, s) ==
  b = [k \in 0..n |-> IF k = 0 THEN None ELSE Better(b[k - 1], registry[k], s)]

\* The loop over the registry runs to its end.
LEMMA LoopRuns ==
  ASSUME RegisteredOnce, NEW s
  PROVE  \A n \in 0..Len(registry) : \E b : Turns(b, n, s)
<1> DEFINE Bad == {n \in 0..Len(registry) : ~ \E b : Turns(b, n, s)}
<1> SUFFICES ASSUME Bad # {} PROVE FALSE
  OBVIOUS
<1>1. Len(registry) \in Nat /\ Bad \subseteq Nat
  BY DEF RegisteredOnce
<1>2. PICK n \in Bad : \A m \in Bad : n <= m
  BY <1>1, LeastNumber
<1>3. n \in 0..Len(registry) /\ ~ \E b : Turns(b, n, s)
  OBVIOUS
<1>4. CASE n = 0
  <2> DEFINE b == [k \in 0..0 |-> None]
  <2>1. Turns(b, 0, s)
    BY DEF Turns
  <2> QED
    BY <1>3, <1>4, <2>1
<1>5. CASE n # 0
  <2>1. n - 1 \in 0..Len(registry) /\ n - 1 < n /\ n \in Nat
    BY <1>1, <1>3, <1>5
  <2>2. n - 1 \notin Bad
    BY <1>2, <2>1
  <2>3. PICK b : Turns(b, n - 1, s)
    BY <2>1, <2>2
  <2> HIDE DEF Bad
  <2> DEFINE step(k) == IF k = 0 THEN None ELSE Better(b[k - 1], registry[k], s)
             c == [k \in 0..n |-> step(k)]
  <2>4. \A k \in 0..(n - 1) : b[k] = step(k)
    BY <2>3 DEF Turns
  <2>5. \A k \in 0..(n - 1) : c[k] = b[k]
    BY <2>1, <2>4
  <2>6. \A k \in 0..n : k # 0 => k - 1 \in 0..(n - 1)
    BY <2>1
  <2>7. \A k \in 0..n : c[k] = IF k = 0 THEN None ELSE Better(c[k - 1], registry[k], s)
    BY <2>5, <2>6
  <2>8. c = [k \in 0..n |-> c[k]]
    OBVIOUS
  <2> HIDE DEF c
  <2>9. Turns(c, n, s)
    BY <2>7, <2>8 DEF Turns
  <2> QED
    BY <1>3, <2>9
<1> QED
  BY <1>4, <1>5

\* Of two registered candidates, the one of position i precedes the one of position j.
Ahead(i, j, s) ==
  LET p == registry[i]
      q == registry[j]
  IN \/ s[p] > s[q]
     \/ s[p] = s[q] /\ Priority[p] > Priority[q]
     \/ s[p] = s[q] /\ Priority[p] = Priority[q] /\ i < j

\* The positions up to n of the providers that claim the game.
Claims(n, s) == {i \in 1..n : s[registry[i]] > 0}

\* b is the provider that precedes all others that claim the game, up to position n.
BestOf(b, n, s) ==
  \/ Claims(n, s) = {} /\ b = None
  \/ \E i \in Claims(n, s) :
       b = registry[i] /\ \A j \in Claims(n, s) \ {i} : Ahead(i, j, s)

\* One turn of the loop keeps the best of the candidates so far.
LEMMA TurnKeepsBest ==
  ASSUME RegisteredOnce, NEW s \in [Providers -> Scores], NEW n \in 1..Len(registry),
         NEW b, BestOf(b, n - 1, s)
  PROVE  BestOf(Better(b, registry[n], s), n, s)
<1> DEFINE p == registry[n]
           better == Better(b, p, s)
<1>1. /\ Len(registry) \in Nat /\ n \in Nat
      /\ \A i \in 1..n : /\ registry[i] \in Providers /\ s[registry[i]] \in Int
                         /\ Priority[registry[i]] \in Int
  <2>1. Len(registry) \in Nat /\ \A i \in 1..Len(registry) : registry[i] \in Providers
    BY DEF RegisteredOnce
  <2>2. \A q \in Providers : s[q] \in Int /\ Priority[q] \in Int
    BY ProviderAssumption
  <2>3. n \in Nat /\ \A i \in 1..n : i \in 1..Len(registry)
    BY <2>1
  <2> QED
    BY <2>1, <2>2, <2>3
<1>2. \A i \in Claims(n - 1, s) : i \in 1..n /\ i < n
  BY <1>1 DEF Claims
<1>3. Claims(n, s) = Claims(n - 1, s) \cup {i \in {n} : s[p] > 0}
  BY <1>1 DEF Claims
<1>4. CASE ~ (s[p] > 0)
  <2>1. Claims(n, s) = Claims(n - 1, s)
    BY <1>3, <1>4
  <2>2. better = b
    BY <1>4 DEF Better
  <2> HIDE DEF better
  <2> QED
    BY <2>1, <2>2 DEF BestOf, better
<1>5. CASE s[p] > 0
  <2>1. Claims(n, s) = Claims(n - 1, s) \cup {n}
    BY <1>3, <1>5
  <2>2. CASE Claims(n - 1, s) = {} /\ b = None
    <3>1. better = registry[n]
      BY <1>5, <2>2 DEF Better
    <3>2. n \in Claims(n, s) /\ Claims(n, s) \ {n} = {}
      BY <2>1, <2>2
    <3> HIDE DEF better
    <3> QED
      BY <3>1, <3>2 DEF BestOf, better
  <2>3. ASSUME NEW i \in Claims(n - 1, s), b = registry[i],
               \A j \in Claims(n - 1, s) \ {i} : Ahead(i, j, s)
        PROVE  BestOf(better, n, s)
    <3>1. i \in 1..n /\ i < n /\ b # None /\ i \in Claims(n, s)
      BY <1>1, <1>2, <2>1, <2>3, NoneAssumption
    <3>2. CASE Beats(p, b, s)
      <4>1. better = registry[n]
        BY <1>5, <3>2 DEF Better
      <4>2. ASSUME NEW j \in Claims(n, s) \ {n} PROVE Ahead(n, j, s)
        <5>1. j \in Claims(n - 1, s) /\ j \in 1..n
          BY <1>2, <2>1
        <5>2. j = i \/ Ahead(i, j, s)
          BY <2>3, <5>1
        <5> QED
          BY <1>1, <2>3, <3>1, <3>2, <5>1, <5>2 DEF Beats, Ahead
      <4>3. n \in Claims(n, s)
        BY <2>1
      <4> HIDE DEF better
      <4> QED
        BY <4>1, <4>2, <4>3 DEF BestOf
    <3>3. CASE ~ Beats(p, b, s)
      <4>1. better = registry[i]
        BY <2>3, <3>1, <3>3 DEF Better
      <4>2. ASSUME NEW j \in Claims(n, s) \ {i} PROVE Ahead(i, j, s)
        <5>1. CASE j = n
          BY <1>1, <2>3, <3>1, <3>3, <5>1 DEF Beats, Ahead
        <5>2. CASE j # n
          BY <2>1, <2>3, <5>2
        <5> QED
          BY <5>1, <5>2
      <4> HIDE DEF better
      <4> QED
        BY <3>1, <4>1, <4>2 DEF BestOf
    <3> QED
      BY <3>2, <3>3
  <2> QED
    BY <2>2, <2>3 DEF BestOf
<1> QED
  BY <1>4, <1>5

\* The loop ends with the best of all candidates.
LEMMA SelectedIsBest ==
  ASSUME RegisteredOnce, NEW s \in [Providers -> Scores]
  PROVE  BestOf(Selected(s), Len(registry), s)
<1> DEFINE best == CHOOSE b : b = [n \in 0..Len(registry) |->
                     IF n = 0 THEN None ELSE Better(b[n - 1], registry[n], s)]
           turn(n) == IF n = 0 THEN None ELSE Better(best[n - 1], registry[n], s)
<1>1. Selected(s) = best[Len(registry)]
  BY DEF Selected
<1>2. Len(registry) \in Nat
  BY DEF RegisteredOnce
<1>3. \E b : b = [n \in 0..Len(registry) |->
                   IF n = 0 THEN None ELSE Better(b[n - 1], registry[n], s)]
  <2>1. Len(registry) \in 0..Len(registry)
    BY <1>2
  <2>2. \E b : Turns(b, Len(registry), s)
    BY <2>1, LoopRuns
  <2> QED
    BY <2>2 DEF Turns
<1>4. best = [n \in 0..Len(registry) |-> turn(n)]
  BY <1>3
<1> HIDE DEF best
<1>5. \A n \in 0..Len(registry) : best[n] = turn(n)
  BY <1>4
<1> DEFINE Bad == {n \in 0..Len(registry) : ~ BestOf(best[n], n, s)}
<1>6. ASSUME Bad # {} PROVE FALSE
  <2>1. Bad \subseteq Nat
    BY <1>2
  <2>2. PICK n \in Bad : \A m \in Bad : n <= m
    BY <1>6, <2>1, LeastNumber
  <2>3. n \in 0..Len(registry) /\ ~ BestOf(best[n], n, s)
    OBVIOUS
  <2>4. CASE n = 0
    <3>1. Claims(0, s) = {} /\ best[0] = None
      BY <1>2, <1>5 DEF Claims
    <3> QED
      BY <2>3, <2>4, <3>1 DEF BestOf
  <2>5. CASE n # 0
    <3>1. n \in 1..Len(registry) /\ n - 1 \in 0..Len(registry) /\ n - 1 < n
      BY <1>2, <2>3, <2>5
    <3>2. n - 1 \notin Bad
      BY <2>2, <3>1
    <3>3. BestOf(best[n - 1], n - 1, s)
      BY <3>1, <3>2
    <3> HIDE DEF Bad
    <3>4. BestOf(Better(best[n - 1], registry[n], s), n, s)
      BY <3>1, <3>3, TurnKeepsBest
    <3>5. best[n] = Better(best[n - 1], registry[n], s)
      BY <1>5, <2>3, <2>5
    <3> QED
      BY <2>3, <3>4, <3>5
  <2> QED
    BY <2>4, <2>5
<1>7. Len(registry) \in 0..Len(registry)
  BY <1>2
<1> QED
  BY <1>1, <1>6, <1>7

\* For any number of providers and whatever their priorities and scores, the loop of
\* SelectBackendLocked selects, of those that claim the game, the one of the highest
\* score, then priority, then earliest registration.
THEOREM BestIsSelected == Spec => []SelectionIsBest
<1>1. Init => RegisteredOnce
  BY DEF Init, RegisteredOnce
<1>2. RegisteredOnce /\ [Next]_vars => RegisteredOnce'
  BY RegistryStep
<1>3. RegisteredOnce => SelectionIsBest
  <2> SUFFICES ASSUME RegisteredOnce PROVE SelectionIsBest
    OBVIOUS
  <2> DEFINE order(p) == CHOOSE i \in DOMAIN registry : registry[i] = p
             precedes(p, q, s) ==
               \/ s[p] > s[q]
               \/ s[p] = s[q] /\ Priority[p] > Priority[q]
               \/ s[p] = s[q] /\ Priority[p] = Priority[q] /\ order(p) < order(q)
  <2>1. \A i \in DOMAIN registry : order(registry[i]) = i
    BY DEF RegisteredOnce
  <2> HIDE DEF order
  <2>2. /\ DOMAIN registry = 1..Len(registry)
        /\ ToSet(registry) = {registry[i] : i \in 1..Len(registry)}
    BY DEF RegisteredOnce, ToSet
  <2>3. ASSUME NEW s \in [Providers -> Scores]
        PROVE  LET claiming == {p \in ToSet(registry) : s[p] > 0} IN
               IF claiming = {} THEN Selected(s) = None
               ELSE /\ Selected(s) \in claiming
                    /\ \A q \in claiming \ {Selected(s)} : precedes(Selected(s), q, s)
    <3> DEFINE n == Len(registry)
               claiming == {p \in ToSet(registry) : s[p] > 0}
    <3>1. claiming = {registry[i] : i \in Claims(n, s)}
      BY <2>2 DEF Claims
    <3>2. BestOf(Selected(s), n, s)
      BY SelectedIsBest
    <3> HIDE DEF claiming
    <3>3. CASE Claims(n, s) = {} /\ Selected(s) = None
      BY <3>1, <3>3 DEF claiming
    <3>4. ASSUME NEW i \in Claims(n, s), Selected(s) = registry[i],
                 \A j \in Claims(n, s) \ {i} : Ahead(i, j, s)
          PROVE  /\ claiming # {} /\ Selected(s) \in claiming
                 /\ \A q \in claiming \ {Selected(s)} : precedes(Selected(s), q, s)
      <4>1. ASSUME NEW q \in claiming \ {Selected(s)} PROVE precedes(Selected(s), q, s)
        <5>1. PICK j \in Claims(n, s) : q = registry[j]
          BY <3>1
        <5>2. j # i /\ i \in DOMAIN registry /\ j \in DOMAIN registry
          BY <2>2, <3>4, <5>1 DEF Claims
        <5>3. Ahead(i, j, s) /\ order(registry[i]) = i /\ order(registry[j]) = j
          BY <2>1, <3>4, <5>2
        <5> QED
          BY <3>4, <5>1, <5>3 DEF Ahead
      <4> QED
        BY <3>1, <3>4, <4>1
    <3> QED
      BY <3>2, <3>3, <3>4 DEF BestOf, claiming
  <2> QED
    BY <2>3 DEF SelectionIsBest, order
<1> QED
  BY <1>1, <1>2, <1>3, PTL DEF Spec

-----------------------------------------------------------------------------
(* RuntimeReports: how many lines a drain takes. *)

\* What the proofs use of the sizes and bounds of RuntimeReports.
LEMMA ReportsBounds ==
  BufferSize \in Nat /\ LineSizes \subseteq Nat /\ MaxRequests \in Nat \ {0}
BY SizeAssumption, BoundAssumption

Lines == [n : Nat, size : Nat]

\* f is the running total of the first k lines of q, with their newlines.
Totals(f, q, k) == f = [m \in 0..k |-> IF m = 0 THEN 0 ELSE f[m - 1] + q[m].size + 1]

\* The lines of a queue can be counted to the end.
LEMMA TotalsExist ==
  ASSUME NEW q \in Seq(Lines)
  PROVE  \A k \in 0..Len(q) : \E f : Totals(f, q, k)
<1> DEFINE Bad == {k \in 0..Len(q) : ~ \E f : Totals(f, q, k)}
<1> SUFFICES ASSUME Bad # {} PROVE FALSE
  OBVIOUS
<1>1. Len(q) \in Nat /\ Bad \subseteq Nat
  OBVIOUS
<1>2. PICK k \in Bad : \A m \in Bad : k <= m
  BY <1>1, LeastNumber
<1>3. k \in 0..Len(q) /\ ~ \E f : Totals(f, q, k)
  OBVIOUS
<1>4. CASE k = 0
  <2> DEFINE f == [m \in 0..0 |-> 0]
  <2>1. Totals(f, q, 0)
    BY DEF Totals
  <2> QED
    BY <1>3, <1>4, <2>1
<1>5. CASE k # 0
  <2>1. k - 1 \in 0..Len(q) /\ k - 1 < k /\ k \in Nat
    BY <1>1, <1>3, <1>5
  <2>2. k - 1 \notin Bad
    BY <1>2, <2>1
  <2>3. PICK f : Totals(f, q, k - 1)
    BY <2>1, <2>2
  <2> HIDE DEF Bad
  <2> DEFINE total(m) == IF m = 0 THEN 0 ELSE f[m - 1] + q[m].size + 1
             g == [m \in 0..k |-> total(m)]
  <2>4. \A m \in 0..(k - 1) : f[m] = total(m)
    BY <2>3 DEF Totals
  <2>5. \A m \in 0..(k - 1) : g[m] = f[m]
    BY <2>1, <2>4
  <2>6. \A m \in 0..k : m # 0 => m - 1 \in 0..(k - 1)
    BY <2>1
  <2>7. \A m \in 0..k : g[m] = IF m = 0 THEN 0 ELSE g[m - 1] + q[m].size + 1
    BY <2>5, <2>6
  <2>8. g = [m \in 0..k |-> g[m]]
    OBVIOUS
  <2> HIDE DEF g
  <2>9. Totals(g, q, k)
    BY <2>7, <2>8 DEF Totals
  <2> QED
    BY <1>3, <2>9
<1> QED
  BY <1>4, <1>5

\* A running total is a number.
LEMMA TotalsAreNumbers ==
  ASSUME NEW q \in Seq(Lines), NEW f, Totals(f, q, Len(q))
  PROVE  f[0] = 0 /\ \A m \in 0..Len(q) : f[m] \in Nat
<1> DEFINE Bad == {m \in 0..Len(q) : f[m] \notin Nat}
<1>1. Len(q) \in Nat /\ Bad \subseteq Nat
  OBVIOUS
<1>2. f[0] = 0 /\ \A m \in 0..Len(q) : m # 0 => f[m] = f[m - 1] + q[m].size + 1
  BY <1>1 DEF Totals
<1>3. ASSUME Bad # {} PROVE FALSE
  <2>1. PICK m \in Bad : \A k \in Bad : m <= k
    BY <1>1, <1>3, LeastNumber
  <2>2. m \in 0..Len(q) /\ f[m] \notin Nat
    OBVIOUS
  <2>3. m # 0
    BY <1>2, <2>2
  <2>4. m - 1 \in 0..Len(q) /\ m - 1 < m /\ m \in 1..Len(q)
    BY <1>1, <2>2, <2>3
  <2>5. m - 1 \notin Bad
    BY <2>1, <2>4
  <2>6. f[m - 1] \in Nat /\ q[m] \in Lines
    BY <2>4, <2>5
  <2> QED
    BY <1>2, <2>2, <2>3, <2>6 DEF Lines
<1> QED
  BY <1>2, <1>3

\* So the bytes that the first lines take are a number; no line, no byte.
LEMMA BytesCounted ==
  ASSUME logs \in Seq(Lines)
  PROVE  Bytes(0) = 0 /\ \A n \in 0..Len(logs) : Bytes(n) \in Nat
<1> DEFINE f == CHOOSE f : Totals(f, logs, Len(logs))
<1>1. Len(logs) \in 0..Len(logs)
  OBVIOUS
<1>2. Totals(f, logs, Len(logs))
  BY <1>1, TotalsExist
<1>3. \A n : Bytes(n) = f[n]
  BY DEF Bytes, Totals
<1> HIDE DEF f
<1> QED
  BY <1>2, <1>3, TotalsAreNumbers

\* A drain takes a number of lines that fit the buffer.
LEMMA DrainFits ==
  ASSUME logs \in Seq(Lines)
  PROVE  /\ Drainable \in 0..Len(logs)
         /\ Bytes(Drainable) \in Nat
         /\ Bytes(Drainable) <= BufferSize
<1> DEFINE Over == {n \in 1..Len(logs) : Bytes(n) > BufferSize}
           Fits(n) == /\ Bytes(n) <= BufferSize
                      /\ n = Len(logs) \/ Bytes(n + 1) > BufferSize
<1>1. Len(logs) \in Nat /\ Over \subseteq Nat /\ BufferSize \in Nat
  BY ReportsBounds
<1>2. Bytes(0) = 0 /\ \A n \in 0..Len(logs) : Bytes(n) \in Nat
  BY BytesCounted
<1>3. \A n \in 0..Len(logs) : n \notin Over => Bytes(n) <= BufferSize
  BY <1>1, <1>2
<1>4. \E n \in 0..Len(logs) : Fits(n)
  <2>1. CASE Over = {}
    BY <1>1, <1>3, <2>1
  <2>2. CASE Over # {}
    <3>1. PICK k \in Over : \A m \in Over : k <= m
      BY <1>1, <2>2, LeastNumber
    <3>2. k \in 1..Len(logs) /\ Bytes(k) > BufferSize
      OBVIOUS
    <3>3. k - 1 \in 0..Len(logs) /\ k - 1 < k /\ (k - 1) + 1 = k
      BY <1>1, <3>2
    <3>4. k - 1 \notin Over
      BY <1>1, <3>1, <3>3
    <3> QED
      BY <1>3, <3>2, <3>3, <3>4
  <2> QED
    BY <2>1, <2>2
<1>5. Drainable \in 0..Len(logs) /\ Fits(Drainable)
  BY <1>4 DEF Drainable
<1> QED
  BY <1>2, <1>5

-----------------------------------------------------------------------------
(* RuntimeReports: the inductive invariant. *)

\* Lines are numbered as they are emitted; those shown come first, then the queue.
LinesKept ==
  /\ logs \in Seq(Lines) /\ shown \in Seq(Nat) /\ emitted \in Nat
  /\ bytes \in Nat /\ bytes <= BufferSize
  /\ emitted = Len(shown) + Len(logs)
  /\ \A i \in 1..Len(shown) : shown[i] = i
  /\ \A i \in 1..Len(logs) : logs[i].n = Len(shown) + i

\* The queue is the latest requests, those taken are older and in order, and what is
\* in neither is older than as many as the queue may hold.
RequestsKept ==
  /\ requests \in Seq([n : Nat, fits : RequestFits]) /\ taken \in Seq(Nat) /\ asked \in Nat
  /\ Len(requests) <= MaxRequests /\ Len(requests) <= asked
  /\ \A i \in 1..Len(requests) : requests[i].n = (asked - Len(requests)) + i
  /\ \A i \in 1..Len(taken) : taken[i] <= asked - Len(requests)
  /\ \A i \in 1..(Len(taken) - 1) : taken[i] < taken[i + 1]
  /\ \A n \in 1..(asked - Len(requests)) :
       n + MaxRequests <= asked \/ \E i \in 1..Len(taken) : taken[i] = n

ReportsInv == LinesKept /\ RequestsKept

\* The elements of one sequence come first, those of the other after them.
LEMMA OneAfterTheOther ==
  ASSUME NEW a \in Seq(Nat), NEW b \in Seq(Nat)
  PROVE  /\ a \o b \in Seq(Nat) /\ Len(a \o b) = Len(a) + Len(b)
         /\ \A i \in 1..Len(a) : i \in 1..Len(a \o b) /\ (a \o b)[i] = a[i]
         /\ \A i \in 1..Len(b) : /\ Len(a) + i \in 1..Len(a \o b)
                                /\ (a \o b)[Len(a) + i] = b[i]
         /\ \A i \in 1..Len(a \o b) :
              i \in 1..Len(a) \/ (i - Len(a) \in 1..Len(b) /\ i = Len(a) + (i - Len(a)))
<1>1. /\ a \o b \in Seq(Nat) /\ Len(a \o b) = Len(a) + Len(b)
      /\ \A i \in 1..Len(a) + Len(b) :
           (a \o b)[i] = IF i <= Len(a) THEN a[i] ELSE b[i - Len(a)]
  BY ConcatProperties
<1>2. Len(a) \in Nat /\ Len(b) \in Nat
  OBVIOUS
<1>3. ASSUME NEW i \in 1..Len(a) PROVE i \in 1..Len(a \o b) /\ (a \o b)[i] = a[i]
  <2>1. i \in 1..Len(a) + Len(b) /\ i <= Len(a)
    BY <1>2
  <2> QED
    BY <1>1, <2>1
<1>4. ASSUME NEW i \in 1..Len(b)
      PROVE  Len(a) + i \in 1..Len(a \o b) /\ (a \o b)[Len(a) + i] = b[i]
  <2>1. Len(a) + i \in 1..Len(a) + Len(b) /\ ~ (Len(a) + i <= Len(a))
    BY <1>2
  <2>2. (Len(a) + i) - Len(a) = i
    BY <1>2
  <2> QED
    BY <1>1, <2>1, <2>2
<1>5. ASSUME NEW i \in 1..Len(a \o b)
      PROVE  i \in 1..Len(a) \/ (i - Len(a) \in 1..Len(b) /\ i = Len(a) + (i - Len(a)))
  BY <1>1, <1>2
<1> QED
  BY <1>1, <1>3, <1>4, <1>5

\* A function from 1..n is a sequence of that length.
LEMMA Listed ==
  ASSUME NEW n \in Nat, NEW f \in [1..n -> Nat]
  PROVE  f \in Seq(Nat) /\ Len(f) = n
OBVIOUS

\* The invariant says what the property says.
LEMMA FaithfulWhenKept ==
  ASSUME ReportsInv
  PROVE  QueuesFaithful
<1>1. LogsInOrder
  <2> DEFINE q == [i \in 1..Len(logs) |-> logs[i].n]
             all == [n \in 1..emitted |-> n]
  <2>1. /\ logs \in Seq(Lines) /\ shown \in Seq(Nat) /\ emitted \in Nat
        /\ emitted = Len(shown) + Len(logs)
    BY DEF ReportsInv, LinesKept
  <2>2. q \in Seq(Nat) /\ Len(q) = Len(logs) /\ \A i \in 1..Len(q) : q[i] = Len(shown) + i
    <3>1. Len(logs) \in Nat /\ \A i \in 1..Len(logs) : logs[i].n \in Nat
      <4>1. Len(logs) \in Nat /\ \A i \in 1..Len(logs) : logs[i] \in Lines
        BY <2>1
      <4> QED
        BY <4>1 DEF Lines
    <3>2. q \in [1..Len(logs) -> Nat]
      BY <3>1
    <3>3. q \in Seq(Nat) /\ Len(q) = Len(logs)
      BY <3>1, <3>2, Listed
    <3>4. \A i \in 1..Len(logs) : logs[i].n = Len(shown) + i
      BY DEF ReportsInv, LinesKept
    <3> QED
      BY <3>3, <3>4
  <2>3. all \in Seq(Nat) /\ Len(all) = emitted /\ \A i \in 1..emitted : all[i] = i
    BY <2>1, Listed
  <2> HIDE DEF q, all
  <2>4. shown \o q \in Seq(Nat) /\ Len(shown \o q) = emitted
    BY <2>1, <2>2, OneAfterTheOther
  <2>5. ASSUME NEW i \in 1..emitted PROVE (shown \o q)[i] = i
    <3>1. \/ i \in 1..Len(shown)
          \/ i - Len(shown) \in 1..Len(q) /\ i = Len(shown) + (i - Len(shown))
      BY <2>1, <2>2, <2>4, OneAfterTheOther
    <3>2. CASE i \in 1..Len(shown)
      BY <2>1, <2>2, <3>2, OneAfterTheOther DEF ReportsInv, LinesKept
    <3>3. ASSUME NEW k \in 1..Len(q), i = Len(shown) + k PROVE (shown \o q)[i] = i
      BY <2>1, <2>2, <3>3, OneAfterTheOther
    <3> QED
      BY <3>1, <3>2, <3>3
  <2>6. \A i \in 1..Len(shown \o q) : (shown \o q)[i] = all[i]
    BY <2>3, <2>4, <2>5
  <2>7. shown \o q = all
    BY <2>3, <2>4, <2>6, SeqEqual
  <2> QED
    BY <2>7 DEF LogsInOrder, ReportsInv, LinesKept, q, all
<1>2. OnlyOldRequestsDropped
  <2> DEFINE q == [i \in 1..Len(requests) |-> requests[i].n]
             known == taken \o q
  <2>1. /\ requests \in Seq([n : Nat, fits : RequestFits]) /\ taken \in Seq(Nat)
        /\ asked \in Nat /\ Len(requests) \in Nat /\ Len(taken) \in Nat
        /\ Len(requests) <= asked /\ MaxRequests \in Nat
    BY ReportsBounds DEF ReportsInv, RequestsKept
  <2>2. /\ q \in Seq(Nat) /\ Len(q) = Len(requests)
        /\ \A i \in 1..Len(q) : q[i] = (asked - Len(requests)) + i
    <3>1. \A i \in 1..Len(requests) : requests[i].n \in Nat
      <4> DEFINE Requests == [n : Nat, fits : RequestFits]
      <4>1. requests \in Seq(Requests)
        BY <2>1
      <4> HIDE DEF Requests
      <4>2. \A i \in 1..Len(requests) : requests[i] \in Requests
        BY <4>1
      <4> QED
        BY <4>2 DEF Requests
    <3>2. q \in [1..Len(requests) -> Nat]
      BY <3>1
    <3>3. q \in Seq(Nat) /\ Len(q) = Len(requests)
      BY <2>1, <3>2, Listed
    <3>4. \A i \in 1..Len(requests) : requests[i].n = (asked - Len(requests)) + i
      BY DEF ReportsInv, RequestsKept
    <3> QED
      BY <3>3, <3>4
  <2>3. /\ \A i \in 1..Len(taken) : taken[i] <= asked - Len(requests) /\ taken[i] \in Nat
        /\ \A i \in 1..(Len(taken) - 1) : taken[i] < taken[i + 1]
        /\ \A n \in 1..(asked - Len(requests)) :
             n + MaxRequests <= asked \/ \E i \in 1..Len(taken) : taken[i] = n
    BY <2>1 DEF ReportsInv, RequestsKept
  <2> HIDE DEF q
  <2>4. /\ known \in Seq(Nat) /\ Len(known) = Len(taken) + Len(q)
        /\ \A i \in 1..Len(taken) : i \in 1..Len(known) /\ known[i] = taken[i]
        /\ \A i \in 1..Len(q) : /\ Len(taken) + i \in 1..Len(known)
                               /\ known[Len(taken) + i] = q[i]
    BY <2>1, <2>2, OneAfterTheOther
  <2> HIDE DEF known
  <2>5. ASSUME NEW n \in 1..asked, ~ (n + MaxRequests <= asked)
        PROVE  \E i \in 1..Len(known) : known[i] = n
    <3>1. CASE n <= asked - Len(requests)
      <4>1. n \in 1..(asked - Len(requests))
        BY <2>1, <3>1
      <4>2. PICK i \in 1..Len(taken) : taken[i] = n
        BY <2>3, <2>5, <4>1
      <4>3. i \in 1..Len(known) /\ known[i] = n
        BY <2>4, <4>2
      <4> QED
        BY <4>3
    <3>2. CASE ~ (n <= asked - Len(requests))
      <4>1. PICK k \in 1..Len(q) : n = (asked - Len(requests)) + k
        <5> DEFINE k == n - (asked - Len(requests))
        <5>1. k \in 1..Len(q) /\ n = (asked - Len(requests)) + k
          BY <2>1, <2>2, <3>2
        <5> QED
          BY <5>1
      <4>2. q[k] = n
        BY <2>2, <4>1
      <4>3. Len(taken) + k \in 1..Len(known) /\ known[Len(taken) + k] = q[k]
        BY <2>4
      <4> QED
        BY <4>2, <4>3
    <3> QED
      BY <3>1, <3>2
  <2>6. ASSUME NEW i \in 1..(Len(known) - 1) PROVE known[i] < known[i + 1]
    <3>1. CASE i + 1 <= Len(taken)
      <4>1. i \in 1..(Len(taken) - 1) /\ i \in 1..Len(taken) /\ i + 1 \in 1..Len(taken)
        BY <2>1, <3>1
      <4>2. known[i] = taken[i] /\ known[i + 1] = taken[i + 1]
        BY <2>4, <4>1
      <4> QED
        BY <2>3, <4>1, <4>2
    <3>2. CASE i = Len(taken)
      <4>1. i \in 1..Len(taken) /\ 1 \in 1..Len(q)
        BY <2>1, <2>2, <2>4, <3>2
      <4>2. known[i] = taken[i] /\ known[i + 1] = q[1]
        BY <2>4, <3>2, <4>1
      <4>3. taken[i] <= asked - Len(requests) /\ taken[i] \in Nat
        BY <2>3, <4>1
      <4>4. q[1] = (asked - Len(requests)) + 1
        BY <2>2, <4>1
      <4> QED
        BY <2>1, <4>2, <4>3, <4>4
    <3>3. CASE i > Len(taken)
      <4>1. PICK k \in 1..Len(q) : i = Len(taken) + k /\ k + 1 \in 1..Len(q)
        <5> DEFINE k == i - Len(taken)
        <5>1. k \in 1..Len(q) /\ i = Len(taken) + k /\ k + 1 \in 1..Len(q)
          BY <2>1, <2>2, <2>4, <3>3
        <5> QED
          BY <5>1
      <4>2. i + 1 = Len(taken) + (k + 1)
        BY <2>1, <4>1
      <4>3. known[i] = q[k] /\ known[i + 1] = q[k + 1]
        BY <2>4, <4>1, <4>2
      <4>4. q[k] = (asked - Len(requests)) + k /\ q[k + 1] = (asked - Len(requests)) + (k + 1)
        BY <2>2, <4>1
      <4> QED
        BY <2>1, <4>1, <4>3, <4>4
    <3> QED
      BY <2>1, <2>2, <2>4, <3>1, <3>2, <3>3
  <2>7. \A n : (\E i \in 1..Len(known) : known[i] = n) => n \in ToSet(known)
    BY <2>4 DEF ToSet
  <2> QED
    BY <2>5, <2>6, <2>7
    DEF OnlyOldRequestsDropped, ReportsInv, RequestsKept, known, q
<1> QED
  BY <1>1, <1>2 DEF QueuesFaithful

\* Before the first report the invariant holds.
LEMMA ReportsInitial == ASSUME ReportsInit PROVE ReportsInv
BY ReportsBounds DEF ReportsInit, ReportsInv, LinesKept, RequestsKept

-----------------------------------------------------------------------------
(* RuntimeReports: the steps. *)

\* A line that is emitted is the last of the queue.
LEMMA LineEmitted ==
  ASSUME LinesKept, emitted' = emitted + 1, UNCHANGED <<shown, bytes>>,
         NEW size \in LineSizes, logs' = Append(logs, Line(emitted', size))
  PROVE  LinesKept'
<1> DEFINE line == Line(emitted', size)
<1>1. line \in Lines /\ line.n = emitted + 1
  BY ReportsBounds DEF LinesKept, Lines, Line
<1> HIDE DEF line
<1>2. /\ logs' \in Seq(Lines) /\ Len(logs') = Len(logs) + 1
      /\ \A i \in 1..Len(logs') : logs'[i] = IF i <= Len(logs) THEN logs[i] ELSE line
  BY <1>1 DEF LinesKept, line
<1>3. /\ Len(logs) \in Nat /\ Len(shown) \in Nat /\ emitted = Len(shown) + Len(logs)
      /\ \A i \in 1..Len(logs) : logs[i].n = Len(shown) + i
  BY DEF LinesKept
<1>4. ASSUME NEW i \in 1..Len(logs') PROVE logs'[i].n = Len(shown) + i
  <2>1. CASE i <= Len(logs)
    <3>1. i \in 1..Len(logs) /\ logs'[i] = logs[i]
      BY <1>2, <1>3, <2>1
    <3> QED
      BY <1>3, <3>1
  <2>2. CASE ~ (i <= Len(logs))
    <3>1. i = Len(logs) + 1 /\ logs'[i] = line
      BY <1>2, <1>3, <2>2
    <3> QED
      BY <1>1, <1>3, <3>1
  <2> QED
    BY <2>1, <2>2
<1> QED
  BY <1>1, <1>2, <1>3, <1>4 DEF LinesKept

\* A drain moves the first lines from the queue to the shell.
LEMMA LinesDrained == ASSUME LinesKept, DrainLogs PROVE LinesKept'
<1> DEFINE d == Drainable
           q == [i \in 1..d |-> logs[i].n]
<1>1. d \in 0..Len(logs) /\ Bytes(d) \in Nat /\ Bytes(d) <= BufferSize
  BY DrainFits DEF LinesKept
<1>2. /\ shown' = shown \o q /\ logs' = SubSeq(logs, d + 1, Len(logs))
      /\ bytes' = Bytes(d) /\ emitted' = emitted
  BY DEF DrainLogs
<1> HIDE DEF d
<1>3. logs \in Seq(Lines) /\ shown \in Seq(Nat) /\ Len(logs) \in Nat /\ Len(shown) \in Nat
  BY DEF LinesKept
<1>4. /\ q \in Seq(Nat) /\ Len(q) = d
      /\ \A i \in 1..d : q[i] = Len(shown) + i
  <2>1. \A i \in 1..d : i \in 1..Len(logs)
    BY <1>1, <1>3
  <2>2. \A i \in 1..d : logs[i].n \in Nat /\ logs[i].n = Len(shown) + i
    BY <1>3, <2>1 DEF LinesKept, Lines
  <2>3. d \in Nat /\ q \in [1..d -> Nat]
    BY <1>1, <1>3, <2>2
  <2> QED
    BY <2>2, <2>3, Listed
<1>5. /\ logs' \in Seq(Lines) /\ Len(logs') = Len(logs) - d
      /\ \A i \in 1..Len(logs') : i + d \in 1..Len(logs) /\ logs'[i] = logs[i + d]
  BY <1>1, <1>2, <1>3
<1> HIDE DEF q
<1>6. shown' \in Seq(Nat) /\ Len(shown') = Len(shown) + d
  BY <1>2, <1>3, <1>4, OneAfterTheOther
<1>7. ASSUME NEW i \in 1..Len(shown') PROVE shown'[i] = i
  <2>1. i \in 1..Len(shown) \/ (i - Len(shown) \in 1..Len(q) /\ i = Len(shown) + (i - Len(shown)))
    BY <1>2, <1>3, <1>4, OneAfterTheOther
  <2>2. CASE i \in 1..Len(shown)
    BY <1>2, <1>3, <1>4, <2>2, OneAfterTheOther DEF LinesKept
  <2>3. ASSUME NEW k \in 1..Len(q), i = Len(shown) + k PROVE shown'[i] = i
    BY <1>2, <1>3, <1>4, <2>3, OneAfterTheOther
  <2> QED
    BY <2>1, <2>2, <2>3
<1>8. ASSUME NEW i \in 1..Len(logs') PROVE logs'[i].n = Len(shown') + i
  <2>1. i + d \in 1..Len(logs) /\ logs'[i] = logs[i + d]
    BY <1>5
  <2>2. logs[i + d].n = Len(shown) + (i + d)
    BY <2>1 DEF LinesKept
  <2> QED
    BY <1>1, <1>3, <1>6, <2>1, <2>2
<1>9. emitted' = Len(shown') + Len(logs') /\ emitted' \in Nat
  <2>1. emitted = Len(shown) + Len(logs) /\ emitted \in Nat
    BY DEF LinesKept
  <2>2. d \in Nat /\ d <= Len(logs)
    BY <1>1, <1>3
  <2>3. Len(shown') = Len(shown) + d /\ Len(logs') = Len(logs) - d
    BY <1>5, <1>6
  <2>4. emitted' = emitted
    BY <1>2
  <2> QED
    BY <1>3, <2>1, <2>2, <2>3, <2>4
<1>10. bytes' \in Nat /\ bytes' <= BufferSize
  BY <1>1, <1>2
<1> QED
  BY <1>5, <1>6, <1>7, <1>8, <1>9, <1>10 DEF LinesKept

\* A request that is made is the latest; a full queue drops the oldest for it.
LEMMA RequestMade ==
  ASSUME RequestsKept, HostPlatformRequest
  PROVE  RequestsKept'
<1> DEFINE Requests == [n : Nat, fits : RequestFits]
<1>1. PICK fits \in RequestFits :
        requests' = Append(Bounded(requests), [n |-> asked', fits |-> fits])
  BY DEF HostPlatformRequest
<1>2. asked' = asked + 1 /\ taken' = taken
  BY DEF HostPlatformRequest
<1> DEFINE b == Bounded(requests)
           new == [n |-> asked', fits |-> fits]
<1>3. /\ requests \in Seq(Requests) /\ taken \in Seq(Nat) /\ asked \in Nat
      /\ Len(requests) \in Nat /\ Len(taken) \in Nat /\ MaxRequests \in Nat
      /\ Len(requests) <= MaxRequests /\ Len(requests) <= asked /\ MaxRequests >= 1
  BY ReportsBounds DEF RequestsKept
<1>4. /\ b \in Seq(Requests) /\ Len(b) \in Nat /\ Len(b) <= Len(requests)
      /\ Len(b) + 1 <= MaxRequests
      /\ \/ Len(b) = Len(requests)
         \/ Len(b) + 1 = Len(requests) /\ Len(requests) = MaxRequests
      /\ \A i \in 1..Len(b) : b[i].n = (asked - Len(b)) + i
  <2>1. CASE Len(requests) >= MaxRequests
    <3>1. b = Tail(requests) /\ requests # <<>>
      BY <1>3, <2>1 DEF Bounded
    <3>2. /\ b \in Seq(Requests) /\ Len(b) = Len(requests) - 1
          /\ \A i \in 1..Len(b) : i + 1 \in 1..Len(requests) /\ b[i] = requests[i + 1]
      BY <1>3, <3>1
    <3> HIDE DEF b
    <3>3. ASSUME NEW i \in 1..Len(b) PROVE b[i].n = (asked - Len(b)) + i
      <4>1. requests[i + 1].n = (asked - Len(requests)) + (i + 1) /\ b[i] = requests[i + 1]
        BY <3>2 DEF RequestsKept
      <4> QED
        BY <1>3, <3>2, <4>1
    <3>4. /\ Len(b) \in Nat /\ Len(b) <= Len(requests) /\ Len(b) + 1 <= MaxRequests
          /\ Len(b) + 1 = Len(requests) /\ Len(requests) = MaxRequests
      BY <1>3, <2>1, <3>2
    <3> QED
      BY <3>2, <3>3, <3>4
  <2>2. CASE ~ (Len(requests) >= MaxRequests)
    <3>1. b = requests
      BY <2>2 DEF Bounded
    <3>2. Len(requests) + 1 <= MaxRequests /\ Len(requests) <= Len(requests)
      BY <1>3, <2>2
    <3>3. \A i \in 1..Len(requests) : requests[i].n = (asked - Len(requests)) + i
      BY DEF RequestsKept
    <3> HIDE DEF b
    <3> QED
      BY <1>3, <3>1, <3>2, <3>3
  <2> QED
    BY <2>1, <2>2
<1>5. new \in Requests /\ new.n = asked + 1
  BY <1>2, <1>3
<1> HIDE DEF b, new
<1>6. /\ requests' \in Seq(Requests) /\ Len(requests') = Len(b) + 1
      /\ \A i \in 1..Len(requests') : requests'[i] = IF i <= Len(b) THEN b[i] ELSE new
  BY <1>1, <1>4, <1>5 DEF b, new
<1>7. ASSUME NEW i \in 1..Len(requests')
      PROVE  requests'[i].n = (asked' - Len(requests')) + i
  <2>1. CASE i <= Len(b)
    <3>1. i \in 1..Len(b) /\ requests'[i] = b[i]
      BY <1>4, <1>6, <2>1
    <3>2. b[i].n = (asked - Len(b)) + i
      BY <1>4, <3>1
    <3> QED
      BY <1>2, <1>3, <1>4, <1>6, <3>1, <3>2
  <2>2. CASE ~ (i <= Len(b))
    <3>1. i = Len(b) + 1 /\ requests'[i] = new
      BY <1>4, <1>6, <2>2
    <3> QED
      BY <1>2, <1>3, <1>4, <1>5, <1>6, <3>1
  <2> QED
    BY <2>1, <2>2
<1>8. ASSUME NEW i \in 1..Len(taken) PROVE taken[i] <= asked' - Len(requests')
  <2>1. taken[i] <= asked - Len(requests) /\ taken[i] \in Nat
    BY <1>3 DEF RequestsKept
  <2> QED
    BY <1>2, <1>3, <1>4, <1>6, <2>1
<1>9. ASSUME NEW n \in 1..(asked' - Len(requests'))
      PROVE  n + MaxRequests <= asked' \/ \E i \in 1..Len(taken) : taken[i] = n
  <2>1. CASE n <= asked - Len(requests)
    <3>1. n \in 1..(asked - Len(requests))
      BY <1>3, <2>1
    <3>2. n + MaxRequests <= asked \/ \E i \in 1..Len(taken) : taken[i] = n
      BY <3>1 DEF RequestsKept
    <3> QED
      BY <1>2, <1>3, <3>1, <3>2
  <2>2. CASE ~ (n <= asked - Len(requests))
    <3>1. n \in Nat /\ n <= (asked + 1) - (Len(b) + 1) /\ n > asked - Len(requests)
      BY <1>2, <1>3, <1>4, <1>6, <2>2
    <3>2. CASE Len(b) = Len(requests)
      BY <1>3, <3>1, <3>2
    <3>3. CASE Len(b) + 1 = Len(requests) /\ Len(requests) = MaxRequests
      BY <1>2, <1>3, <1>4, <3>1, <3>3
    <3> QED
      BY <1>4, <3>2, <3>3
  <2> QED
    BY <2>1, <2>2
<1>10. Len(requests') <= MaxRequests /\ Len(requests') <= asked' /\ asked' \in Nat
  BY <1>2, <1>3, <1>4, <1>6
<1> QED
  BY <1>2, <1>3, <1>6, <1>7, <1>8, <1>9, <1>10 DEF RequestsKept

\* A request that is served is the oldest of the queue.
LEMMA RequestServed ==
  ASSUME RequestsKept, ServeRequest
  PROVE  RequestsKept'
<1> DEFINE Requests == [n : Nat, fits : RequestFits]
           h == Head(requests).n
<1>1. /\ requests # <<>> /\ requests' = Tail(requests) /\ taken' = Append(taken, h)
      /\ asked' = asked
  BY DEF ServeRequest, CanServe
<1>2. /\ requests \in Seq(Requests) /\ taken \in Seq(Nat) /\ asked \in Nat
      /\ Len(requests) \in Nat /\ Len(taken) \in Nat
      /\ Len(requests) <= asked
  BY DEF RequestsKept
<1>3. 1 \in 1..Len(requests) /\ h = requests[1].n
  BY <1>1, <1>2
<1>4. h = (asked - Len(requests)) + 1 /\ h \in Nat
  BY <1>2, <1>3 DEF RequestsKept
<1> HIDE DEF h
<1>5. /\ requests' \in Seq(Requests) /\ Len(requests') = Len(requests) - 1
      /\ \A i \in 1..Len(requests') : i + 1 \in 1..Len(requests) /\ requests'[i] = requests[i + 1]
  BY <1>1, <1>2
<1>6. /\ taken' \in Seq(Nat) /\ Len(taken') = Len(taken) + 1
      /\ \A i \in 1..Len(taken) : taken'[i] = taken[i]
      /\ taken'[Len(taken) + 1] = h
  BY <1>1, <1>2, <1>4
<1>7. ASSUME NEW i \in 1..Len(requests')
      PROVE  requests'[i].n = (asked' - Len(requests')) + i
  <2>1. requests[i + 1].n = (asked - Len(requests)) + (i + 1) /\ requests'[i] = requests[i + 1]
    BY <1>5 DEF RequestsKept
  <2> QED
    BY <1>1, <1>2, <1>5, <2>1
<1>8. ASSUME NEW i \in 1..Len(taken) PROVE taken[i] < h
  <2>1. taken[i] <= asked - Len(requests) /\ taken[i] \in Nat
    BY <1>2 DEF RequestsKept
  <2> QED
    BY <1>2, <1>4, <2>1
<1>9. ASSUME NEW i \in 1..Len(taken') PROVE taken'[i] <= asked' - Len(requests')
  <2>1. i \in 1..Len(taken) \/ i = Len(taken) + 1
    BY <1>2, <1>6
  <2>2. taken'[i] <= h /\ h = asked' - Len(requests') /\ h \in Nat
    <3>1. h = asked' - Len(requests')
      BY <1>1, <1>2, <1>4, <1>5
    <3>2. CASE i \in 1..Len(taken)
      <4>1. taken'[i] = taken[i] /\ taken[i] \in Nat /\ taken[i] < h
        BY <1>2, <1>6, <1>8, <3>2
      <4> QED
        BY <1>4, <3>1, <4>1
    <3>3. CASE i = Len(taken) + 1
      BY <1>4, <1>6, <3>1, <3>3
    <3> QED
      BY <2>1, <3>2, <3>3
  <2> QED
    BY <2>2
<1>10. ASSUME NEW i \in 1..(Len(taken') - 1) PROVE taken'[i] < taken'[i + 1]
  <2>1. i \in 1..Len(taken) /\ taken'[i] = taken[i]
    BY <1>2, <1>6
  <2>2. CASE i = Len(taken)
    BY <1>6, <1>8, <2>1, <2>2
  <2>3. CASE i # Len(taken)
    <3>1. i \in 1..(Len(taken) - 1) /\ i + 1 \in 1..Len(taken)
      BY <1>2, <2>1, <2>3
    <3> QED
      BY <1>6, <2>1, <3>1 DEF RequestsKept
  <2> QED
    BY <2>2, <2>3
<1>11. ASSUME NEW n \in 1..(asked' - Len(requests'))
       PROVE  n + MaxRequests <= asked' \/ \E i \in 1..Len(taken') : taken'[i] = n
  <2>1. CASE n = h
    <3>1. Len(taken) + 1 \in 1..Len(taken') /\ taken'[Len(taken) + 1] = n
      BY <1>2, <1>6, <2>1
    <3> QED
      BY <3>1
  <2>2. CASE n # h
    <3>1. n \in 1..(asked - Len(requests))
      <4>1. n \in Nat /\ n >= 1 /\ n <= asked - (Len(requests) - 1)
        BY <1>1, <1>2, <1>5
      <4>2. n # (asked - Len(requests)) + 1
        BY <1>4, <2>2
      <4> DEFINE k == asked - Len(requests)
      <4>3. k \in Int /\ n <= k + 1 /\ n # k + 1
        BY <1>2, <4>1, <4>2
      <4> HIDE DEF k
      <4>4. n \in 1..k
        BY <4>1, <4>3
      <4> QED
        BY <4>4 DEF k
    <3>2. n + MaxRequests <= asked \/ \E i \in 1..Len(taken) : taken[i] = n
      BY <3>1 DEF RequestsKept
    <3>3. \A i \in 1..Len(taken) : i \in 1..Len(taken') /\ taken'[i] = taken[i]
      BY <1>2, <1>6
    <3> QED
      BY <1>1, <3>2, <3>3
  <2> QED
    BY <2>1, <2>2
<1>12. Len(requests') <= MaxRequests /\ Len(requests') <= asked'
  BY <1>1, <1>2, <1>5, ReportsBounds DEF RequestsKept
<1> QED
  BY <1>1, <1>2, <1>5, <1>6, <1>7, <1>9, <1>10, <1>11, <1>12 DEF RequestsKept

\* No step of the runtime or of the shell disturbs the queues.
LEMMA ReportsStep ==
  ASSUME ReportsInv, [ReportsNext]_reportsVars
  PROVE  ReportsInv'
<1>1. LinesKept /\ RequestsKept
  BY DEF ReportsInv
<1>2. ASSUME UNCHANGED <<logs, shown, bytes, emitted>> PROVE LinesKept'
  BY <1>1, <1>2 DEF LinesKept
<1>3. ASSUME UNCHANGED <<requests, taken, asked>> PROVE RequestsKept'
  BY <1>1, <1>3 DEF RequestsKept
<1>4. ASSUME HostLog PROVE LinesKept' /\ UNCHANGED <<requests, taken, asked>>
  <2>1. PICK size \in LineSizes : logs' = Append(logs, Line(emitted', size))
    BY <1>4 DEF HostLog
  <2>2. emitted' = emitted + 1 /\ UNCHANGED <<shown, bytes>>
    BY <1>4 DEF HostLog
  <2>3. LinesKept'
    BY <1>1, <2>1, <2>2, LineEmitted
  <2> QED
    BY <1>4, <2>3 DEF HostLog
<1>5. ASSUME WorkerPublishes PROVE LinesKept' /\ UNCHANGED <<requests, taken, asked>>
  <2>1. PICK size \in LineSizes : logs' = Append(logs, Line(emitted', size))
    BY <1>5 DEF WorkerPublishes
  <2>2. emitted' = emitted + 1 /\ UNCHANGED <<shown, bytes>>
    BY <1>5 DEF WorkerPublishes
  <2>3. LinesKept'
    BY <1>1, <2>1, <2>2, LineEmitted
  <2> QED
    BY <1>5, <2>3 DEF WorkerPublishes
<1>6. ASSUME DrainLogs PROVE LinesKept' /\ UNCHANGED <<requests, taken, asked>>
  BY <1>1, <1>6, LinesDrained DEF DrainLogs
<1>7. ASSUME HostPlatformRequest
      PROVE  RequestsKept' /\ UNCHANGED <<logs, shown, bytes, emitted>>
  BY <1>1, <1>7, RequestMade DEF HostPlatformRequest
<1>8. ASSUME ServeRequest
      PROVE  RequestsKept' /\ UNCHANGED <<logs, shown, bytes, emitted>>
  BY <1>1, <1>8, RequestServed DEF ServeRequest
<1> DEFINE Quiet == UNCHANGED <<logs, shown, bytes, emitted, requests, taken, asked>>
<1>9. ASSUME Quiet PROVE ReportsInv'
  BY <1>2, <1>3, <1>9 DEF ReportsInv
<1>10. HostMediaCall => Quiet
  BY DEF HostMediaCall
<1>11. SyncSurface => Quiet
  BY DEF SyncSurface
<1>12. NoDrain => Quiet
  BY DEF NoDrain
<1>13. NoPoll => Quiet
  BY DEF NoPoll
<1>14. PollStartup => Quiet
  BY DEF PollStartup
<1>15. AfterPoll => Quiet
  BY DEF AfterPoll
<1>16. AwaitTranslation => Quiet
  BY DEF AwaitTranslation
<1>17. Tick => Quiet
  BY DEF Tick
<1>18. ServingEnds => Quiet
  BY DEF ServingEnds
<1>19. ReportFailure => Quiet
  BY DEF ReportFailure
<1>20. UNCHANGED reportsVars => Quiet
  BY DEF reportsVars
<1> HIDE DEF Quiet
<1>21. \/ HostLog \/ WorkerPublishes \/ DrainLogs
       \/ HostPlatformRequest \/ ServeRequest \/ Quiet
  BY <1>10, <1>11, <1>12, <1>13, <1>14, <1>15, <1>16, <1>17, <1>18, <1>19, <1>20
  DEF ReportsNext, ShellStep
<1> QED
  BY <1>2, <1>3, <1>4, <1>5, <1>6, <1>7, <1>8, <1>9, <1>21 DEF ReportsInv

\* Whatever the runtime reports and the shell does, lines stay numbered in their order
\* and the request queue stays the latest requests, within its capacity.
THEOREM ReportsInvariant == ReportsSpec => []ReportsInv
<1>1. ReportsInit => ReportsInv
  BY ReportsInitial
<1>2. ReportsInv /\ [ReportsNext]_reportsVars => ReportsInv'
  BY ReportsStep
<1> QED
  BY <1>1, <1>2, PTL DEF ReportsSpec

\* Every log line reaches the shell once and in order, a drain stays inside its
\* buffer, and a request is lost only for as many newer ones as the queue holds.
THEOREM QueuesAreFaithful == ReportsSpec => []QueuesFaithful
<1>1. ReportsInv => QueuesFaithful
  BY FaithfulWhenKept
<1> QED
  BY <1>1, ReportsInvariant, PTL

================================================================================
