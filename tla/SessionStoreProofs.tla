-------------------------- MODULE SessionStoreProofs --------------------------
(***************************************************************************)
(* The store's types, that apply() is atomic (the refinement of             *)
(* AtomicState) and gives up only to other writers, that the state forgets  *)
(* nothing, and that a dispatch sees what it is about, for any number of    *)
(* writers, attempts and turns in the window.                               *)
(***************************************************************************)
EXTENDS SessionStore, SequenceTheorems, TLAPS

(* What EXEC relies on: a version that has not moved since WATCH means that *)
(* the key has not either.                                                  *)
ReadIsCurrent ==
  \A w \in Writers : at[w] = "executing" =>
    /\ ~Refuses(w, read[w], Baseline(w))
    /\ watched[w] = version => read[w] = key

(* Each failed attempt has seen the version move.                           *)
TriesAreMoves ==
  \A w \in Writers :
    /\ at[w] \in {"reading", "executing"} =>
         watched[w] <= version /\ begun[w] + tries[w] <= watched[w]
    /\ at[w] = "retrying" => begun[w] + tries[w] <= version
    /\ at[w] \notin Calling => tries[w] = 0

(* Who has not answered is open, and who decides has loaded a state.        *)
OpenInv ==
  /\ \A w \in Writers : at[w] \notin {"returned", "done"} => outcome[w] = "open"
  /\ \A d \in Dispatches :
       /\ at[d] \in {"none", "loading"} => loaded[d] = None
       /\ at[d] \in {"deciding"} \cup Calling => loaded[d] # None
  /\ \A w \in Writers \ Dispatches : at[w] \notin {"loading", "deciding", "returned"}

(* Before on_enter has put the state nobody has one.                        *)
NewInv ==
  stage = "new" =>
    /\ key = None
    /\ \A w \in Writers : at[w] # "executing"
    /\ \A d \in Dispatches : loaded[d] = None

StoreInv == TypeOK /\ ReadIsCurrent /\ TriesAreMoves /\ OpenInv /\ NewInv

LEMMA Sets ==
  /\ None \notin State
  /\ Dispatches \subseteq Writers /\ Event \subseteq Writers /\ Event \cap Dispatches = {}
BY StateAssumption DEF Event, Writers, Turns

(* What a mutator returns is a state.                                       *)
LEMMA MergeTyped ==
  ASSUME NEW w \in Writers, NEW found \in State \cup {None},
         NEW baseline \in State \cup {None}, ~Refuses(w, found, baseline)
  PROVE  Merge(w, found, baseline) \in State
<1> DEFINE base == Base(w, found, baseline)
<1>1. base \in State
  BY DEF Base, Refuses
<1>2. /\ base.window \in Seq(Turns) /\ base.canvas \in Canvases \cup {None}
      /\ base.decisions \in Seq(Dispatches)
  BY <1>1 DEF State
<1> HIDE DEF base
<1>3. CASE w \in Turns
  <2> DEFINE longer == Append(base.window, w)
  <2>1. longer \in Seq(Turns)
    BY <1>2, <1>3
  <2>2. Len(longer) > WindowCap => SubSeq(longer, 2, Len(longer)) \in Seq(Turns)
    BY <2>1
  <2>3. Newest(longer) \in Seq(Turns)
    BY <2>1, <2>2 DEF Newest
  <2>4. [base EXCEPT !.window = Newest(longer)] \in State
    BY <1>1, <2>3 DEF State
  <2> QED
    BY <1>3, <2>4 DEF Merge, base
<1>4. CASE w \in Canvases /\ w \notin Turns
  <2>1. [base EXCEPT !.canvas = w] \in State
    BY <1>1, <1>4 DEF State
  <2> QED
    BY <1>4, <2>1 DEF Merge, base
<1>5. CASE w \notin Turns /\ w \notin Canvases
  <2>1. w \in Dispatches
    BY <1>5 DEF Writers
  <2>2. [base EXCEPT !.decisions = Append(base.decisions, w)] \in State
    BY <1>1, <1>2, <2>1 DEF State
  <2> QED
    BY <1>5, <2>2 DEF Merge, base
<1> QED
  BY <1>3, <1>4, <1>5

(* The disjuncts of Next.                                                   *)
LEMMA Steps ==
  ASSUME [Next]_vars, NEW Goal,
         Put => Goal, Drain => Goal, Delete => Goal, UNCHANGED vars => Goal,
         \A w \in Writers : Watch(w) \/ Get(w) \/ Commits(w) \/ Conflicts(w) \/ Raises(w) => Goal,
         \A e \in Event : HandsOver(e) => Goal,
         \A d \in Dispatches :
           Begins(d) \/ Load(d) \/ LoadRaises(d) \/ Concludes(d) \/ Interrupted(d) => Goal
  PROVE  Goal
BY DEF Next, Applies, Dispatching

-----------------------------------------------------------------------------
(* TYPES                                                                    *)

LEMMA InitTyped == Init => TypeOK
<1> SUFFICES ASSUME Init PROVE TypeOK
  OBVIOUS
<1>1. KeyTypeOK
  BY DEF Init, KeyTypeOK
<1>2. ApplyTypeOK
  BY StoreAssumption DEF Init, ApplyTypeOK, Histories, Outcomes
<1>3. RouterTypeOK
  BY DEF Init, RouterTypeOK, Router!Init
<1> QED
  BY <1>1, <1>2, <1>3 DEF TypeOK

LEMMA KeyTyped == TypeOK /\ ReadIsCurrent /\ [Next]_vars => KeyTypeOK'
<1> SUFFICES ASSUME TypeOK, ReadIsCurrent, [Next]_vars PROVE KeyTypeOK'
  OBVIOUS
<1> USE DEF TypeOK, KeyTypeOK
<1>1. CASE Put
  <2>1. Fresh \in State
    BY DEF Fresh, State
  <2>2. key' \in State \cup {None} /\ version' \in Nat
    BY <1>1, <2>1 DEF Put
  <2> QED
    BY <1>1, <2>2 DEF Put
<1>2. CASE Drain
  BY <1>2 DEF Drain
<1>3. CASE Delete
  BY <1>3 DEF Delete
<1>4. ASSUME NEW w \in Writers, Commits(w) PROVE KeyTypeOK'
  <2>1. read[w] \in State \cup {None} /\ Baseline(w) \in State \cup {None}
    BY DEF ApplyTypeOK, Baseline
  <2>2. Merge(w, read[w], Baseline(w)) \in State
    BY <1>4, <2>1, MergeTyped DEF ReadIsCurrent, Commits
  <2> QED
    BY <1>4, <2>2 DEF Commits
<1>5. ASSUME NEW w \in Writers, Watch(w) \/ Get(w) \/ Conflicts(w) \/ Raises(w)
      PROVE  KeyTypeOK'
  BY <1>5 DEF Watch, Get, Conflicts, Raises
<1>6. ASSUME NEW e \in Event, HandsOver(e) PROVE KeyTypeOK'
  BY <1>6 DEF HandsOver
<1>7. ASSUME NEW d \in Dispatches,
             Begins(d) \/ Load(d) \/ LoadRaises(d) \/ Concludes(d) \/ Interrupted(d)
      PROVE  KeyTypeOK'
  BY <1>7 DEF Begins, Load, LoadRaises, Concludes, Interrupted
<1>8. CASE UNCHANGED vars
  BY <1>8 DEF vars
<1> QED
  BY <1>1, <1>2, <1>3, <1>4, <1>5, <1>6, <1>7, <1>8, Steps

LEMMA RouterTyped == TypeOK /\ [Next]_vars => RouterTypeOK'
<1> SUFFICES ASSUME TypeOK, [Next]_vars PROVE RouterTypeOK'
  OBVIOUS
<1> USE DEF TypeOK, RouterTypeOK
<1>1. CASE UNCHANGED routerVars
  BY <1>1 DEF routerVars
<1>2. CASE Router!Discard
  BY <1>2 DEF Router!Discard, Router!Members
<1>3. ASSUME NEW e \in Event, Router!Accept(e) PROVE RouterTypeOK'
  BY <1>3 DEF Router!Accept, Router!Enqueue
<1>4. CASE Router!Begin
  BY <1>4 DEF Router!Begin
<1>5. CASE Router!Finish
  BY <1>5 DEF Router!Finish, Router!Members
<1>6. CASE Router!PutBack
  BY <1>6, ConcatProperties DEF Router!PutBack
<1>7. UNCHANGED vars => RouterTypeOK'
  BY <1>1 DEF vars, routerVars
<1>8. \A w \in Writers : Watch(w) \/ Get(w) \/ Commits(w) \/ Conflicts(w) \/ Raises(w)
        => RouterTypeOK'
  BY <1>1 DEF Watch, Get, Commits, Conflicts, Raises
<1>9. \A d \in Dispatches :
        Begins(d) \/ Load(d) \/ LoadRaises(d) \/ Concludes(d) \/ Interrupted(d) => RouterTypeOK'
  BY <1>1, <1>4, <1>5, <1>6 DEF Begins, Load, LoadRaises, Concludes, Interrupted
<1>10. Put \/ Drain \/ Delete => RouterTypeOK'
  BY <1>1, <1>2 DEF Put, Drain, Delete
<1>11. \A e \in Event : HandsOver(e) => RouterTypeOK'
  BY <1>3 DEF HandsOver
<1> QED
  BY <1>7, <1>8, <1>9, <1>10, <1>11, Steps

(* Whatever apply() came to, its writer's locals are cleared.               *)
LEMMA AnswersTyped ==
  ASSUME ApplyTypeOK, NEW w \in Writers, NEW o \in Outcomes, Answers(w, o),
         commits' \in Histories, UNCHANGED loaded
  PROVE  ApplyTypeOK'
<1>1. at' \in [Writers -> {"none", "loading", "deciding", "returned", "done"} \cup Calling]
  BY DEF ApplyTypeOK, Answers, Enter
<1>2. watched' \in [Writers -> Nat] /\ begun' \in [Writers -> Nat]
  BY DEF ApplyTypeOK, Answers
<1>3. read' \in [Writers -> State \cup {None}] /\ tries' \in [Writers -> 0 .. MaxAttempts - 1]
  BY StoreAssumption DEF ApplyTypeOK, Answers
<1>4. outcome' \in [Writers -> Outcomes]
  BY DEF ApplyTypeOK, Answers
<1>5. loaded' \in [Dispatches -> State \cup {None}]
  BY DEF ApplyTypeOK
<1> QED
  BY <1>1, <1>2, <1>3, <1>4, <1>5 DEF ApplyTypeOK

(* The history of a writer's kind grows by the writer, the others stay.      *)
Grows(history, w) ==
  /\ history.turns = IF w \in Turns THEN Append(commits.turns, w) ELSE commits.turns
  /\ history.canvases = IF w \in Canvases THEN Append(commits.canvases, w) ELSE commits.canvases
  /\ history.decisions =
       IF w \in Dispatches THEN Append(commits.decisions, w) ELSE commits.decisions

LEMMA CommitsGrow ==
  ASSUME NEW w \in Writers, commits \in Histories,
         commits' = [commits EXCEPT ![Kind(w)] = Append(@, w)]
  PROVE  commits' \in Histories /\ Grows(commits', w)
<1>1. /\ commits.turns \in Seq(Turns) /\ commits.canvases \in Seq(Canvases)
      /\ commits.decisions \in Seq(Dispatches)
      /\ commits = [turns |-> commits.turns, canvases |-> commits.canvases,
                    decisions |-> commits.decisions]
  BY DEF Histories
<1>2. CASE w \in Turns
  <2>1. Kind(w) = "turns" /\ w \notin Canvases /\ w \notin Dispatches
    BY <1>2, StateAssumption DEF Kind
  <2>2. commits' = [commits EXCEPT !.turns = Append(commits.turns, w)]
    BY <2>1
  <2>3. Append(commits.turns, w) \in Seq(Turns)
    BY <1>1, <1>2
  <2> QED
    BY <1>1, <1>2, <2>1, <2>2, <2>3 DEF Histories, Grows
<1>3. CASE w \in Canvases
  <2>1. Kind(w) = "canvases" /\ w \notin Turns /\ w \notin Dispatches
    BY <1>3, StateAssumption DEF Kind
  <2>2. commits' = [commits EXCEPT !.canvases = Append(commits.canvases, w)]
    BY <2>1
  <2>3. Append(commits.canvases, w) \in Seq(Canvases)
    BY <1>1, <1>3
  <2> QED
    BY <1>1, <1>3, <2>1, <2>2, <2>3 DEF Histories, Grows
<1>4. CASE w \in Dispatches
  <2>1. Kind(w) = "decisions" /\ w \notin Turns /\ w \notin Canvases
    BY <1>4, StateAssumption DEF Kind
  <2>2. commits' = [commits EXCEPT !.decisions = Append(commits.decisions, w)]
    BY <2>1
  <2>3. Append(commits.decisions, w) \in Seq(Dispatches)
    BY <1>1, <1>4
  <2> QED
    BY <1>1, <1>4, <2>1, <2>2, <2>3 DEF Histories, Grows
<1> QED
  BY <1>2, <1>3, <1>4 DEF Writers

LEMMA ApplyTyped == TypeOK /\ [Next]_vars => ApplyTypeOK'
<1> SUFFICES ASSUME TypeOK, [Next]_vars PROVE ApplyTypeOK'
  OBVIOUS
<1>t. ApplyTypeOK /\ KeyTypeOK
  BY DEF TypeOK
<1>o. {"open", "applied", "refused", "exhausted", "unknown"} \subseteq Outcomes
  BY DEF Outcomes
<1>1. Put \/ Drain \/ Delete \/ UNCHANGED vars => ApplyTypeOK'
  BY <1>t DEF Put, Drain, Delete, vars, applyVars, ApplyTypeOK
<1>2. ASSUME NEW w \in Writers, Watch(w) PROVE ApplyTypeOK'
  BY <1>t, <1>2 DEF Watch, Enter, Calling, ApplyTypeOK, KeyTypeOK
<1>3. ASSUME NEW w \in Writers, Get(w) PROVE ApplyTypeOK'
  <2>1. CASE Answers(w, "refused")
    BY <1>t, <1>o, <1>3, <2>1, AnswersTyped DEF Get, ApplyTypeOK
  <2>2. CASE Enter(w, "executing") /\ read' = [read EXCEPT ![w] = key]
               /\ UNCHANGED <<watched, tries, begun, outcome>>
    BY <1>t, <1>3, <2>2 DEF Get, Enter, Calling, ApplyTypeOK, KeyTypeOK
  <2> QED
    BY <1>3, <2>1, <2>2 DEF Get
<1>4. ASSUME NEW w \in Writers, Commits(w) PROVE ApplyTypeOK'
  <2>1. PICK o \in {"applied", "unknown"} : Answers(w, o)
    BY <1>4 DEF Commits
  <2>2. commits' \in Histories
    BY <1>t, <1>4, CommitsGrow DEF Commits, ApplyTypeOK
  <2> QED
    BY <1>t, <1>o, <1>4, <2>1, <2>2, AnswersTyped DEF Commits
<1>5. ASSUME NEW w \in Writers, Conflicts(w) PROVE ApplyTypeOK'
  <2>1. CASE OutOfTries(w)
    BY <1>t, <1>o, <1>5, <2>1, AnswersTyped DEF Conflicts, ApplyTypeOK
  <2>2. CASE ~OutOfTries(w)
    <3>1. tries[w] \in 0 .. MaxAttempts - 1 /\ tries[w] + 1 # MaxAttempts
      BY <1>t, <2>2 DEF ApplyTypeOK, OutOfTries
    <3>2. tries[w] + 1 \in 0 .. MaxAttempts - 1
      BY <3>1, StoreAssumption
    <3> QED
      BY <1>t, <1>5, <2>2, <3>2 DEF Conflicts, Enter, Calling, ApplyTypeOK
  <2> QED
    BY <2>1, <2>2
<1>6. ASSUME NEW w \in Writers, Raises(w) PROVE ApplyTypeOK'
  BY <1>t, <1>o, <1>6, AnswersTyped DEF Raises, ApplyTypeOK
<1>7. ASSUME NEW e \in Event, HandsOver(e) PROVE ApplyTypeOK'
  BY <1>t, <1>7 DEF HandsOver, applyVars, ApplyTypeOK
<1>8. ASSUME NEW d \in Dispatches, Begins(d) \/ Load(d) \/ LoadRaises(d) PROVE ApplyTypeOK'
  BY <1>t, <1>o, <1>8, Sets DEF Begins, Load, LoadRaises, Enter, applyVars, ApplyTypeOK, KeyTypeOK
<1>9. ASSUME NEW d \in Dispatches, Concludes(d) PROVE ApplyTypeOK'
  BY <1>t, <1>9, Sets DEF Concludes, Enter, applyVars, ApplyTypeOK
<1>10. ASSUME NEW d \in Dispatches, Interrupted(d) PROVE ApplyTypeOK'
  BY <1>t, <1>o, <1>10, Sets, StoreAssumption DEF Interrupted, Enter, ApplyTypeOK
<1> QED
  BY <1>1, <1>2, <1>3, <1>4, <1>5, <1>6, <1>7, <1>8, <1>9, <1>10, Steps

-----------------------------------------------------------------------------
(* THE INVARIANT                                                            *)

LEMMA InitStore == Init => StoreInv
<1> SUFFICES ASSUME Init PROVE StoreInv
  OBVIOUS
<1>1. ReadIsCurrent /\ TriesAreMoves /\ OpenInv /\ NewInv
  BY Sets DEF Init, ReadIsCurrent, TriesAreMoves, OpenInv, NewInv, Calling
<1> QED
  BY <1>1, InitTyped DEF StoreInv

(* Answers disturbs the invariant's parts for nobody else.                  *)
LEMMA AnswersTries ==
  ASSUME TypeOK, TriesAreMoves, NEW w \in Writers, NEW o, Answers(w, o),
         version' \in Nat, version <= version'
  PROVE  TriesAreMoves'
<1> USE DEF TypeOK, KeyTypeOK, ApplyTypeOK, Calling
<1> SUFFICES ASSUME NEW v \in Writers
             PROVE  /\ at'[v] \in {"reading", "executing"} =>
                         watched'[v] <= version' /\ begun'[v] + tries'[v] <= watched'[v]
                    /\ at'[v] = "retrying" => begun'[v] + tries'[v] <= version'
                    /\ at'[v] \notin Calling => tries'[v] = 0
  BY DEF TriesAreMoves
<1>1. CASE v = w
  BY <1>1 DEF Answers, Enter
<1>2. CASE v # w
  <2>1. /\ at'[v] = at[v] /\ watched'[v] = watched[v]
        /\ begun'[v] = begun[v] /\ tries'[v] = tries[v]
    BY <1>2 DEF Answers, Enter
  <2>2. watched[v] \in Nat /\ begun[v] \in Nat /\ tries[v] \in Nat
    BY StoreAssumption
  <2> QED
    BY <2>1, <2>2 DEF TriesAreMoves
<1> QED
  BY <1>1, <1>2

LEMMA AnswersOpen ==
  ASSUME TypeOK, OpenInv, NEW w \in Writers, NEW o, Answers(w, o), UNCHANGED loaded
  PROVE  OpenInv'
<1> USE DEF TypeOK, ApplyTypeOK
<1>1. \A v \in Writers : v # w => at'[v] = at[v] /\ outcome'[v] = outcome[v]
  BY DEF Answers, Enter
<1>2. at'[w] = IF w \in Dispatches THEN "returned" ELSE "done"
  BY DEF Answers, Enter
<1>3. \A v \in Writers : at'[v] \notin {"returned", "done"} => outcome'[v] = "open"
  BY <1>1, <1>2 DEF OpenInv
<1>4. \A d \in Dispatches :
        /\ at'[d] \in {"none", "loading"} => loaded'[d] = None
        /\ at'[d] \in {"deciding"} \cup Calling => loaded'[d] # None
  BY <1>1, <1>2, Sets DEF OpenInv, Calling
<1>5. \A v \in Writers \ Dispatches : at'[v] \notin {"loading", "deciding", "returned"}
  BY <1>1, <1>2 DEF OpenInv
<1> QED
  BY <1>3, <1>4, <1>5 DEF OpenInv

LEMMA TriesStep == TypeOK /\ TriesAreMoves /\ [Next]_vars => TriesAreMoves'
<1> SUFFICES ASSUME TypeOK, TriesAreMoves, [Next]_vars PROVE TriesAreMoves'
  OBVIOUS
<1> USE DEF TypeOK, KeyTypeOK, ApplyTypeOK, TriesAreMoves, Calling
<1>1. Put \/ Drain \/ Delete \/ UNCHANGED vars => TriesAreMoves'
  BY DEF Put, Drain, Delete, vars, applyVars
<1>2. ASSUME NEW w \in Writers, Watch(w) PROVE TriesAreMoves'
  BY <1>2 DEF Watch, Calls, Enter
<1>3. ASSUME NEW w \in Writers, Get(w) PROVE TriesAreMoves'
  BY <1>3, AnswersTries DEF Get, Enter
<1>4. ASSUME NEW w \in Writers, Commits(w) PROVE TriesAreMoves'
  BY <1>4, AnswersTries DEF Commits
<1>5. ASSUME NEW w \in Writers, Conflicts(w) PROVE TriesAreMoves'
  <2>1. CASE Answers(w, "exhausted")
    BY <1>5, <2>1, AnswersTries DEF Conflicts
  <2>2. CASE ~OutOfTries(w)
    <3>1. /\ watched[w] \in Nat /\ begun[w] \in Nat /\ tries[w] \in Nat /\ version \in Nat
          /\ begun[w] + tries[w] <= watched[w] /\ watched[w] < version
      BY <1>5, StoreAssumption DEF Conflicts, Unchanged
    <3>2. begun[w] + (tries[w] + 1) <= version
      BY <3>1
    <3>3. /\ at' = [at EXCEPT ![w] = "retrying"] /\ tries' = [tries EXCEPT ![w] = @ + 1]
          /\ UNCHANGED <<version, watched, begun>>
      BY <1>5, <2>2 DEF Conflicts, Enter
    <3> QED
      BY <3>2, <3>3
  <2> QED
    BY <1>5, <2>1, <2>2 DEF Conflicts
<1>6. ASSUME NEW w \in Writers, Raises(w) PROVE TriesAreMoves'
  <2>1. UNCHANGED version /\ version <= version /\ Answers(w, "unknown")
    BY <1>6 DEF Raises
  <2> QED
    BY <2>1, AnswersTries
<1>7. ASSUME NEW e \in Event, HandsOver(e) PROVE TriesAreMoves'
  BY <1>7 DEF HandsOver, applyVars
<1>8. ASSUME NEW d \in Dispatches, Begins(d) \/ Load(d) \/ LoadRaises(d) PROVE TriesAreMoves'
  <2>1. PICK p \in {"loading", "deciding", "returned"} : at' = [at EXCEPT ![d] = p]
    BY <1>8 DEF Begins, Load, LoadRaises, Enter
  <2>2. at[d] \notin Calling /\ UNCHANGED <<version, applyVars>>
    BY <1>8 DEF Begins, Load, LoadRaises
  <2> QED
    BY <2>1, <2>2, Sets DEF applyVars
<1>9. ASSUME NEW d \in Dispatches, Concludes(d) PROVE TriesAreMoves'
  BY <1>9, Sets DEF Concludes, Enter, applyVars
<1>10. ASSUME NEW d \in Dispatches, Interrupted(d) PROVE TriesAreMoves'
  BY <1>10, Sets DEF Interrupted, Enter
<1> QED
  BY <1>1, <1>2, <1>3, <1>4, <1>5, <1>6, <1>7, <1>8, <1>9, <1>10, Steps

LEMMA OpenStep == TypeOK /\ OpenInv /\ [Next]_vars => OpenInv'
<1> SUFFICES ASSUME TypeOK, OpenInv, [Next]_vars PROVE OpenInv'
  OBVIOUS
<1> USE DEF TypeOK, ApplyTypeOK, OpenInv, Calling
<1>1. Put \/ Drain \/ Delete \/ UNCHANGED vars => OpenInv'
  BY DEF Put, Drain, Delete, vars, applyVars
<1>2. ASSUME NEW w \in Writers, Watch(w) PROVE OpenInv'
  <2>1. at[w] \in {"none", "deciding", "retrying"} /\ (w \in Dispatches => at[w] # "none")
    BY <1>2, StateAssumption DEF Watch, Calls, Turns
  <2>2. at' = [at EXCEPT ![w] = "reading"] /\ UNCHANGED <<loaded, outcome>>
    BY <1>2 DEF Watch, Enter
  <2> QED
    BY <2>1, <2>2, Sets
<1>3. ASSUME NEW w \in Writers, Get(w) PROVE OpenInv'
  BY <1>3, Sets, AnswersOpen DEF Get, Enter
<1>4. ASSUME NEW w \in Writers, Commits(w) PROVE OpenInv'
  BY <1>4, AnswersOpen DEF Commits
<1>5. ASSUME NEW w \in Writers, Conflicts(w) PROVE OpenInv'
  BY <1>5, Sets, AnswersOpen DEF Conflicts, Enter
<1>6. ASSUME NEW w \in Writers, Raises(w) PROVE OpenInv'
  BY <1>6, AnswersOpen DEF Raises
<1>7. ASSUME NEW e \in Event, HandsOver(e) PROVE OpenInv'
  BY <1>7 DEF HandsOver, applyVars
<1>8. ASSUME NEW d \in Dispatches, Begins(d) \/ Load(d) \/ LoadRaises(d) PROVE OpenInv'
  BY <1>8, Sets DEF Begins, Load, LoadRaises, Enter
<1>9. ASSUME NEW d \in Dispatches, Concludes(d) PROVE OpenInv'
  BY <1>9, Sets DEF Concludes, Enter
<1>10. ASSUME NEW d \in Dispatches, Interrupted(d) PROVE OpenInv'
  BY <1>10, Sets DEF Interrupted, Enter
<1> QED
  BY <1>1, <1>2, <1>3, <1>4, <1>5, <1>6, <1>7, <1>8, <1>9, <1>10, Steps

LEMMA NewStep == TypeOK /\ OpenInv /\ NewInv /\ [Next]_vars => NewInv'
<1> SUFFICES ASSUME TypeOK, OpenInv, NewInv, [Next]_vars PROVE NewInv'
  OBVIOUS
<1> USE DEF TypeOK, ApplyTypeOK, NewInv
<1>1. Put \/ Drain \/ Delete \/ UNCHANGED vars => NewInv'
  BY DEF Put, Drain, Delete, vars, applyVars
<1>2. ASSUME NEW w \in Writers, Watch(w) PROVE NewInv'
  BY <1>2 DEF Watch, Enter
<1>3. ASSUME NEW w \in Writers, Get(w) PROVE NewInv'
  BY <1>3 DEF Get, Answers, Enter, Refuses, Base, Baseline
<1>4. ASSUME NEW w \in Writers, Commits(w) PROVE NewInv'
  BY <1>4 DEF Commits
<1>5. ASSUME NEW w \in Writers, Conflicts(w) PROVE NewInv'
  BY <1>5 DEF Conflicts
<1>6. ASSUME NEW w \in Writers, Raises(w) PROVE NewInv'
  BY <1>6 DEF Raises, Answers, Enter
<1>7. ASSUME NEW e \in Event, HandsOver(e) PROVE NewInv'
  BY <1>7 DEF HandsOver
<1>8. ASSUME NEW d \in Dispatches, Begins(d) \/ Load(d) \/ LoadRaises(d) PROVE NewInv'
  BY <1>8, Sets DEF Begins, Load, LoadRaises, Enter
<1>9. ASSUME NEW d \in Dispatches, Concludes(d) \/ Interrupted(d) PROVE NewInv'
  BY <1>9, Sets DEF Concludes, Interrupted, Enter
<1> QED
  BY <1>1, <1>2, <1>3, <1>4, <1>5, <1>6, <1>7, <1>8, <1>9, Steps

LEMMA ReadStep ==
  TypeOK /\ TriesAreMoves /\ OpenInv /\ ReadIsCurrent /\ [Next]_vars => ReadIsCurrent'
<1> SUFFICES ASSUME TypeOK, TriesAreMoves, OpenInv, ReadIsCurrent, [Next]_vars
             PROVE  ReadIsCurrent'
  OBVIOUS
<1>t. ApplyTypeOK /\ KeyTypeOK
  BY DEF TypeOK
<1>k. \A w \in Writers : at[w] = "executing" =>
        watched[w] <= version /\ watched[w] \in Nat /\ version \in Nat
  BY <1>t DEF TriesAreMoves, ApplyTypeOK, KeyTypeOK
(* A step that leaves everyone else's locals alone, and moves the version    *)
(* whenever it changes the key.                                             *)
<1>s. ASSUME NEW w \in Writers,
             \A v \in Writers : v # w =>
               at'[v] = at[v] /\ read'[v] = read[v] /\ watched'[v] = watched[v],
             at'[w] # "executing",
             \A d \in Dispatches : d # w => loaded'[d] = loaded[d],
             version' = version + 1 \/ UNCHANGED <<version, key>>
      PROVE  ReadIsCurrent'
  <2> SUFFICES ASSUME NEW v \in Writers, at'[v] = "executing"
               PROVE  /\ ~Refuses(v, read'[v], Baseline(v)')
                      /\ watched'[v] = version' => read'[v] = key'
    BY DEF ReadIsCurrent
  <2>1. v # w /\ at[v] = "executing" /\ read'[v] = read[v] /\ watched'[v] = watched[v]
    BY <1>s
  <2>2. Baseline(v)' = Baseline(v)
    BY <1>s, <2>1 DEF Baseline
  <2>3. ~Refuses(v, read[v], Baseline(v)) /\ (watched[v] = version => read[v] = key)
    BY <2>1 DEF ReadIsCurrent
  <2>4. watched[v] = version' => UNCHANGED <<version, key>>
    BY <1>k, <1>s, <2>1
  <2> QED
    BY <2>1, <2>2, <2>3, <2>4
<1>0. \A w \in Writers, o \in Outcomes : Answers(w, o) =>
        /\ \A v \in Writers : v # w =>
             at'[v] = at[v] /\ read'[v] = read[v] /\ watched'[v] = watched[v]
        /\ at'[w] # "executing"
  BY <1>t DEF Answers, Enter, ApplyTypeOK
<1>o. {"open", "applied", "refused", "exhausted", "unknown"} \subseteq Outcomes
  BY DEF Outcomes
<1>1. CASE Put \/ Delete
  <2>1. UNCHANGED <<at, read, watched, loaded>> /\ (version' = version + 1 \/ UNCHANGED <<version, key>>)
    BY <1>1 DEF Put, Delete, applyVars
  <2> SUFFICES ASSUME NEW v \in Writers, at[v] = "executing"
               PROVE  watched[v] = version' => read[v] = key'
    BY <2>1 DEF ReadIsCurrent, Baseline
  <2> QED
    BY <1>k, <2>1 DEF ReadIsCurrent
<1>2. CASE Drain \/ UNCHANGED vars
  BY <1>2 DEF Drain, vars, applyVars, ReadIsCurrent, Baseline
<1>3. ASSUME NEW w \in Writers, Watch(w) PROVE ReadIsCurrent'
  BY <1>3, <1>s, <1>t DEF Watch, Enter, ApplyTypeOK
<1>4. ASSUME NEW w \in Writers, Get(w) PROVE ReadIsCurrent'
  <2>1. CASE Refuses(w, key, Baseline(w))
    BY <1>4, <2>1, <1>0, <1>o, <1>s DEF Get
  <2>2. CASE ~Refuses(w, key, Baseline(w))
    <3>1. /\ read' = [read EXCEPT ![w] = key] /\ at' = [at EXCEPT ![w] = "executing"]
          /\ UNCHANGED <<watched, version, key, loaded>>
      BY <1>4, <2>2 DEF Get, Enter
    <3>2. \A v \in Writers : Baseline(v)' = Baseline(v)
      BY <3>1 DEF Baseline
    <3>3. read'[w] = key
      BY <3>1, <1>t DEF ApplyTypeOK
    <3>4. \A v \in Writers : v # w => read'[v] = read[v] /\ at'[v] = at[v]
      BY <3>1, <1>t DEF ApplyTypeOK
    <3> QED
      BY <2>2, <3>1, <3>2, <3>3, <3>4 DEF ReadIsCurrent
  <2> QED
    BY <2>1, <2>2
<1>5. ASSUME NEW w \in Writers, Commits(w) PROVE ReadIsCurrent'
  <2>1. PICK o \in {"applied", "unknown"} : Answers(w, o)
    BY <1>5 DEF Commits
  <2> QED
    BY <1>5, <2>1, <1>0, <1>o, <1>s DEF Commits
<1>6. ASSUME NEW w \in Writers, Conflicts(w) PROVE ReadIsCurrent'
  <2>1. CASE Answers(w, "exhausted")
    BY <1>6, <2>1, <1>0, <1>o, <1>s DEF Conflicts
  <2>2. CASE Enter(w, "retrying") /\ read' = [read EXCEPT ![w] = None] /\ UNCHANGED watched
    BY <1>6, <2>2, <1>s, <1>t DEF Conflicts, Enter, ApplyTypeOK
  <2> QED
    BY <1>6, <2>1, <2>2 DEF Conflicts
<1>7. ASSUME NEW w \in Writers, Raises(w) PROVE ReadIsCurrent'
  BY <1>7, <1>0, <1>o, <1>s DEF Raises
<1>8. ASSUME NEW e \in Event, HandsOver(e) PROVE ReadIsCurrent'
  BY <1>8 DEF HandsOver, applyVars, ReadIsCurrent, Baseline
<1>9. ASSUME NEW d \in Dispatches, Begins(d) \/ LoadRaises(d) PROVE ReadIsCurrent'
  BY <1>9, <1>s, <1>t, Sets DEF Begins, LoadRaises, Enter, applyVars, ApplyTypeOK
<1>10. ASSUME NEW d \in Dispatches, Load(d) PROVE ReadIsCurrent'
  <2>1. /\ at'[d] # "executing" /\ loaded' = [loaded EXCEPT ![d] = key]
        /\ \A v \in Writers : v # d => at'[v] = at[v]
        /\ UNCHANGED <<key, version, read, watched>>
    BY <1>10, <1>t, Sets DEF Load, Enter, applyVars, ApplyTypeOK
  <2>2. \A n \in Dispatches : n # d => loaded'[n] = loaded[n]
    BY <2>1, <1>t DEF ApplyTypeOK
  <2> QED
    BY <2>1, <2>2, <1>s, Sets
<1>11. ASSUME NEW d \in Dispatches, Concludes(d) PROVE ReadIsCurrent'
  <2>1. \A v \in Writers : at'[v] = "executing" => at[v] = "executing"
    BY <1>11, <1>t, Sets DEF Concludes, Enter, ApplyTypeOK
  <2>2. UNCHANGED <<key, version, read, watched, loaded>>
    BY <1>11 DEF Concludes, applyVars
  <2> QED
    BY <2>1, <2>2 DEF ReadIsCurrent, Baseline
<1>12. ASSUME NEW d \in Dispatches, Interrupted(d) PROVE ReadIsCurrent'
  <2>1. /\ at'[d] # "executing" /\ UNCHANGED <<key, version, loaded>>
        /\ \A v \in Writers : v # d =>
             at'[v] = at[v] /\ read'[v] = read[v] /\ watched'[v] = watched[v]
    BY <1>12, <1>t, Sets DEF Interrupted, Enter, ApplyTypeOK
  <2> QED
    BY <2>1, <1>s, Sets
<1> QED
  BY <1>1, <1>2, <1>3, <1>4, <1>5, <1>6, <1>7, <1>8, <1>9, <1>10, <1>11, <1>12, Steps

THEOREM StoreInvariant == Spec => []StoreInv
<1>1. StoreInv /\ [Next]_vars => StoreInv'
  BY KeyTyped, ApplyTyped, RouterTyped, TriesStep, OpenStep, NewStep, ReadStep
     DEF StoreInv, TypeOK
<1> QED
  BY InitStore, <1>1, PTL DEF Spec

(* Every variable of the store keeps its type.                              *)
THEOREM StoreTypeCorrect == Spec => []TypeOK
BY StoreInvariant, PTL DEF StoreInv

-----------------------------------------------------------------------------
(* GIVING UP                                                                *)

(* redis_store.py:150-153: the version has moved at least MaxAttempts times  *)
(* between an apply()'s first WATCH and its RedisCasExhaustedError.          *)
THEOREM GivesUp == Spec => GivesUpOnlyToRivals
<1> DEFINE Goal == \A w \in Writers : outcome[w] = "open" /\ outcome'[w] = "exhausted" =>
                     version - begun[w] >= MaxAttempts
<1>1. StoreInv /\ [Next]_vars => [Goal]_vars
  <2> SUFFICES ASSUME StoreInv, Next, NEW w \in Writers,
                      outcome[w] = "open", outcome'[w] = "exhausted"
               PROVE  version - begun[w] >= MaxAttempts
    OBVIOUS
  <2>t. ApplyTypeOK /\ KeyTypeOK
    BY DEF StoreInv, TypeOK
  <2>1. Conflicts(w) /\ OutOfTries(w)
    <3> DEFINE Only == Conflicts(w) /\ OutOfTries(w)
    <3>1. \A v \in Writers, o \in Outcomes : Answers(v, o) => (v = w /\ o = "exhausted")
      BY <2>t DEF Answers, ApplyTypeOK
    <3>2. \A v \in Writers : ~Raises(v) /\ ~Commits(v) /\ ~Watch(v)
      BY <3>1 DEF Raises, Commits, Watch, Outcomes
    <3>3. \A v \in Writers : ~Get(v)
      BY <3>1 DEF Get, Outcomes
    <3>4. \A v \in Writers : Conflicts(v) => Only
      BY <3>1 DEF Conflicts, Outcomes
    <3>5. \A d \in Dispatches :
            ~Begins(d) /\ ~Load(d) /\ ~LoadRaises(d) /\ ~Concludes(d) /\ ~Interrupted(d)
      BY <2>t DEF Begins, Load, LoadRaises, Concludes, Interrupted, ApplyTypeOK
    <3>6. ~Put /\ ~Drain /\ ~Delete /\ \A e \in Event : ~HandsOver(e)
      BY DEF Put, Drain, Delete, HandsOver
    <3> QED
      BY <3>2, <3>3, <3>4, <3>5, <3>6 DEF Next, Applies, Dispatching
  <2>2. /\ watched[w] \in Nat /\ version \in Nat /\ begun[w] \in Nat /\ tries[w] \in Nat
        /\ watched[w] <= version /\ watched[w] # version /\ begun[w] + tries[w] <= watched[w]
    BY <2>1, <2>t DEF StoreInv, TriesAreMoves, Conflicts, Unchanged, ApplyTypeOK, KeyTypeOK
  <2>3. tries[w] + 1 = MaxAttempts
    BY <2>1 DEF OutOfTries
  <2> QED
    BY <2>2, <2>3
<1> QED
  BY <1>1, StoreInvariant, PTL DEF Spec, GivesUpOnlyToRivals

-----------------------------------------------------------------------------
(* ATOMICITY                                                                *)

(* The two modules' operators on states are the same.                       *)
LEMMA SameState ==
  /\ Abstract!Writers = Writers /\ Abstract!Fresh = Fresh
  /\ \A w, found, baseline :
       /\ Abstract!Refuses(w, found, baseline) <=> Refuses(w, found, baseline)
       /\ Abstract!Merge(w, found, baseline) = Merge(w, found, baseline)
BY DEF Abstract!Writers, Writers, Abstract!Turns, Turns, Abstract!Fresh, Fresh,
       Abstract!Refuses, Refuses, Abstract!Base, Base, Abstract!Merge, Merge,
       Abstract!Newest, Newest

LEMMA StepIsAtomic == StoreInv /\ [Next]_vars => [Abstract!Next]_Abstract!atomicVars
<1> SUFFICES ASSUME StoreInv, [Next]_vars PROVE [Abstract!Next]_Abstract!atomicVars
  OBVIOUS
<1> DEFINE Goal == [Abstract!Next]_Abstract!atomicVars
<1>t. ApplyTypeOK /\ KeyTypeOK
  BY DEF StoreInv, TypeOK
<1>o. \A w \in Writers : at[w] \notin {"returned", "done"} => outcome[w] = "open"
  BY DEF StoreInv, OpenInv
<1>b. \A w \in Writers : Abstract!Baseline(w) = Baseline(w)
  BY DEF Baseline, Abstract!Baseline
<1>s. UNCHANGED <<key, loaded, outcome>> => Goal
  BY DEF Abstract!atomicVars
(* An answer without a commit is the abstract store's Decline.              *)
<1>d. ASSUME NEW w \in Writers, outcome[w] = "open", UNCHANGED <<key, loaded>>,
             NEW o \in {"refused", "exhausted", "unknown"},
             outcome' = [outcome EXCEPT ![w] = o]
      PROVE  Goal
  BY <1>d, SameState DEF Abstract!Next, Abstract!Decline, Abstract!Told
<1>1. CASE Put
  <2>1. CASE key' = Fresh
    BY <1>1, <2>1, SameState DEF Put, Abstract!Next, Abstract!Create, StoreInv, NewInv
  <2>2. CASE UNCHANGED key
    BY <1>1, <2>2, <1>s DEF Put
  <2> QED
    BY <1>1, <2>1, <2>2 DEF Put
<1>2. CASE Drain \/ UNCHANGED vars
  BY <1>2, <1>s DEF Drain, vars
<1>3. CASE Delete
  BY <1>3 DEF Delete, Abstract!Next, Abstract!Remove
<1>4. ASSUME NEW w \in Writers, Watch(w) PROVE Goal
  BY <1>4, <1>s DEF Watch
<1>5. ASSUME NEW w \in Writers, Get(w) PROVE Goal
  <2>1. CASE Answers(w, "refused")
    BY <1>5, <2>1, <1>o, <1>d DEF Get, Answers
  <2>2. CASE UNCHANGED outcome
    BY <1>5, <2>2, <1>s DEF Get
  <2> QED
    BY <1>5, <2>1, <2>2 DEF Get
(* EXEC on an unmoved version is the abstract Update.                       *)
<1>6. ASSUME NEW w \in Writers, Commits(w) PROVE Goal
  <2>1. read[w] = key /\ ~Refuses(w, key, Baseline(w))
    BY <1>6 DEF Commits, Unchanged, StoreInv, ReadIsCurrent
  <2>2. key' = Merge(w, key, Abstract!Baseline(w)) /\ UNCHANGED loaded
    BY <1>6, <2>1, <1>b DEF Commits
  <2>3. PICK o \in {"applied", "unknown"} : outcome' = [outcome EXCEPT ![w] = o]
    BY <1>6 DEF Commits, Answers
  <2>4. outcome[w] = "open"
    BY <1>6, <1>o DEF Commits
  <2>5. Abstract!Update(w)
    BY <2>1, <2>2, <2>3, <2>4, <1>b, SameState DEF Abstract!Update, Abstract!Told
  <2> QED
    BY <2>5, SameState DEF Abstract!Next
<1>7. ASSUME NEW w \in Writers, Conflicts(w) PROVE Goal
  <2>1. CASE Answers(w, "exhausted")
    BY <1>7, <2>1, <1>o, <1>d DEF Conflicts, Answers
  <2>2. CASE UNCHANGED outcome
    BY <1>7, <2>2, <1>s DEF Conflicts
  <2> QED
    BY <1>7, <2>1, <2>2 DEF Conflicts
<1>8. ASSUME NEW w \in Writers, Raises(w) PROVE Goal
  BY <1>8, <1>o, <1>d DEF Raises, Answers, Calling
<1>9. ASSUME NEW e \in Event, HandsOver(e) PROVE Goal
  BY <1>9, <1>s DEF HandsOver
<1>10. ASSUME NEW d \in Dispatches, Begins(d) \/ Concludes(d) PROVE Goal
  BY <1>10, <1>s DEF Begins, Concludes
<1>11. ASSUME NEW d \in Dispatches, Load(d) PROVE Goal
  <2>1. CASE key = None
    <3>1. loaded[d] = None
      BY <1>11 DEF Load, StoreInv, OpenInv
    <3>2. UNCHANGED loaded
      BY <1>11, <2>1, <3>1, <1>t DEF Load, ApplyTypeOK
    <3> QED
      BY <1>11, <2>1, <3>2, <1>o, <1>d, Sets DEF Load
  <2>2. CASE key # None
    <3>1. Abstract!Load(d)
      BY <1>11, <2>2, <1>o, Sets DEF Load, Abstract!Load
    <3> QED
      BY <3>1 DEF Abstract!Next
  <2> QED
    BY <2>1, <2>2
<1>12. ASSUME NEW d \in Dispatches, LoadRaises(d) PROVE Goal
  BY <1>12, <1>o, <1>d, Sets DEF LoadRaises
<1>13. ASSUME NEW d \in Dispatches, Interrupted(d) PROVE Goal
  <2>1. CASE outcome[d] = "open"
    BY <1>13, <2>1, <1>d, Sets DEF Interrupted
  <2>2. CASE outcome[d] # "open"
    BY <1>13, <2>2, <1>s, <1>t DEF Interrupted, ApplyTypeOK
  <2> QED
    BY <2>1, <2>2
<1> QED
  BY <1>1, <1>2, <1>3, <1>4, <1>5, <1>6, <1>7, <1>8, <1>9, <1>10, <1>11, <1>12, <1>13, Steps

(* redis_store.py:12: every apply() takes effect in one step on the state as *)
(* it is then, or not at all and its caller is told.                        *)
THEOREM StoreIsAtomic == Spec => ImplementsAtomicState
<1>1. Init => Abstract!Init
  BY SameState DEF Init, Abstract!Init
<1>2. QED
  BY <1>1, StepIsAtomic, StoreInvariant, PTL DEF Spec, ImplementsAtomicState, Abstract!Spec

-----------------------------------------------------------------------------
(* NOTHING IS FORGOTTEN                                                     *)

(* As long as nobody has put a state there is nothing to lose.              *)
AbsentInv ==
  key = None /\ stage # "deleted" =>
    /\ commits = [turns |-> <<>>, canvases |-> <<>>, decisions |-> <<>>]
    /\ \A d \in Dispatches : loaded[d] = None

HistoryInv == NothingForgotten /\ AbsentInv

(* What a full window keeps when one turn is appended is what it would keep *)
(* of everything appended so far.                                           *)
LEMMA WindowKeepsNewest ==
  ASSUME NEW S, NEW s \in Seq(S), NEW e \in S
  PROVE  Newest(Append(LastOf(WindowCap, s), e)) = LastOf(WindowCap, Append(s, e))
<1> DEFINE n == WindowCap
           longer == Append(s, e)
           window == Append(LastOf(n, s), e)
<1>1. n \in Nat /\ n > 0 /\ Len(s) \in Nat
  BY StateAssumption
<1>2. /\ longer \in Seq(S) /\ Len(longer) = Len(s) + 1
      /\ \A i \in 1 .. Len(s) + 1 : longer[i] = IF i = Len(s) + 1 THEN e ELSE s[i]
  OBVIOUS
<1>3. CASE Len(s) < n
  <2>1. LastOf(n, s) = s /\ window = longer /\ Newest(window) = longer
    BY <1>1, <1>2, <1>3 DEF LastOf, Newest
  <2>2. LastOf(n, longer) = longer
    BY <1>1, <1>2, <1>3 DEF LastOf
  <2> QED
    BY <2>1, <2>2
<1>4. CASE Len(s) >= n
  <2> DEFINE k == Len(s) - n
             last == LastOf(n, s)
  <2>1. k \in Nat /\ k + n = Len(s)
    BY <1>1, <1>4
  <2>2. last \in Seq(S) /\ Len(last) = n /\ \A i \in 1 .. n : last[i] = s[k + i]
    <3>1. CASE Len(s) > n
      <4>1. last = SubSeq(s, k + 1, Len(s))
        BY <1>1, <3>1 DEF LastOf
      <4> QED
        BY <1>1, <2>1, <3>1, <4>1, SubSeqProperties
    <3>2. CASE Len(s) = n
      BY <1>1, <3>2 DEF LastOf
    <3> QED
      BY <1>1, <1>4, <3>1, <3>2
  <2> HIDE DEF last
  <2>3. /\ window \in Seq(S) /\ Len(window) = n + 1
        /\ \A i \in 1 .. n + 1 : window[i] = IF i = n + 1 THEN e ELSE last[i]
    BY <1>1, <2>2 DEF last
  <2> HIDE DEF window, longer
  <2>4. Newest(window) = SubSeq(window, 2, n + 1)
    BY <1>1, <2>3 DEF Newest
  <2>5. LastOf(n, longer) = SubSeq(longer, k + 2, Len(s) + 1)
    <3>1. Len(longer) > n /\ Len(longer) - n + 1 = k + 2
      BY <1>1, <1>2, <1>4, <2>1
    <3> QED
      BY <1>2, <3>1 DEF LastOf
  <2>6. SubSeq(window, 2, n + 1) = [i \in 1 .. n |-> window[i + 1]]
    BY <1>1, <2>3, SubSeqProperties
  <2>7. SubSeq(longer, k + 2, Len(s) + 1) = [i \in 1 .. n |-> longer[k + 1 + i]]
    BY <1>1, <1>2, <2>1, SubSeqProperties
  <2>8. \A i \in 1 .. n : window[i + 1] = longer[k + 1 + i]
    <3> SUFFICES ASSUME NEW i \in 1 .. n PROVE window[i + 1] = longer[k + 1 + i]
      OBVIOUS
    <3>1. CASE i = n
      <4>1. k + 1 + i = Len(s) + 1 /\ i + 1 = n + 1 /\ Len(s) + 1 \in 1 .. Len(s) + 1
        BY <1>1, <2>1, <3>1
      <4>2. longer[Len(s) + 1] = e /\ window[n + 1] = e
        BY <1>1, <1>2, <2>3
      <4> QED
        BY <4>1, <4>2
    <3>2. CASE i < n
      <4>1. window[i + 1] = s[k + (i + 1)] /\ i + 1 \in 1 .. n
        BY <1>1, <2>2, <2>3, <3>2
      <4>2. k + 1 + i \in 1 .. Len(s) /\ k + 1 + i # Len(s) + 1
        BY <1>1, <2>1, <3>2
      <4> QED
        BY <1>1, <1>2, <2>1, <4>1, <4>2
    <3> QED
      BY <1>1, <3>1, <3>2
  <2> QED
    BY <2>4, <2>5, <2>6, <2>7, <2>8 DEF window, last, longer
<1> QED
  BY <1>1, <1>3, <1>4

LEMMA LastIsAppended ==
  ASSUME NEW S, NEW s \in Seq(S), NEW e \in S
  PROVE  LastOf(1, Append(s, e)) = <<e>>
<1>1. CASE Len(s) = 0
  BY <1>1 DEF LastOf
<1>2. CASE Len(s) # 0
  <2>1. LastOf(1, Append(s, e)) = SubSeq(Append(s, e), Len(s) + 1, Len(s) + 1)
    BY <1>2 DEF LastOf
  <2>2. LastOf(1, Append(s, e)) = [i \in 1 .. 1 |-> Append(s, e)[Len(s) + i]]
    BY <2>1
  <2> QED
    BY <2>2
<1> QED
  BY <1>1, <1>2

(* A commit whose base is the key itself adds its writer to the state.      *)
LEMMA MergeAdds ==
  ASSUME TypeOK, NEW w \in Writers, key # None, NEW baseline
  PROVE  LET s == Merge(w, key, baseline) IN
         /\ s.window = IF w \in Turns THEN Newest(Append(key.window, w)) ELSE key.window
         /\ s.canvas = IF w \in Canvases THEN w ELSE key.canvas
         /\ s.decisions = IF w \in Dispatches THEN Append(key.decisions, w) ELSE key.decisions
<1>1. key \in State
  BY DEF TypeOK, KeyTypeOK
<1>2. /\ w \in Turns => w \notin Canvases /\ w \notin Dispatches
      /\ w \in Canvases => w \notin Dispatches
      /\ w \in Turns \/ w \in Canvases \/ w \in Dispatches
  BY StateAssumption DEF Writers
<1> QED
  BY <1>1, <1>2 DEF Merge, Base, State

LEMMA CommitKeepsHistory ==
  ASSUME StoreInv, HistoryInv, NEW w \in Writers, Commits(w)
  PROVE  HistoryInv'
<1>1. CASE stage = "deleted"
  BY <1>1 DEF Commits, HistoryInv, NothingForgotten, AbsentInv
<1>2. CASE stage # "deleted"
  <2>t. /\ commits \in Histories /\ loaded \in [Dispatches -> State \cup {None}]
        /\ key \in State \cup {None} /\ stage' = stage /\ TypeOK
    BY <1>2 DEF StoreInv, TypeOK, KeyTypeOK, ApplyTypeOK, Commits
  <2>1. /\ key' = Merge(w, key, Baseline(w)) /\ ~Refuses(w, key, Baseline(w))
        /\ commits' \in Histories /\ Grows(commits', w)
    BY <2>t, CommitsGrow DEF Commits, Unchanged, StoreInv, ReadIsCurrent
  <2>2. key # None
    BY <1>2, <2>1 DEF HistoryInv, AbsentInv, Refuses, Base, Baseline
  <2>3. /\ key.window \in Seq(Turns) /\ key.decisions \in Seq(Dispatches)
        /\ key.canvas \in Canvases \cup {None} /\ None \notin Canvases
    BY <2>t, <2>2, StateAssumption DEF State, Writers
  <2>4. key' \in State /\ key' # None
    <3>1. Baseline(w) \in State \cup {None}
      BY <2>t DEF Baseline
    <3> QED
      BY <2>t, <2>1, <3>1, MergeTyped, Sets
  <2>5. /\ key.decisions = commits.decisions
        /\ key.window = LastOf(WindowCap, commits.turns)
        /\ LastOf(1, commits.canvases) = (IF key.canvas = None THEN <<>> ELSE <<key.canvas>>)
    BY <1>2, <2>2 DEF HistoryInv, NothingForgotten
  <2>6. /\ key'.window = IF w \in Turns THEN Newest(Append(key.window, w)) ELSE key.window
        /\ key'.canvas = IF w \in Canvases THEN w ELSE key.canvas
        /\ key'.decisions = IF w \in Dispatches THEN Append(key.decisions, w) ELSE key.decisions
    BY <2>t, <2>1, <2>2, MergeAdds
  <2>7. key'.decisions = commits'.decisions
    BY <2>1, <2>5, <2>6 DEF Grows
  <2>8. key'.window = LastOf(WindowCap, commits'.turns)
    <3>1. CASE w \in Turns
      <4>1. commits.turns \in Seq(Turns)
        BY <2>t DEF Histories
      <4> QED
        BY <2>1, <2>5, <2>6, <3>1, <4>1, WindowKeepsNewest DEF Grows
    <3>2. CASE w \notin Turns
      BY <2>1, <2>5, <2>6, <3>2 DEF Grows
    <3> QED
      BY <3>1, <3>2
  <2>9. LastOf(1, commits'.canvases) = (IF key'.canvas = None THEN <<>> ELSE <<key'.canvas>>)
    <3>1. CASE w \in Canvases
      <4>1. commits.canvases \in Seq(Canvases)
        BY <2>t DEF Histories
      <4> QED
        BY <2>1, <2>3, <2>6, <3>1, <4>1, LastIsAppended DEF Grows
    <3>2. CASE w \notin Canvases
      BY <2>1, <2>5, <2>6, <3>2 DEF Grows
    <3> QED
      BY <3>1, <3>2
  <2> QED
    BY <2>4, <2>7, <2>8, <2>9 DEF HistoryInv, NothingForgotten, AbsentInv
<1> QED
  BY <1>1, <1>2

LEMMA HistoryStep == StoreInv /\ HistoryInv /\ [Next]_vars => HistoryInv'
<1> SUFFICES ASSUME StoreInv, HistoryInv, [Next]_vars PROVE HistoryInv'
  OBVIOUS
<1>s. ASSUME UNCHANGED <<key, commits, loaded>>, stage' = "deleted" \/ stage # "deleted"
      PROVE  HistoryInv'
  BY <1>s DEF HistoryInv, NothingForgotten, AbsentInv
<1>1. CASE Put
  <2>1. key = None /\ stage = "new" /\ UNCHANGED <<commits, loaded>> /\ stage' = "open"
    BY <1>1 DEF Put, StoreInv, NewInv
  <2>2. commits = [turns |-> <<>>, canvases |-> <<>>, decisions |-> <<>>]
    BY <2>1 DEF HistoryInv, AbsentInv
  <2>3. CASE key' = Fresh
    <3>1. Len(<<>>) = 0 /\ LastOf(WindowCap, <<>>) = <<>> /\ LastOf(1, <<>>) = <<>>
      BY StateAssumption DEF LastOf
    <3>2. Fresh # None
      <4>1. Fresh \in State
        BY DEF Fresh, State
      <4> QED
        BY <4>1, Sets
    <3> QED
      BY <2>1, <2>2, <2>3, <3>1, <3>2 DEF HistoryInv, NothingForgotten, AbsentInv, Fresh
  <2>4. CASE UNCHANGED key
    BY <2>1, <2>4, <1>s
  <2> QED
    BY <1>1, <2>3, <2>4 DEF Put
<1>2. CASE Drain \/ UNCHANGED vars
  BY <1>2, <1>s DEF Drain, vars
<1>3. CASE Delete
  BY <1>3 DEF Delete, HistoryInv, NothingForgotten, AbsentInv
<1>4. ASSUME NEW w \in Writers, Watch(w) \/ Get(w) \/ Conflicts(w) \/ Raises(w)
      PROVE  HistoryInv'
  BY <1>4, <1>s DEF Watch, Get, Conflicts, Raises
<1>5. ASSUME NEW w \in Writers, Commits(w) PROVE HistoryInv'
  BY <1>5, CommitKeepsHistory
<1>6. ASSUME NEW e \in Event, HandsOver(e) PROVE HistoryInv'
  BY <1>6, <1>s DEF HandsOver
<1>7. ASSUME NEW d \in Dispatches, Begins(d) \/ LoadRaises(d) \/ Concludes(d) \/ Interrupted(d)
      PROVE  HistoryInv'
  BY <1>7, <1>s DEF Begins, LoadRaises, Concludes, Interrupted
<1>8. ASSUME NEW d \in Dispatches, Load(d) PROVE HistoryInv'
  <2>1. UNCHANGED <<key, stage, commits>> /\ loaded' = [loaded EXCEPT ![d] = key]
    BY <1>8 DEF Load
  <2> QED
    BY <2>1 DEF HistoryInv, NothingForgotten, AbsentInv, StoreInv, TypeOK, ApplyTypeOK
<1> QED
  BY <1>1, <1>2, <1>3, <1>4, <1>5, <1>6, <1>7, <1>8, Steps

THEOREM HistoryInvariant == Spec => []HistoryInv
<1>1. Init => HistoryInv
  BY DEF Init, HistoryInv, NothingForgotten, AbsentInv
<1> QED
  BY <1>1, HistoryStep, StoreInvariant, PTL DEF Spec

(* session_state.py:98-105, main.py:999: until the teardown deletes it, the  *)
(* state holds every committed decision, the last committed canvas and the   *)
(* newest WindowCap committed turns, in the order they were committed.       *)
THEOREM StateRemembers == Spec => []NothingForgotten
BY HistoryInvariant, PTL DEF HistoryInv

-----------------------------------------------------------------------------
(* DISPATCHES SEE THEIR EVENTS                                              *)

(* Who was told "applied" is in the history; what the router has was told.  *)
InHistory(e) == \E i \in DOMAIN commits[Kind(e)] : commits[Kind(e)][i] = e
AppliedInv == \A e \in Turns \cup Canvases : outcome[e] = "applied" => InHistory(e)
HandedInv ==
  \A e \in Router!Members(queued) \cup Router!Members(running) :
    e \in Event /\ outcome[e] \in {"applied", "refused", "exhausted"}

SeenInv == AppliedInv /\ HandedInv

(* No outcome of a turn or canvas message that is told is told again.       *)
ToldStays == \A e \in Turns \cup Canvases : outcome[e] # "open" => outcome'[e] = outcome[e]
NobodyApplied == \A e \in Turns \cup Canvases : outcome'[e] = "applied" => outcome[e] = "applied"

LEMMA AppliedStays ==
  ASSUME AppliedInv, UNCHANGED commits, NobodyApplied
  PROVE  AppliedInv'
BY DEF AppliedInv, InHistory, NobodyApplied

LEMMA HandedStays ==
  ASSUME HandedInv, ToldStays,
         Router!Members(queued') \cup Router!Members(running')
           \subseteq Router!Members(queued) \cup Router!Members(running)
  PROVE  HandedInv'
<1>1. \A e \in Event : outcome[e] \in {"applied", "refused", "exhausted"} =>
        outcome'[e] = outcome[e]
  BY DEF ToldStays, Event, Turns
<1> QED
  BY <1>1 DEF HandedInv, Router!Members

(* An answer is the first its writer gets.                                  *)
LEMMA AnswerTells ==
  ASSUME StoreInv, NEW w \in Writers, at[w] \in Calling, NEW o \in Outcomes, Answers(w, o)
  PROVE  ToldStays /\ (o # "applied" => NobodyApplied)
<1>1. outcome[w] = "open" /\ outcome' = [outcome EXCEPT ![w] = o]
  BY DEF StoreInv, OpenInv, Calling, Answers
<1>2. outcome \in [Writers -> Outcomes] /\ Turns \cup Canvases \subseteq Writers
  BY DEF StoreInv, TypeOK, ApplyTypeOK, Writers
<1> QED
  BY <1>1, <1>2 DEF ToldStays, NobodyApplied

(* A commit enters its writer into the history and takes nobody out.        *)
LEMMA CommitKeepsApplied ==
  ASSUME StoreInv, AppliedInv, NEW w \in Writers, Commits(w)
  PROVE  AppliedInv' /\ ToldStays
<1>1. PICK o \in {"applied", "unknown"} : Answers(w, o)
  BY DEF Commits
<1>2. /\ commits' = [commits EXCEPT ![Kind(w)] = Append(@, w)] /\ at[w] \in Calling
      /\ o \in Outcomes /\ outcome' = [outcome EXCEPT ![w] = o]
  BY <1>1 DEF Commits, Calling, Outcomes, Answers
<1>3. /\ commits \in Histories /\ outcome \in [Writers -> Outcomes]
      /\ Turns \cup Canvases \subseteq Writers
  BY DEF StoreInv, TypeOK, ApplyTypeOK, Writers
<1>4. \A e : Kind(e) \in {"turns", "canvases", "decisions"}
  BY DEF Kind
<1>5. \A e \in Writers : commits[Kind(e)] \in Seq(Writers)
  BY <1>3, <1>4 DEF Histories, Writers
<1>6. InHistory(w)'
  <2> DEFINE s == commits[Kind(w)]
  <2>1. commits'[Kind(w)] = Append(s, w)
    BY <1>2, <1>3, <1>4 DEF Histories
  <2>2. s \in Seq(Writers)
    BY <1>5
  <2> HIDE DEF s
  <2>3. Len(s) + 1 \in DOMAIN Append(s, w) /\ Append(s, w)[Len(s) + 1] = w
    BY <2>2
  <2> QED
    BY <2>1, <2>3 DEF InHistory
<1>7. ASSUME NEW e \in Writers, InHistory(e) PROVE InHistory(e)'
  <2> DEFINE s == commits[Kind(e)]
  <2>1. commits'[Kind(e)] = s \/ commits'[Kind(e)] = Append(s, w)
    BY <1>2, <1>3, <1>4 DEF Histories
  <2>2. s \in Seq(Writers)
    BY <1>5
  <2>3. PICK i \in DOMAIN s : s[i] = e
    BY <1>7 DEF InHistory
  <2> HIDE DEF s
  <2>4. i \in DOMAIN Append(s, w) /\ Append(s, w)[i] = e
    BY <2>2, <2>3
  <2> QED
    BY <2>1, <2>3, <2>4 DEF InHistory
<1>8. ToldStays
  BY <1>1, <1>2, AnswerTells
<1>9. AppliedInv'
  <2> SUFFICES ASSUME NEW e \in Turns \cup Canvases, outcome'[e] = "applied"
               PROVE  InHistory(e)'
    BY DEF AppliedInv
  <2>1. CASE e = w
    BY <1>6, <2>1
  <2>2. CASE e # w
    <3>1. outcome[e] = "applied" /\ e \in Writers
      BY <1>2, <1>3, <2>2
    <3> QED
      BY <1>7, <3>1 DEF AppliedInv
  <2> QED
    BY <2>1, <2>2
<1> QED
  BY <1>8, <1>9

(* What the router's steps do to the events it has.                         *)
LEMMA RouterMembers ==
  ASSUME RouterTypeOK
  PROVE  /\ Router!Begin \/ Router!Finish \/ Router!PutBack \/ Router!Discard =>
              Router!Members(queued') \cup Router!Members(running')
                \subseteq Router!Members(queued) \cup Router!Members(running)
         /\ \A e \in Event : Router!Accept(e) =>
              /\ Router!Members(queued') \subseteq Router!Members(queued) \cup {e}
              /\ running' = running
<1>1. queued \in Seq(Event) /\ running \in Seq(Event)
  BY DEF RouterTypeOK
<1>2. Router!Members(<<>>) = {}
  BY DEF Router!Members
<1>3. ASSUME Router!Begin \/ Router!Finish \/ Router!Discard
      PROVE  Router!Members(queued') \cup Router!Members(running')
               \subseteq Router!Members(queued) \cup Router!Members(running)
  <2>1. queued' = <<>> /\ (running' = queued \/ running' = running)
    BY <1>3 DEF Router!Begin, Router!Finish, Router!Discard
  <2>2. \/ Router!Members(running') = Router!Members(queued)
        \/ Router!Members(running') = Router!Members(running)
    BY <2>1
  <2>3. Router!Members(queued') = {}
    BY <1>2, <2>1
  <2> QED
    BY <2>2, <2>3
<1>4. ASSUME Router!PutBack
      PROVE  Router!Members(queued') \cup Router!Members(running')
               \subseteq Router!Members(queued) \cup Router!Members(running)
  <2>1. queued' = running \o queued /\ running' = <<>>
    BY <1>4 DEF Router!PutBack
  <2>2. \A i \in DOMAIN queued' :
          \/ (i \in DOMAIN running /\ queued'[i] = running[i])
          \/ (i - Len(running) \in DOMAIN queued /\ queued'[i] = queued[i - Len(running)])
    BY <1>1, <2>1
  <2>3. Router!Members(queued') \subseteq Router!Members(queued) \cup Router!Members(running)
    BY <2>2 DEF Router!Members
  <2> QED
    BY <1>2, <2>1, <2>3
<1>5. ASSUME NEW e \in Event, Router!Accept(e)
      PROVE  /\ Router!Members(queued') \subseteq Router!Members(queued) \cup {e}
             /\ running' = running
  <2>1. queued' = Append(queued, e) /\ running' = running
    BY <1>5 DEF Router!Accept, Router!Enqueue
  <2>2. \A i \in DOMAIN queued' : (i \in DOMAIN queued /\ queued'[i] = queued[i]) \/ queued'[i] = e
    BY <1>1, <2>1
  <2> QED
    BY <2>1, <2>2 DEF Router!Members
<1> QED
  BY <1>3, <1>4, <1>5

LEMMA SeenStep == StoreInv /\ SeenInv /\ [Next]_vars => SeenInv'
<1> SUFFICES ASSUME StoreInv, SeenInv, [Next]_vars PROVE SeenInv'
  OBVIOUS
<1>t. /\ outcome \in [Writers -> Outcomes] /\ RouterTypeOK
      /\ (Turns \cup Canvases) \cap Dispatches = {}
  BY StateAssumption DEF StoreInv, TypeOK, ApplyTypeOK
<1>m. /\ UNCHANGED outcome => ToldStays /\ NobodyApplied
      /\ \A d \in Dispatches : \A o :
           outcome' = [outcome EXCEPT ![d] = o] => ToldStays /\ NobodyApplied
  <2>1. UNCHANGED outcome => ToldStays /\ NobodyApplied
    BY DEF ToldStays, NobodyApplied
  <2>2. ASSUME NEW d \in Dispatches, NEW o, outcome' = [outcome EXCEPT ![d] = o]
        PROVE  ToldStays /\ NobodyApplied
    <3>1. \A e \in Turns \cup Canvases : e # d /\ e \in Writers
      BY <1>t DEF Writers
    <3>2. \A e \in Turns \cup Canvases : outcome'[e] = outcome[e]
      BY <1>t, <2>2, <3>1
    <3> QED
      BY <3>2 DEF ToldStays, NobodyApplied
  <2> QED
    BY <2>1, <2>2
(* A step that applies nothing, or of the router alone.                     *)
<1>s. ASSUME UNCHANGED commits, NobodyApplied, ToldStays,
             UNCHANGED routerVars \/ Router!Begin \/ Router!Finish \/ Router!PutBack
               \/ Router!Discard
      PROVE  SeenInv'
  BY <1>s, <1>t, AppliedStays, HandedStays, RouterMembers DEF SeenInv, routerVars
<1>1. CASE Put \/ Drain \/ Delete \/ UNCHANGED vars
  BY <1>1, <1>m, <1>s DEF Put, Drain, Delete, vars
<1>2. ASSUME NEW w \in Writers, Watch(w) PROVE SeenInv'
  BY <1>2, <1>m, <1>s DEF Watch
<1>3. ASSUME NEW w \in Writers, Get(w) PROVE SeenInv'
  <2>1. Answers(w, "refused") \/ UNCHANGED outcome
    BY <1>3 DEF Get
  <2>2. ToldStays /\ NobodyApplied
    BY <1>3, <1>m, <2>1, AnswerTells DEF Get, Calling, Outcomes
  <2> QED
    BY <1>3, <1>s, <2>2 DEF Get
<1>4. ASSUME NEW w \in Writers, Commits(w) PROVE SeenInv'
  BY <1>4, CommitKeepsApplied, HandedStays DEF Commits, SeenInv, routerVars
<1>5. ASSUME NEW w \in Writers, Conflicts(w) \/ Raises(w) PROVE SeenInv'
  <2>1. \/ UNCHANGED outcome
        \/ at[w] \in Calling /\ (Answers(w, "exhausted") \/ Answers(w, "unknown"))
    BY <1>5 DEF Conflicts, Raises, Calling
  <2>2. ToldStays /\ NobodyApplied
    BY <1>m, <2>1, AnswerTells DEF Outcomes
  <2> QED
    BY <1>5, <1>s, <2>2 DEF Conflicts, Raises
<1>6. ASSUME NEW e \in Event, HandsOver(e) PROVE SeenInv'
  <2>1. /\ UNCHANGED <<commits, outcome>> /\ Router!Accept(e)
        /\ outcome[e] \in {"applied", "refused", "exhausted"}
    BY <1>6 DEF HandsOver, MayDispatch
  <2>2. AppliedInv'
    BY <1>m, <2>1, AppliedStays DEF SeenInv
  <2>3. /\ Router!Members(queued') \subseteq Router!Members(queued) \cup {e}
        /\ running' = running
    BY <1>t, <2>1, RouterMembers
  <2>4. HandedInv'
    BY <2>1, <2>3 DEF SeenInv, HandedInv, Router!Members
  <2> QED
    BY <2>2, <2>4 DEF SeenInv
<1>7. ASSUME NEW d \in Dispatches, Begins(d) \/ Concludes(d) PROVE SeenInv'
  BY <1>7, <1>m, <1>s DEF Begins, Concludes
<1>8. ASSUME NEW d \in Dispatches, Load(d) \/ LoadRaises(d) \/ Interrupted(d) PROVE SeenInv'
  <2>1. UNCHANGED outcome \/ \E o : outcome' = [outcome EXCEPT ![d] = o]
    BY <1>8 DEF Load, LoadRaises, Interrupted
  <2> QED
    BY <1>8, <1>m, <1>s, <2>1 DEF Load, LoadRaises, Interrupted
<1> QED
  BY <1>1, <1>2, <1>3, <1>4, <1>5, <1>6, <1>7, <1>8, Steps

THEOREM SeenInvariant == Spec => []SeenInv
<1>1. Init => SeenInv
  BY DEF Init, SeenInv, AppliedInv, HandedInv, Router!Init, Router!Members, Writers
<1> QED
  BY <1>1, SeenStep, StoreInvariant, PTL DEF Spec

(* The last n of a sequence have each of its members, or are n and miss only *)
(* members that others follow.                                              *)
LEMMA LastShows ==
  ASSUME NEW S, NEW s \in Seq(S), NEW n \in Nat \ {0}, NEW i \in DOMAIN s
  PROVE  \/ \E k \in DOMAIN LastOf(n, s) : LastOf(n, s)[k] = s[i]
         \/ Len(LastOf(n, s)) = n /\ \E j \in DOMAIN s : i < j
<1>1. DOMAIN s = 1 .. Len(s) /\ Len(s) \in Nat /\ i \in 1 .. Len(s)
  OBVIOUS
<1>2. CASE Len(s) <= n
  <2>1. LastOf(n, s) = s
    BY <1>1, <1>2 DEF LastOf
  <2> QED
    BY <2>1
<1>3. CASE Len(s) > n
  <2> DEFINE first == Len(s) - n + 1
             last == SubSeq(s, first, Len(s))
  <2>1. LastOf(n, s) = last /\ first \in 1 .. Len(s) /\ first \in Int
    BY <1>1, <1>3 DEF LastOf
  <2>2. last \in Seq(S) /\ Len(last) = n /\ \A k \in 1 .. n : last[k] = s[first + k - 1]
    <3>1. \A k \in first .. Len(s) : s[k] \in S
      BY <1>1, <2>1
    <3>2. /\ last \in Seq(S)
          /\ Len(last) = IF first <= Len(s) THEN Len(s) - first + 1 ELSE 0
          /\ \A k \in 1 .. Len(s) - first + 1 : last[k] = s[first + k - 1]
      BY <1>1, <2>1, <3>1, SubSeqProperties
    <3>3. Len(s) - first + 1 = n /\ first <= Len(s)
      BY <1>1, <2>1
    <3> HIDE DEF last, first
    <3> QED
      BY <3>2, <3>3
  <2> HIDE DEF last
  <2>3. CASE i < first
    <3>1. Len(s) \in DOMAIN s /\ i < Len(s)
      BY <1>1, <1>3, <2>3
    <3> QED
      BY <2>1, <2>2, <3>1
  <2>4. CASE i >= first
    <3>1. i - first + 1 \in 1 .. n /\ first + (i - first + 1) - 1 = i
      BY <1>1, <1>3, <2>4
    <3>2. i - first + 1 \in DOMAIN last /\ last[i - first + 1] = s[i]
      BY <2>2, <3>1
    <3> QED
      BY <2>1, <3>2
  <2> QED
    BY <1>1, <2>1, <2>3, <2>4
<1> QED
  BY <1>1, <1>2, <1>3

(* While there is a state to load, it shows what the history has.           *)
LEMMA HistoryShown ==
  ASSUME StoreInv, NothingForgotten, key # None, stage # "deleted",
         NEW e \in Turns \cup Canvases, InHistory(e)
  PROVE  Shown(e, key)
<1>1. /\ commits.turns \in Seq(Turns) /\ commits.canvases \in Seq(Canvases)
      /\ WindowCap \in Nat \ {0} /\ Turns \cap Canvases = {} /\ None \notin Canvases
  BY StateAssumption DEF StoreInv, TypeOK, ApplyTypeOK, Histories, Writers
<1>2. CASE e \in Turns
  <2> DEFINE s == commits.turns
  <2>1. Kind(e) = "turns"
    BY <1>2 DEF Kind
  <2>2. PICK i \in DOMAIN s : s[i] = e
    BY <2>1 DEF InHistory
  <2>3. key.window = LastOf(WindowCap, s)
    BY DEF NothingForgotten
  <2>4. CASE \E k \in DOMAIN key.window : key.window[k] = e
    BY <1>2, <2>4 DEF Shown, Router!Members
  <2>5. CASE Len(key.window) = WindowCap /\ \E j \in DOMAIN s : i < j
    BY <1>2, <2>1, <2>2, <2>5 DEF Shown, Precedes
  <2> QED
    BY <1>1, <2>2, <2>3, <2>4, <2>5, LastShows
<1>3. CASE e \in Canvases
  <2> DEFINE s == commits.canvases
             last == LastOf(1, s)
  <2>1. Kind(e) = "canvases" /\ e \notin Turns
    BY <1>1, <1>3 DEF Kind
  <2>2. PICK i \in DOMAIN s : s[i] = e
    BY <2>1 DEF InHistory
  <2>3. last = IF key.canvas = None THEN <<>> ELSE <<key.canvas>>
    BY DEF NothingForgotten
  <2> HIDE DEF last
  <2>4. CASE \E k \in DOMAIN last : last[k] = e
    <3>1. key.canvas # None /\ last = <<key.canvas>>
      BY <2>3, <2>4
    <3> QED
      BY <2>1, <2>4, <3>1 DEF Shown
  <2>5. CASE Len(last) = 1 /\ \E j \in DOMAIN s : i < j
    <3>1. key.canvas # None
      BY <2>3, <2>5
    <3> QED
      BY <2>1, <2>2, <2>5, <3>1 DEF Shown, Precedes
  <2>6. \/ \E k \in DOMAIN last : last[k] = s[i]
        \/ Len(last) = 1 /\ \E j \in DOMAIN s : i < j
    <3>1. s \in Seq(Canvases) /\ 1 \in Nat \ {0}
      BY <1>1
    <3> HIDE DEF s
    <3> QED
      BY <2>2, <3>1, LastShows DEF last
  <2> QED
    BY <2>2, <2>4, <2>5, <2>6
<1> QED
  BY <1>2, <1>3

(* main.py:994-997, 881-884: the state a dispatch loads has the turns and    *)
(* canvas messages it is about, unless their writers were told otherwise or  *)
(* later ones displaced them.                                               *)
THEOREM DispatchesSee == Spec => DispatchSeesItsEvents
<1> DEFINE Goal == \A d \in Dispatches :
                     at[d] = "loading" /\ at'[d] = "deciding" /\ stage # "deleted" =>
                       \A e \in Router!Members(running) :
                         outcome[e] \in {"refused", "exhausted"} \/ Shown(e, loaded'[d])
<1>1. StoreInv /\ SeenInv /\ HistoryInv /\ [Next]_vars => [Goal]_vars
  <2> SUFFICES ASSUME StoreInv, SeenInv, HistoryInv, Next, NEW d \in Dispatches,
                      at[d] = "loading", at'[d] = "deciding", stage # "deleted",
                      NEW e \in Router!Members(running),
                      outcome[e] \notin {"refused", "exhausted"}
               PROVE  Shown(e, loaded'[d])
    OBVIOUS
  <2>1. e \in Turns \cup Canvases /\ outcome[e] = "applied"
    BY DEF SeenInv, HandedInv, Event, Turns
  <2>2. loaded'[d] = key /\ key # None
    <3>t. /\ at \in [Writers -> {"none", "loading", "deciding", "returned", "done"} \cup Calling]
          /\ loaded \in [Dispatches -> State \cup {None}] /\ d \in Writers
      BY Sets DEF StoreInv, TypeOK, ApplyTypeOK
    <3>1. \A w \in Writers : ~(Watch(w) \/ Get(w) \/ Commits(w) \/ Conflicts(w) \/ Raises(w))
      BY <3>t DEF Watch, Get, Commits, Conflicts, Raises, Answers, Enter, Calling, Calls
    <3>2. \A n \in Dispatches : ~(Begins(n) \/ LoadRaises(n) \/ Concludes(n) \/ Interrupted(n))
      BY <3>t, Sets DEF Begins, LoadRaises, Concludes, Interrupted, Enter
    <3>3. ~(Put \/ Drain \/ Delete \/ \E x \in Event : HandsOver(x))
      BY DEF Put, Drain, Delete, HandsOver
    <3>4. PICK n \in Dispatches : Load(n)
      BY <3>1, <3>2, <3>3 DEF Next, Applies, Dispatching
    <3> QED
      BY <3>4, <3>t, Sets DEF Load, Enter
  <2>3. InHistory(e)
    BY <2>1 DEF SeenInv, AppliedInv
  <2> QED
    BY <2>1, <2>2, <2>3, HistoryShown DEF HistoryInv
<1> QED
  BY <1>1, StoreInvariant, SeenInvariant, HistoryInvariant, PTL DEF Spec, DispatchSeesItsEvents
=============================================================================
