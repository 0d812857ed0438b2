-------------------------- MODULE RecordScreen_proofs --------------------------
(***************************************************************************)
(* The theorems of FlvPlayer and RecordScreen: for recordings of any       *)
(* length with their tags in any order, steps of any size, any number of   *)
(* step threads and of runs.                                               *)
(***************************************************************************)
EXTENDS RecordScreen, FiniteSetTheorems, WellFoundedInduction, TLAPS

----------------------------------------------------------------------------
(* Largest and smallest elements, and the tags of a recording. *)

(* A set of numbers that is not empty has a smallest. *)
LEMMA SmallestExists ==
  ASSUME NEW S \in SUBSET Nat, S # {}
  PROVE  \E x \in S : \A y \in S : x <= y
<1> DEFINE R == OpToRel(<, Nat)
<1>1. IsWellFoundedOn(R, Nat)
  BY NatLessThanWellFounded
<1>2. \A x, y \in Nat : <<y, x>> \in R <=> y < x
  BY DEF OpToRel
<1> HIDE DEF R
<1>3. PICK x \in S : \A y \in S : ~(<<y, x>> \in R)
  BY <1>1, WFMin
<1>4. \A y \in S : ~(y < x)
  BY <1>2, <1>3, Zenon
<1>5. \A y \in S : x \in Nat /\ y \in Nat
  BY <1>3, Zenon
<1>6. \A y \in S : x <= y
  BY <1>4, <1>5
<1> QED
  BY <1>3, <1>6, Zenon

LEMMA MinOf ==
  ASSUME NEW S \in SUBSET Nat, S # {}
  PROVE  Min(S) \in S /\ \A y \in S : Min(S) <= y
<1>1. \E x \in S : \A y \in S : x <= y
  BY SmallestExists
<1> QED
  BY <1>1, Zenon DEF Min

LEMMA MaxOf ==
  ASSUME NEW n \in Nat, NEW S \in SUBSET (1..n), S # {}
  PROVE  Max(S) \in S /\ \A y \in S : y <= Max(S)
<1> DEFINE T == {n - x : x \in S}
<1>1. T \in SUBSET Nat /\ T # {}
  <2>1. \A x \in S : n - x \in Nat
    OBVIOUS
  <2> QED
    BY <2>1, Zenon
<1>2. PICK m \in T : \A y \in T : m <= y
  <2> HIDE DEF T
  <2> QED
    BY <1>1, SmallestExists
<1>3. PICK x \in S : m = n - x
  BY <1>2
<1>4. \A y \in S : n - x <= n - y
  BY <1>2, <1>3
<1>5. \A y \in S : x >= y
  BY <1>4
<1>6. \A y \in S : Max(S) >= y
  BY <1>5, Zenon DEF Max
<1>7. Max(S) \in S
  BY <1>5, Zenon DEF Max
<1> QED
  BY <1>6, <1>7

LEMMA LastOfSet ==
  ASSUME NEW n \in Nat, NEW S \in SUBSET (1..n)
  PROVE  /\ LastOf(S) \in 0..n
         /\ S # {} <=> LastOf(S) # 0
         /\ S # {} => LastOf(S) \in S
         /\ \A y \in S : y <= LastOf(S)
<1>1. CASE S = {}
  BY <1>1 DEF LastOf
<1>2. CASE S # {}
  <2>1. Max(S) \in S /\ \A y \in S : y <= Max(S)
    BY <1>2, MaxOf, Zenon
  <2>2. LastOf(S) = Max(S)
    BY <1>2 DEF LastOf
  <2>3. Max(S) \in 1..n
    BY <2>1, Zenon
  <2>4. Max(S) \in 0..n /\ Max(S) # 0
    BY <2>3
  <2> QED
    BY <1>2, <2>1, <2>2, <2>4, Zenon
<1> QED
  BY <1>1, <1>2

(* A recording is a sequence of tags with a frame among them. *)
LEMMA TagsOfFile ==
  ASSUME tags \in Files
  PROVE  /\ Len(tags) \in Nat /\ DOMAIN tags = 1..Len(tags)
         /\ \A i \in DOMAIN tags : tags[i] \in {"I", "P", "S", "A"}
         /\ Frames # {} /\ IFrames \subseteq Frames /\ Frames \subseteq Video
         /\ Video \subseteq 1..Len(tags)
<1>1. tags \in Seq({"I", "P", "S", "A"}) /\ \E i \in DOMAIN tags : tags[i] \in {"I", "P"}
  BY FilesAssumption
<1> QED
  BY <1>1 DEF Frames, IFrames, Video

(* While the file stays, so do its tags. *)
LEMMA SameFile ==
  ASSUME UNCHANGED tags
  PROVE  Frames' = Frames /\ IFrames' = IFrames /\ Video' = Video /\ End' = End
  BY DEF Frames, IFrames, Video, End

LEMMA FrameBeforeIs ==
  ASSUME tags \in Files, NEW p \in Int
  PROVE  /\ FrameBefore(p) \in 0..Len(tags)
         /\ FrameBefore(p) # 0 => FrameBefore(p) \in Frames /\ FrameBefore(p) < p
         /\ \A i \in Frames : i < p => FrameBefore(p) # 0 /\ i <= FrameBefore(p)
<1> DEFINE S == {i \in Frames : i < p}
<1>1. Len(tags) \in Nat /\ S \in SUBSET (1..Len(tags)) /\ Frames \subseteq 1..Len(tags)
  BY TagsOfFile
<1>2. FrameBefore(p) = LastOf(S)
  BY DEF FrameBefore
<1>3. \A i : i \in S <=> i \in Frames /\ i < p
  OBVIOUS
<1> HIDE DEF S
<1>4. /\ LastOf(S) \in 0..Len(tags)
      /\ S # {} <=> LastOf(S) # 0
      /\ S # {} => LastOf(S) \in S
      /\ \A y \in S : y <= LastOf(S)
  BY <1>1, LastOfSet
<1> QED
  BY <1>2, <1>3, <1>4

(* The frame before the next position is the tag, or the one before it.     *)
LEMMA FrameBeforeNext ==
  ASSUME tags \in Files, NEW p \in Nat
  PROVE  FrameBefore(p + 1) = IF p \in Frames THEN p ELSE FrameBefore(p)
<1>1. Frames \subseteq Nat
  BY TagsOfFile
<1>2. CASE p \notin Frames
  <2>1. \A i \in Frames : i < p + 1 <=> i < p
    BY <1>1, <1>2
  <2>2. {i \in Frames : i < p + 1} = {i \in Frames : i < p}
    BY <2>1, Zenon
  <2> QED
    BY <1>2, <2>2 DEF FrameBefore
<1>3. CASE p \in Frames
  <2>1. FrameBefore(p + 1) # 0 /\ p <= FrameBefore(p + 1)
    BY <1>3, FrameBeforeIs
  <2>2. FrameBefore(p + 1) \in Nat /\ FrameBefore(p + 1) < p + 1
    BY <2>1, FrameBeforeIs, TagsOfFile
  <2> QED
    BY <1>3, <2>1, <2>2
<1> QED
  BY <1>2, <1>3

(* Where step_by_frame looks for a frame is a tag of the file.              *)
LEMMA LandingInFile ==
  ASSUME tags \in Files, NEW p \in Nat, NEW n \in Int
  PROVE  Landing(p, n) \in DOMAIN tags
<1> DEFINE F == {i \in Frames : i > p /\ Cardinality({j \in Frames : p < j /\ j <= i}) = n}
           B == {i \in Frames : i < p /\ Cardinality({j \in Frames : i <= j /\ j < p}) = -n}
           q == IF n > 0 THEN Forward(p, n) ELSE Backward(p, -n)
<1>1. /\ Len(tags) \in Nat /\ DOMAIN tags = 1..Len(tags) /\ Frames \subseteq 1..Len(tags)
      /\ Video \subseteq 1..Len(tags) /\ Video # {} /\ Len(tags) # 0
  BY TagsOfFile
<1>2. F \subseteq 1..Len(tags) /\ B \subseteq 1..Len(tags)
  BY <1>1
<1>3. Forward(p, n) = IF F = {} THEN End ELSE Max(F)
  BY DEF Forward
<1>4. Backward(p, -n) = IF B = {} THEN 1 ELSE Max(B)
  BY DEF Backward
<1> HIDE DEF F, B
<1>5. Forward(p, n) \in 1..End /\ Backward(p, -n) \in 1..Len(tags)
  <2>1. F # {} => Max(F) \in 1..Len(tags)
    BY <1>1, <1>2, MaxOf
  <2>2. B # {} => Max(B) \in 1..Len(tags)
    BY <1>1, <1>2, MaxOf
  <2> QED
    BY <1>1, <1>3, <1>4, <2>1, <2>2 DEF End
<1>6. q \in 1..End
  BY <1>1, <1>5 DEF End
<1>7. LastOf(Video) \in DOMAIN tags
  BY <1>1, LastOfSet
<1>8. Landing(p, n) = IF q = End THEN LastOf(Video) ELSE q
  BY DEF Landing
<1> HIDE DEF q
<1> QED
  BY <1>1, <1>6, <1>7, <1>8 DEF End

(* A set of tags is counted by a number, zero for none only. *)
LEMMA CountOfTags ==
  ASSUME tags \in Files, NEW S, S \subseteq Video
  PROVE  /\ IsFiniteSet(S) /\ Cardinality(S) \in Nat
         /\ S # {} => Cardinality(S) > 0
<1>1. IsFiniteSet(1..Len(tags)) /\ S \subseteq 1..Len(tags)
  BY TagsOfFile, FS_Interval
<1>2. IsFiniteSet(S) /\ Cardinality(S) \in Nat
  BY <1>1, FS_Subset, FS_CardinalityType
<1>3. Cardinality(S) = 0 <=> S = {}
  BY <1>2, FS_EmptySet
<1> QED
  BY <1>2, <1>3

----------------------------------------------------------------------------
(* FlvPlayer: types and control. *)

(* The feed thread lives between start and join, reads from an open file,   *)
(* and rests at a tag; the GUI thread steps only in a player that plays;    *)
(* start asks for an I frame; regulating counts down from a number above 0. *)
Control ==
  /\ feed # "none" => file_open
  /\ feed = "rest" => pos \in DOMAIN tags
  /\ feed = "start" => need_I_frame
  /\ is_playing => feed \in {"start", "check", "lock", "rest"}
  /\ gui = "join" => ~is_playing
  /\ gui # "join" /\ ~is_playing => feed = "none"
  /\ gui \in {"stepLock", "stepFlag", "spin"} => is_playing
  /\ is_regulating => regulate_tag_count > 0

(* What step_by_frame has done when it has moved: it is at an I frame, or   *)
(* at the first tag and waits for one.                                      *)
Moved ==
  /\ pos' \in DOMAIN tags /\ (pos' \in IFrames \/ (pos' = 1 /\ need_I_frame' = TRUE))
  /\ need_I_frame' \in {need_I_frame, TRUE}
  /\ is_regulating' \in BOOLEAN /\ regulate_tag_count' \in Nat
  /\ is_regulating' => regulate_tag_count' > 0

LEMMA StepByFrame ==
  ASSUME TypeOK, NEW count \in Int, step_by_frame(count)
  PROVE  UNCHANGED <<pos, regulateVars>> \/ (~is_regulating /\ Moved)
<1>1. CASE is_regulating \/ count = 1
  BY <1>1 DEF step_by_frame
<1>2. CASE ~(is_regulating \/ count = 1)
  <2> DEFINE q == Landing(pos, count - 1)
             first == LastOf({i \in IFrames : i < q})
             S(p) == {i \in Video : p <= i /\ i < q}
  <2>1. q \in DOMAIN tags
    BY LandingInFile DEF TypeOK
  <2>2. IF q \in IFrames
        THEN pos' = q /\ UNCHANGED regulateVars
        ELSE /\ pos' = IF first = 0 THEN 1 ELSE first
             /\ is_regulating' = (first # 0)
             /\ need_I_frame' = (need_I_frame \/ first = 0)
             /\ regulate_tag_count' = Cardinality(S(pos'))
    BY <1>2 DEF step_by_frame
  <2>3. /\ tags \in Files /\ Len(tags) \in Nat /\ DOMAIN tags = 1..Len(tags)
        /\ IFrames \subseteq Video /\ Video \subseteq 1..Len(tags)
    BY TagsOfFile DEF TypeOK
  <2>4. /\ first # 0 => first \in IFrames /\ first < q
        /\ first \in Nat
    <3> DEFINE T == {i \in IFrames : i < q}
    <3>1. T \in SUBSET (1..Len(tags)) /\ \A i \in T : i \in IFrames /\ i < q
      BY <2>3
    <3> HIDE DEF q, T
    <3>2. LastOf(T) \in 0..Len(tags) /\ (LastOf(T) # 0 => LastOf(T) \in T)
      BY <2>3, <3>1, LastOfSet
    <3> QED
      BY <2>3, <3>1, <3>2 DEF T
  <2>5. \A p : S(p) \subseteq Video
    OBVIOUS
  <2>6. first # 0 => first \in S(first)
    BY <2>1, <2>3, <2>4
  <2> HIDE DEF q, first, S
  <2>7. CASE q \in IFrames
    BY <1>2, <2>1, <2>2, <2>7 DEF Moved, TypeOK, regulateVars
  <2>8. CASE q \notin IFrames
    <3>1. regulate_tag_count' = Cardinality(S(pos')) /\ Cardinality(S(pos')) \in Nat
      BY <2>2, <2>3, <2>5, <2>8, CountOfTags
    <3>2. first # 0 => pos' = first /\ Cardinality(S(pos')) > 0
      BY <2>2, <2>3, <2>5, <2>6, <2>8, CountOfTags
    <3>3. pos' \in DOMAIN tags
      BY <2>1, <2>2, <2>3, <2>4, <2>8
    <3>4. is_regulating' \in BOOLEAN /\ (is_regulating' => first # 0)
      BY <2>2, <2>8, Zenon
    <3>5. need_I_frame' \in {need_I_frame, TRUE} /\ (first = 0 => need_I_frame' = TRUE)
      <4>1. need_I_frame \in BOOLEAN /\ need_I_frame' = (need_I_frame \/ first = 0)
        BY <2>2, <2>8 DEF TypeOK
      <4> QED
        BY <4>1
    <3>6. pos' \in IFrames \/ (pos' = 1 /\ need_I_frame' = TRUE)
      <4>1. first = 0 => pos' = 1
        BY <2>2, <2>8
      <4> QED
        BY <2>4, <3>2, <3>5, <4>1
    <3> QED
      BY <1>2, <3>1, <3>2, <3>3, <3>4, <3>5, <3>6 DEF Moved
  <2> QED
    BY <2>7, <2>8
<1> QED
  BY <1>1, <1>2

(* A step at work, by the GUI thread or a step thread: it leaves all as it  *)
(* is, moves in the file, or has gone astray outside of it.                 *)
Works ==
  /\ MutexFree
  /\ UNCHANGED <<fileVars, flagVars, step_one_frame, feed, decoderVars, expected, runs>>
  /\ \/ UNCHANGED <<pos, regulateVars>>
     \/ InFile /\ ~is_regulating /\ Moved
     \/ ~InFile /\ ~is_regulating /\ LoopsEnd /\ UNCHANGED pos

LEMMA WorkOfGui ==
  ASSUME TypeOK, stepBackLocked
  PROVE  /\ Works
         /\ gui = "stepLock" /\ gui' \in {"stepFlag", "spin"}
         /\ UNCHANGED <<steppers, button>> /\ astray' = (astray \/ Astray)
<1>1. CASE ~Astray /\ step_by_frame(-1)
  <2>1. UNCHANGED <<pos, regulateVars>> \/ (~is_regulating /\ Moved)
    BY <1>1, StepByFrame
  <2> QED
    BY <1>1, <2>1 DEF stepBackLocked, Works, Astray
<1>2. CASE Astray /\ LoopsEnd /\ UNCHANGED pos
  BY <1>2 DEF stepBackLocked, Works, Astray
<1>3. CASE Astray /\ UNCHANGED <<pos, regulateVars>>
  BY <1>3 DEF stepBackLocked, Works, Astray
<1>4. gui = "stepLock" /\ gui' \in {"stepFlag", "spin"}
  BY DEF stepBackLocked
<1> QED
  BY <1>1, <1>2, <1>3, <1>4 DEF stepBackLocked

LEMMA WorkOfThread ==
  ASSUME TypeOK, NEW t \in Steppers, stepLocked(t)
  PROVE  /\ Works
         /\ \E at \in {"unpause", "spin"} : steppers' = [steppers EXCEPT ![t].at = at]
         /\ UNCHANGED <<gui, button>> /\ astray' = (astray \/ Astray)
<1> DEFINE count == steppers[t].count
<1>1. steppers[t] \in [at : {"none", "lock", "unpause", "spin"}, count : Jumps \union {0}]
  BY DEF TypeOK
<1>2. count \in Int
  <2>1. count \in Jumps \union {0}
    BY <1>1
  <2>2. Jumps \subseteq Int
    BY FilesAssumption, Zenon
  <2> HIDE DEF count
  <2> QED
    BY <2>1, <2>2
<1>3. CASE (~Astray \/ count = 1) /\ step_by_frame(count)
  <2>1. UNCHANGED <<pos, regulateVars>> \/ (~is_regulating /\ Moved)
    BY <1>2, <1>3, StepByFrame
  <2>2. count = 1 => UNCHANGED <<pos, regulateVars>>
    BY <1>3 DEF step_by_frame
  <2> QED
    BY <1>3, <2>1, <2>2 DEF stepLocked, Works, Astray
<1>4. CASE Astray /\ LoopsEnd /\ UNCHANGED pos
  BY <1>4 DEF stepLocked, Works, Astray
<1>5. CASE Astray /\ UNCHANGED <<pos, regulateVars>>
  BY <1>5 DEF stepLocked, Works, Astray
<1>6. Works
  BY <1>3, <1>4, <1>5 DEF stepLocked
<1>7. \E at \in {"unpause", "spin"} : steppers' = [steppers EXCEPT ![t].at = at]
  BY DEF stepLocked
<1> QED
  BY <1>6, <1>7 DEF stepLocked

Inv == TypeOK /\ Control

(* The parts of the type invariant that the steps of one thread change. *)
FeedTypes ==
  /\ tags \in Files /\ file_open \in BOOLEAN
  /\ pos \in Nat /\ (file_open /\ feed # "start" => pos <= End)
  /\ is_regulating \in BOOLEAN /\ regulate_tag_count \in Nat /\ need_I_frame \in BOOLEAN
  /\ feed \in {"none", "start", "check", "lock", "rest", "done"}
  /\ shown \in Nat /\ decoded \in Nat

GuiTypes ==
  /\ is_playing \in BOOLEAN /\ is_pause \in BOOLEAN /\ step_one_frame \in BOOLEAN
  /\ gui \in {"idle", "join", "stepLock", "stepFlag", "spin"}
  /\ steppers \in [Steppers -> [at : {"none", "lock", "unpause", "spin"}, count : Jumps \union {0}]]
  /\ button \in BOOLEAN /\ expected \in Nat
  /\ astray \in BOOLEAN /\ runs \in 0..MaxRuns

LEMMA TypesAreParts == TypeOK <=> FeedTypes /\ GuiTypes
BY DEF TypeOK, FeedTypes, GuiTypes

LEMMA TypesArePartsNext == TypeOK' <=> FeedTypes' /\ GuiTypes'
BY TypesAreParts, PTL

LEMMA InitInv == Init => Inv
<1> SUFFICES ASSUME Init PROVE Inv
  OBVIOUS
<1>1. tags \in Files /\ Len(tags) \in Nat
  BY TagsOfFile DEF Init
<1>2. steppers \in [Steppers ->
        [at : {"none", "lock", "unpause", "spin"}, count : Jumps \union {0}]]
  BY DEF Init, NoStep
<1>3. FeedTypes /\ GuiTypes
  <2>1. 0 \in 0..MaxRuns
    BY FilesAssumption
  <2>2. 0 \in Nat /\ ~file_open
    BY DEF Init
  <2>3. FeedTypes
    BY <1>1, <2>2, Zenon DEF Init, FeedTypes
  <2> QED
    BY <1>2, <2>1, <2>3 DEF Init, GuiTypes
<1>4. Control
  BY DEF Init, Control
<1> QED
  BY <1>3, <1>4, TypesAreParts DEF Inv

(* The frame a single step expects is a number. *)
LEMMA ExpectedIsNumber ==
  ASSUME TypeOK
  PROVE  /\ pos <= Max(Frames) => Min({i \in Frames : i >= pos}) \in Nat
         /\ LastOf({i \in Frames : i < shown /\ \E j \in IFrames : j <= i}) \in Nat
<1>1. Len(tags) \in Nat /\ Frames \subseteq 1..Len(tags) /\ Frames # {}
  BY TagsOfFile DEF TypeOK
<1>2. Max(Frames) \in Frames
  BY <1>1, MaxOf
<1>5. Frames \subseteq Nat
  BY <1>1
<1>6. pos \in Nat
  BY DEF TypeOK
<1>3. ASSUME pos <= Max(Frames) PROVE Min({i \in Frames : i >= pos}) \in Nat
  <2> DEFINE S == {i \in Frames : i >= pos}
  <2>1. S \in SUBSET Nat
    BY <1>5, Zenon
  <2>2. Max(Frames) \in S
    <3>1. Max(Frames) \in Nat
      BY <1>2, <1>5, Zenon
    <3> QED
      BY <1>2, <1>3, <1>6, <3>1
  <2> HIDE DEF S
  <2>3. Min(S) \in S
    BY <2>1, <2>2, MinOf
  <2> QED
    BY <2>1, <2>3 DEF S
<1>4. LastOf({i \in Frames : i < shown /\ \E j \in IFrames : j <= i}) \in Nat
  <2> DEFINE S == {i \in Frames : i < shown /\ \E j \in IFrames : j <= i}
  <2>1. S \in SUBSET (1..Len(tags))
    BY <1>1
  <2> HIDE DEF S
  <2>2. LastOf(S) \in 0..Len(tags)
    BY <1>1, <2>1, LastOfSet
  <2> QED
    BY <1>1, <2>2 DEF S
<1> QED
  BY <1>3, <1>4

(* The feed thread keeps types and control. *)
LEMMA FeedKeepsInv == Inv /\ FeedStep => Inv'
<1> SUFFICES ASSUME Inv, FeedStep PROVE Inv'
  OBVIOUS
<1> USE DEF Inv
<1>0. Len(tags) \in Nat /\ DOMAIN tags = 1..Len(tags) /\ tags \in Files
  BY TagsOfFile DEF TypeOK
<1>1. CASE feedReset
  <2>1. FeedTypes' /\ GuiTypes'
    BY <1>0, <1>1 DEF feedReset, TypeOK, FeedTypes, GuiTypes, fileVars, flagVars, regulateVars,
      decoderVars, ghostVars, End
  <2>2. Control'
    BY <1>1 DEF feedReset, Control, fileVars, flagVars, regulateVars, ghostVars
  <2> QED
    BY <2>1, <2>2, TypesArePartsNext
<1>2. CASE feedCheck
  <2>1. FeedTypes' /\ GuiTypes'
    BY <1>0, <1>2 DEF feedCheck, TypeOK, FeedTypes, GuiTypes, fileVars, flagVars, regulateVars,
      decoderVars, ghostVars, End
  <2>2. Control'
    BY <1>2 DEF feedCheck, Control, TypeOK, fileVars, flagVars, regulateVars, ghostVars
  <2> QED
    BY <2>1, <2>2, TypesArePartsNext
<1>3. CASE feedNoTag
  <2>1. FeedTypes' /\ GuiTypes'
    BY <1>0, <1>3 DEF feedNoTag, TypeOK, FeedTypes, GuiTypes, fileVars, flagVars, regulateVars,
      decoderVars, ghostVars, End
  <2>2. Control'
    BY <1>3 DEF feedNoTag, Control, fileVars, flagVars, regulateVars, ghostVars
  <2> QED
    BY <2>1, <2>2, TypesArePartsNext
<1>4. CASE feedTag
  <2>1. pos \in DOMAIN tags
    BY <1>0, <1>4 DEF feedTag, Control, TypeOK, End
  <2>2. need_I_frame' \in BOOLEAN /\ shown' \in Nat /\ decoded' \in Nat
    <3>1. pos \in Nat /\ shown \in Nat /\ decoded \in Nat /\ need_I_frame \in BOOLEAN
      BY DEF TypeOK
    <3>2. CASE pos \in IFrames \/ (pos \in Frames /\ ~need_I_frame)
      <4>1. decoded' \in {pos, 0} /\ shown' \in {shown, pos} /\ need_I_frame' = FALSE
        BY <1>4, <3>2, Zenon DEF feedTag
      <4>2. 0 \in Nat
        OBVIOUS
      <4> QED
        BY <3>1, <4>1, <4>2, Zenon
    <3>3. CASE ~(pos \in IFrames \/ (pos \in Frames /\ ~need_I_frame))
      BY <1>4, <3>1, <3>3 DEF feedTag, decoderVars
    <3> QED
      BY <3>2, <3>3
  <2>3. FeedTypes' /\ GuiTypes'
    BY <1>0, <1>4, <2>2 DEF feedTag, TypeOK, FeedTypes, GuiTypes, fileVars, flagVars,
      ghostVars, End
  <2>4. Control'
    BY <1>0, <1>4, <2>1 DEF feedTag, Control, fileVars, flagVars, ghostVars
  <2> QED
    BY <2>3, <2>4, TypesArePartsNext
<1>5. CASE feedRest
  <2>1. pos \in 1..Len(tags)
    BY <1>0, <1>5 DEF feedRest, Control
  <2>2. is_regulating' \in BOOLEAN /\ regulate_tag_count' \in Nat
        /\ (is_regulating' => regulate_tag_count' > 0)
    <3>1. CASE is_regulating /\ pos \in Video
      <4>1. regulate_tag_count \in Nat /\ regulate_tag_count > 0
        BY <3>1 DEF Control, TypeOK
      <4>2. /\ regulate_tag_count' = regulate_tag_count - 1
            /\ is_regulating' = (regulate_tag_count' # 0)
        BY <1>5, <3>1 DEF feedRest
      <4>3. regulate_tag_count' \in Nat
        BY <4>1, <4>2
      <4>4. regulate_tag_count' # 0 => regulate_tag_count' > 0
        BY <4>3
      <4> QED
        BY <4>2, <4>3, <4>4, Zenon
    <3>2. CASE ~(is_regulating /\ pos \in Video)
      BY <1>5, <3>2 DEF feedRest, TypeOK, Control
    <3> QED
      BY <3>1, <3>2
  <2>3. step_one_frame' \in BOOLEAN
    BY <1>5, Zenon DEF feedRest
  <2>4. FeedTypes'
    BY <1>0, <1>5, <2>1, <2>2 DEF feedRest, TypeOK, FeedTypes, fileVars, decoderVars, End
  <2>5. GuiTypes'
    BY <1>5, <2>3 DEF feedRest, TypeOK, GuiTypes, flagVars, ghostVars
  <2>6. Control'
    BY <1>5, <2>2 DEF feedRest, Control, fileVars, flagVars, ghostVars
  <2> QED
    BY <2>4, <2>5, <2>6, TypesArePartsNext
<1> QED
  BY <1>1, <1>2, <1>3, <1>4, <1>5 DEF FeedStep

(* So do the steps at work and what follows them. *)
LEMMA WorkKeepsInv ==
  ASSUME Inv, Works, GuiTypes',
         gui' = gui \/ (gui = "stepLock" /\ gui' \in {"stepFlag", "spin"})
  PROVE  Inv'
<1> USE DEF Inv
<1>0. Len(tags) \in Nat /\ DOMAIN tags = 1..Len(tags) /\ tags \in Files
  BY TagsOfFile DEF TypeOK
<1>1. /\ feed # "rest" /\ feed' = feed /\ file_open' = file_open /\ tags' = tags
      /\ is_playing' = is_playing /\ shown' = shown /\ decoded' = decoded
  BY DEF Works, MutexFree, fileVars, flagVars, decoderVars
<1>2. /\ need_I_frame' \in BOOLEAN /\ (need_I_frame => need_I_frame' = TRUE)
      /\ is_regulating' \in BOOLEAN /\ regulate_tag_count' \in Nat
      /\ is_regulating' => regulate_tag_count' > 0
  <2>1. CASE UNCHANGED <<pos, regulateVars>>
    BY <2>1 DEF TypeOK, Control, regulateVars
  <2>2. CASE Moved
    BY <2>2 DEF TypeOK, Moved
  <2>3. CASE LoopsEnd
    <3>1. regulate_tag_count' \in Nat /\ regulate_tag_count' > 0
      BY <1>0, <2>3 DEF LoopsEnd
    <3>2. need_I_frame \in BOOLEAN /\ need_I_frame' \in {need_I_frame, TRUE}
      BY <2>3 DEF TypeOK, LoopsEnd
    <3>3. need_I_frame' \in BOOLEAN /\ (need_I_frame => need_I_frame' = TRUE)
      BY <3>2
    <3>4. is_regulating' \in BOOLEAN
      BY <2>3 DEF LoopsEnd
    <3> QED
      BY <3>1, <3>3, <3>4, Zenon
  <2> QED
    BY <2>1, <2>2, <2>3 DEF Works
<1>3. pos' = pos \/ pos' \in 1..Len(tags)
  BY <1>0 DEF Works, Moved
<1>4. FeedTypes'
  BY <1>0, <1>1, <1>2, <1>3 DEF FeedTypes, TypeOK, End
<1>5. Control'
  BY <1>1, <1>2 DEF Control, TypeOK
<1> QED
  BY <1>4, <1>5, TypesArePartsNext

(* The GUI thread and the end of a step thread keep them. *)
LEMMA GuiKeepsInv == Inv /\ (GuiStep \/ User \/ \E t \in Steppers : stepUnpause(t)) => Inv'
<1> SUFFICES ASSUME Inv, GuiStep \/ User \/ \E t \in Steppers : stepUnpause(t) PROVE Inv'
  OBVIOUS
<1> USE DEF Inv
<1>0. FeedTypes /\ GuiTypes
  BY TypesAreParts
<1>1. CASE stop
  <2>1. FeedTypes'
    BY <1>0, <1>1 DEF stop, FeedTypes, fileVars, flagVars, regulateVars, decoderVars, ghostVars, End
  <2>2. GuiTypes'
    BY <1>0, <1>1 DEF stop, GuiTypes, fileVars, flagVars, regulateVars, decoderVars, ghostVars
  <2>3. Control'
    BY <1>0, <1>1 DEF stop, Control, GuiTypes, fileVars, flagVars, regulateVars, decoderVars,
      ghostVars
  <2> QED
    BY <2>1, <2>2, <2>3, TypesArePartsNext
<1>2. CASE join
  <2>1. FeedTypes'
    BY <1>0, <1>2 DEF join, FeedTypes, fileVars, flagVars, regulateVars, decoderVars, ghostVars, End
  <2>2. GuiTypes'
    BY <1>0, <1>2 DEF join, GuiTypes, fileVars, flagVars, regulateVars, decoderVars, ghostVars
  <2>3. Control'
    BY <1>0, <1>2 DEF join, Control, GuiTypes, fileVars, flagVars, regulateVars, decoderVars,
      ghostVars
  <2> QED
    BY <2>1, <2>2, <2>3, TypesArePartsNext
<1>3. CASE pause
  <2>1. FeedTypes'
    BY <1>0, <1>3 DEF pause, FeedTypes, fileVars, flagVars, regulateVars, decoderVars, ghostVars,
      End
  <2>2. GuiTypes'
    BY <1>0, <1>3 DEF pause, GuiTypes, fileVars, flagVars, regulateVars, decoderVars, ghostVars
  <2>3. Control'
    BY <1>0, <1>3 DEF pause, Control, GuiTypes, fileVars, flagVars, regulateVars, decoderVars,
      ghostVars
  <2> QED
    BY <2>1, <2>2, <2>3, TypesArePartsNext
<1>4. CASE step_one_frame_forward
  <2>1. FeedTypes'
    BY <1>0, <1>4 DEF step_one_frame_forward, FeedTypes, fileVars, flagVars, regulateVars,
      decoderVars, ghostVars, End
  <2>2. GuiTypes'
    <3>1. expected' \in Nat
      BY <1>4, ExpectedIsNumber DEF step_one_frame_forward
    <3> QED
      BY <1>0, <1>4, <3>1 DEF step_one_frame_forward, GuiTypes, fileVars, flagVars, regulateVars,
      decoderVars, ghostVars
  <2>3. Control'
    BY <1>0, <1>4 DEF step_one_frame_forward, Control, GuiTypes, fileVars, flagVars,
      regulateVars, decoderVars, ghostVars
  <2> QED
    BY <2>1, <2>2, <2>3, TypesArePartsNext
<1>5. CASE step_one_frame_backward
  <2>1. FeedTypes'
    BY <1>0, <1>5 DEF step_one_frame_backward, FeedTypes, fileVars, flagVars, regulateVars,
      decoderVars, ghostVars, End
  <2>2. GuiTypes'
    <3>1. expected' \in Nat
      BY <1>5, ExpectedIsNumber DEF step_one_frame_backward
    <3> QED
      BY <1>0, <1>5, <3>1 DEF step_one_frame_backward, GuiTypes, fileVars, flagVars, regulateVars,
      decoderVars, ghostVars
  <2>3. Control'
    BY <1>0, <1>5 DEF step_one_frame_backward, Control, GuiTypes, fileVars, flagVars,
      regulateVars, decoderVars, ghostVars
  <2> QED
    BY <2>1, <2>2, <2>3, TypesArePartsNext
<1>6. CASE stepBackFlag
  <2>1. FeedTypes'
    BY <1>0, <1>6 DEF stepBackFlag, FeedTypes, fileVars, flagVars, regulateVars, decoderVars,
      ghostVars, End
  <2>2. GuiTypes'
    BY <1>0, <1>6 DEF stepBackFlag, GuiTypes, fileVars, flagVars, regulateVars, decoderVars,
      ghostVars
  <2>3. Control'
    BY <1>0, <1>6 DEF stepBackFlag, Control, GuiTypes, fileVars, flagVars, regulateVars,
      decoderVars, ghostVars
  <2> QED
    BY <2>1, <2>2, <2>3, TypesArePartsNext
<1>7. CASE start
  <2>1. tags' \in Files /\ Len(tags') \in Nat
    BY <1>7, FilesAssumption DEF start
  <2>2. runs' \in 0..MaxRuns
    BY <1>0, <1>7, FilesAssumption DEF start, GuiTypes
  <2>3. is_pause' = FALSE /\ is_playing' = TRUE /\ need_I_frame' = TRUE /\ file_open' = TRUE
    BY <1>7 DEF start
  <2>4. FeedTypes'
    BY <1>0, <1>7, <2>1, <2>3 DEF start, FeedTypes
  <2>5. GuiTypes'
    BY <1>0, <1>7, <2>2, <2>3 DEF start, GuiTypes
  <2>6. Control'
    BY <1>7 DEF start, Control
  <2> QED
    BY <2>4, <2>5, <2>6, TypesArePartsNext
<1>8. ASSUME NEW t \in Steppers, NEW count \in Jumps, step_by_seconds(t, count) PROVE Inv'
  <2>1. FeedTypes'
    BY <1>0, <1>8 DEF step_by_seconds, FeedTypes, fileVars, regulateVars, decoderVars, End
  <2>2. GuiTypes'
    BY <1>0, <1>8 DEF step_by_seconds, GuiTypes, ghostVars
  <2>3. Control'
    BY <1>8 DEF step_by_seconds, Control, fileVars, regulateVars
  <2> QED
    BY <2>1, <2>2, <2>3, TypesArePartsNext
<1>9. ASSUME NEW t \in Steppers, stepUnpause(t) PROVE Inv'
  <2>1. FeedTypes'
    BY <1>0, <1>9 DEF stepUnpause, FeedTypes, fileVars, regulateVars, decoderVars, End
  <2>2. GuiTypes'
    <3>1. steppers' \in [Steppers ->
            [at : {"none", "lock", "unpause", "spin"}, count : Jumps \union {0}]]
      BY <1>0, <1>9 DEF stepUnpause, GuiTypes, NoStep
    <3> QED
      BY <1>0, <1>9, <3>1 DEF stepUnpause, GuiTypes, ghostVars
  <2>3. Control'
    BY <1>9 DEF stepUnpause, Control, fileVars, regulateVars
  <2> QED
    BY <2>1, <2>2, <2>3, TypesArePartsNext
<1> QED
  BY <1>1, <1>2, <1>3, <1>4, <1>5, <1>6, <1>7, <1>8, <1>9 DEF GuiStep, User

(* Every step keeps types and control. *)
LEMMA NextKeepsInv == Inv /\ [Next]_vars => Inv'
<1> SUFFICES ASSUME Inv, [Next]_vars PROVE Inv'
  OBVIOUS
<1>1. TypeOK /\ GuiTypes
  BY TypesAreParts DEF Inv
<1>2. CASE stepBackLocked
  <2>1. GuiTypes'
    <3>1. UNCHANGED <<flagVars, step_one_frame, expected, runs, steppers, button>>
          /\ astray' = (astray \/ Astray) /\ gui' \in {"stepFlag", "spin"}
      BY <1>1, <1>2, WorkOfGui DEF Works
    <3>2. astray' \in BOOLEAN
      BY <3>1
    <3> QED
      BY <1>1, <3>1, <3>2 DEF GuiTypes, flagVars
  <2> QED
    BY <1>1, <1>2, <2>1, WorkOfGui, WorkKeepsInv
<1>3. ASSUME NEW t \in Steppers, stepLocked(t) PROVE Inv'
  <2>1. Works /\ gui' = gui
    BY <1>1, <1>3, WorkOfThread
  <2>2. GuiTypes'
    <3>1. UNCHANGED <<flagVars, step_one_frame, expected, runs, gui, button>>
          /\ astray' = (astray \/ Astray)
      BY <1>1, <1>3, WorkOfThread DEF Works
    <3>2. PICK at \in {"unpause", "spin"} : steppers' = [steppers EXCEPT ![t].at = at]
      BY <1>1, <1>3, WorkOfThread
    <3>3. steppers' \in [Steppers ->
            [at : {"none", "lock", "unpause", "spin"}, count : Jumps \union {0}]]
      BY <1>1, <3>2 DEF GuiTypes
    <3>4. astray' \in BOOLEAN
      BY <3>1
    <3> QED
      BY <1>1, <3>1, <3>3, <3>4 DEF GuiTypes, flagVars
  <2> QED
    BY <2>1, <2>2, WorkKeepsInv
<1>4. CASE UNCHANGED vars
  <2>1. FeedTypes'
    BY <1>1, <1>4, TypesAreParts DEF FeedTypes, vars, fileVars, regulateVars, decoderVars, End
  <2>2. GuiTypes'
    BY <1>1, <1>4 DEF GuiTypes, vars, flagVars, ghostVars
  <2>3. Control'
    BY <1>4 DEF Inv, Control, vars, fileVars, flagVars, regulateVars
  <2> QED
    BY <2>1, <2>2, <2>3, TypesArePartsNext DEF Inv
<1> QED
  BY <1>2, <1>3, <1>4, FeedKeepsInv, GuiKeepsInv DEF Next, Stepper, Over

(* The inductive invariant of the player. *)
THEOREM PlayerInvariant == Spec => []Inv
<1>1. Init => Inv
  BY InitInv
<1>2. Inv /\ [Next]_vars => Inv'
  BY NextKeepsInv
<1> QED
  BY <1>1, <1>2, PTL DEF Spec

(* The steps of the player that neither hand over a tag nor come from a     *)
(* key, and the ones the player has no part in.                             *)
Other ==
  \/ feedReset \/ feedCheck \/ feedNoTag \/ feedRest \/ stepBackLocked \/ stepBackFlag
  \/ \E t \in Steppers : Stepper(t)
  \/ Over

Presents == stopAgain \/ onNewFrameReceived

LEMMA ScreenKinds ==
  ASSUME [ScreenNext]_allVars
  PROVE  \/ Receive \/ stopped \/ Presents
         \/ /\ SingleStep
            /\ from' = IF AtRest THEN emitted.frame ELSE 0
            /\ UNCHANGED <<held, emitVars, screen>>
         \/ Press /\ from' = 0 /\ UNCHANGED <<held, emitVars, screen>>
         \/ Other /\ UNCHANGED screenVars
         \/ UNCHANGED allVars
<1>1. CASE FeedSkips \/ FeedGoesOn \/ GuiSteps \/ (\E t \in Steppers : StepperGoesOn(t))
  BY <1>1 DEF FeedSkips, FeedGoesOn, GuiSteps, StepperGoesOn, Other
<1>2. CASE GuiGoesOn
  BY <1>2 DEF GuiGoesOn, Other
<1>3. CASE Over /\ UNCHANGED screenVars
  BY <1>3 DEF Other
<1>4. CASE stopAgain \/ onNewFrameReceived
  BY <1>4 DEF Presents
<1> QED
  BY <1>1, <1>2, <1>3, <1>4, Zenon DEF ScreenNext

(* The decoder and the screen behind it change nothing in the player.       *)
LEMMA ScreenStep == [ScreenNext]_allVars => [Next]_vars
<1> SUFFICES ASSUME [ScreenNext]_allVars PROVE [Next]_vars
  OBVIOUS
<1>1. CASE Receive
  BY <1>1 DEF Receive, Next, FeedStep
<1>2. CASE stopped
  BY <1>2 DEF stopped, Next, GuiStep
<1>3. CASE SingleStep
  BY <1>3 DEF SingleStep, Next, User
<1>4. CASE Press
  BY <1>4 DEF Press, Next, User
<1>5. CASE Other
  BY <1>5 DEF Other, Next, FeedStep, GuiStep
<1>6. CASE Presents
  BY <1>6 DEF Presents, stopAgain, onNewFrameReceived
<1>7. CASE UNCHANGED allVars
  BY <1>7 DEF allVars
<1> QED
  BY <1>1, <1>2, <1>3, <1>4, <1>5, <1>6, <1>7, ScreenKinds

(* RecordScreen implements FlvPlayer: what the decoder and the surface add  *)
(* is a part of the state of their own.                                     *)
THEOREM ScreenImplementsPlayer == ScreenSpec => Spec
<1>1. ScreenInit => Init
  BY DEF ScreenInit
<1>2. [ScreenNext]_allVars => [Next]_vars
  BY ScreenStep
<1> QED
  BY <1>1, <1>2, PTL DEF ScreenSpec, Spec

(* The position stays in the file, and the count of the tags to decode      *)
(* without showing reaches 0 with the last of them (FlvPlayer.cpp:91, 179). *)
THEOREM PlayerIsSafe == ScreenSpec => []PlayerInv
<1>1. Inv => PlayerInv
  BY DEF Inv, Control, PlayerInv, RegulatingCounts
<1> QED
  BY <1>1, PlayerInvariant, ScreenImplementsPlayer, PTL

----------------------------------------------------------------------------
(* How a step may touch the position, what is handed over, and the wait for *)
(* an I frame.                                                              *)
Stays ==
  /\ UNCHANGED <<tags, pos, need_I_frame, decoderVars>>
  /\ \/ feed' = feed \/ feed' \notin {"check", "lock", "rest"}
     \/ {feed, feed'} \subseteq {"check", "lock"}

MovesInFile == UNCHANGED <<tags, feed, decoderVars>> /\ feed # "rest" /\ Moved

GoesAstray ==
  /\ UNCHANGED <<tags, feed, pos, decoderVars>>
  /\ pos = 0 \/ feed \notin {"check", "lock", "rest"}
  /\ need_I_frame' = TRUE

LEMMA StepKinds ==
  ASSUME Inv, [Next]_vars
  PROVE  \/ Stays \/ MovesInFile \/ GoesAstray
         \/ feedReset \/ feedTag \/ feedRest \/ start
         \/ feedNoTag /\ pos = 0
<1>1. ASSUME Works PROVE Stays \/ MovesInFile \/ GoesAstray
  <2>1. UNCHANGED <<tags, feed, decoderVars>> /\ feed # "rest"
    BY <1>1 DEF Works, MutexFree, fileVars
  <2>2. CASE UNCHANGED <<pos, need_I_frame>>
    BY <2>1, <2>2 DEF Stays
  <2>3. CASE Moved
    BY <2>1, <2>3 DEF MovesInFile
  <2>4. CASE ~InFile /\ UNCHANGED pos /\ need_I_frame' = TRUE
    BY <2>1, <2>4 DEF GoesAstray, InFile, Inv, Control
  <2> QED
    BY <1>1, <2>2, <2>3, <2>4 DEF Works, LoopsEnd, regulateVars
<1>2. CASE feedCheck
  BY <1>2 DEF feedCheck, Stays, fileVars, regulateVars
<1>3. CASE feedNoTag /\ pos # 0
  BY <1>3 DEF feedNoTag, Stays, fileVars, regulateVars
<1>4. CASE join \/ stepBackFlag \/ stop \/ pause \/ step_one_frame_forward
           \/ step_one_frame_backward
  BY <1>4 DEF join, stepBackFlag, stop, pause, step_one_frame_forward, step_one_frame_backward,
    Stays, fileVars, regulateVars
<1>5. ASSUME NEW t \in Steppers,
             stepUnpause(t) \/ \E count \in Jumps : step_by_seconds(t, count)
      PROVE  Stays
  BY <1>5 DEF stepUnpause, step_by_seconds, Stays, fileVars, regulateVars
<1>6. CASE UNCHANGED vars
  BY <1>6 DEF vars, fileVars, regulateVars, Stays
<1>7. CASE stepBackLocked \/ \E t \in Steppers : stepLocked(t)
  BY <1>1, <1>7, WorkOfGui, WorkOfThread DEF Inv
<1> QED
  BY <1>2, <1>3, <1>4, <1>5, <1>6, <1>7 DEF Next, FeedStep, GuiStep, User, Stepper, Over

----------------------------------------------------------------------------
(* What was decoded of what comes next needs: the feed thread waits for an  *)
(* I frame, is at one, or has handed over the frame before its position.    *)

Ready(p) == need_I_frame \/ p \in IFrames \/ decoded = FrameBefore(p)

DecodedInv ==
  /\ feed \in {"check", "lock"} => Ready(pos)
  /\ feed = "rest" => Ready(pos + 1)

(* What is handed over has been decoded from all it depends on. *)
LEMMA TagIsDecoded ==
  ASSUME Inv, DecodedInv, feedTag
  PROVE  /\ pos \in DOMAIN tags /\ tags \in Files
         /\ HandsFrame => decoded' = pos /\ need_I_frame' = FALSE
         /\ ~HandsFrame => UNCHANGED <<decoderVars, need_I_frame>>
         /\ ~HandsFrame => need_I_frame \/ pos \notin Frames
         /\ DecodedInv'
<1>1. tags \in Files /\ Len(tags) \in Nat /\ DOMAIN tags = 1..Len(tags)
      /\ IFrames \subseteq Frames
  BY TagsOfFile DEF Inv, TypeOK
<1>2. pos \in DOMAIN tags /\ pos \in Nat
  BY <1>1 DEF feedTag, Inv, Control, TypeOK, End
<1>3. ASSUME HandsFrame PROVE decoded' = pos /\ need_I_frame' = FALSE
  <2>1. need_I_frame => pos \in IFrames
    BY <1>3 DEF HandsFrame
  <2>2. pos \in IFrames \/ decoded = FrameBefore(pos)
    BY <2>1 DEF DecodedInv, Ready, feedTag
  <2> QED
    BY <1>3, <2>2, Zenon DEF feedTag, HandsFrame
<1>4. ASSUME ~HandsFrame
      PROVE  UNCHANGED <<decoderVars, need_I_frame>> /\ (need_I_frame \/ pos \notin Frames)
  BY <1>4 DEF feedTag, HandsFrame
<1>5. need_I_frame' \/ decoded' = FrameBefore(pos + 1)
  <2>1. FrameBefore(pos + 1) = IF pos \in Frames THEN pos ELSE FrameBefore(pos)
    BY <1>1, <1>2, FrameBeforeNext
  <2>2. CASE HandsFrame
    BY <1>1, <1>3, <2>1, <2>2 DEF HandsFrame
  <2>3. CASE ~HandsFrame
    BY <1>1, <1>4, <2>1, <2>3 DEF DecodedInv, Ready, feedTag, HandsFrame, decoderVars
  <2> QED
    BY <2>2, <2>3
<1>6. DecodedInv'
  <2>1. feed' = "rest" /\ UNCHANGED <<tags, pos>>
    BY DEF feedTag, fileVars
  <2>2. FrameBefore(pos + 1)' = FrameBefore(pos + 1)
    BY <2>1, SameFile DEF FrameBefore
  <2> QED
    BY <1>5, <2>1, <2>2 DEF DecodedInv, Ready
<1> QED
  BY <1>1, <1>2, <1>3, <1>4, <1>6

LEMMA NextKeepsDecoded == Inv /\ DecodedInv /\ [Next]_vars => DecodedInv'
<1> SUFFICES ASSUME Inv, DecodedInv, [Next]_vars PROVE DecodedInv'
  OBVIOUS
<1>0. Len(tags) \in Nat /\ DOMAIN tags = 1..Len(tags) /\ tags \in Files
  BY TagsOfFile DEF Inv, TypeOK
<1>1. CASE Stays
  <2>1. FrameBefore(pos)' = FrameBefore(pos) /\ FrameBefore(pos + 1)' = FrameBefore(pos + 1)
        /\ IFrames' = IFrames
    BY <1>1, SameFile DEF Stays, FrameBefore
  <2> QED
    BY <1>1, <2>1 DEF DecodedInv, Ready, Stays, decoderVars
<1>2. CASE MovesInFile
  BY <1>2, SameFile DEF MovesInFile, Moved, DecodedInv, Ready
<1>3. CASE GoesAstray
  BY <1>3 DEF GoesAstray, DecodedInv, Ready
<1>4. CASE feedReset
  BY <1>4 DEF feedReset, DecodedInv, Ready, Inv, Control, regulateVars
<1>5. CASE feedNoTag /\ pos = 0
  <2>1. UNCHANGED <<tags, need_I_frame, decoded>> /\ feed = "lock" /\ feed' = "check" /\ pos' = 1
    BY <1>5 DEF feedNoTag, fileVars, regulateVars, decoderVars
  <2>2. 0 \notin Frames /\ 0 \notin IFrames
    BY <1>0, TagsOfFile
  <2>3. FrameBefore(0 + 1) = FrameBefore(0)
    BY <1>0, <2>2, FrameBeforeNext
  <2>4. FrameBefore(1) = FrameBefore(0)
    BY <2>3
  <2>5. need_I_frame \/ decoded = FrameBefore(1)
    BY <1>5, <2>1, <2>2, <2>4 DEF DecodedInv, Ready
  <2>6. FrameBefore(pos)' = FrameBefore(1)
    BY <2>1, SameFile DEF FrameBefore
  <2> QED
    BY <2>1, <2>5, <2>6 DEF DecodedInv, Ready
<1>6. CASE feedTag
  BY <1>6, TagIsDecoded
<1>7. CASE feedRest
  <2>1. UNCHANGED <<tags, need_I_frame, decoded>> /\ feed = "rest" /\ feed' = "check"
        /\ pos' = pos + 1
    BY <1>7 DEF feedRest, fileVars, decoderVars
  <2>2. FrameBefore(pos)' = FrameBefore(pos + 1) /\ IFrames' = IFrames
    BY <2>1, SameFile DEF FrameBefore
  <2> QED
    BY <2>1, <2>2 DEF DecodedInv, Ready
<1>8. CASE start
  BY <1>8 DEF start, DecodedInv
<1> QED
  BY <1>1, <1>2, <1>3, <1>4, <1>5, <1>6, <1>7, <1>8, StepKinds

----------------------------------------------------------------------------
(* RecordScreen: the picture the parser holds is whole, and of this run     *)
(* unless the run has emitted nothing yet; between runs nothing counts as   *)
(* emitted.                                                                 *)
HeldInv ==
  /\ held = Nothing \/ held.whole
  /\ held = Nothing \/ held.run = runs \/ emitted = Nothing
  /\ gui # "join" /\ ~is_playing => emitted = Nothing

Pictures == [run : Nat, frame : Nat, whole : BOOLEAN]

(* What is on the screen, in the event loop and in the parser is ordered by *)
(* the runs it is of, and none is of a run to come.                         *)
InOrder ==
  /\ \A i \in DOMAIN queued : screen.run <= queued[i].run /\ queued[i].run <= runs
  /\ \A i, j \in DOMAIN queued : i <= j => queued[i].run <= queued[j].run
  /\ held # Nothing =>
       screen.run <= held.run /\ \A i \in DOMAIN queued : queued[i].run <= held.run
  /\ screen.run <= runs /\ held.run <= runs

(* The pictures on their way are whole, and the one this run has emitted    *)
(* last is the newest of them.                                              *)
QueueInv ==
  /\ queued \in Seq(Pictures) /\ {held, screen} \subseteq Pictures
  /\ screen = Nothing \/ screen.whole
  /\ \A i \in DOMAIN queued : queued[i].whole
  /\ emitted # Nothing => Newest = emitted

ScreenInv == Inv /\ DecodedInv /\ HeldInv /\ QueueInv /\ InOrder

LEMMA RunIsNumber ==
  ASSUME NEW p \in Pictures
  PROVE  p.run \in Nat
  BY DEF Pictures

LEMMA RunsAreNumbers ==
  ASSUME NEW q \in Seq(Pictures)
  PROVE  \A i \in DOMAIN q : q[i].run \in Nat
<1>1. \A i \in DOMAIN q : q[i] \in Pictures
  OBVIOUS
<1> QED
  BY <1>1, RunIsNumber

LEMMA InitScreenInv == ScreenInit => ScreenInv
<1> SUFFICES ASSUME ScreenInit PROVE ScreenInv
  OBVIOUS
<1>1. Inv
  BY InitInv DEF ScreenInit
<1>2. DecodedInv
  BY DEF ScreenInit, Init, DecodedInv
<1>3. HeldInv
  BY DEF ScreenInit, HeldInv
<1>4. QueueInv
  BY DEF ScreenInit, QueueInv, Newest, Nothing, Pictures
<1>5. InOrder
  BY DEF ScreenInit, Init, InOrder, Nothing
<1> QED
  BY <1>1, <1>2, <1>3, <1>4, <1>5 DEF ScreenInv

(* A picture that is due is emitted or dropped.                             *)
LEMMA Shows ==
  ASSUME showFrame
  PROVE  \/ held # Nothing /\ ~is_regulating /\ emit
         \/ held # Nothing /\ ~is_regulating /\ drop
         \/ ~(held # Nothing /\ ~is_regulating) /\ UNCHANGED emitVars
  BY DEF showFrame

(* The picture held after a tag: what was held, nothing, or a frame of this *)
(* run that is whole; what it held may be emitted.                          *)
LEMMA ReceiveHolds ==
  ASSUME ScreenInv, Receive
  PROVE  /\ UNCHANGED <<is_playing, gui, runs, screen>>
         /\ gui # "join" => is_playing
         /\ \/ UNCHANGED held
            \/ held' = Nothing
            \/ held' \in Pictures /\ held'.whole /\ held'.run = runs
         /\ \/ UNCHANGED <<emitted, queued>>
            \/ held # Nothing /\ emit
         /\ UNCHANGED held => UNCHANGED <<emitted, queued>> \/ held = Nothing \/ held.run = runs
<1>1. pos \in Nat /\ runs \in Nat
  BY DEF ScreenInv, Inv, TypeOK
<1>2. HandsFrame => decoded' = pos
  BY TagIsDecoded DEF ScreenInv, Receive
<1>3. Begun = Nothing \/ (Begun \in Pictures /\ Begun.whole /\ Begun.run = runs)
  BY <1>1, <1>2 DEF Begun, Pictures
<1>4. (held' = Begun /\ showFrame) \/ UNCHANGED <<held, emitVars>>
  BY DEF Receive, receiveData
<1>5. UNCHANGED <<emitted, queued>> \/ (held # Nothing /\ emit)
  BY <1>4, Shows DEF drop, emitVars
<1>6. UNCHANGED <<is_playing, gui, runs, screen>>
  BY DEF Receive, feedTag, flagVars, ghostVars
<1>7. gui # "join" => is_playing
  BY DEF Receive, feedTag, ScreenInv, Inv, Control, TypeOK
<1>8. UNCHANGED held => UNCHANGED <<emitted, queued>> \/ held = Nothing \/ held.run = runs
  BY <1>3, <1>4 DEF emitVars
<1> QED
  BY <1>3, <1>4, <1>5, <1>6, <1>7, <1>8

(* What is emitted becomes the newest picture.                              *)
LEMMA EmitKeepsQueue ==
  ASSUME QueueInv, HeldInv, InOrder, held # Nothing, emit, UNCHANGED <<screen, runs>>, runs \in Nat
  PROVE  /\ queued' \in Seq(Pictures) /\ Len(queued') > Len(queued)
         /\ \A i \in DOMAIN queued' : queued'[i].whole
         /\ Newest' = emitted'
         /\ \A i \in DOMAIN queued' : screen'.run <= queued'[i].run /\ queued'[i].run <= held.run
         /\ \A i, j \in DOMAIN queued' : i <= j => queued'[i].run <= queued'[j].run
<1>1. queued' = Append(queued, held) /\ emitted' = held /\ held.whole /\ held \in Pictures
      /\ queued \in Seq(Pictures)
  BY DEF emit, HeldInv, QueueInv
<1>2. /\ queued' \in Seq(Pictures)
      /\ Len(queued) \in Nat /\ Len(queued') = Len(queued) + 1
      /\ DOMAIN queued = 1..Len(queued) /\ DOMAIN queued' = 1..(Len(queued) + 1)
      /\ \A i \in DOMAIN queued : queued'[i] = queued[i]
      /\ queued'[Len(queued) + 1] = held
  BY <1>1
<1>3. \A i \in DOMAIN queued' : i \in DOMAIN queued \/ queued'[i] = held
  BY <1>2
<1>4. \A i \in DOMAIN queued' : queued'[i].whole
  BY <1>1, <1>2, <1>3 DEF QueueInv
<1>5. Newest' = emitted'
  BY <1>1, <1>2 DEF Newest
<1>6. \A i \in DOMAIN queued' : screen'.run <= queued'[i].run /\ queued'[i].run <= held.run
  <2> TAKE i \in DOMAIN queued'
  <2>1. CASE i \in DOMAIN queued
    BY <1>2, <2>1 DEF InOrder
  <2>2. CASE queued'[i] = held
    BY <1>1, <2>2 DEF InOrder, Pictures
  <2> QED
    BY <1>3, <2>1, <2>2
<1>7. \A i, j \in DOMAIN queued' : i <= j => queued'[i].run <= queued'[j].run
  <2> TAKE i, j \in DOMAIN queued'
  <2> HAVE i <= j
  <2>1. CASE j \in DOMAIN queued
    <3>1. i \in DOMAIN queued
      BY <1>2, <2>1
    <3> QED
      BY <1>2, <2>1, <3>1 DEF InOrder
  <2>2. CASE queued'[j] = held
    BY <1>6, <2>2
  <2> QED
    BY <1>3, <2>1, <2>2
<1> QED
  BY <1>2, <1>4, <1>5, <1>6, <1>7

(* A picture goes from the head of the event loop to the screen.            *)
LEMMA PresentKeepsQueue ==
  ASSUME QueueInv, InOrder, onNewFrameReceived
  PROVE  /\ screen' \in Pictures /\ screen'.whole /\ screen.run <= screen'.run
         /\ queued' \in Seq(Pictures) /\ Len(queued') < Len(queued)
         /\ \A i \in DOMAIN queued' : queued'[i].whole
         /\ Newest' = Newest
         /\ InOrder'
<1>1. /\ screen' = queued[1] /\ queued' = Tail(queued) /\ queued # <<>>
      /\ queued \in Seq(Pictures) /\ UNCHANGED <<held, runs>>
  BY DEF onNewFrameReceived, QueueInv, vars, ghostVars
<1>2. /\ queued' \in Seq(Pictures) /\ Len(queued) \in Nat /\ Len(queued) > 0
      /\ Len(queued') = Len(queued) - 1
      /\ DOMAIN queued = 1..Len(queued) /\ DOMAIN queued' = 1..(Len(queued) - 1)
      /\ \A i \in DOMAIN queued' : i + 1 \in DOMAIN queued /\ queued'[i] = queued[i + 1]
      /\ 1 \in DOMAIN queued /\ Len(queued) \in DOMAIN queued
  BY <1>1
<1>3. screen' \in Pictures /\ screen'.whole
  BY <1>1, <1>2 DEF QueueInv
<1>4. screen.run <= screen'.run
  BY <1>1, <1>2 DEF InOrder
<1>5. Newest' = Newest
  <2>1. CASE Len(queued) = 1
    <3>1. queued' = <<>>
      BY <1>2, <2>1
    <3> QED
      BY <1>1, <2>1, <3>1 DEF Newest
  <2>2. CASE Len(queued) # 1
    <3>1. queued' # <<>> /\ Len(queued) - 1 \in DOMAIN queued'
      BY <1>2, <2>2
    <3> QED
      BY <1>1, <1>2, <3>1 DEF Newest
  <2> QED
    BY <2>1, <2>2
<1>6. InOrder'
  <2>1. \A i \in DOMAIN queued' : screen'.run <= queued'[i].run /\ queued'[i].run <= runs'
    <3> TAKE i \in DOMAIN queued'
    <3>1. queued'[i] = queued[i + 1] /\ i + 1 \in DOMAIN queued /\ 1 <= i + 1
      BY <1>2
    <3> QED
      BY <1>1, <1>2, <3>1 DEF InOrder
  <2>2. \A i, j \in DOMAIN queued' : i <= j => queued'[i].run <= queued'[j].run
    <3> TAKE i, j \in DOMAIN queued'
    <3> HAVE i <= j
    <3>1. /\ queued'[i] = queued[i + 1] /\ i + 1 \in DOMAIN queued
          /\ queued'[j] = queued[j + 1] /\ j + 1 \in DOMAIN queued
          /\ i + 1 <= j + 1
      BY <1>2
    <3> QED
      BY <3>1 DEF InOrder
  <2>3. held' # Nothing =>
          screen'.run <= held'.run /\ \A i \in DOMAIN queued' : queued'[i].run <= held'.run
    BY <1>1, <1>2 DEF InOrder
  <2>4. screen'.run <= runs' /\ held'.run <= runs'
    BY <1>1, <1>2 DEF InOrder
  <2> QED
    BY <2>1, <2>2, <2>3, <2>4 DEF InOrder
<1> QED
  BY <1>2, <1>1, <1>3, <1>4, <1>5, <1>6 DEF QueueInv

(* Pictures, event loop and screen stay, and no run begins or ends.         *)
Quiet ==
  /\ UNCHANGED <<held, emitted, queued, screen, is_playing, runs>>
  /\ gui' # "join" => gui # "join"

LEMMA QuietKeepsPictures ==
  ASSUME HeldInv, QueueInv, InOrder, UNCHANGED <<held, emitted, queued, screen, runs>>,
         gui' # "join" /\ ~is_playing' => gui # "join" /\ ~is_playing
  PROVE  (HeldInv /\ QueueInv /\ InOrder)'
<1>1. HeldInv'
  BY DEF HeldInv
<1>2. QueueInv'
  BY DEF QueueInv, Newest
<1>3. InOrder'
  BY DEF InOrder
<1> QED
  BY <1>1, <1>2, <1>3

LEMMA OtherIsQuiet ==
  ASSUME Inv, Other, UNCHANGED screenVars
  PROVE  Quiet
<1>1. UNCHANGED <<held, emitted, queued, screen>>
  BY DEF screenVars, emitVars
<1>2. CASE feedReset \/ feedCheck \/ feedNoTag \/ feedRest \/ stepBackFlag \/ Over
  BY <1>1, <1>2 DEF feedReset, feedCheck, feedNoTag, feedRest, stepBackFlag, Over, vars, flagVars,
    ghostVars, Quiet
<1>3. CASE stepBackLocked
  BY <1>1, <1>3, WorkOfGui DEF Works, Inv, flagVars, Quiet
<1>4. ASSUME NEW t \in Steppers, stepLocked(t) PROVE Quiet
  BY <1>1, <1>4, WorkOfThread DEF Works, Inv, flagVars, Quiet
<1>5. ASSUME NEW t \in Steppers, stepUnpause(t) PROVE Quiet
  BY <1>1, <1>5 DEF stepUnpause, ghostVars, Quiet
<1> QED
  BY <1>2, <1>3, <1>4, <1>5 DEF Other, Stepper

LEMMA ReceiveKeepsPictures ==
  ASSUME ScreenInv, Receive
  PROVE  (HeldInv /\ QueueInv /\ InOrder)'
<1>0. HeldInv /\ QueueInv /\ InOrder /\ runs \in Nat
  BY DEF ScreenInv, Inv, TypeOK
<1>1. UNCHANGED <<is_playing, gui, runs, screen>> /\ (gui # "join" => is_playing)
  BY ReceiveHolds
<1>2. UNCHANGED held \/ held' = Nothing \/ (held' \in Pictures /\ held'.whole /\ held'.run = runs)
  BY ReceiveHolds
<1>3. held' \in Pictures /\ held'.run <= runs
  <2>1. held \in Pictures /\ held.run <= runs /\ Nothing \in Pictures /\ Nothing.run = 0
    BY <1>0 DEF Nothing, Pictures, QueueInv, InOrder
  <2> QED
    BY <1>0, <1>2, <2>1
<1>4. CASE held # Nothing /\ emit
  <2>1. /\ queued' \in Seq(Pictures)
        /\ \A i \in DOMAIN queued' : queued'[i].whole
        /\ Newest' = emitted'
        /\ \A i \in DOMAIN queued' : screen'.run <= queued'[i].run /\ queued'[i].run <= held.run
        /\ \A i, j \in DOMAIN queued' : i <= j => queued'[i].run <= queued'[j].run
    BY <1>0, <1>1, <1>4, EmitKeepsQueue
  <2>2. emitted' = held
    BY <1>4 DEF emit
  <2>3. UNCHANGED held => held.run = runs \/ UNCHANGED <<emitted, queued>>
    BY <1>4, ReceiveHolds
  <2>4. HeldInv'
    BY <1>0, <1>1, <1>2, <2>2, <2>3 DEF HeldInv
  <2>5. QueueInv'
    BY <1>0, <1>1, <1>3, <2>1 DEF QueueInv
  <2>6. held.run <= runs /\ screen.run <= held.run /\ held.run \in Nat
    BY <1>0, <1>4 DEF InOrder, QueueInv, Pictures
  <2>7. held'.run = held.run \/ held' = Nothing \/ held'.run = runs
    BY <1>2
  <2>8. \A i \in DOMAIN queued' : queued'[i].run <= held.run /\ queued'[i].run <= runs
    <3> TAKE i \in DOMAIN queued'
    <3>1. queued'[i].run \in Nat
      BY <2>1, RunsAreNumbers
    <3> QED
      BY <1>0, <2>1, <2>6, <3>1
  <2>9. screen'.run <= runs /\ screen'.run <= held.run
    BY <1>0, <1>1, <2>6 DEF InOrder
  <2>10. InOrder'
    BY <1>1, <1>3, <2>1, <2>7, <2>8, <2>9 DEF InOrder
  <2> QED
    BY <2>4, <2>5, <2>10
<1>5. CASE UNCHANGED <<emitted, queued>>
  <2>1. HeldInv'
    BY <1>0, <1>1, <1>2, <1>5 DEF HeldInv
  <2>2. QueueInv'
    BY <1>0, <1>1, <1>3, <1>5 DEF QueueInv, Newest
  <2>3. InOrder'
    BY <1>0, <1>1, <1>2, <1>3, <1>5 DEF InOrder
  <2> QED
    BY <2>1, <2>2, <2>3
<1> QED
  BY <1>4, <1>5, ReceiveHolds

(* The flush leaves what is in the event loop, and comes between runs.      *)
LEMMA FlushKeepsPictures ==
  ASSUME ScreenInv, stopped \/ stopAgain
  PROVE  (HeldInv /\ QueueInv /\ InOrder)' /\ UNCHANGED queued
<1>1. HeldInv /\ QueueInv /\ InOrder /\ runs \in Nat
  BY DEF ScreenInv, Inv, TypeOK
<1>2. screen' = Nothing /\ emitted' = Nothing /\ UNCHANGED <<held, queued, runs>>
  <2>1. CASE stopped
    BY <2>1 DEF stopped, flush, join, ghostVars
  <2>2. CASE stopAgain
    BY <1>1, <2>2 DEF stopAgain, flush, HeldInv, emitVars, vars, ghostVars
  <2> QED
    BY <2>1, <2>2
<1>3. HeldInv'
  BY <1>1, <1>2 DEF HeldInv
<1>4. QueueInv'
  BY <1>1, <1>2 DEF QueueInv, Nothing, Pictures
<1>5. InOrder'
  <2>1. \A i \in DOMAIN queued : queued[i].run \in Nat
    BY <1>1, RunsAreNumbers DEF QueueInv
  <2>2. held.run \in Nat
    BY <1>1 DEF QueueInv, Pictures
  <2> QED
    BY <1>1, <1>2, <2>1, <2>2 DEF InOrder, Nothing
<1> QED
  BY <1>2, <1>3, <1>4, <1>5

LEMMA NextKeepsScreenInv == ScreenInv /\ [ScreenNext]_allVars => ScreenInv'
<1> SUFFICES ASSUME ScreenInv, [ScreenNext]_allVars PROVE ScreenInv'
  OBVIOUS
<1>1. Inv' /\ DecodedInv'
  BY ScreenStep, NextKeepsInv, NextKeepsDecoded DEF ScreenInv
<1>2. Inv /\ HeldInv /\ QueueInv /\ InOrder
  BY DEF ScreenInv
<1> SUFFICES (HeldInv /\ QueueInv /\ InOrder)'
  BY <1>1 DEF ScreenInv
<1>3. CASE Receive
  BY <1>3, ReceiveKeepsPictures
<1>4. CASE stopped \/ stopAgain
  BY <1>4, FlushKeepsPictures
<1>5. CASE onNewFrameReceived
  <2>1. InOrder'
    BY <1>2, <1>5, PresentKeepsQueue
  <2>2. UNCHANGED <<held, emitted, is_playing, gui, runs>>
    BY <1>5 DEF onNewFrameReceived, vars, flagVars, ghostVars
  <2>3. HeldInv'
    BY <1>2, <2>2 DEF HeldInv
  <2>4. QueueInv'
    BY <1>2, <1>5, <2>2, PresentKeepsQueue DEF QueueInv
  <2> QED
    BY <2>1, <2>3, <2>4
<1>6. CASE (SingleStep \/ Press) /\ UNCHANGED <<held, emitVars, screen>>
  <2>1. CASE start
    <3>1. UNCHANGED <<held, emitted, queued, screen>> /\ is_playing' /\ gui' = gui
          /\ runs' = runs + 1 /\ runs \in Nat /\ emitted = Nothing
      BY <1>2, <1>6, <2>1 DEF emitVars, start, HeldInv, Inv, TypeOK
    <3>2. HeldInv' /\ QueueInv'
      BY <1>2, <3>1 DEF HeldInv, QueueInv, Newest
    <3>3. held.run \in Nat /\ screen.run \in Nat /\ \A i \in DOMAIN queued : queued[i].run \in Nat
      BY <1>2, RunIsNumber, RunsAreNumbers DEF QueueInv
    <3>4. InOrder'
      BY <1>2, <3>1, <3>3 DEF InOrder
    <3> QED
      BY <3>2, <3>4
  <2>2. CASE stop
    <3>1. gui' = "join" /\ UNCHANGED <<held, emitted, queued, screen, runs>>
      BY <1>6, <2>2 DEF emitVars, stop, ghostVars
    <3> QED
      BY <1>2, <3>1, QuietKeepsPictures
  <2>3. CASE SingleStep \/ pause \/ \E t \in Steppers, count \in Jumps : step_by_seconds(t, count)
    <3>1. /\ UNCHANGED <<held, emitted, queued, screen, runs, is_playing>>
          /\ gui = "idle"
      BY <1>6, <2>3 DEF emitVars, SingleStep, step_one_frame_forward, step_one_frame_backward, pause,
        step_by_seconds, ghostVars
    <3> QED
      BY <1>2, <3>1, QuietKeepsPictures
  <2> QED
    BY <1>6, <2>1, <2>2, <2>3 DEF Press
<1>7. CASE Other /\ UNCHANGED screenVars
  BY <1>2, <1>7, OtherIsQuiet, QuietKeepsPictures DEF Quiet
<1>8. CASE UNCHANGED allVars
  BY <1>2, <1>8, QuietKeepsPictures DEF allVars, vars, screenVars, emitVars, flagVars, ghostVars
<1> QED
  BY <1>3, <1>4, <1>5, <1>6, <1>7, <1>8, ScreenKinds DEF Presents

(* The inductive invariant of player, decoder, event loop and screen:       *)
(* pictures are whole and in the order of their runs wherever they are.     *)
THEOREM ScreenInvariant == ScreenSpec => []ScreenInv
<1>1. ScreenInit => ScreenInv
  BY InitScreenInv
<1>2. ScreenInv /\ [ScreenNext]_allVars => ScreenInv'
  BY NextKeepsScreenInv
<1> QED
  BY <1>1, <1>2, PTL DEF ScreenSpec

(* Pictures come to the event loop out of the parser only, and to the       *)
(* screen out of the event loop.                                            *)
LEMMA ScreenChanges ==
  ASSUME ScreenInv, [ScreenNext]_allVars
  PROVE  /\ Len(queued') > Len(queued) => held # Nothing /\ emitted' = held
         /\ screen' = screen \/ screen' = Nothing \/ (screen'.whole /\ screen.run <= screen'.run)
<1>1. HeldInv /\ QueueInv /\ InOrder /\ Inv /\ Len(queued) \in Nat /\ screen.run \in Nat
  BY DEF ScreenInv, QueueInv, Pictures
<1>2. CASE Receive
  <2>1. UNCHANGED screen /\ (UNCHANGED <<emitted, queued>> \/ (held # Nothing /\ emit))
    BY <1>2, ReceiveHolds
  <2> QED
    BY <1>1, <2>1 DEF emit
<1>3. CASE stopped \/ stopAgain
  BY <1>1, <1>3, FlushKeepsPictures DEF stopped, stopAgain, flush
<1>4. CASE onNewFrameReceived
  <2>1. screen'.whole /\ screen.run <= screen'.run /\ Len(queued') < Len(queued)
        /\ Len(queued') \in Nat
    BY <1>1, <1>4, PresentKeepsQueue
  <2> QED
    BY <1>1, <2>1
<1>5. CASE UNCHANGED <<queued, screen>>
  BY <1>1, <1>5
<1> QED
  BY <1>2, <1>3, <1>4, <1>5, ScreenKinds DEF Presents, allVars, screenVars, emitVars

(* No picture is emitted, and none comes to the screen, that was decoded    *)
(* without the frames it depends on, wherever steps have led and whatever   *)
(* they decoded on the way.                                                 *)
THEOREM WholePictures == ScreenSpec => PictureIsWhole
<1>1. ScreenInv /\ [ScreenNext]_allVars =>
        /\ Len(queued') > Len(queued) => emitted'.whole
        /\ screen' # screen /\ screen' # Nothing => screen'.whole
  BY ScreenChanges DEF ScreenInv, HeldInv
<1> QED
  BY <1>1, ScreenInvariant, PTL DEF ScreenSpec, PictureIsWhole

(* The picture a recording has left in the parser is the first the next one *)
(* emits, if at all, and the screen never goes back to an older recording,  *)
(* also when pictures come to it behind the flush of stop.                  *)
THEOREM OldPictureFirst == ScreenSpec => OldPictureComesFirst
<1>1. ScreenInv /\ [ScreenNext]_allVars =>
        /\ Len(queued') > Len(queued) /\ held.run # runs => emitted = Nothing
        /\ screen' # Nothing => screen.run <= screen'.run
  <2> SUFFICES ASSUME ScreenInv, [ScreenNext]_allVars
               PROVE  /\ Len(queued') > Len(queued) /\ held.run # runs => emitted = Nothing
                      /\ screen' # Nothing => screen.run <= screen'.run
    OBVIOUS
  <2>1. screen.run \in Nat
    BY DEF ScreenInv, QueueInv, Pictures
  <2> QED
    BY <2>1, ScreenChanges DEF ScreenInv, HeldInv
<1> QED
  BY <1>1, ScreenInvariant, PTL DEF ScreenSpec, OldPictureComesFirst

----------------------------------------------------------------------------
(* The wait for an I frame and the position: off the I frames, the feed     *)
(* thread waits exactly while no I frame lies behind its position.          *)

(* The frames with an I frame at or before them can be decoded.             *)
Decodable == {i \in Frames : \E j \in IFrames : j <= i}

Waits(p) == p \in IFrames \/ (need_I_frame <=> \A j \in IFrames : j >= p)

WaitInv ==
  /\ feed \in {"check", "lock"} => Waits(pos)
  /\ feed = "rest" => Waits(pos + 1)
  /\ shown # 0 => shown \in Decodable

(* A tag is handed over if it is a frame that can be decoded. *)
LEMMA TagIsDecodable ==
  ASSUME Inv, WaitInv, feedTag
  PROVE  /\ HandsFrame <=> pos \in Decodable
         /\ WaitInv'
<1>1. tags \in Files /\ Len(tags) \in Nat /\ DOMAIN tags = 1..Len(tags)
      /\ IFrames \subseteq Frames /\ Frames \subseteq Nat
  BY TagsOfFile DEF Inv, TypeOK
<1>2. pos \in Nat /\ need_I_frame \in BOOLEAN /\ IFrames \subseteq Nat
  BY <1>1 DEF Inv, TypeOK
<1>3. pos \notin IFrames => (need_I_frame <=> \A j \in IFrames : j >= pos)
  BY DEF WaitInv, Waits, feedTag
<1>4. pos \notin IFrames => (need_I_frame <=> ~ \E j \in IFrames : j <= pos)
  <2>1. pos \notin IFrames => \A j \in IFrames : j >= pos <=> ~(j <= pos)
    BY <1>2
  <2> QED
    BY <1>3, <2>1
<1>5. HandsFrame <=> pos \in Decodable
  <2>1. CASE pos \in IFrames
    BY <1>1, <1>2, <2>1 DEF HandsFrame, Decodable
  <2>2. CASE pos \notin IFrames
    BY <1>4, <2>2, Zenon DEF HandsFrame, Decodable
  <2> QED
    BY <2>1, <2>2
<1>6. need_I_frame' <=> \A j \in IFrames : j >= pos + 1
  <2>1. CASE pos \in IFrames
    <3>1. need_I_frame' = FALSE
      BY <2>1, Zenon DEF feedTag
    <3>2. ~(pos >= pos + 1)
      BY <1>2
    <3> QED
      BY <2>1, <3>1, <3>2
  <2>2. CASE pos \notin IFrames
    <3>1. (\A j \in IFrames : j >= pos + 1) <=> (\A j \in IFrames : j >= pos)
      BY <1>2, <2>2
    <3>2. need_I_frame' <=> need_I_frame
      <4>1. CASE pos \in Frames /\ ~need_I_frame
        BY <4>1, Zenon DEF feedTag
      <4>2. CASE ~(pos \in Frames /\ ~need_I_frame)
        BY <2>2, <4>2, Zenon DEF feedTag
      <4> QED
        BY <4>1, <4>2
    <3> QED
      BY <1>3, <2>2, <3>1, <3>2, Zenon
  <2> QED
    BY <2>1, <2>2
<1>7. shown' \in {shown, pos} /\ (shown' # shown => HandsFrame)
  BY DEF feedTag, HandsFrame, decoderVars
<1>8. WaitInv'
  <2>1. feed' = "rest" /\ UNCHANGED <<tags, pos>>
    BY DEF feedTag, fileVars
  <2>2. IFrames' = IFrames /\ Decodable' = Decodable
    BY <2>1, SameFile DEF Decodable
  <2>3. Waits(pos + 1)'
    BY <1>6, <2>1, <2>2, Zenon DEF Waits
  <2>4. shown' # 0 => shown' \in Decodable
    BY <1>5, <1>7 DEF WaitInv
  <2> QED
    BY <2>1, <2>2, <2>3, <2>4 DEF WaitInv
<1> QED
  BY <1>5, <1>8

LEMMA NextKeepsWait == Inv /\ WaitInv /\ [Next]_vars => WaitInv'
<1> SUFFICES ASSUME Inv, WaitInv, [Next]_vars PROVE WaitInv'
  OBVIOUS
<1>0. Len(tags) \in Nat /\ DOMAIN tags = 1..Len(tags) /\ tags \in Files
      /\ IFrames \subseteq 1..Len(tags)
  BY TagsOfFile DEF Inv, TypeOK
<1>1. CASE Stays
  <2>1. IFrames' = IFrames /\ Decodable' = Decodable /\ UNCHANGED <<shown, pos, need_I_frame>>
    BY <1>1, SameFile DEF Stays, Decodable, decoderVars
  <2>2. (Waits(pos)' <=> Waits(pos)) /\ (Waits(pos + 1)' <=> Waits(pos + 1))
    BY <2>1, Zenon DEF Waits
  <2> QED
    BY <1>1, <2>1, <2>2 DEF WaitInv, Stays
<1>2. CASE MovesInFile
  <2>1. IFrames' = IFrames /\ Decodable' = Decodable /\ shown' = shown /\ feed' # "rest"
    BY <1>2, SameFile DEF MovesInFile, Decodable, decoderVars
  <2>2. Waits(pos)'
    <3>1. \A j \in IFrames : j >= 1
      BY <1>0
    <3>2. pos' \in IFrames \/ (pos' = 1 /\ need_I_frame' = TRUE)
      BY <1>2 DEF MovesInFile, Moved
    <3> QED
      BY <2>1, <3>1, <3>2, Zenon DEF Waits
  <2> QED
    BY <2>1, <2>2 DEF WaitInv
<1>3. CASE GoesAstray
  <2>1. IFrames' = IFrames /\ Decodable' = Decodable /\ UNCHANGED <<shown, feed, pos>>
    BY <1>3, SameFile DEF GoesAstray, Decodable, decoderVars
  <2>2. pos = 0 => Waits(pos)' /\ Waits(pos + 1)'
    <3>1. \A j \in IFrames : j >= 0 /\ j >= 0 + 1
      BY <1>0
    <3>2. need_I_frame' = TRUE
      BY <1>3 DEF GoesAstray
    <3> QED
      BY <2>1, <3>1, <3>2, Zenon DEF Waits
  <2> QED
    BY <1>3, <2>1, <2>2 DEF WaitInv, GoesAstray
<1>4. CASE feedReset
  <2>1. UNCHANGED <<tags, shown>> /\ feed' = "check" /\ pos' = 0 /\ need_I_frame'
        /\ IFrames' = IFrames /\ Decodable' = Decodable
    BY <1>4, SameFile DEF feedReset, Inv, Control, regulateVars, fileVars, decoderVars, Decodable
  <2>2. \A j \in IFrames : j >= 0
    BY <1>0
  <2> QED
    BY <2>1, <2>2 DEF WaitInv, Waits
<1>5. CASE feedNoTag /\ pos = 0
  <2>1. UNCHANGED <<tags, need_I_frame, shown>> /\ feed = "lock" /\ feed' = "check" /\ pos' = 1
    BY <1>5 DEF feedNoTag, fileVars, regulateVars, decoderVars
  <2>2. IFrames' = IFrames /\ Decodable' = Decodable
    BY <2>1, SameFile DEF Decodable
  <2>3. 0 \notin IFrames /\ \A j \in IFrames : j >= 0 /\ j >= 1
    BY <1>0
  <2>4. need_I_frame
    BY <1>5, <2>1, <2>3, Zenon DEF WaitInv, Waits
  <2>5. Waits(pos)'
    BY <2>1, <2>2, <2>3, <2>4, Zenon DEF Waits
  <2> QED
    BY <2>1, <2>2, <2>5 DEF WaitInv
<1>6. CASE feedTag
  BY <1>6, TagIsDecodable
<1>7. CASE feedRest
  <2>1. UNCHANGED <<tags, need_I_frame, shown>> /\ feed = "rest" /\ feed' = "check"
        /\ pos' = pos + 1
    BY <1>7 DEF feedRest, fileVars, decoderVars
  <2>2. IFrames' = IFrames /\ Decodable' = Decodable
    BY <2>1, SameFile DEF Decodable
  <2>3. Waits(pos)' <=> Waits(pos + 1)
    BY <2>1, <2>2, Zenon DEF Waits
  <2> QED
    BY <2>1, <2>2, <2>3 DEF WaitInv
<1>8. CASE start
  BY <1>8 DEF start, WaitInv
<1> QED
  BY <1>1, <1>2, <1>3, <1>4, <1>5, <1>6, <1>7, <1>8, StepKinds

----------------------------------------------------------------------------
(* Single steps.  Two frames back from a position is the frame before the   *)
(* one before it.                                                           *)
LEMMA BackwardTwo ==
  ASSUME tags \in Files, NEW p \in Nat, NEW s \in Nat, NEW r \in Nat,
         s = FrameBefore(p), r = FrameBefore(s), s # 0, r # 0
  PROVE  Backward(p, 2) = r
<1> DEFINE Between(i) == {j \in Frames : i <= j /\ j < p}
           reached == {i \in Frames : i < p /\ Cardinality(Between(i)) = 2}
<1>1. Len(tags) \in Nat /\ Frames \subseteq 1..Len(tags) /\ Frames \subseteq Nat
      /\ Frames \subseteq Video
  BY TagsOfFile
<1>2. s \in Frames /\ s < p /\ r \in Frames /\ r < s
  BY FrameBeforeIs
<1>3. \A i \in Frames : (i < p => i <= s) /\ (i < s => i <= r)
  BY FrameBeforeIs
<1>4. Between(s) = {s}
  <2>1. \A j \in Frames : s <= j /\ j < p <=> j = s
    BY <1>1, <1>2, <1>3
  <2> QED
    BY <1>2, <2>1, Zenon
<1>5. Between(r) = {r, s}
  <2>1. \A j \in Frames : r <= j /\ j < p <=> j = r \/ j = s
    <3> TAKE j \in Frames
    <3>1. j \in Nat /\ (j < p => j <= s) /\ (j < s => j <= r)
      BY <1>1, <1>3
    <3> QED
      BY <1>2, <3>1
  <2> QED
    BY <1>2, <2>1, Zenon
<1>6. \A i \in Frames : i < r => {i, r, s} \subseteq Between(i)
  BY <1>1, <1>2
<1>7. \A i : Between(i) \subseteq Video
  BY <1>1
<1> HIDE DEF Between
<1>8. Cardinality({s}) = 1 /\ Cardinality({r, s}) = 2 /\ IsFiniteSet({r, s})
  <2> DEFINE S == {s}
  <2>1. IsFiniteSet(S) /\ Cardinality(S) = 1
    BY FS_Singleton
  <2>2. {r, s} = S \union {r} /\ r \notin S
    BY <1>2
  <2> HIDE DEF S
  <2>3. IsFiniteSet(S \union {r}) /\ Cardinality(S \union {r}) = Cardinality(S) + 1
    BY <2>1, <2>2, FS_AddElement
  <2>4. IsFiniteSet({r, s}) /\ Cardinality({r, s}) = 2
    BY <2>1, <2>2, <2>3
  <2> QED
    BY <2>1, <2>4 DEF S
<1>9. \A i \in Frames : i < r => Cardinality(Between(i)) # 2
  <2> TAKE i \in Frames
  <2> HAVE i < r
  <2>1. {i, r, s} = {r, s} \union {i} /\ i \notin {r, s}
    BY <1>1, <1>2
  <2>2. IsFiniteSet({i, r, s}) /\ Cardinality({i, r, s}) = 3
    BY <1>8, <2>1, FS_AddElement
  <2>3. IsFiniteSet(Between(i)) /\ Cardinality(Between(i)) \in Nat
    BY <1>7, CountOfTags
  <2>4. Cardinality({i, r, s}) <= Cardinality(Between(i))
    BY <1>6, <2>3, FS_Subset
  <2> QED
    BY <2>2, <2>3, <2>4
<1>10. \A i \in Frames : i < p => i = s \/ i = r \/ i < r
  BY <1>1, <1>2, <1>3
<1>11. r < p
  BY <1>1, <1>2
<1>12. reached = {r}
  <2>1. \A i \in Frames : i < p /\ Cardinality(Between(i)) = 2 <=> i = r
    <3>1. 1 # 2
      OBVIOUS
    <3> QED
      BY <1>2, <1>4, <1>5, <1>8, <1>9, <1>10, <1>11, <3>1, Zenon
  <2> QED
    BY <1>2, <2>1, Zenon
<1>13. Max({r}) = r
  <2>1. {r} \in SUBSET (1..Len(tags)) /\ {r} # {}
    BY <1>1, <1>2
  <2>2. Max({r}) \in {r}
    BY <1>1, <2>1, MaxOf
  <2> QED
    BY <2>2
<1>14. Backward(p, 2) = IF reached = {} THEN 1 ELSE Max(reached)
  BY DEF Backward, Between
<1> QED
  BY <1>12, <1>13, <1>14

(* The last frame before a frame that can be decoded, if there is one.      *)
LEMMA LastDecodable ==
  ASSUME tags \in Files, NEW s \in Nat, NEW e,
         e = LastOf({i \in Frames : i < s /\ \E j \in IFrames : j <= i}), e # 0
  PROVE  e = FrameBefore(s) /\ e \in Decodable /\ e \in Nat /\ e < s
<1> DEFINE T == {i \in Frames : i < s /\ \E j \in IFrames : j <= i}
<1>1. Len(tags) \in Nat /\ Frames \subseteq 1..Len(tags) /\ Frames \subseteq Nat
      /\ IFrames \subseteq Frames
  BY TagsOfFile
<1>2. T \in SUBSET (1..Len(tags)) /\ T \subseteq Decodable
  BY <1>1 DEF Decodable
<1>3. \A i : i \in T <=> i \in Frames /\ i < s /\ \E j \in IFrames : j <= i
  OBVIOUS
<1> HIDE DEF T
<1>4. e = LastOf(T)
  BY DEF T
<1>5. e \in T /\ \A i \in T : i <= e
  BY <1>1, <1>2, <1>4, LastOfSet
<1>6. e \in Frames /\ e < s /\ e \in Nat /\ e \in Decodable
  BY <1>1, <1>2, <1>3, <1>5
<1>7. FrameBefore(s) \in Frames /\ FrameBefore(s) < s /\ e <= FrameBefore(s)
  BY <1>6, FrameBeforeIs
<1>8. FrameBefore(s) \in T
  <2>1. PICK j \in IFrames : j <= e
    BY <1>3, <1>5
  <2>2. j \in Nat /\ FrameBefore(s) \in Nat
    BY <1>1, <1>7, <2>1
  <2>3. j <= FrameBefore(s)
    BY <1>6, <1>7, <2>1, <2>2
  <2> QED
    BY <1>3, <1>7, <2>1, <2>3
<1>9. FrameBefore(s) <= e /\ FrameBefore(s) \in Nat
  BY <1>1, <1>5, <1>7, <1>8
<1>10. e = FrameBefore(s)
  BY <1>6, <1>7, <1>9
<1> QED
  BY <1>6, <1>10

(* The tags that are left on the way to a frame. *)
Left(p, e) == {i \in Video : p <= i /\ i < e}

LEMMA LeftCountsDown ==
  ASSUME tags \in Files, NEW p \in Nat, NEW e \in Nat
  PROVE  /\ Cardinality(Left(p, e)) \in Nat
         /\ p \in Video /\ p < e => Cardinality(Left(p + 1, e)) = Cardinality(Left(p, e)) - 1
         /\ p \notin Video => Left(p + 1, e) = Left(p, e)
         /\ Cardinality(Left(p, e)) = 0 => \A i \in Video : i < p \/ i >= e
         /\ Cardinality(Left(p, e)) # 0 => p < e
<1>1. Video \subseteq Nat
  BY TagsOfFile
<1>2. Left(p, e) \subseteq Video /\ Left(p + 1, e) \subseteq Video
  BY DEF Left
<1>3. /\ IsFiniteSet(Left(p, e)) /\ Cardinality(Left(p, e)) \in Nat
      /\ Left(p, e) # {} <=> Cardinality(Left(p, e)) # 0
  BY <1>2, CountOfTags, FS_EmptySet
<1>4. ASSUME p \in Video, p < e
      PROVE  Cardinality(Left(p + 1, e)) = Cardinality(Left(p, e)) - 1
  <2>1. p \in Left(p, e)
    BY <1>1, <1>4 DEF Left
  <2>2. Left(p + 1, e) = Left(p, e) \ {p}
    <3>1. \A i \in Video : p + 1 <= i /\ i < e <=> (p <= i /\ i < e) /\ i # p
      BY <1>1
    <3> QED
      BY <3>1, Zenon DEF Left
  <2> QED
    BY <1>3, <2>1, <2>2, FS_RemoveElement
<1>5. ASSUME p \notin Video PROVE Left(p + 1, e) = Left(p, e)
  <2>1. \A i \in Video : p + 1 <= i /\ i < e <=> p <= i /\ i < e
    BY <1>1, <1>5
  <2> QED
    BY <2>1, Zenon DEF Left
<1>6. Left(p, e) = {} => \A i \in Video : i < p \/ i >= e
  BY <1>1 DEF Left
<1>7. ASSUME Left(p, e) # {} PROVE p < e
  <2>1. PICK i \in Video : p <= i /\ i < e
    BY <1>7 DEF Left
  <2> QED
    BY <1>1, <2>1
<1> QED
  BY <1>3, <1>4, <1>5, <1>6, <1>7

(* A single step that has a frame to show, from the key to the frame: no    *)
(* step thread moves the position or ends the pause.                        *)
Stepping == expected # 0 /\ (step_one_frame \/ gui \in {"stepLock", "stepFlag"})

Calm ==
  /\ NoSteppers /\ is_pause /\ is_playing
  /\ gui \in {"stepLock", "stepFlag"} => feed = "check" /\ ~step_one_frame

(* A step back that has not moved yet. *)
AtShown ==
  /\ ~is_regulating
  /\ shown # 0 /\ shown = FrameBefore(pos)
  /\ expected = LastOf({i \in Frames : i < shown /\ \E j \in IFrames : j <= i})

(* The way to the frame: it is the next one, or the one behind the tags     *)
(* that are decoded without being shown.                                    *)
OnTheWay ==
  /\ expected \in Decodable
  /\ pos >= 1 /\ feed \in {"check", "lock", "rest"}
  /\ ~is_regulating => pos <= expected /\ \A i \in Frames : i < pos \/ i >= expected
  /\ is_regulating => pos < expected /\ regulate_tag_count = Cardinality(Left(pos, expected))
  /\ feed = "rest" /\ ~is_regulating /\ pos \in Frames => shown = expected

StepInv == Stepping => Calm /\ (IF gui = "stepLock" THEN AtShown ELSE OnTheWay)

(* A step forward from a player at rest is on its way. *)
LEMMA StepsForward ==
  ASSUME Inv, WaitInv, step_one_frame_forward
  PROVE  StepInv'
<1>1. /\ Len(tags) \in Nat /\ Frames \subseteq 1..Len(tags) /\ Frames \subseteq Nat /\ Frames # {}
      /\ tags \in Files /\ IFrames \subseteq Frames
  BY TagsOfFile DEF Inv, TypeOK
<1>2. pos \in Nat /\ shown \in Nat
  BY DEF Inv, TypeOK
<1>3. /\ UNCHANGED <<tags, pos, is_playing, is_regulating, regulate_tag_count, feed, gui, steppers,
                     shown>>
      /\ is_pause' /\ gui = "idle" /\ is_playing
  BY DEF step_one_frame_forward, fileVars, regulateVars, decoderVars
<1>4. CASE Settled /\ pos <= Max(Frames)
  <2> DEFINE S == {i \in Frames : i >= pos}
  <2>1. expected' = Min(S)
    BY <1>4 DEF step_one_frame_forward
  <2>2. Max(Frames) \in S
    <3>1. Max(Frames) \in Frames
      BY <1>1, MaxOf
    <3>2. Max(Frames) \in Nat
      BY <1>1, <3>1
    <3> QED
      BY <1>2, <1>4, <3>1, <3>2
  <2>3. S \in SUBSET Nat
    BY <1>1, Zenon
  <2>4. \A i : i \in S <=> i \in Frames /\ i >= pos
    OBVIOUS
  <2> HIDE DEF S
  <2>5. expected' \in S /\ \A i \in S : expected' <= i
    BY <2>1, <2>2, <2>3, MinOf
  <2>6. expected' \in Frames /\ expected' \in Nat /\ pos <= expected'
        /\ \A i \in Frames : i < pos \/ i >= expected'
    <3>1. expected' \in Frames /\ expected' >= pos /\ expected' \in Nat
      BY <1>1, <2>4, <2>5
    <3>2. \A i \in Frames : i >= pos => expected' <= i
      BY <2>4, <2>5
    <3> QED
      BY <1>1, <1>2, <3>1, <3>2
  <2>7. shown \in Decodable /\ shown < pos /\ shown # 0 /\ ~is_regulating /\ feed = "check"
        /\ NoSteppers
    BY <1>1, <1>2, <1>4, FrameBeforeIs DEF Settled, WaitInv
  <2>8. expected' \in Decodable
    <3>1. PICK j \in IFrames : j <= shown
      BY <2>7 DEF Decodable
    <3>2. j <= expected'
      BY <1>1, <1>2, <2>6, <2>7, <3>1
    <3> QED
      BY <2>6, <3>2 DEF Decodable
  <2>9. Calm'
    BY <1>3, <2>7 DEF Calm, NoSteppers
  <2>10. OnTheWay'
    <3>1. Frames' = Frames /\ Decodable' = Decodable
      BY <1>3, SameFile DEF Decodable
    <3>2. pos >= 1
      BY <1>2, <2>7
    <3> QED
      BY <1>3, <2>6, <2>7, <2>8, <3>1, <3>2 DEF OnTheWay
  <2> QED
    BY <1>3, <2>9, <2>10 DEF StepInv
<1>5. CASE ~(Settled /\ pos <= Max(Frames))
  BY <1>5 DEF step_one_frame_forward, StepInv, Stepping
<1> QED
  BY <1>4, <1>5

(* A step back stands at the frame it was pressed at. *)
LEMMA StepsBackward ==
  ASSUME Inv, step_one_frame_backward
  PROVE  StepInv'
<1>1. CASE Settled
  <2>1. /\ UNCHANGED <<tags, pos, is_playing, step_one_frame, is_regulating, feed, steppers, shown>>
        /\ is_pause' /\ is_playing /\ gui' = "stepLock"
        /\ expected' = LastOf({i \in Frames : i < shown /\ \E j \in IFrames : j <= i})
    BY <1>1 DEF step_one_frame_backward, fileVars, regulateVars, decoderVars
  <2>2. Calm'
    BY <1>1, <2>1 DEF Settled, Calm, NoSteppers
  <2>3. AtShown'
    <3>1. FrameBefore(pos)' = FrameBefore(pos) /\ Frames' = Frames /\ IFrames' = IFrames
      BY <2>1, SameFile DEF FrameBefore
    <3> QED
      BY <1>1, <2>1, <3>1 DEF Settled, AtShown
  <2> QED
    BY <2>1, <2>2, <2>3 DEF StepInv
<1>2. CASE ~Settled
  BY <1>2 DEF step_one_frame_backward, StepInv, Stepping
<1> QED
  BY <1>1, <1>2

(* step_by_frame brings a step back on its way to the frame before.         *)
LEMMA StepBackMoves ==
  ASSUME Inv, StepInv, stepBackLocked
  PROVE  StepInv'
<1> SUFFICES ASSUME expected # 0 PROVE StepInv'
  BY DEF StepInv, Stepping, stepBackLocked
<1>1. /\ tags \in Files /\ Len(tags) \in Nat /\ DOMAIN tags = 1..Len(tags)
      /\ Frames \subseteq Nat /\ IFrames \subseteq Frames /\ Video \subseteq Nat
      /\ Frames \subseteq Video /\ IFrames \subseteq 1..Len(tags)
  BY TagsOfFile DEF Inv, TypeOK
<1>2. pos \in Nat /\ shown \in Nat
  BY DEF Inv, TypeOK
<1>3. Calm /\ AtShown /\ gui = "stepLock" /\ feed = "check"
  BY DEF stepBackLocked, StepInv, Stepping, Calm
<1>4. pos # 0 /\ ~Astray
  <2>1. pos # 0
    BY <1>1, <1>2, <1>3, FrameBeforeIs DEF AtShown
  <2> QED
    BY <1>3, <2>1 DEF Astray, InFile, Inv, Control
<1>5. /\ step_by_frame(-1) /\ gui' = "stepFlag"
      /\ UNCHANGED <<tags, is_playing, is_pause, step_one_frame, feed, steppers, shown, expected>>
  BY <1>4 DEF stepBackLocked, fileVars, flagVars, decoderVars
<1>6. /\ expected = FrameBefore(shown) /\ expected \in Decodable /\ expected \in Nat
      /\ expected < shown
  BY <1>1, <1>2, <1>3, LastDecodable DEF AtShown
<1> DEFINE q == Landing(pos, -1 - 1)
           first == LastOf({i \in IFrames : i < q})
<1>7. q = expected
  <2>1. Backward(pos, 2) = expected
    BY <1>1, <1>2, <1>3, <1>6, BackwardTwo DEF AtShown
  <2>2. -(-1 - 1) = 2 /\ ~(-1 - 1 > 0)
    <3>1. \A x, y \in Int : y = -x => -y = x
      OBVIOUS
    <3>2. -1 - 1 = -2 /\ -1 - 1 \in Int /\ 2 \in Int /\ ~(-1 - 1 > 0)
      OBVIOUS
    <3> QED
      BY <3>1, <3>2, Zenon
  <2>3. q = IF Backward(pos, 2) = End THEN LastOf(Video) ELSE Backward(pos, 2)
    BY <2>2 DEF Landing
  <2>4. expected # End
    BY <1>1, <1>6, TagsOfFile DEF Decodable, End
  <2> QED
    BY <2>1, <2>3, <2>4
<1>8. IF q \in IFrames
      THEN pos' = q /\ UNCHANGED regulateVars
      ELSE /\ pos' = IF first = 0 THEN 1 ELSE first
           /\ is_regulating' = (first # 0)
           /\ regulate_tag_count' = Cardinality({i \in Video : pos' <= i /\ i < q})
  BY <1>3, <1>5 DEF step_by_frame, AtShown
<1>9. Calm'
  BY <1>3, <1>5 DEF Calm, NoSteppers
<1>10. Frames' = Frames /\ Video' = Video /\ Decodable' = Decodable
  BY <1>5, SameFile DEF Decodable
<1>11. OnTheWay'
  <2>1. CASE q \in IFrames
    <3>1. pos' = expected /\ ~is_regulating'
      BY <1>3, <1>7, <1>8, <2>1 DEF AtShown, regulateVars
    <3>2. expected >= 1 /\ \A i \in Frames : i < expected \/ i >= expected
      BY <1>1, <1>6
    <3> QED
      BY <1>3, <1>5, <1>6, <1>10, <3>1, <3>2 DEF OnTheWay
  <2>2. CASE q \notin IFrames
    <3> DEFINE T == {i \in IFrames : i < q}
    <3>1. T \in SUBSET (1..Len(tags)) /\ \A i : i \in T <=> i \in IFrames /\ i < q
      BY <1>1
    <3>2. T # {}
      <4>1. PICK j \in IFrames : j <= expected
        BY <1>6 DEF Decodable
      <4>2. j # expected /\ j \in Nat
        BY <1>1, <1>7, <2>2, <4>1
      <4>3. j < q
        BY <1>6, <1>7, <4>1, <4>2
      <4> QED
        BY <3>1, <4>3
    <3> HIDE DEF T
    <3>3. first = LastOf(T)
      BY DEF T
    <3> HIDE DEF q, first
    <3>4. first # 0 /\ first \in T
      BY <1>1, <3>1, <3>2, <3>3, LastOfSet
    <3>5. first \in Nat /\ first < expected /\ first >= 1
      BY <1>1, <1>7, <3>1, <3>4
    <3>6. pos' = first /\ is_regulating'
      BY <1>8, <2>2, <3>4
    <3>7. regulate_tag_count' = Cardinality(Left(pos', expected))
      BY <1>7, <1>8, <2>2 DEF Left
    <3>8. Left(pos, expected)' = Left(pos', expected)
      BY <1>5, <1>10 DEF Left
    <3> QED
      BY <1>3, <1>5, <1>6, <1>10, <3>5, <3>6, <3>7, <3>8 DEF OnTheWay
  <2> QED
    BY <2>1, <2>2
<1> QED
  BY <1>5, <1>9, <1>11 DEF StepInv

(* The feed thread goes on to the frame, hands it over, and then ends the   *)
(* step; a pause keeps it from its work while the step back moves.          *)
LEMMA FeedKeepsSteps ==
  ASSUME Inv, WaitInv, StepInv, FeedStep, Stepping
  PROVE  StepInv'
<1>1. /\ tags \in Files /\ Len(tags) \in Nat /\ DOMAIN tags = 1..Len(tags)
      /\ Frames \subseteq Nat /\ Frames \subseteq 1..Len(tags) /\ Frames \subseteq Video
  BY TagsOfFile DEF Inv, TypeOK
<1>2. pos \in Nat /\ expected \in Nat /\ shown \in Nat /\ regulate_tag_count \in Nat
  BY DEF Inv, TypeOK
<1>3. Calm /\ (gui = "stepLock" => AtShown) /\ (gui # "stepLock" => OnTheWay)
  BY DEF StepInv
<1>4. /\ UNCHANGED <<tags, is_playing, is_pause, gui, steppers, expected>>
      /\ feed # "check" => gui \notin {"stepLock", "stepFlag"}
  BY <1>3 DEF FeedStep, feedReset, feedCheck, feedNoTag, feedTag, feedRest, Calm, fileVars, flagVars
<1>5. gui \notin {"stepLock", "stepFlag"} /\ OnTheWay
  <2>1. CASE feed # "check"
    BY <1>3, <1>4, <2>1
  <2>2. CASE feed = "check"
    BY <1>3, <2>2 DEF FeedStep, feedReset, feedCheck, feedNoTag, feedTag, feedRest, Calm
  <2> QED
    BY <2>1, <2>2
<1>6. expected \in Frames /\ expected \in 1..Len(tags)
  BY <1>1, <1>5 DEF OnTheWay, Decodable
<1>7. Calm'
  BY <1>3, <1>4, <1>5 DEF Calm, NoSteppers
<1>8. Frames' = Frames /\ Video' = Video /\ Decodable' = Decodable
  BY <1>4, SameFile DEF Decodable
<1>9. \A p : (Left(p, expected))' = Left(p', expected)
  BY <1>4, <1>8 DEF Left
<1>10. SUFFICES ASSUME Stepping' PROVE OnTheWay'
  BY <1>4, <1>5, <1>7 DEF StepInv
<1>11. pos # 0 /\ pos # End
  BY <1>1, <1>2, <1>5, <1>6 DEF OnTheWay, End
<1>12. CASE feedReset
  BY <1>5, <1>12 DEF OnTheWay, feedReset
<1>13. CASE feedCheck
  <2>1. feed' = "lock" /\ UNCHANGED <<pos, is_regulating, regulate_tag_count>>
    BY <1>3, <1>13 DEF feedCheck, Calm, regulateVars
  <2> QED
    BY <1>4, <1>5, <1>8, <2>1 DEF OnTheWay, Left
<1>14. CASE feedNoTag
  BY <1>11, <1>14 DEF feedNoTag
<1>15. CASE feedTag
  <2>1. feed' = "rest" /\ UNCHANGED <<pos, is_regulating, regulate_tag_count>>
    BY <1>15 DEF feedTag
  <2>2. ASSUME ~is_regulating, pos \in Frames PROVE shown' = expected
    <3>1. pos = expected
      BY <1>1, <1>2, <1>5, <2>2 DEF OnTheWay
    <3>2. HandsFrame
      BY <1>5, <1>15, <3>1, TagIsDecodable DEF OnTheWay
    <3>3. shown' = pos
      BY <1>15, <2>2, <3>2, Zenon DEF feedTag, HandsFrame
    <3> QED
      BY <3>1, <3>3
  <2> QED
    BY <1>4, <1>5, <1>8, <2>1, <2>2 DEF OnTheWay, Left
<1>16. CASE feedRest
  <2>1. feed' = "check" /\ pos' = pos + 1
    BY <1>16 DEF feedRest
  <2>2. step_one_frame' /\ (is_regulating \/ pos \notin Frames)
    BY <1>4, <1>5, <1>10, <1>16 DEF Stepping, feedRest
  <2>3. pos' >= 1
    BY <1>2, <2>1
  <2>4. CASE ~is_regulating
    <3>1. pos \notin Frames /\ pos # expected
      BY <1>6, <2>2, <2>4
    <3>2. pos + 1 <= expected /\ \A i \in Frames : i < pos + 1 \/ i >= expected
      BY <1>1, <1>2, <1>5, <2>4, <3>1 DEF OnTheWay
    <3>3. ~is_regulating'
      BY <1>16, <2>4 DEF feedRest
    <3> QED
      BY <1>4, <1>5, <1>8, <2>1, <2>3, <3>2, <3>3 DEF OnTheWay
  <2>5. CASE is_regulating
    <3>1. pos < expected /\ regulate_tag_count = Cardinality(Left(pos, expected))
      BY <1>5, <2>5 DEF OnTheWay
    <3>2. /\ Cardinality(Left(pos, expected)) \in Nat
          /\ pos \in Video =>
               Cardinality(Left(pos + 1, expected)) = Cardinality(Left(pos, expected)) - 1
          /\ pos \notin Video => Left(pos + 1, expected) = Left(pos, expected)
      BY <1>1, <1>2, <3>1, LeftCountsDown
    <3>3. regulate_tag_count' = Cardinality(Left(pos + 1, expected))
      BY <1>16, <2>5, <3>1, <3>2 DEF feedRest
    <3>4. is_regulating' <=> regulate_tag_count' # 0
      <4>1. CASE pos \in Video
        BY <1>16, <2>5, <4>1, Zenon DEF feedRest
      <4>2. CASE pos \notin Video
        <5>1. regulate_tag_count # 0
          BY <1>2, <2>5 DEF Inv, Control
        <5>2. UNCHANGED <<is_regulating, regulate_tag_count>>
          BY <1>16, <4>2 DEF feedRest
        <5> QED
          BY <2>5, <5>1, <5>2
      <4> QED
        BY <4>1, <4>2
    <3>5. pos + 1 \in Nat
      BY <1>2
    <3>6. is_regulating' => pos + 1 < expected
      BY <1>1, <1>2, <3>3, <3>4, <3>5, LeftCountsDown
    <3>7. ~is_regulating' => pos + 1 <= expected /\ \A i \in Frames : i < pos + 1 \/ i >= expected
      <4>1. pos + 1 <= expected
        BY <1>2, <3>1
      <4>2. ~is_regulating' => \A i \in Video : i < pos + 1 \/ i >= expected
        BY <1>1, <1>2, <3>3, <3>4, <3>5, LeftCountsDown
      <4> QED
        BY <1>1, <4>1, <4>2
    <3>8. Left(pos, expected)' = Left(pos + 1, expected)
      BY <1>4, <1>8, <2>1 DEF Left
    <3> QED
      BY <1>4, <1>5, <1>8, <2>1, <2>3, <3>3, <3>6, <3>7, <3>8 DEF OnTheWay
  <2> QED
    BY <2>4, <2>5
<1> QED
  BY <1>12, <1>13, <1>14, <1>15, <1>16 DEF FeedStep

LEMMA NextKeepsSteps == Inv /\ WaitInv /\ StepInv /\ [Next]_vars => StepInv'
<1> SUFFICES ASSUME Inv, WaitInv, StepInv, [Next]_vars PROVE StepInv'
  OBVIOUS
<1>1. CASE FeedStep
  <2>1. CASE Stepping
    BY <1>1, <2>1, FeedKeepsSteps
  <2>2. CASE ~Stepping
    <3>1. UNCHANGED <<gui, expected>>
      BY <1>1 DEF FeedStep, feedReset, feedCheck, feedNoTag, feedTag, feedRest
    <3>2. CASE feedRest
      <4>1. step_one_frame' => step_one_frame
        BY <3>2, Zenon DEF feedRest
      <4> QED
        BY <2>2, <3>1, <4>1, Zenon DEF StepInv, Stepping
    <3>3. CASE feedReset \/ feedCheck \/ feedNoTag \/ feedTag
      BY <2>2, <3>1, <3>3 DEF feedReset, feedCheck, feedNoTag, feedTag, StepInv, Stepping
    <3> QED
      BY <1>1, <3>2, <3>3 DEF FeedStep
  <2> QED
    BY <2>1, <2>2
<1>2. CASE start \/ stop \/ pause \/ \E t \in Steppers, count \in Jumps : step_by_seconds(t, count)
  BY <1>2 DEF start, stop, pause, step_by_seconds, StepInv, Stepping
<1>3. CASE join
  BY <1>3 DEF join, StepInv, Stepping, Calm, Inv, Control
<1>4. CASE stepBackFlag
  <2>1. /\ UNCHANGED <<tags, pos, is_playing, is_pause, is_regulating, regulate_tag_count, feed,
                       steppers, shown, expected>>
        /\ gui = "stepFlag" /\ gui' = "idle"
    BY <1>4 DEF stepBackFlag, fileVars, flagVars, regulateVars, decoderVars
  <2>2. CASE expected = 0
    BY <2>1, <2>2 DEF StepInv, Stepping
  <2>3. CASE expected # 0
    <3>1. Calm /\ OnTheWay
      BY <2>1, <2>3 DEF StepInv, Stepping
    <3>2. Frames' = Frames /\ Video' = Video /\ Decodable' = Decodable
      BY <2>1, SameFile DEF Decodable
    <3>3. Calm' /\ OnTheWay'
      BY <2>1, <3>1, <3>2 DEF Calm, NoSteppers, OnTheWay, Left
    <3> QED
      BY <2>1, <3>3 DEF StepInv
  <2> QED
    BY <2>2, <2>3
<1>5. CASE stepBackLocked
  BY <1>5, StepBackMoves
<1>6. CASE step_one_frame_forward \/ step_one_frame_backward
  BY <1>6, StepsForward, StepsBackward
<1>7. ASSUME NEW t \in Steppers, Stepper(t) PROVE StepInv'
  <2>1. UNCHANGED <<step_one_frame, gui, expected>>
    BY <1>7 DEF Stepper, stepLocked, stepUnpause
  <2>2. ~NoSteppers
    BY <1>7 DEF Stepper, stepLocked, stepUnpause, NoSteppers, NoStep
  <2> QED
    BY <2>1, <2>2 DEF StepInv, Stepping, Calm
<1>8. CASE UNCHANGED vars
  <2>1. UNCHANGED <<tags, pos, is_playing, is_pause, step_one_frame, is_regulating,
                    regulate_tag_count, feed, gui, steppers, shown, expected>>
    BY <1>8 DEF vars, fileVars, flagVars, regulateVars, decoderVars
  <2>2. Frames' = Frames /\ IFrames' = IFrames /\ Video' = Video /\ Decodable' = Decodable
        /\ FrameBefore(pos)' = FrameBefore(pos)
    BY <2>1, SameFile DEF Decodable, FrameBefore
  <2> QED
    BY <2>1, <2>2 DEF StepInv, Stepping, Calm, NoSteppers, AtShown, OnTheWay, Left
<1> QED
  BY <1>1, <1>2, <1>3, <1>4, <1>5, <1>6, <1>7, <1>8 DEF Next, GuiStep, User, Over

(* The inductive invariant of the single steps. *)
THEOREM StepsInvariant == Spec => [](Inv /\ WaitInv /\ StepInv)
<1>1. Init => Inv /\ WaitInv /\ StepInv
  <2>1. Init => WaitInv /\ StepInv
    BY DEF Init, WaitInv, StepInv, Stepping
  <2> QED
    BY <2>1, InitInv
<1>2. Inv /\ WaitInv /\ StepInv /\ [Next]_vars => (Inv /\ WaitInv /\ StepInv)'
  BY NextKeepsInv, NextKeepsWait, NextKeepsSteps
<1> QED
  BY <1>1, <1>2, PTL DEF Spec

(* A step ends at the rest behind the frame. *)
LEMMA StepEnds ==
  ASSUME Inv, [Next]_vars, step_one_frame, ~step_one_frame'
  PROVE  feedRest /\ ~is_regulating /\ pos \in Frames
<1>1. CASE FeedStep
  BY <1>1 DEF FeedStep, feedReset, feedCheck, feedNoTag, feedTag, feedRest
<1>2. CASE GuiStep \/ User
  BY <1>2 DEF GuiStep, join, stepBackFlag, User, start, stop, pause, step_one_frame_forward,
    step_one_frame_backward, step_by_seconds
<1>3. CASE stepBackLocked \/ \E t \in Steppers : Stepper(t)
  BY <1>3 DEF stepBackLocked, Stepper, stepLocked, stepUnpause
<1>4. CASE UNCHANGED vars
  BY <1>4 DEF vars
<1> QED
  BY <1>1, <1>2, <1>3, <1>4 DEF Next, Over

(* In a player that pauses at the frame it shows, a single step ends with   *)
(* the next frame handed over, or the one before, for any recording.        *)
THEOREM SingleSteps == Spec => SingleStepIsExact
<1>1. Inv /\ WaitInv /\ StepInv /\ [Next]_vars =>
        (step_one_frame /\ ~step_one_frame' /\ expected # 0 => shown = expected)
  <2> SUFFICES ASSUME Inv, StepInv, [Next]_vars, step_one_frame, ~step_one_frame', expected # 0
               PROVE  shown = expected
    OBVIOUS
  <2>1. feedRest /\ ~is_regulating /\ pos \in Frames
    BY StepEnds
  <2>2. feed = "rest" /\ gui # "stepLock" /\ Stepping
    BY <2>1 DEF feedRest, StepInv, Stepping, Calm
  <2> QED
    BY <2>1, <2>2 DEF StepInv, OnTheWay
<1> QED
  BY <1>1, StepsInvariant, PTL DEF Spec, SingleStepIsExact

----------------------------------------------------------------------------
(* What a single step forward has on its way to the screen, beginning at    *)
(* rest: the frame handed over before the one expected is held by the       *)
(* parser, or was let out of it by a description of the stream, or by the   *)
(* frame expected itself, and emitted or missed then.                       *)

Due == FrameBefore(expected)
DueIsOut == emitted.frame = Due \/ missed

ForwardInv ==
  /\ gui \in {"stepLock", "stepFlag"} /\ from # 0 => expected <= from
  /\ step_one_frame /\ from # 0 /\ expected > from =>
       /\ ~is_regulating /\ Due # 0
       /\ IF feed = "rest" /\ pos \in Frames
          THEN DueIsOut
          ELSE (held # Nothing /\ held.frame = Due) \/ (held = Nothing /\ DueIsOut)
  /\ from \in Nat

StepsInv == Inv /\ WaitInv /\ StepInv

(* At rest, the frame before the one expected is the one held. *)
LEMMA ForwardBegins ==
  ASSUME StepsInv, step_one_frame_forward, UNCHANGED <<held, emitVars>>,
         from' = IF AtRest THEN emitted.frame ELSE 0
  PROVE  ForwardInv'
<1>1. /\ tags \in Files /\ Frames \subseteq Nat /\ Len(tags) \in Nat
      /\ pos \in Nat /\ shown \in Nat /\ expected' \in Nat
  <2>1. Inv'
    BY FeedKeepsInv, GuiKeepsInv DEF User, StepsInv
  <2> QED
    BY <2>1, TagsOfFile DEF StepsInv, Inv, TypeOK
<1>2. /\ UNCHANGED <<tags, pos, is_regulating, feed, gui>>
      /\ gui = "idle"
  BY DEF step_one_frame_forward, fileVars, regulateVars
<1>3. from' \in Nat /\ (from' # 0 => AtRest)
  <2>1. CASE AtRest
    <3>1. FrameBefore(shown) \in 0..Len(tags)
      <4>1. shown \in Int
        BY <1>1
      <4> QED
        BY <1>1, <4>1, FrameBeforeIs, Zenon
    <3>2. FrameBefore(shown) \in Nat
      BY <1>1, <3>1
    <3> QED
      BY <2>1, <3>2 DEF AtRest
  <2>2. CASE ~AtRest
    BY <2>2
  <2> QED
    BY <2>1, <2>2
<1>4. CASE AtRest /\ expected' # 0
  <2>1. Settled /\ shown # 0 /\ shown = FrameBefore(pos) /\ held.frame = shown /\ feed = "check"
        /\ ~is_regulating
    BY <1>4 DEF AtRest, Settled
  <2>2. held # Nothing
    BY <2>1 DEF Nothing
  <2>3. FrameBefore(expected') = shown
    <3>1. StepInv'
      BY StepsForward DEF StepsInv
    <3>2. OnTheWay' /\ ~is_regulating'
      BY <1>2, <1>4, <2>1, <3>1 DEF step_one_frame_forward, StepInv, Stepping
    <3>3. Frames' = Frames
      BY <1>2, SameFile
    <3>4. pos <= expected' /\ \A i \in Frames : i < pos \/ i >= expected'
      BY <1>2, <3>2, <3>3 DEF OnTheWay
    <3>5. \A i \in Frames : i < expected' <=> i < pos
      BY <1>1, <3>4
    <3>6. {i \in Frames : i < expected'} = {i \in Frames : i < pos}
      BY <3>5, Zenon
    <3> QED
      BY <2>1, <3>6 DEF FrameBefore
  <2>4. Due' = shown
    <3>1. Due' = FrameBefore(expected')
      BY <1>2, SameFile DEF Due, FrameBefore
    <3> QED
      BY <2>3, <3>1
  <2> QED
    BY <1>2, <1>3, <2>1, <2>2, <2>4 DEF ForwardInv
<1>5. CASE ~(AtRest /\ expected' # 0)
  <2>1. ~(from' # 0 /\ expected' > from')
    BY <1>1, <1>3, <1>5
  <2> QED
    BY <1>2, <1>3, <2>1 DEF ForwardInv
<1> QED
  BY <1>4, <1>5

(* A step back expects no frame behind the one emitted last. *)
LEMMA BackwardExpects ==
  ASSUME StepsInv, step_one_frame_backward, UNCHANGED <<held, emitVars>>,
         from' = IF AtRest THEN emitted.frame ELSE 0
  PROVE  ForwardInv'
<1>1. tags \in Files /\ shown \in Nat /\ Len(tags) \in Nat
  BY TagsOfFile DEF StepsInv, Inv, TypeOK
<1>2. CASE AtRest
  <2>1. from' = FrameBefore(shown) /\ FrameBefore(shown) \in Nat
    <3>1. FrameBefore(shown) \in Nat
      BY <1>1, FrameBeforeIs
    <3> QED
      BY <1>2, <3>1 DEF AtRest
  <2>2. expected' = LastOf({i \in Frames : i < shown /\ \E j \in IFrames : j <= i})
    BY <1>2 DEF AtRest, step_one_frame_backward
  <2>3. expected' = 0 \/ expected' = from'
    BY <1>1, <2>1, <2>2, LastDecodable
  <2>4. expected' <= from' /\ ~(expected' > from')
    BY <2>1, <2>3
  <2> QED
    BY <2>1, <2>4 DEF ForwardInv
<1>3. CASE ~AtRest
  <2>1. StepInv' /\ gui' = "stepLock" /\ from' = 0
    BY <1>3, StepsBackward DEF StepsInv, step_one_frame_backward
  <2> QED
    BY <2>1 DEF ForwardInv
<1> QED
  BY <1>2, <1>3

(* A step that waits for a frame behind the one emitted last. *)
GoesForward == step_one_frame /\ from # 0 /\ expected > from

LEMMA ForwardIsStepping ==
  ASSUME StepsInv, ForwardInv, GoesForward
  PROVE  Stepping /\ Calm /\ OnTheWay /\ gui \notin {"stepLock", "stepFlag"} /\ expected \in Nat
<1>1. expected # 0 /\ expected \in Nat
  BY DEF StepsInv, Inv, TypeOK, ForwardInv, GoesForward
<1>2. Stepping
  BY <1>1 DEF Stepping, GoesForward
<1>3. Calm /\ gui \notin {"stepLock", "stepFlag"}
  BY <1>2 DEF StepsInv, StepInv, Calm, GoesForward
<1> QED
  BY <1>1, <1>2, <1>3 DEF StepsInv, StepInv

(* The frame that is due comes out of the parser, and is emitted or missed. *)
LEMMA ShowsDue ==
  ASSUME showFrame, ~is_regulating, Due' = Due,
         (held # Nothing /\ held.frame = Due) \/ (held = Nothing /\ DueIsOut)
  PROVE  DueIsOut'
<1>1. CASE held # Nothing
  BY <1>1, Shows DEF emit, drop, DueIsOut
<1>2. CASE held = Nothing
  BY <1>2, Shows DEF emitVars, DueIsOut
<1> QED
  BY <1>1, <1>2

LEMMA ReceiveKeepsForward ==
  ASSUME StepsInv, ForwardInv, Receive
  PROVE  ForwardInv'
<1>1. /\ UNCHANGED <<tags, pos, step_one_frame, is_regulating, gui, expected, from>>
      /\ feed = "lock" /\ feed' = "rest" /\ feedTag /\ receiveData
  BY DEF Receive, feedTag, fileVars
<1>2. Due' = Due /\ Frames' = Frames
  BY <1>1, SameFile DEF Due, FrameBefore
<1>3. CASE GoesForward
  <2>1. Stepping /\ OnTheWay /\ expected \in Nat
    BY <1>3, ForwardIsStepping
  <2>2. /\ ~is_regulating
        /\ (held # Nothing /\ held.frame = Due) \/ (held = Nothing /\ DueIsOut)
        /\ Due # 0
    BY <1>1, <1>3 DEF ForwardInv, GoesForward
  <2>3. CASE pos \in Frames
    <3>1. pos \in Nat /\ Frames \subseteq Nat
      BY TagsOfFile DEF StepsInv, Inv, TypeOK
    <3>2. pos = expected
      BY <2>1, <2>2, <2>3, <3>1 DEF OnTheWay
    <3>3. HandsFrame
      BY <1>1, <2>1, <3>2, TagIsDecodable DEF StepsInv, OnTheWay
    <3>4. showFrame
      BY <1>1, <3>3 DEF receiveData
    <3>5. DueIsOut'
      BY <1>2, <2>2, <3>4, ShowsDue
    <3> QED
      BY <1>1, <1>2, <2>2, <2>3, <3>5 DEF ForwardInv
  <2>4. CASE pos \notin Frames
    <3>1. ~HandsFrame
      BY <2>4 DEF HandsFrame, IFrames, Frames
    <3>2. CASE tags[pos] = "S"
      <4>1. held' = Nothing
        BY <1>1, <3>1, <3>2 DEF receiveData, Begun
      <4>2. showFrame
        BY <1>1, <3>2 DEF receiveData
      <4>3. DueIsOut'
        BY <1>2, <2>2, <4>2, ShowsDue
      <4> QED
        BY <1>1, <1>2, <2>2, <2>4, <4>1, <4>3 DEF ForwardInv
    <3>3. CASE tags[pos] # "S"
      <4>1. UNCHANGED <<held, emitted, missed>>
        BY <1>1, <3>1, <3>3 DEF receiveData, emitVars
      <4>2. DueIsOut' <=> DueIsOut
        BY <1>2, <4>1 DEF DueIsOut
      <4> QED
        BY <1>1, <1>2, <2>2, <2>4, <4>1, <4>2 DEF ForwardInv
    <3> QED
      BY <3>2, <3>3
  <2> QED
    BY <2>3, <2>4
<1>4. CASE ~GoesForward
  BY <1>1, <1>4 DEF ForwardInv, GoesForward
<1> QED
  BY <1>3, <1>4

LEMMA NextKeepsForward == StepsInv /\ ForwardInv /\ [ScreenNext]_allVars => ForwardInv'
<1> SUFFICES ASSUME StepsInv, ForwardInv, [ScreenNext]_allVars PROVE ForwardInv'
  OBVIOUS
<1>1. CASE Receive
  BY <1>1, ReceiveKeepsForward
<1>2. CASE stopped
  <2>1. ~GoesForward
    BY <1>2, ForwardIsStepping DEF stopped, join, Calm, StepsInv, Inv, Control
  <2>2. UNCHANGED <<step_one_frame, expected, from>> /\ gui' = "idle"
    BY <1>2 DEF stopped, join
  <2> QED
    BY <2>1, <2>2 DEF ForwardInv, GoesForward
<1>3. CASE /\ SingleStep
           /\ from' = IF AtRest THEN emitted.frame ELSE 0
           /\ UNCHANGED <<held, emitVars>>
  BY <1>3, ForwardBegins, BackwardExpects DEF SingleStep
<1>4. CASE Press /\ from' = 0
  BY <1>4 DEF ForwardInv
<1>5. CASE Other /\ UNCHANGED screenVars
  <2>0. UNCHANGED <<held, emitted, missed, from>>
    BY <1>5 DEF screenVars, emitVars
  <2>1. CASE feedReset \/ feedCheck \/ feedNoTag
    <3>1. UNCHANGED <<tags, step_one_frame, is_regulating, gui, expected>>
          /\ feed # "rest" /\ feed' # "rest"
      BY <2>1 DEF feedReset, feedCheck, feedNoTag, fileVars, regulateVars
    <3>2. Due' = Due
      BY <3>1, SameFile DEF Due, FrameBefore
    <3> QED
      BY <2>0, <3>1, <3>2 DEF ForwardInv, DueIsOut
  <2>2. CASE feedRest
    <3>1. UNCHANGED <<tags, gui, expected>> /\ feed = "rest" /\ feed' = "check"
      BY <2>2 DEF feedRest, fileVars
    <3>2. Due' = Due
      BY <3>1, SameFile DEF Due, FrameBefore
    <3>3. step_one_frame' => step_one_frame /\ (is_regulating \/ pos \notin Frames)
      BY <2>2, Zenon DEF feedRest
    <3>4. ~is_regulating => ~is_regulating'
      BY <2>2 DEF feedRest
    <3>5. DueIsOut' <=> DueIsOut
      BY <2>0, <3>2 DEF DueIsOut
    <3> QED
      BY <2>0, <3>1, <3>2, <3>3, <3>4, <3>5, Zenon DEF ForwardInv
  <2>3. CASE stepBackLocked
    <3>1. UNCHANGED <<step_one_frame, expected>> /\ gui = "stepLock"
      BY <2>3 DEF stepBackLocked
    <3>2. ~GoesForward
      BY <3>1, ForwardIsStepping
    <3> QED
      BY <2>0, <3>1, <3>2 DEF ForwardInv, GoesForward
  <2>4. CASE stepBackFlag
    <3>1. UNCHANGED expected /\ gui = "stepFlag" /\ gui' = "idle"
      BY <2>4 DEF stepBackFlag
    <3>2. expected \in Nat /\ from \in Nat
      BY DEF StepsInv, Inv, TypeOK, ForwardInv
    <3>3. ~(from # 0 /\ expected > from)
      BY <3>1, <3>2 DEF ForwardInv
    <3> QED
      BY <2>0, <3>1, <3>3 DEF ForwardInv
  <2>5. ASSUME NEW t \in Steppers, Stepper(t) PROVE ForwardInv'
    <3>1. UNCHANGED <<step_one_frame, gui, expected>>
      BY <2>5 DEF Stepper, stepLocked, stepUnpause
    <3>2. ~GoesForward
      BY <2>5, ForwardIsStepping DEF Stepper, stepLocked, stepUnpause, Calm, NoSteppers, NoStep
    <3> QED
      BY <2>0, <3>1, <3>2 DEF ForwardInv, GoesForward
  <2>6. CASE UNCHANGED vars
    <3>1. UNCHANGED <<tags, pos, step_one_frame, is_regulating, feed, gui, expected>>
      BY <2>6 DEF vars, fileVars, regulateVars
    <3>2. Due' = Due /\ Frames' = Frames
      BY <3>1, SameFile DEF Due, FrameBefore
    <3> QED
      BY <2>0, <3>1, <3>2 DEF ForwardInv, DueIsOut
  <2> QED
    BY <1>5, <2>1, <2>2, <2>3, <2>4, <2>5, <2>6 DEF Other, Over
<1>6. CASE Presents \/ UNCHANGED allVars
  <2>1. UNCHANGED <<tags, pos, step_one_frame, is_regulating, feed, gui, expected, held, emitted,
                    missed, from>>
    BY <1>6 DEF Presents, stopAgain, onNewFrameReceived, allVars, vars, fileVars, regulateVars,
      screenVars, emitVars
  <2>2. Due' = Due /\ Frames' = Frames
    BY <2>1, SameFile DEF Due, FrameBefore
  <2> QED
    BY <2>1, <2>2 DEF ForwardInv, DueIsOut
<1> QED
  BY <1>1, <1>2, <1>3, <1>4, <1>5, <1>6, ScreenKinds

(* In a player at rest a step forward emits what was handed over last,      *)
(* whatever lies between the two frames, and nothing later is on its way to *)
(* the screen; or the frame could not be mapped for it.                     *)
THEOREM StepsForwardShow == ScreenSpec => StepForwardShowsNext
<1>1. ScreenInit => ForwardInv
  BY DEF ScreenInit, Init, ForwardInv
<1>2. ScreenSpec => []StepsInv
  BY StepsInvariant, ScreenImplementsPlayer, PTL DEF StepsInv
<1>3. ScreenSpec => []ForwardInv
  BY <1>1, <1>2, NextKeepsForward, PTL DEF ScreenSpec
<1>4. StepsInv /\ ForwardInv /\ ScreenInv /\ [ScreenNext]_allVars =>
        (step_one_frame /\ ~step_one_frame' /\ from # 0 /\ expected > from =>
           Newest.frame = FrameBefore(expected) \/ missed)
  <2> SUFFICES ASSUME StepsInv, ForwardInv, ScreenInv, [ScreenNext]_allVars,
                      step_one_frame, ~step_one_frame', from # 0, expected > from
               PROVE  Newest.frame = FrameBefore(expected) \/ missed
    OBVIOUS
  <2>1. feedRest /\ pos \in Frames
    BY ScreenStep, StepEnds DEF StepsInv
  <2>2. DueIsOut /\ Due # 0
    BY <2>1 DEF feedRest, ForwardInv
  <2>3. emitted.frame = Due => emitted # Nothing
    BY <2>2 DEF Nothing
  <2>4. emitted # Nothing => Newest = emitted
    BY DEF ScreenInv, QueueInv
  <2> QED
    BY <2>2, <2>3, <2>4 DEF DueIsOut, Due
<1> QED
  BY <1>2, <1>3, <1>4, ScreenInvariant, PTL DEF ScreenSpec, StepForwardShowsNext

(* Single steps are exact where frames are handed over and, forward, where  *)
(* pictures are emitted, for recordings of any length and I frames at any   *)
(* distance (FlvPlayer.cpp:56-122, RecordCtrl.cpp:68-78).                   *)
THEOREM ExactSteps == ScreenSpec => StepsAreExact
BY SingleSteps, StepsForwardShow, ScreenImplementsPlayer, PTL DEF StepsAreExact

=============================================================================
