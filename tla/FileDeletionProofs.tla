------------------------- MODULE FileDeletionProofs -------------------------
(***************************************************************************)
(* What FileDeletion's runs check on two requests at a time, for any       *)
(* library, any number of requests and faults, and any scenario: no        *)
(* deletion takes the file of something that stays, no file is left with   *)
(* the name it has while a request is at work, and galleries take along    *)
(* only images that no other gallery holds.                                *)
(***************************************************************************)
EXTENDS FileDeletion, FiniteSetTheorems, SequenceTheorems, TLAPS

-----------------------------------------------------------------------------
(* The steps of a transaction.                                             *)

StepKinds == {Row(o) : o \in Objects} \cup {File(f) : f \in Files}
               \cup {Dir(s) : s \in Scenes}
               \cup {Move(m, n) : m \in Markers, n \in Seconds}
Dooms == [object : Objects, media : BOOLEAN]

\* The objects whose rows the steps q delete.
RowsIn(q) == {o \in Objects : \E k \in DOMAIN q : q[k] = Row(o)}

\* Whoever marks the file of an object deletes its row afterwards.
RowFollows(q) ==
  \A k \in DOMAIN q, o \in Objects :
    q[k] = File(Media(o)) => \E l \in DOMAIN q : l > k /\ q[l] = Row(o)

LEMMA Tokens ==
  /\ \A o, p : Row(o) = Row(p) => o = p
  /\ \A f, g : File(f) = File(g) => f = g
  /\ \A o, f : Row(o) # File(f)
  /\ \A o, s : Row(o) # Dir(s)
  /\ \A o, m, n : Row(o) # Move(m, n)
  /\ \A f, s : File(f) # Dir(s)
  /\ \A f, m, n : File(f) # Move(m, n)
  /\ \A s, m, n : Dir(s) # Move(m, n)
<1>1. /\ \A o : Row(o)[1] = "row" /\ Row(o)[2] = o
      /\ \A f : File(f)[1] = "file" /\ File(f)[2] = f
      /\ \A s : Dir(s)[1] = "dir" /\ Dir(s)[2] = s
      /\ \A m, n : Move(m, n)[1] = "move"
  BY DEF Row, File, Dir, Move
<1> QED
  BY <1>1

LEMMA FileNames ==
  /\ \A o, p : Media(o) = Media(p) => o = p
  /\ \A o, p : Media(o) # Generated(p)
  /\ \A o, s, n : Media(o) # Preview(s, n)
  /\ \A o, s, n : Generated(o) # Preview(s, n)
<1>1. /\ \A o : Media(o)[1] = "media" /\ Media(o)[2] = o
      /\ \A o : Generated(o)[1] = "generated"
      /\ \A s, n : Preview(s, n)[1] = "preview"
  BY DEF Media, Generated, Preview
<1> QED
  BY <1>1

\* No preview is called like the file of an object.
LEMMA PlainIsNoPreview == \A f \in PlainFiles, s \in Scenes : f \notin PreviewsOf(s)
BY FileNames DEF PlainFiles, PreviewsOf

\* What a transaction does for o before it deletes the row of o.
Prepares(q, o) ==
  /\ q \in Seq(StepKinds)
  /\ \A k \in DOMAIN q, p \in Objects :
       q[k] # Row(p) /\ (q[k] = File(Media(p)) => p = o)

LEMMA IfPrepares ==
  ASSUME NEW o, NEW cond, NEW x,
         cond => /\ x \in StepKinds
                 /\ \A p \in Objects : x # Row(p) /\ (x = File(Media(p)) => p = o)
  PROVE  Prepares(If(cond, x), o)
<1>1. CASE cond
  <2>1. If(cond, x) = <<x>>
    BY <1>1 DEF If
  <2>2. x \in StepKinds => <<x>> \in Seq(StepKinds)
    OBVIOUS
  <2>3. DOMAIN <<x>> = {1} /\ <<x>>[1] = x
    OBVIOUS
  <2> QED
    BY <1>1, <2>1, <2>2, <2>3 DEF Prepares
<1>2. CASE ~cond
  BY <1>2 DEF If, Prepares
<1> QED
  BY <1>1, <1>2

LEMMA ConcatPrepares ==
  ASSUME NEW o, NEW p, NEW q, Prepares(p, o), Prepares(q, o)
  PROVE  Prepares(p \o q, o)
<1>1. p \in Seq(StepKinds) /\ q \in Seq(StepKinds)
  BY DEF Prepares
<1>2. p \o q \in Seq(StepKinds)
  BY <1>1, ConcatProperties
<1>3. ASSUME NEW k \in DOMAIN (p \o q)
      PROVE  \/ k \in DOMAIN p /\ (p \o q)[k] = p[k]
             \/ k - Len(p) \in DOMAIN q /\ (p \o q)[k] = q[k - Len(p)]
  <2>1. k \in 1..(Len(p) + Len(q)) /\ Len(p) \in Nat /\ Len(q) \in Nat
    BY <1>1, <1>2, ConcatProperties, LenProperties
  <2>2. CASE k <= Len(p)
    BY <1>1, <2>1, <2>2, ConcatProperties, LenProperties
  <2>3. CASE k > Len(p)
    BY <1>1, <2>1, <2>3, ConcatProperties, LenProperties
  <2> QED
    BY <2>1, <2>2, <2>3
<1> QED
  BY <1>2, <1>3 DEF Prepares

\* Steps that are fit to be taken for o.
FitFor(q, o) == q \in Seq(StepKinds) /\ RowsIn(q) = {o} /\ RowFollows(q)

LEMMA ThenTheRow ==
  ASSUME NEW o \in Objects, NEW p, Prepares(p, o)
  PROVE  FitFor(p \o <<Row(o)>>, o)
<1> DEFINE q == p \o <<Row(o)>>
<1>1. p \in Seq(StepKinds) /\ Row(o) \in StepKinds
  BY DEF Prepares, StepKinds
<1>2. /\ q \in Seq(StepKinds) /\ Len(p) \in Nat /\ DOMAIN p = 1..Len(p)
      /\ DOMAIN q = 1..(Len(p) + 1) /\ q[Len(p) + 1] = Row(o)
      /\ \A k \in 1..Len(p) : q[k] = p[k]
  BY <1>1, ConcatProperties, LenProperties
<1> HIDE DEF q
<1>3. RowsIn(q) = {o}
  BY <1>2, Tokens DEF RowsIn, Prepares
<1>4. ASSUME NEW k \in DOMAIN q, NEW x \in Objects, q[k] = File(Media(x))
      PROVE  \E l \in DOMAIN q : l > k /\ q[l] = Row(x)
  <2>1. k # Len(p) + 1
    BY <1>2, <1>4, Tokens
  <2>2. k \in 1..Len(p) /\ x = o
    BY <1>2, <1>4, <2>1 DEF Prepares
  <2> QED
    BY <1>2, <2>2
<1>5. FitFor(q, o)
  BY <1>2, <1>3, <1>4 DEF FitFor, RowFollows
<1> QED
  BY <1>5 DEF q

LEMMA PreviewIsFile ==
  ASSUME TypeOK, NEW m \in Markers
  PROVE  PreviewOf(m) \in Files /\ \A p : PreviewOf(m) # Media(p)
<1>1. SceneOf[m] \in Scenes /\ second[m] \in Seconds
  BY DeletionAssumption DEF TypeOK
<1> QED
  BY <1>1, FileNames DEF PreviewOf, PreviewsOf, Files

LEMMA StepsForFit ==
  ASSUME TypeOK, NEW r, NEW o \in Objects, NEW media
  PROVE  FitFor(StepsFor(r, o, media), o)
<1> DEFINE generated == asked[r].generated
<1>1. CASE o \in Markers
  <2> DEFINE q == <<Row(o), File(PreviewOf(o))>>
  <2>1. StepsFor(r, o, media) = q
    BY <1>1, DeletionAssumption DEF StepsFor
  <2>2. Row(o) \in StepKinds /\ File(PreviewOf(o)) \in StepKinds
    BY <1>1, PreviewIsFile DEF StepKinds
  <2>3. q \in Seq(StepKinds) /\ DOMAIN q = {1, 2} /\ q[1] = Row(o)
          /\ q[2] = File(PreviewOf(o))
    BY <2>2
  <2>4. RowsIn(q) = {o}
    BY <2>3, Tokens DEF RowsIn
  <2>5. RowFollows(q)
    BY <1>1, <2>3, Tokens, PreviewIsFile DEF RowFollows
  <2> QED
    BY <2>1, <2>3, <2>4, <2>5 DEF FitFor
<1>2. CASE o \in Scenes
  <2>1. StepsFor(r, o, media) =
          If(media, File(Media(o))) \o If(generated, Dir(o))
            \o If(generated, File(Generated(o))) \o <<Row(o)>>
    BY <1>2, DeletionAssumption DEF StepsFor
  <2>2. Media(o) \in Files /\ Generated(o) \in Files
    BY <1>2 DEF Files, PlainFiles
  <2>3. File(Media(o)) \in StepKinds /\ Dir(o) \in StepKinds /\ File(Generated(o)) \in StepKinds
    BY <1>2, <2>2 DEF StepKinds
  <2>4. Prepares(If(media, File(Media(o))), o)
    BY <2>3, Tokens, FileNames, IfPrepares
  <2>5. Prepares(If(generated, Dir(o)), o) /\ Prepares(If(generated, File(Generated(o))), o)
    BY <2>3, Tokens, FileNames, IfPrepares
  <2> QED
    BY <2>1, <2>4, <2>5, ConcatPrepares, ThenTheRow
<1>3. CASE o \in Images
  <2>1. StepsFor(r, o, media) =
          If(media /\ o \notin Zipped, File(Media(o)))
            \o If(generated, File(Generated(o))) \o <<Row(o)>>
    BY <1>3, DeletionAssumption DEF StepsFor
  <2>2. Media(o) \in Files /\ Generated(o) \in Files
    BY <1>3 DEF Files, PlainFiles
  <2>3. File(Media(o)) \in StepKinds /\ File(Generated(o)) \in StepKinds
    BY <2>2 DEF StepKinds
  <2>4. Prepares(If(media /\ o \notin Zipped, File(Media(o))), o)
    BY <2>3, Tokens, FileNames, IfPrepares
  <2>5. Prepares(If(generated, File(Generated(o))), o)
    BY <2>3, Tokens, FileNames, IfPrepares
  <2> QED
    BY <2>1, <2>4, <2>5, ConcatPrepares, ThenTheRow
<1>4. CASE o \in Galleries
  <2>1. StepsFor(r, o, media) = If(media /\ o \in Zips, File(Media(o))) \o <<Row(o)>>
    BY <1>4, DeletionAssumption DEF StepsFor
  <2>2. o \in Zips => File(Media(o)) \in StepKinds
    BY DEF StepKinds, Files, PlainFiles
  <2>3. Prepares(If(media /\ o \in Zips, File(Media(o))), o)
    BY <2>2, Tokens, FileNames, IfPrepares
  <2> QED
    BY <2>1, <2>3, ThenTheRow
<1> QED
  BY <1>1, <1>2, <1>3, <1>4 DEF Objects

\* The steps of an update of a marker delete no row and mark no object's file.
LEMMA UpdateFit ==
  ASSUME TypeOK, NEW m \in Markers, NEW n \in Seconds
  PROVE  LET q == <<Move(m, n), File(PreviewOf(m))>>
         IN  q \in Seq(StepKinds) /\ RowsIn(q) = {} /\ RowFollows(q)
<1> DEFINE q == <<Move(m, n), File(PreviewOf(m))>>
<1>1. Move(m, n) \in StepKinds /\ File(PreviewOf(m)) \in StepKinds
  BY PreviewIsFile DEF StepKinds
<1>2. q \in Seq(StepKinds) /\ DOMAIN q = {1, 2} /\ q[1] = Move(m, n)
        /\ q[2] = File(PreviewOf(m))
  BY <1>1
<1>3. RowsIn(q) = {} /\ RowFollows(q)
  BY <1>2, Tokens, PreviewIsFile DEF RowsIn, RowFollows
<1> QED
  BY <1>2, <1>3

-----------------------------------------------------------------------------
(* Types, and who updates what.                                            *)

UpdatesMarkers ==
  \A r \in Requests : \A k \in DOMAIN todo[r] :
    asked[r].kind = "SceneMarkerUpdate" => todo[r][k].object \in Markers

Typed ==
  /\ TypeOK
  /\ steps \in [Requests -> Seq(StepKinds)]
  /\ asked[Cleaner] = Clean
  /\ UpdatesMarkers

LEMMA TypedInit == Init => Typed
<1> SUFFICES ASSUME Init PROVE Typed
  OBVIOUS
<1>1. PICK sc \in Scenarios :
        /\ rows = sc.rows /\ second = sc.second
        /\ asked = [r \in Requests |-> IF r = Cleaner THEN Clean ELSE sc.asked[r]]
        /\ stage = IF sc.clean THEN 0 ELSE 3
  BY DEF Init
<1>2. /\ sc \in [rows : SUBSET Objects, second : [Markers -> Seconds],
                 asked : [Users -> Asked], clean : BOOLEAN]
      /\ \A u \in Users : \A k \in DOMAIN sc.asked[u].ids :
           sc.asked[u].ids[k] \in Addressed(sc.asked[u].kind)
  BY DeletionAssumption
<1>3. Cleaner \in Requests /\ Cleaner \notin Users
  BY DeletionAssumption DEF Requests
<1>4. Clean \in Asked
  BY DEF Clean, Asked, Kinds
<1>5. asked \in [Requests -> Asked] /\ asked[Cleaner] = Clean
  BY <1>1, <1>2, <1>3, <1>4 DEF Requests
<1>6. ASSUME NEW r \in Requests
      PROVE  /\ todo[r] \in Seq(Dooms)
             /\ \A k \in DOMAIN todo[r] :
                  asked[r].kind = "SceneMarkerUpdate" => todo[r][k].object \in Markers
  <2> DEFINE ids == asked[r].ids
  <2>1. ids \in Seq(Objects) /\ asked[r].media \in BOOLEAN
    BY <1>5 DEF Asked
  <2>2. todo[r] = [i \in DOMAIN ids |-> Doom(ids[i], asked[r].media)]
    BY DEF Init
  <2>3. Len(ids) \in Nat /\ DOMAIN ids = 1..Len(ids)
    BY <2>1, LenProperties
  <2>4. \A i \in 1..Len(ids) : Doom(ids[i], asked[r].media) \in Dooms
    BY <2>1, <2>3, ElementOfSeq DEF Doom, Dooms
  <2>5. todo[r] \in [1..Len(ids) -> Dooms]
    BY <2>2, <2>3, <2>4
  <2>6. todo[r] \in Seq(Dooms)
    BY <2>3, <2>5
  <2>7. ASSUME NEW k \in DOMAIN todo[r], asked[r].kind = "SceneMarkerUpdate"
        PROVE  todo[r][k].object \in Markers
    <3>1. r # Cleaner
      BY <1>5, <2>7 DEF Clean
    <3>2. r \in Users /\ asked[r] = sc.asked[r]
      BY <1>1, <3>1 DEF Requests
    <3>3. ids[k] \in Markers
      BY <1>2, <2>2, <2>7, <3>2 DEF Addressed
    <3> QED
      BY <2>2, <3>3 DEF Doom
  <2> QED
    BY <2>6, <2>7
<1>7. todo \in [Requests -> Seq(Dooms)]
  BY <1>6 DEF Init
<1>8. /\ rows \subseteq Objects /\ second \in [Markers -> Seconds] /\ stage \in 0..3
      /\ disk \in [Files -> SUBSET Places] /\ steps \in [Requests -> Seq(StepKinds)]
      /\ faults \in 0..MaxFaults
  BY <1>1, <1>2, DeletionAssumption DEF Init, Places
<1>9. /\ writer \in Requests \cup {Nobody}
      /\ phase \in [Requests -> {"waiting", "working", "removing", "restoring", "over"}]
      /\ files \in [Requests -> Seq(Files)] /\ dirs \in [Requests -> Seq(Scenes)]
      /\ gone \in [Requests -> SUBSET Objects]
      /\ moved \in [Requests -> SUBSET (Markers \X Seconds)]
      /\ left \in [Requests -> BOOLEAN]
      /\ batch \subseteq Objects /\ toClean \subseteq Objects
      /\ unsaved \subseteq Objects /\ stranded \subseteq Files
  BY DEF Init
<1> QED
  BY <1>5, <1>6, <1>7, <1>8, <1>9 DEF Typed, TypeOK, UpdatesMarkers, Dooms

\* Each part of Typed, with the type of todo by its name.
LEMMA TypedParts ==
  Typed <=>
    /\ rows \subseteq Objects /\ second \in [Markers -> Seconds]
    /\ disk \in [Files -> SUBSET Places]
    /\ writer \in Requests \cup {Nobody}
    /\ asked \in [Requests -> Asked] /\ asked[Cleaner] = Clean
    /\ phase \in [Requests -> {"waiting", "working", "removing", "restoring", "over"}]
    /\ UpdatesMarkers
    /\ todo \in [Requests -> Seq(Dooms)]
    /\ steps \in [Requests -> Seq(StepKinds)]
    /\ files \in [Requests -> Seq(Files)] /\ dirs \in [Requests -> Seq(Scenes)]
    /\ gone \in [Requests -> SUBSET Objects]
    /\ moved \in [Requests -> SUBSET (Markers \X Seconds)]
    /\ left \in [Requests -> BOOLEAN]
    /\ stage \in 0..3 /\ batch \subseteq Objects /\ toClean \subseteq Objects
    /\ unsaved \subseteq Objects /\ stranded \subseteq Files
    /\ faults \in 0..MaxFaults
BY DEF Typed, TypeOK, Dooms

\* Rolling back, and forgetting requests, keep the types.
LEMMA FailTyped ==
  ASSUME Typed, NEW r \in Requests, Fail(r), faults' \in 0..MaxFaults
  PROVE  Typed'
<1> USE DEF Fail, dataVars, deleterVars, cleanVars
<1>1. todo' \in [Requests -> Seq(Dooms)] /\ UpdatesMarkers'
  BY TypedParts DEF UpdatesMarkers
<1>2. /\ steps' \in [Requests -> Seq(StepKinds)]
      /\ phase' \in [Requests -> {"waiting", "working", "removing", "restoring", "over"}]
      /\ gone' \in [Requests -> SUBSET Objects]
      /\ moved' \in [Requests -> SUBSET (Markers \X Seconds)]
  BY TypedParts
<1> QED
  BY <1>1, <1>2 DEF Typed, TypeOK, Dooms

LEMMA ForgetTyped ==
  ASSUME Typed, NEW R \in SUBSET Requests, Forget(R), writer' = Nobody,
         faults' \in 0..MaxFaults,
         stage' \in 0..3, batch' \subseteq Objects, toClean' \subseteq Objects
  PROVE  Typed'
<1> USE DEF Forget, dataVars
<1>1. \A r \in Requests : MarkedBy(r) \subseteq Files
  <2> SUFFICES ASSUME NEW r \in Requests PROVE MarkedBy(r) \subseteq Files
    OBVIOUS
  <2>1. Listed(r) \subseteq Files
    BY ElementOfSeq, LenProperties, TypedParts DEF Listed
  <2>2. \A i \in DOMAIN dirs[r] : dirs[r][i] \in Scenes
    BY ElementOfSeq, LenProperties, TypedParts
  <2>3. \A i \in DOMAIN dirs[r] : PreviewsOf(dirs[r][i]) \subseteq Files
    BY <2>2 DEF Files
  <2> QED
    BY <2>1, <2>3 DEF MarkedBy
<1>2. stranded' \subseteq Files
  BY <1>1, TypedParts
<1>3. todo' \in [Requests -> Seq(Dooms)] /\ UpdatesMarkers'
  BY TypedParts DEF UpdatesMarkers
<1>4. /\ steps' \in [Requests -> Seq(StepKinds)]
      /\ phase' \in [Requests -> {"waiting", "working", "removing", "restoring", "over"}]
      /\ gone' \in [Requests -> SUBSET Objects]
      /\ moved' \in [Requests -> SUBSET (Markers \X Seconds)]
  BY TypedParts
<1>5. files' \in [Requests -> Seq(Files)] /\ dirs' \in [Requests -> Seq(Scenes)]
  BY TypedParts
<1> QED
  BY <1>2, <1>3, <1>4, <1>5 DEF Typed, TypeOK, Dooms

-----------------------------------------------------------------------------
(* What looking at an object does to what a request has still to do.       *)

ObjectsOf(q) == {q[k].object : k \in DOMAIN q}

\* The transaction goes on, with t to look at and the steps q to take for o.
GoesOn(r, o, t, q) ==
  /\ o \in There(r) /\ o \in ObjectsOf(todo[r])
  /\ steps[r] = <<>>
  /\ t \in Seq(Dooms) /\ todo' = [todo EXCEPT ![r] = t]
  /\ q \in Seq(StepKinds) /\ steps' = [steps EXCEPT ![r] = q] /\ RowFollows(q)
  /\ \/ ObjectsOf(t) = ObjectsOf(todo[r]) \cup Before(r, o) /\ RowsIn(q) = {}
     \/ /\ asked[r].kind # "SceneMarkerUpdate"
        /\ ObjectsOf(t) \cup {o} = ObjectsOf(todo[r]) /\ RowsIn(q) = {o}
     \/ /\ asked[r].kind = "SceneMarkerUpdate"
        /\ ObjectsOf(t) \subseteq ObjectsOf(todo[r]) /\ RowsIn(q) = {}
  /\ UNCHANGED <<dataVars, disk, writer, asked, phase, deleterVars, gone, moved, left,
                 cleanVars, historyVars>>

LEMMA ConcatObjects ==
  ASSUME NEW p \in Seq(Dooms), NEW q \in Seq(Dooms)
  PROVE  p \o q \in Seq(Dooms) /\ ObjectsOf(p \o q) = ObjectsOf(p) \cup ObjectsOf(q)
<1>1. /\ p \o q \in Seq(Dooms) /\ Len(p) \in Nat /\ Len(q) \in Nat
      /\ DOMAIN p = 1..Len(p) /\ DOMAIN q = 1..Len(q)
      /\ DOMAIN (p \o q) = 1..(Len(p) + Len(q))
      /\ \A k \in 1..(Len(p) + Len(q)) :
           (p \o q)[k] = IF k <= Len(p) THEN p[k] ELSE q[k - Len(p)]
  BY ConcatProperties, LenProperties
<1>2. ASSUME NEW k \in DOMAIN (p \o q)
      PROVE  (p \o q)[k].object \in ObjectsOf(p) \cup ObjectsOf(q)
  <2>1. CASE k <= Len(p)
    BY <1>1, <2>1 DEF ObjectsOf
  <2>2. CASE ~(k <= Len(p))
    <3>1. k - Len(p) \in DOMAIN q /\ (p \o q)[k] = q[k - Len(p)]
      BY <1>1, <2>2
    <3> QED
      BY <3>1 DEF ObjectsOf
  <2> QED
    BY <2>1, <2>2
<1>3. ASSUME NEW k \in DOMAIN p PROVE p[k].object \in ObjectsOf(p \o q)
  <2>1. k \in DOMAIN (p \o q) /\ (p \o q)[k] = p[k]
    BY <1>1
  <2> QED
    BY <2>1 DEF ObjectsOf
<1>4. ASSUME NEW k \in DOMAIN q PROVE q[k].object \in ObjectsOf(p \o q)
  <2>1. Len(p) + k \in DOMAIN (p \o q) /\ (p \o q)[Len(p) + k] = q[k]
    BY <1>1
  <2> QED
    BY <2>1 DEF ObjectsOf
<1>5. ObjectsOf(p \o q) \subseteq ObjectsOf(p) \cup ObjectsOf(q)
  BY <1>2 DEF ObjectsOf
<1>6. ObjectsOf(p) \subseteq ObjectsOf(p \o q) /\ ObjectsOf(q) \subseteq ObjectsOf(p \o q)
  BY <1>3, <1>4 DEF ObjectsOf
<1> QED
  BY <1>1, <1>5, <1>6

LEMMA TailObjects ==
  ASSUME NEW p \in Seq(Dooms), p # <<>>
  PROVE  /\ Head(p) \in Dooms /\ Tail(p) \in Seq(Dooms)
         /\ ObjectsOf(Tail(p)) \cup {Head(p).object} = ObjectsOf(p)
<1>1. /\ Head(p) \in Dooms /\ Tail(p) \in Seq(Dooms) /\ Len(p) \in Nat \ {0}
      /\ DOMAIN p = 1..Len(p) /\ DOMAIN Tail(p) = 1..(Len(p) - 1)
      /\ Head(p) = p[1]
      /\ \A k \in 1..(Len(p) - 1) : Tail(p)[k] = p[k + 1]
  BY HeadTailProperties, LenProperties, EmptySeq
<1>2. ASSUME NEW k \in DOMAIN p
      PROVE  p[k].object \in ObjectsOf(Tail(p)) \cup {Head(p).object}
  <2>1. CASE k = 1
    BY <1>1, <2>1
  <2>2. CASE k # 1
    <3>1. k - 1 \in DOMAIN Tail(p) /\ Tail(p)[k - 1] = p[k]
      BY <1>1, <2>2
    <3> QED
      BY <3>1 DEF ObjectsOf
  <2> QED
    BY <2>1, <2>2
<1>3. \A k \in DOMAIN Tail(p) : k + 1 \in DOMAIN p /\ Tail(p)[k] = p[k + 1]
  BY <1>1
<1>4. 1 \in DOMAIN p
  BY <1>1
<1> QED
  BY <1>1, <1>2, <1>3, <1>4 DEF ObjectsOf

\* The objects that go before another are finitely many, and listed once.
LEMMA BeforeListed ==
  ASSUME Typed, NEW r \in Requests, NEW o \in Objects, NEW q \in Orders(Before(r, o)),
         NEW media \in BOOLEAN
  PROVE  LET t == [i \in DOMAIN q |-> Doom(q[i], media)]
         IN  t \in Seq(Dooms) /\ ObjectsOf(t) = Before(r, o)
<1> DEFINE t == [i \in DOMAIN q |-> Doom(q[i], media)]
<1>1. Before(r, o) \subseteq Markers \/ Before(r, o) \subseteq Images
  <2>1. CASE o \in Scenes
    BY <2>1 DEF Before, MarkersOf
  <2>2. CASE o \notin Scenes /\ o \in Galleries
    <3>1. Attached[o] \subseteq Images
      BY <2>2, DeletionAssumption
    <3> QED
      BY <2>2, <3>1 DEF Before, DoomedImages
  <2>3. CASE o \notin Scenes /\ o \notin Galleries
    BY <2>3 DEF Before
  <2> QED
    BY <2>1, <2>2, <2>3
<1>2. IsFiniteSet(Before(r, o)) /\ Before(r, o) \subseteq Objects
  BY <1>1, FS_Subset, DeletionAssumption DEF Objects
<1>3. Cardinality(Before(r, o)) \in Nat
  BY <1>2, FS_CardinalityType
<1>4. q \in [1..Cardinality(Before(r, o)) -> Before(r, o)]
        /\ \A p \in Before(r, o) : \E i \in DOMAIN q : q[i] = p
  BY DEF Orders
<1>5. \A i \in DOMAIN q : Doom(q[i], media) \in Dooms
  BY <1>2, <1>4 DEF Doom, Dooms
<1>6. t \in [1..Cardinality(Before(r, o)) -> Dooms]
  BY <1>4, <1>5
<1>7. t \in Seq(Dooms)
  BY <1>3, <1>6
<1>8. \A i \in DOMAIN q : t[i].object = q[i]
  BY DEF Doom
<1>9. ObjectsOf(t) = Before(r, o)
  BY <1>4, <1>8 DEF ObjectsOf
<1> QED
  BY <1>7, <1>9

LEMMA LookEffect ==
  ASSUME Typed, NEW r \in Requests, Look(r)
  PROVE  \/ Fail(r) /\ UNCHANGED faults
         \/ PanicRequest(r)
         \/ Restart /\ UNCHANGED faults
         \/ \E o, t, q : GoesOn(r, o, t, q)
<1> DEFINE o == Head(todo[r]).object
           media == Head(todo[r]).media
<1>1. /\ todo[r] \in Seq(Dooms) /\ todo[r] # <<>> /\ steps[r] = <<>>
      /\ todo \in [Requests -> Seq(Dooms)] /\ steps \in [Requests -> Seq(StepKinds)]
  BY TypedParts DEF Look
<1>2. /\ Head(todo[r]) \in Dooms /\ Tail(todo[r]) \in Seq(Dooms)
      /\ ObjectsOf(Tail(todo[r])) \cup {o} = ObjectsOf(todo[r])
  BY <1>1, TailObjects
<1>3. o \in Objects /\ media \in BOOLEAN
  BY <1>2 DEF Dooms
<1>4. CASE o \notin There(r)
  BY <1>4 DEF Look, Missing
<1>5. CASE o \in There(r)
  <2> SUFFICES ASSUME ~ \E t, q : GoesOn(r, o, t, q) PROVE FALSE
    OBVIOUS
  <2>1. UNCHANGED <<dataVars, disk, writer, asked, phase, deleterVars, gone, moved, left,
                    cleanVars, historyVars>>
    BY <1>5 DEF Look
  <2>2. RowsIn(<<>>) = {} /\ RowFollows(<<>>) /\ <<>> \in Seq(StepKinds)
    BY DEF RowsIn, RowFollows
  <2>3. steps = [steps EXCEPT ![r] = <<>>]
    BY <1>1
  <2>4. CASE Before(r, o) # {}
    <3>1. PICK q \in Orders(Before(r, o)) :
             /\ todo' = [todo EXCEPT ![r] =
                  [i \in DOMAIN q |-> Doom(q[i], media /\ o \notin Zips)] \o @]
             /\ UNCHANGED steps
      BY <1>5, <2>4 DEF Look
    <3> DEFINE d == [i \in DOMAIN q |-> Doom(q[i], media /\ o \notin Zips)]
    <3>2. d \in Seq(Dooms) /\ ObjectsOf(d) = Before(r, o)
      <4>1. (media /\ o \notin Zips) \in BOOLEAN
        BY <1>3
      <4> QED
        BY <1>3, <4>1, BeforeListed
    <3> HIDE DEF d
    <3>3. d \o todo[r] \in Seq(Dooms)
            /\ ObjectsOf(d \o todo[r]) = ObjectsOf(todo[r]) \cup Before(r, o)
      BY <1>1, <3>2, ConcatObjects
    <3>4. todo' = [todo EXCEPT ![r] = d \o todo[r]]
      BY <1>1, <3>1 DEF d
    <3>5. GoesOn(r, o, d \o todo[r], <<>>)
      BY <1>1, <1>2, <1>5, <2>1, <2>2, <2>3, <3>1, <3>3, <3>4 DEF GoesOn
    <3> QED
      BY <3>5
  <2>5. CASE Before(r, o) = {}
    <3>1. todo' = [todo EXCEPT ![r] = Tail(todo[r])]
      BY <1>1, <1>5, <2>5 DEF Look
    <3>2. CASE asked[r].kind # "SceneMarkerUpdate"
      <4>1. steps' = [steps EXCEPT ![r] = StepsFor(r, o, media)]
        BY <1>5, <2>5, <3>2 DEF Look
      <4>2. FitFor(StepsFor(r, o, media), o)
        BY <1>3, StepsForFit DEF Typed
      <4>3. GoesOn(r, o, Tail(todo[r]), StepsFor(r, o, media))
        BY <1>1, <1>2, <1>5, <2>1, <3>1, <3>2, <4>1, <4>2 DEF GoesOn, FitFor
      <4> QED
        BY <4>3
    <3>3. CASE asked[r].kind = "SceneMarkerUpdate"
      <4>1. 1 \in DOMAIN todo[r] /\ Head(todo[r]) = todo[r][1]
        BY <1>1, LenProperties, EmptySeq
      <4>2. o \in Markers
        BY <3>3, <4>1 DEF Typed, UpdatesMarkers
      <4>3. CASE UNCHANGED steps
        <5>1. GoesOn(r, o, Tail(todo[r]), <<>>)
          BY <1>1, <1>2, <1>5, <2>1, <2>2, <2>3, <3>1, <3>3, <4>3 DEF GoesOn
        <5> QED
          BY <5>1
      <4>4. ASSUME NEW n \in Seconds,
                   steps' = [steps EXCEPT ![r] = <<Move(o, n), File(PreviewOf(o))>>]
            PROVE  FALSE
        <5> DEFINE q == <<Move(o, n), File(PreviewOf(o))>>
        <5>1. q \in Seq(StepKinds) /\ RowsIn(q) = {} /\ RowFollows(q)
          BY <4>2, UpdateFit DEF Typed
        <5>2. GoesOn(r, o, Tail(todo[r]), q)
          BY <1>1, <1>2, <1>5, <2>1, <3>1, <3>3, <4>4, <5>1 DEF GoesOn
        <5> QED
          BY <5>2
      <4> QED
        BY <1>5, <2>5, <3>3, <4>3, <4>4 DEF Look
    <3> QED
      BY <3>2, <3>3
  <2> QED
    BY <2>4, <2>5
<1> QED
  BY <1>4, <1>5

-----------------------------------------------------------------------------
(* Every step keeps the types.                                             *)

LEMMA FaultTyped == Typed /\ Fault => faults' \in 0..MaxFaults
BY DeletionAssumption DEF Typed, TypeOK, Fault

LEMMA RestartTyped ==
  ASSUME Typed, Restart, faults' \in 0..MaxFaults
  PROVE  Typed'
BY ForgetTyped DEF Restart

LEMMA LookTyped == ASSUME Typed, NEW r \in Requests, Look(r) PROVE Typed'
<1>1. faults \in 0..MaxFaults /\ writer \in Requests \cup {Nobody}
  BY DEF Typed, TypeOK
<1>2. CASE Fail(r) /\ UNCHANGED faults
  BY <1>1, <1>2, FailTyped
<1>3. CASE PanicRequest(r)
  <2>1. Forget({r}) /\ {r} \in SUBSET Requests /\ writer' = Nobody /\ UNCHANGED <<cleanVars, faults>>
    BY <1>3 DEF PanicRequest
  <2>2. stage' \in 0..3 /\ batch' \subseteq Objects /\ toClean' \subseteq Objects
    BY <2>1 DEF cleanVars, Typed, TypeOK
  <2> QED
    BY <1>1, <2>1, <2>2, ForgetTyped
<1>4. CASE Restart /\ UNCHANGED faults
  BY <1>1, <1>4, RestartTyped
<1>5. ASSUME NEW o, NEW t, NEW q, GoesOn(r, o, t, q) PROVE Typed'
  <2>1. o \in Objects /\ t \in Seq(Dooms) /\ q \in Seq(StepKinds)
    BY <1>5 DEF GoesOn, There, Typed, TypeOK
  <2>2. todo' \in [Requests -> Seq(Dooms)] /\ steps' \in [Requests -> Seq(StepKinds)]
    BY <1>5, <2>1, TypedParts DEF GoesOn
  <2>3. UpdatesMarkers'
    <3>1. ASSUME NEW s \in Requests, asked'[s].kind = "SceneMarkerUpdate",
                 NEW k \in DOMAIN todo'[s]
          PROVE  todo'[s][k].object \in Markers
      <4>1. asked' = asked
        BY <1>5 DEF GoesOn
      <4>2. ObjectsOf(todo[s]) \subseteq Markers
        BY <3>1, <4>1 DEF Typed, UpdatesMarkers, ObjectsOf
      <4>3. CASE s # r
        <5>1. todo'[s] = todo[s]
          BY <1>5, <4>3, TypedParts DEF GoesOn
        <5> QED
          BY <3>1, <4>2, <5>1 DEF ObjectsOf
      <4>4. CASE s = r
        <5>1. todo'[s] = t
          BY <1>5, <4>4, TypedParts DEF GoesOn
        <5>2. o \in Markers /\ Before(r, o) = {}
          BY <1>5, <4>2, <4>4, DeletionAssumption DEF GoesOn, Before
        <5>3. ObjectsOf(t) \subseteq Markers
          BY <1>5, <3>1, <4>1, <4>2, <4>4, <5>2 DEF GoesOn
        <5> QED
          BY <3>1, <5>1, <5>3 DEF ObjectsOf
      <4> QED
        BY <4>3, <4>4
    <3> QED
      BY <3>1 DEF UpdatesMarkers
  <2> QED
    BY <1>5, <2>2, <2>3, TypedParts DEF GoesOn, dataVars, deleterVars, cleanVars,
       historyVars, Typed, TypeOK, Dooms
<1> QED
  BY <1>2, <1>3, <1>4, <1>5, LookEffect

\* The step that is taken, and what it does.
Takes(r, step) ==
  /\ phase[r] = "working" /\ steps[r] # <<>> /\ step = Head(steps[r])
  /\ steps' = [steps EXCEPT ![r] = Tail(steps[r])]
  /\ UNCHANGED <<dataVars, writer, asked, phase, todo, left, cleanVars, historyVars>>

LEMMA StepEffect ==
  ASSUME Typed, NEW r \in Requests, Step(r)
  PROVE  \/ \E o \in Objects :
              /\ Takes(r, Row(o)) /\ gone' = [gone EXCEPT ![r] = @ \cup {o}]
              /\ UNCHANGED <<disk, deleterVars, moved>>
         \/ \E m \in Markers, n \in Seconds :
              /\ Takes(r, Move(m, n)) /\ moved' = [moved EXCEPT ![r] = {<<m, n>>}]
              /\ UNCHANGED <<disk, deleterVars, gone>>
         \/ \E f \in Files :
              Takes(r, File(f)) /\ MarkFile(r, f) /\ UNCHANGED <<dirs, gone, moved>>
         \/ \E s \in Scenes :
              Takes(r, Dir(s)) /\ MarkDir(r, s) /\ UNCHANGED <<files, gone, moved>>
<1> DEFINE step == Head(steps[r])
<1>1. steps[r] \in Seq(StepKinds) /\ steps[r] # <<>>
  BY TypedParts DEF Step
<1>2. step \in StepKinds
  BY <1>1, HeadTailProperties, EmptySeq
<1>3. Takes(r, step)
  BY DEF Step, Takes
<1>4. CASE step \in {Row(o) : o \in Objects}
  <2>1. PICK o \in Objects : step = Row(o)
    BY <1>4
  <2>2. step[1] = "row" /\ step[2] = o
    BY <2>1 DEF Row
  <2>3. gone' = [gone EXCEPT ![r] = @ \cup {o}] /\ UNCHANGED <<disk, deleterVars, moved>>
    BY <2>2 DEF Step
  <2> QED
    BY <1>3, <2>1, <2>3
<1>5. CASE step \in {Move(m, n) : m \in Markers, n \in Seconds}
  <2>1. PICK m \in Markers, n \in Seconds : step = Move(m, n)
    BY <1>5
  <2>2. step[1] = "move" /\ step[2] = m /\ step[3] = n
    BY <2>1 DEF Move
  <2>3. moved' = [moved EXCEPT ![r] = {<<m, n>>}] /\ UNCHANGED <<disk, deleterVars, gone>>
    BY <2>2 DEF Step
  <2> QED
    BY <1>3, <2>1, <2>3
<1>6. CASE step \in {File(f) : f \in Files}
  <2>1. PICK f \in Files : step = File(f)
    BY <1>6
  <2>2. step[1] = "file" /\ step[2] = f
    BY <2>1 DEF File
  <2>3. MarkFile(r, f) /\ UNCHANGED <<dirs, gone, moved>>
    BY <2>2 DEF Step
  <2> QED
    BY <1>3, <2>1, <2>3
<1>7. CASE step \in {Dir(s) : s \in Scenes}
  <2>1. PICK s \in Scenes : step = Dir(s)
    BY <1>7
  <2>2. step[1] = "dir" /\ step[2] = s
    BY <2>1 DEF Dir
  <2>3. MarkDir(r, s) /\ UNCHANGED <<files, gone, moved>>
    BY <2>2 DEF Step
  <2> QED
    BY <1>3, <2>1, <2>3
<1> QED
  BY <1>2, <1>4, <1>5, <1>6, <1>7 DEF StepKinds

LEMMA StepTyped == ASSUME Typed, NEW r \in Requests, Step(r) PROVE Typed'
<1>1. /\ disk \in [Files -> SUBSET Places]
      /\ files \in [Requests -> Seq(Files)] /\ dirs \in [Requests -> Seq(Scenes)]
      /\ gone \in [Requests -> SUBSET Objects]
      /\ moved \in [Requests -> SUBSET (Markers \X Seconds)]
      /\ steps \in [Requests -> Seq(StepKinds)]
  BY TypedParts
<1>2. /\ UNCHANGED <<dataVars, writer, asked, phase, todo, left, cleanVars, historyVars>>
      /\ steps[r] # <<>> /\ steps' = [steps EXCEPT ![r] = Tail(steps[r])]
  BY DEF Step
<1>3. steps' \in [Requests -> Seq(StepKinds)]
  <2>1. Tail(steps[r]) \in Seq(StepKinds)
    BY <1>1, <1>2, HeadTailProperties, EmptySeq
  <2> QED
    BY <1>1, <1>2, <2>1
<1>4. /\ disk' \in [Files -> SUBSET Places]
      /\ files' \in [Requests -> Seq(Files)] /\ dirs' \in [Requests -> Seq(Scenes)]
      /\ gone' \in [Requests -> SUBSET Objects]
      /\ moved' \in [Requests -> SUBSET (Markers \X Seconds)]
  <2>1. ASSUME NEW o \in Objects, gone' = [gone EXCEPT ![r] = @ \cup {o}],
               UNCHANGED <<disk, deleterVars, moved>>
        PROVE  <1>4!:
    BY <1>1, <2>1 DEF deleterVars
  <2>2. ASSUME NEW m \in Markers, NEW n \in Seconds,
               moved' = [moved EXCEPT ![r] = {<<m, n>>}], UNCHANGED <<disk, deleterVars, gone>>
        PROVE  <1>4!:
    BY <1>1, <2>2 DEF deleterVars
  <2>3. ASSUME NEW f \in Files, MarkFile(r, f), UNCHANGED <<dirs, gone, moved>>
        PROVE  <1>4!:
    <3>1. CASE UNCHANGED <<disk, files>>
      BY <1>1, <2>3, <3>1
    <3>2. CASE /\ disk' = [disk EXCEPT ![f] = (@ \ {"here"}) \cup {"marked"}]
               /\ files' = [files EXCEPT ![r] = Append(@, f)]
      <4>1. Append(files[r], f) \in Seq(Files)
        BY <1>1, AppendProperties
      <4>2. disk' \in [Files -> SUBSET Places]
        BY <1>1, <3>2 DEF Places
      <4> QED
        BY <1>1, <2>3, <3>2, <4>1, <4>2
    <3> QED
      BY <2>3, <3>1, <3>2 DEF MarkFile
  <2>4. ASSUME NEW s \in Scenes, MarkDir(r, s), UNCHANGED <<files, gone, moved>>
        PROVE  <1>4!:
    <3>1. CASE UNCHANGED <<disk, dirs>>
      BY <1>1, <2>4, <3>1
    <3>2. CASE /\ disk' = [f \in Files |-> IF f \in PreviewsOf(s)
                     THEN {WithFolder(p) : p \in disk[f]} ELSE disk[f]]
               /\ dirs' = [dirs EXCEPT ![r] = Append(@, s)]
      <4>1. Append(dirs[r], s) \in Seq(Scenes)
        BY <1>1, AppendProperties
      <4>2. \A f \in Files : {WithFolder(p) : p \in disk[f]} \subseteq Places
        BY DEF WithFolder, Places
      <4>3. disk' \in [Files -> SUBSET Places]
        BY <1>1, <3>2, <4>2
      <4> QED
        BY <1>1, <2>4, <3>2, <4>1, <4>3
    <3> QED
      BY <2>4, <3>1, <3>2 DEF MarkDir
  <2> QED
    BY <2>1, <2>2, <2>3, <2>4, StepEffect
<1>5. UpdatesMarkers'
  BY <1>2, TypedParts DEF UpdatesMarkers
<1> QED
  BY <1>2, <1>3, <1>4, <1>5, TypedParts
  DEF dataVars, cleanVars, historyVars, Typed, TypeOK, Dooms

\* After the transaction.
LEMMA AfterwardsTyped ==
  ASSUME Typed, NEW r \in Requests, Remove(r) \/ Restore(r)
  PROVE  Typed'
<1>1. UNCHANGED <<dataVars, writer, phase, asked, todo, steps, gone, moved, left,
                  cleanVars, historyVars>>
  BY DEF Remove, Restore
<1>2. /\ disk \in [Files -> SUBSET Places]
      /\ files \in [Requests -> Seq(Files)] /\ dirs \in [Requests -> Seq(Scenes)]
  BY TypedParts
<1>3. /\ files[r] # <<>> => Head(files[r]) \in Files /\ Tail(files[r]) \in Seq(Files)
      /\ dirs[r] # <<>> => Head(dirs[r]) \in Scenes /\ Tail(dirs[r]) \in Seq(Scenes)
  BY <1>2, HeadTailProperties, EmptySeq
<1>4. files' \in [Requests -> Seq(Files)] /\ dirs' \in [Requests -> Seq(Scenes)]
  BY <1>2, <1>3 DEF Remove, Restore
<1>5. disk' \in [Files -> SUBSET Places]
  <2>4. CASE Remove(r)
    <3>1. \A f \in Files : disk[f] \ {"marked"} \subseteq Places /\ disk[f] \ InMarked \subseteq Places
      BY <1>2
    <3>2. CASE files[r] # <<>> /\ disk' = [disk EXCEPT ![Head(files[r])] = @ \ {"marked"}]
      BY <1>2, <1>3, <3>2
    <3>3. CASE disk' = [f \in Files |-> IF f \in PreviewsOf(Head(dirs[r]))
                                      THEN disk[f] \ InMarked ELSE disk[f]]
      BY <1>2, <3>1, <3>3
    <3> QED
      BY <2>4, <3>2, <3>3 DEF Remove
  <2>5. ASSUME NEW f \in Files, RestoreFile(f) PROVE <1>5!:
    BY <1>2, <2>5 DEF RestoreFile, Places
  <2>6. ASSUME NEW s, RestoreDir(s) PROVE <1>5!:
    <3>1. \A f \in Files : {WithoutFolder(p) : p \in disk[f]} \subseteq Places
      BY DEF WithoutFolder, Places
    <3> QED
      BY <1>2, <2>6, <3>1 DEF RestoreDir
  <2>7. CASE Restore(r)
    BY <1>3, <2>5, <2>6, <2>7 DEF Restore
  <2> QED
    BY <2>4, <2>7
<1>6. UpdatesMarkers'
  BY <1>1, TypedParts DEF UpdatesMarkers
<1> QED
  BY <1>1, <1>4, <1>5, <1>6, TypedParts
  DEF dataVars, cleanVars, historyVars, Typed, TypeOK, Dooms

\* What cannot be removed or renamed back.
LEMMA FailureTyped ==
  ASSUME Typed, NEW r \in Requests, RemoveFails(r) \/ RestoreFails(r)
  PROVE  Typed'
<1>1. /\ PassOver(r) /\ Fault
      /\ UNCHANGED <<dataVars, writer, phase, asked, todo, steps, gone, moved, left,
                     cleanVars, unsaved>>
  BY DEF RemoveFails, RestoreFails
<1>2. /\ disk \in [Files -> SUBSET Places]
      /\ files \in [Requests -> Seq(Files)] /\ dirs \in [Requests -> Seq(Scenes)]
      /\ stranded \subseteq Files
  BY TypedParts
<1>3. /\ files[r] # <<>> => Head(files[r]) \in Files /\ Tail(files[r]) \in Seq(Files)
      /\ dirs[r] # <<>> => Head(dirs[r]) \in Scenes /\ Tail(dirs[r]) \in Seq(Scenes)
  BY <1>2, HeadTailProperties, EmptySeq
<1>4. dirs[r] # <<>> => PreviewsOf(Head(dirs[r])) \subseteq Files
  BY <1>3 DEF Files
<1>5. /\ files' \in [Requests -> Seq(Files)] /\ dirs' \in [Requests -> Seq(Scenes)]
      /\ stranded' \subseteq Files
  BY <1>1, <1>2, <1>3, <1>4 DEF PassOver
<1>6. disk' \in [Files -> SUBSET Places]
  <2>1. ASSUME NEW kept, disk' = [f \in Files |-> IF f \in PreviewsOf(Head(dirs[r]))
                                   THEN disk[f] \ (InMarked \ kept[f]) ELSE disk[f]]
        PROVE  <1>6!:
    <3>1. \A f \in Files : disk[f] \ (InMarked \ kept[f]) \subseteq Places
      BY <1>2
    <3> QED
      BY <1>2, <2>1, <3>1
  <2> QED
    BY <1>2, <2>1 DEF RemoveFails, RestoreFails
<1>7. UpdatesMarkers'
  BY <1>1, TypedParts DEF UpdatesMarkers
<1>8. faults' \in 0..MaxFaults
  BY <1>1, FaultTyped, TypedParts
<1> QED
  BY <1>1, <1>5, <1>6, <1>7, <1>8, TypedParts
  DEF dataVars, cleanVars, Typed, TypeOK, Dooms

LEMMA CleanTyped == ASSUME Typed, CleanStep PROVE Typed'
<1>1. CASE CleanQuery
  <2>1. UNCHANGED <<dataVars, disk, writer, phase, requestVars, left, toClean, historyVars>>
          /\ stage' \in 0..3 /\ batch' \subseteq Objects
    BY <1>1, TypedParts DEF CleanQuery, dataVars
  <2> QED
    BY <2>1, TypedParts DEF dataVars, requestVars, deleterVars, historyVars,
       Typed, TypeOK, UpdatesMarkers, Dooms
<1>2. CASE Assess
  <2>1. PICK o \in batch : batch' = batch \ {o}
          /\ toClean' = IF ShouldClean(o) THEN toClean \cup {o} ELSE toClean
    BY <1>2 DEF Assess
  <2>2. batch' \subseteq Objects /\ toClean' \subseteq Objects
    BY <2>1, TypedParts
  <2> QED
    BY <1>2, <2>2, TypedParts DEF Assess, dataVars, requestVars, deleterVars, historyVars,
       Typed, TypeOK, UpdatesMarkers, Dooms
<1>3. CASE CleanNext
  <2>1. PICK o \in toClean : toClean' = toClean \ {o}
          /\ todo' = [todo EXCEPT ![Cleaner] = <<Doom(o, FALSE)>>]
    BY <1>3 DEF CleanNext
  <2>2. Doom(o, FALSE) \in Dooms
    BY <2>1, TypedParts DEF Doom, Dooms
  <2>3. \A d \in Dooms : <<d>> \in Seq(Dooms)
    OBVIOUS
  <2>4. todo' \in [Requests -> Seq(Dooms)] /\ toClean' \subseteq Objects
    BY <2>1, <2>2, <2>3, TypedParts
  <2>5. asked' = asked /\ asked[Cleaner].kind # "SceneMarkerUpdate"
    BY <1>3, TypedParts DEF CleanNext, Clean
  <2>6. UpdatesMarkers'
    BY <2>1, <2>5, TypedParts DEF UpdatesMarkers
  <2>7. phase' \in [Requests -> {"waiting", "working", "removing", "restoring", "over"}]
    BY <1>3, TypedParts DEF CleanNext
  <2> QED
    BY <1>3, <2>4, <2>6, <2>7, TypedParts
    DEF CleanNext, dataVars, deleterVars, historyVars, Typed, TypeOK, Dooms
<1> QED
  BY <1>1, <1>2, <1>3 DEF CleanStep

LEMMA TypedStep == Typed /\ [Next]_vars => Typed'
<1> SUFFICES ASSUME Typed, [Next]_vars PROVE Typed'
  OBVIOUS
<1>1. CASE UNCHANGED vars
  BY <1>1 DEF vars, dataVars, requestVars, deleterVars, cleanVars, historyVars,
     Typed, TypeOK, UpdatesMarkers
<1>2. ASSUME NEW r \in Requests, Leave(r) PROVE Typed'
  <2>1. left' \in [Requests -> BOOLEAN] /\ faults' \in 0..MaxFaults
    BY <1>2, FaultTyped, TypedParts DEF Leave
  <2> QED
    BY <1>2, <2>1 DEF Leave, dataVars, requestVars, deleterVars, cleanVars, Typed, TypeOK,
       UpdatesMarkers
<1>3. ASSUME NEW r \in Requests, Begin(r) PROVE Typed'
  <2>1. phase' \in [Requests -> {"waiting", "working", "removing", "restoring", "over"}]
          /\ writer' \in Requests \cup {Nobody}
    BY <1>3, TypedParts DEF Begin
  <2> QED
    BY <1>3, <2>1 DEF Begin, dataVars, requestVars, deleterVars, cleanVars, historyVars,
       Typed, TypeOK, UpdatesMarkers
<1>4. ASSUME NEW r \in Requests, StepFails(r) PROVE Typed'
  <2>1. Fail(r) /\ (UNCHANGED faults \/ Fault)
    BY <1>4 DEF StepFails
  <2>2. faults' \in 0..MaxFaults
    BY <2>1, FaultTyped, TypedParts
  <2> QED
    BY <2>1, <2>2, FailTyped
<1>5. ASSUME NEW r \in Requests, Commit(r) PROVE Typed'
  <2>1. rows' \subseteq Objects
    BY <1>5, TypedParts DEF Commit
  <2>2. second' \in [Markers -> Seconds]
    BY <1>5, TypedParts DEF Commit
  <2>3. phase' \in [Requests -> {"waiting", "working", "removing", "restoring", "over"}]
          /\ writer' \in Requests \cup {Nobody}
    BY <1>5, TypedParts DEF Commit
  <2> QED
    BY <1>5, <2>1, <2>2, <2>3 DEF Commit, requestVars, deleterVars, cleanVars, historyVars,
       Typed, TypeOK, UpdatesMarkers
<1>6. ASSUME NEW r \in Requests, CommitFails(r) PROVE Typed'
  <2>1. phase' \in [Requests -> {"waiting", "working", "removing", "restoring", "over"}]
          /\ writer' \in Requests \cup {Nobody} /\ unsaved' \subseteq Objects
    BY <1>6, TypedParts DEF CommitFails
  <2> QED
    BY <1>6, <2>1 DEF CommitFails, dataVars, requestVars, deleterVars, cleanVars,
       Typed, TypeOK, UpdatesMarkers
<1>7. ASSUME NEW r \in Requests, End(r) PROVE Typed'
  <2>1. /\ phase' \in [Requests -> {"waiting", "working", "removing", "restoring", "over"}]
        /\ gone' \in [Requests -> SUBSET Objects]
        /\ moved' \in [Requests -> SUBSET (Markers \X Seconds)]
    BY <1>7, TypedParts DEF End
  <2> QED
    BY <1>7, <2>1 DEF End, dataVars, deleterVars, cleanVars, historyVars, Typed, TypeOK,
       UpdatesMarkers
<1>8. CASE Crash
  BY <1>8, FaultTyped, RestartTyped DEF Crash
<1>9. ASSUME NEW o, NEW f \in Files, Generate(o, f) PROVE Typed'
  <2>1. disk' \in [Files -> SUBSET Places]
    BY <1>9, TypedParts DEF Generate, Places
  <2> QED
    BY <1>9, <2>1 DEF Generate, dataVars, requestVars, deleterVars, cleanVars, historyVars,
       Typed, TypeOK, UpdatesMarkers
<1>10. /\ \A s \in Scenes : PreviewsOf(s) \cup {Generated(s)} \subseteq Files
       /\ \A i \in Images : Generated(i) \in Files
  BY DEF Files, PlainFiles
<1> QED
  BY <1>1, <1>2, <1>3, <1>4, <1>5, <1>6, <1>7, <1>8, <1>9, <1>10,
     LookTyped, StepTyped, AfterwardsTyped,
     FailureTyped, CleanTyped
  DEF Next, RequestStep

\* Requests, rows and files stay well formed for any library and scenario.
THEOREM Typing == Spec => []TypeOK
<1>1. Typed => TypeOK
  BY DEF Typed
<1> QED
  BY <1>1, TypedInit, TypedStep, PTL DEF Spec

-----------------------------------------------------------------------------
(***************************************************************************)
(* One transaction at a time: the request at work holds the write lock,    *)
(* and one that waits or is over has nothing left to put back.             *)
(***************************************************************************)
OneWriter == \A r \in Requests : phase[r] = "working" <=> writer = r

NothingPending ==
  \A r \in Requests :
    /\ phase[r] # "working" => steps[r] = <<>>
    /\ phase[r] \in {"waiting", "over"} =>
         files[r] = <<>> /\ dirs[r] = <<>> /\ gone[r] = {}

TxnInv == OneWriter /\ NothingPending

\* The state of request q.
OfRequest(q) == <<phase[q], todo[q], steps[q], files[q], dirs[q], gone[q]>>

\* A request's step leaves the others alone, unless it brings the server down.
LEMMA OthersAlone ==
  ASSUME Typed, NEW r \in Requests, RequestStep(r), ~Restart,
         NEW q \in Requests, q # r
  PROVE  UNCHANGED OfRequest(q)
<1> USE DEF OfRequest
<1>0. /\ phase \in [Requests -> {"waiting", "working", "removing", "restoring", "over"}]
      /\ todo \in [Requests -> Seq(Dooms)] /\ steps \in [Requests -> Seq(StepKinds)]
      /\ files \in [Requests -> Seq(Files)] /\ dirs \in [Requests -> Seq(Scenes)]
      /\ gone \in [Requests -> SUBSET Objects]
  BY TypedParts
<1>1. Fail(r) => UNCHANGED OfRequest(q)
  BY <1>0 DEF Fail, deleterVars
<1>2. PanicRequest(r) => UNCHANGED OfRequest(q)
  BY <1>0 DEF PanicRequest, Forget
<1>3. CASE Look(r)
  <2>1. ASSUME NEW o, NEW t, NEW s, GoesOn(r, o, t, s) PROVE UNCHANGED OfRequest(q)
    BY <1>0, <2>1 DEF GoesOn, deleterVars
  <2> QED
    BY <1>1, <1>2, <1>3, <2>1, LookEffect
<1>4. CASE Step(r)
  BY <1>0, <1>4 DEF Step, MarkFile, MarkDir, deleterVars
<1>5. CASE StepFails(r)
  BY <1>1, <1>5 DEF StepFails
<1>6. CASE Begin(r) \/ Commit(r) \/ CommitFails(r) \/ End(r)
  BY <1>0, <1>6 DEF Begin, Commit, CommitFails, End, requestVars, deleterVars
<1>7. CASE Remove(r) \/ Restore(r)
  BY <1>0, <1>7 DEF Remove, Restore
<1>8. CASE RemoveFails(r) \/ RestoreFails(r)
  BY <1>0, <1>8 DEF RemoveFails, RestoreFails, PassOver
<1> QED
  BY <1>3, <1>4, <1>5, <1>6, <1>7, <1>8 DEF RequestStep

\* What may follow where a request is.
LEMMA PhaseOfStep ==
  ASSUME Typed, NEW r \in Requests, RequestStep(r), ~Restart
  PROVE  \/ phase[r] = "working" /\ phase'[r] = "working" /\ writer' = writer
         \/ /\ phase[r] = "working" /\ phase'[r] = "restoring" /\ writer' = Nobody
            /\ steps'[r] = <<>>
         \/ /\ phase[r] = "working" /\ phase'[r] = "over" /\ writer' = Nobody
            /\ steps'[r] = <<>> /\ files'[r] = <<>> /\ dirs'[r] = <<>> /\ gone'[r] = {}
         \/ /\ phase[r] = "working" /\ phase'[r] = "removing" /\ writer' = Nobody
            /\ steps[r] = <<>> /\ steps'[r] = <<>>
         \/ /\ phase[r] = "waiting" /\ UNCHANGED <<steps, files, dirs, gone>>
            /\ writer = Nobody
            /\ \/ phase'[r] = "working" /\ writer' = r
               \/ phase'[r] = "over" /\ writer' = Nobody
         \/ /\ phase[r] \in {"removing", "restoring"} /\ steps' = steps /\ writer' = writer
            /\ phase'[r] = phase[r]
         \/ /\ phase[r] \in {"removing", "restoring"} /\ steps' = steps /\ writer' = writer
            /\ phase'[r] = "over"
            /\ files'[r] = <<>> /\ dirs'[r] = <<>> /\ gone'[r] = {}
<1>0. /\ phase \in [Requests -> {"waiting", "working", "removing", "restoring", "over"}]
      /\ todo \in [Requests -> Seq(Dooms)] /\ steps \in [Requests -> Seq(StepKinds)]
      /\ files \in [Requests -> Seq(Files)] /\ dirs \in [Requests -> Seq(Scenes)]
      /\ gone \in [Requests -> SUBSET Objects]
  BY TypedParts
<1>1. Fail(r) => phase'[r] = "restoring" /\ writer' = Nobody /\ steps'[r] = <<>>
  BY <1>0 DEF Fail
<1>2. PanicRequest(r) =>
        /\ phase'[r] = "over" /\ writer' = Nobody
        /\ steps'[r] = <<>> /\ files'[r] = <<>> /\ dirs'[r] = <<>> /\ gone'[r] = {}
  BY <1>0 DEF PanicRequest, Forget
<1>3. CASE Look(r)
  <2>1. phase[r] = "working"
    BY <1>3 DEF Look
  <2>2. ASSUME NEW o, NEW t, NEW s, GoesOn(r, o, t, s)
        PROVE  phase' = phase /\ writer' = writer
    BY <2>2 DEF GoesOn
  <2> QED
    BY <1>1, <1>2, <1>3, <2>1, <2>2, LookEffect
<1>4. CASE Step(r)
  BY <1>4 DEF Step
<1>5. CASE StepFails(r)
  BY <1>1, <1>5 DEF StepFails
<1>6. CASE Begin(r)
  BY <1>0, <1>6 DEF Begin, requestVars, deleterVars
<1>7. CASE Commit(r) \/ CommitFails(r)
  BY <1>0, <1>7 DEF Commit, CommitFails, Done, requestVars
<1>8. CASE Remove(r) \/ Restore(r) \/ RemoveFails(r) \/ RestoreFails(r)
  BY <1>8 DEF Remove, Restore, RemoveFails, RestoreFails
<1>9. CASE End(r)
  BY <1>0, <1>9 DEF End, deleterVars
<1> QED
  BY <1>3, <1>4, <1>5, <1>6, <1>7, <1>8, <1>9 DEF RequestStep

LEMMA TxnInvInit == Init => TxnInv
BY DeletionAssumption DEF Init, TxnInv, OneWriter, NothingPending

\* After a restart the requests that waited still wait, and all others are over.
LEMMA RestartEffect ==
  ASSUME Typed, Restart, NEW q \in Requests
  PROVE  \/ phase[q] = "waiting" /\ q # Cleaner /\ UNCHANGED OfRequest(q)
         \/ /\ phase'[q] = "over" /\ todo'[q] = <<>> /\ steps'[q] = <<>>
            /\ files'[q] = <<>> /\ dirs'[q] = <<>> /\ gone'[q] = {}
            /\ MarkedBy(q) \subseteq stranded'
<1>1. PICK R \in SUBSET Requests :
        Forget(R) /\ R = {r \in Requests : phase[r] # "waiting" \/ r = Cleaner}
  BY DEF Restart
<1>2. CASE q \in R
  BY <1>1, <1>2 DEF Forget
<1>3. CASE q \notin R
  BY <1>1, <1>3 DEF Forget, OfRequest
<1> QED
  BY <1>2, <1>3

LEMMA TxnInvStep == Typed /\ TxnInv /\ [Next]_vars => TxnInv'
<1> SUFFICES ASSUME Typed, TxnInv, [Next]_vars PROVE TxnInv'
  OBVIOUS
<1> USE DEF TxnInv, OneWriter, NothingPending
<1>1. CASE Restart
  <2>1. writer' = Nobody /\ Nobody \notin Requests
    BY <1>1, DeletionAssumption DEF Restart
  <2> QED
    BY <1>1, <2>1, RestartEffect DEF OfRequest
<1>2. ASSUME NEW r \in Requests, RequestStep(r), ~Restart PROVE TxnInv'
  <2>1. \A q \in Requests : q # r => UNCHANGED OfRequest(q)
    BY <1>2, OthersAlone
  <2>2. Nobody \notin Requests
    BY DeletionAssumption
  <2> QED
    BY <1>2, <2>1, <2>2, PhaseOfStep DEF OfRequest
<1>3. CASE UNCHANGED <<phase, writer, steps, files, dirs, gone>>
  BY <1>3
<1>4. CASE CleanNext
  <2>1. phase \in [Requests -> {"waiting", "working", "removing", "restoring", "over"}]
          /\ Cleaner \in Requests /\ phase[Cleaner] = "over"
    BY <1>4, TypedParts DEF CleanNext, CleanerFree, Requests
  <2> QED
    BY <1>4, <2>1 DEF CleanNext, deleterVars
<1>5. CASE CleanQuery \/ Assess
  BY <1>3, <1>5 DEF CleanQuery, Assess, requestVars, deleterVars
<1>6. ASSUME NEW r, Leave(r) PROVE TxnInv'
  BY <1>3, <1>6 DEF Leave, requestVars, deleterVars
<1>7. ASSUME NEW o, NEW f, Generate(o, f) PROVE TxnInv'
  BY <1>3, <1>7 DEF Generate, requestVars, deleterVars
<1>8. CASE UNCHANGED vars
  BY <1>3, <1>8 DEF vars, requestVars, deleterVars
<1> QED
  BY <1>1, <1>2, <1>4, <1>5, <1>6, <1>7, <1>8 DEF Next, CleanStep, Crash

-----------------------------------------------------------------------------
(* What happens to the files that are no previews.                         *)

Elements(q) == {q[k] : k \in DOMAIN q}

LEMMA TailElements ==
  ASSUME NEW S, NEW q \in Seq(S), q # <<>>
  PROVE  /\ Head(q) \in S /\ Tail(q) \in Seq(S) /\ Len(q) \in Nat \ {0}
         /\ DOMAIN q = 1..Len(q) /\ DOMAIN Tail(q) = 1..(Len(q) - 1)
         /\ Head(q) = q[1] /\ \A k \in 1..(Len(q) - 1) : Tail(q)[k] = q[k + 1]
         /\ Elements(q) = {Head(q)} \cup Elements(Tail(q))
<1>1. /\ Head(q) \in S /\ Tail(q) \in Seq(S) /\ Len(q) \in Nat \ {0}
      /\ DOMAIN q = 1..Len(q) /\ DOMAIN Tail(q) = 1..(Len(q) - 1)
      /\ Head(q) = q[1] /\ \A k \in 1..(Len(q) - 1) : Tail(q)[k] = q[k + 1]
  BY HeadTailProperties, LenProperties, EmptySeq
<1>2. ASSUME NEW k \in DOMAIN q PROVE q[k] \in {Head(q)} \cup Elements(Tail(q))
  <2>1. CASE k = 1
    BY <1>1, <2>1
  <2>2. CASE k # 1
    <3>1. k - 1 \in DOMAIN Tail(q) /\ Tail(q)[k - 1] = q[k]
      BY <1>1, <2>2
    <3> QED
      BY <3>1 DEF Elements
  <2> QED
    BY <2>1, <2>2
<1>3. \A k \in DOMAIN Tail(q) : k + 1 \in DOMAIN q /\ Tail(q)[k] = q[k + 1]
  BY <1>1
<1>4. 1 \in DOMAIN q
  BY <1>1
<1>5. Elements(q) = {Head(q)} \cup Elements(Tail(q))
  BY <1>1, <1>2, <1>3, <1>4 DEF Elements
<1> QED
  BY <1>1, <1>5

LEMMA AppendElements ==
  ASSUME NEW S, NEW q \in Seq(S), NEW x \in S
  PROVE  Elements(Append(q, x)) = Elements(q) \cup {x}
<1>1. /\ Len(q) \in Nat /\ DOMAIN q = 1..Len(q) /\ DOMAIN Append(q, x) = 1..(Len(q) + 1)
      /\ Append(q, x)[Len(q) + 1] = x /\ \A k \in 1..Len(q) : Append(q, x)[k] = q[k]
  BY AppendProperties, LenProperties
<1>2. ASSUME NEW k \in DOMAIN Append(q, x) PROVE Append(q, x)[k] \in Elements(q) \cup {x}
  <2>1. CASE k = Len(q) + 1
    BY <1>1, <2>1
  <2>2. CASE k \in 1..Len(q)
    BY <1>1, <2>2 DEF Elements
  <2> QED
    BY <1>1, <2>1, <2>2
<1>3. Len(q) + 1 \in DOMAIN Append(q, x)
        /\ \A k \in DOMAIN q : k \in DOMAIN Append(q, x)
  BY <1>1
<1> QED
  BY <1>1, <1>2, <1>3 DEF Elements

\* Steps on the previews' folders leave other files alone.
LEMMA FoldersApart ==
  ASSUME Typed, NEW f \in PlainFiles, NEW s \in Scenes
  PROVE  /\ f \in Files /\ f \notin PreviewsOf(s)
         /\ \A r : MarkDir(r, s) => disk'[f] = disk[f]
         /\ RestoreDir(s) => disk'[f] = disk[f]
<1>1. f \in Files /\ f \notin PreviewsOf(s)
  BY PlainIsNoPreview DEF Files
<1> QED
  BY <1>1 DEF MarkDir, RestoreDir

\* What a step may do to the file f: nothing, mark it for a request that lists
\* it, remove it, or leave it under its name without marking it.
FileEffect(f) ==
  \/ disk'[f] = disk[f]
  \/ \E r \in Requests : "marked" \in disk'[f] /\ f \in Listed(r)'
  \/ \E r \in Requests :
       /\ phase[r] = "removing" /\ files[r] # <<>> /\ f = Head(files[r])
       /\ disk'[f] = disk[f] \ {"marked"}
  \/ "here" \in disk'[f] /\ ("marked" \in disk'[f] => "marked" \in disk[f])

LEMMA DiskEffect ==
  ASSUME Typed, [Next]_vars, NEW f \in PlainFiles
  PROVE  FileEffect(f)
<1> USE DEF FileEffect
<1>0. /\ disk \in [Files -> SUBSET Places]
      /\ files \in [Requests -> Seq(Files)] /\ dirs \in [Requests -> Seq(Scenes)]
      /\ f \in Files
  BY TypedParts DEF Files
<1>1. CASE UNCHANGED disk
  BY <1>1
<1>2. ASSUME NEW r \in Requests, Step(r) PROVE FileEffect(f)
  <2>1. ASSUME NEW g \in Files, MarkFile(r, g) PROVE FileEffect(f)
    <3>1. CASE g = f /\ ~UNCHANGED disk
      <4>1. disk' = [disk EXCEPT ![f] = (@ \ {"here"}) \cup {"marked"}]
              /\ files' = [files EXCEPT ![r] = Append(@, f)]
        BY <2>1, <3>1 DEF MarkFile
      <4>2. "marked" \in disk'[f] /\ files'[r] = Append(files[r], f)
        BY <1>0, <4>1
      <4>3. f \in Elements(Append(files[r], f))
        BY <1>0, AppendElements
      <4>4. f \in Listed(r)'
        BY <4>2, <4>3 DEF Listed, Elements
      <4> QED
        BY <4>2, <4>4
    <3>2. CASE g # f
      BY <1>0, <2>1, <3>2 DEF MarkFile
    <3> QED
      BY <3>1, <3>2
  <2>2. ASSUME NEW s \in Scenes, MarkDir(r, s) PROVE FileEffect(f)
    BY <2>2, FoldersApart
  <2> QED
    BY <1>1, <1>2, <2>1, <2>2, StepEffect
<1>3. ASSUME NEW r \in Requests, Remove(r) PROVE FileEffect(f)
  <2>1. CASE files[r] # <<>> /\ disk' = [disk EXCEPT ![Head(files[r])] = @ \ {"marked"}]
    BY <1>0, <1>3, <2>1 DEF Remove
  <2>2. CASE dirs[r] # <<>> /\ disk' = [g \in Files |-> IF g \in PreviewsOf(Head(dirs[r]))
                                                    THEN disk[g] \ InMarked ELSE disk[g]]
    <3>1. Head(dirs[r]) \in Scenes
      BY <1>0, <2>2, TailElements
    <3> QED
      BY <1>0, <2>2, <3>1, FoldersApart
  <2> QED
    BY <1>3, <2>1, <2>2 DEF Remove
<1>4. ASSUME NEW r \in Requests, Restore(r) PROVE FileEffect(f)
  <2>1. CASE files[r] # <<>> /\ RestoreFile(Head(files[r]))
    BY <1>0, <2>1 DEF RestoreFile
  <2>2. CASE dirs[r] # <<>> /\ RestoreDir(Head(dirs[r]))
    <3>1. Head(dirs[r]) \in Scenes
      BY <1>0, <2>2, TailElements
    <3> QED
      BY <2>2, <3>1, FoldersApart
  <2> QED
    BY <1>4, <2>1, <2>2 DEF Restore
<1>5. ASSUME NEW o, NEW g, Generate(o, g) PROVE FileEffect(f)
  BY <1>0, <1>5 DEF Generate
<1>6. \A r \in Requests : Fail(r) \/ PanicRequest(r) => UNCHANGED disk
  BY DEF Fail, PanicRequest, Forget
<1>7. Restart => UNCHANGED disk
  BY DEF Restart, Forget
<1>8. \A r \in Requests : Look(r) => UNCHANGED disk
  BY <1>6, <1>7, LookEffect DEF GoesOn
<1>9. \A r \in Requests :
        Begin(r) \/ StepFails(r) \/ Commit(r) \/ CommitFails(r) \/ End(r) \/ Leave(r)
          => UNCHANGED disk
  BY <1>6 DEF Begin, StepFails, Commit, CommitFails, End, Leave
<1>10. CleanStep \/ UNCHANGED vars => UNCHANGED disk
  BY DEF CleanStep, CleanQuery, Assess, CleanNext, vars
<1>11. ASSUME NEW r \in Requests, RemoveFails(r) \/ RestoreFails(r) PROVE FileEffect(f)
  <2>1. ASSUME NEW kept, dirs[r] # <<>>,
               disk' = [g \in Files |-> IF g \in PreviewsOf(Head(dirs[r]))
                          THEN disk[g] \ (InMarked \ kept[g]) ELSE disk[g]]
        PROVE  FileEffect(f)
    <3>1. Head(dirs[r]) \in Scenes
      BY <1>0, <2>1, TailElements
    <3> QED
      BY <1>0, <2>1, <3>1, FoldersApart
  <2> QED
    BY <1>1, <1>11, <2>1 DEF RemoveFails, RestoreFails, PassOver
<1> QED
  BY <1>1, <1>2, <1>3, <1>4, <1>5, <1>7, <1>8, <1>9, <1>10, <1>11
  DEF Next, RequestStep, Crash

-----------------------------------------------------------------------------
(* Marked files.                                                           *)

\* A file stays listed until it is given back, removed, or stranded.
LEMMA StaysListed ==
  ASSUME Typed, [Next]_vars, NEW q \in Requests, NEW f \in Listed(q),
         "marked" \in disk'[f], f \notin stranded'
  PROVE  f \in Listed(q)'
<1>0. /\ disk \in [Files -> SUBSET Places]
      /\ files \in [Requests -> Seq(Files)] /\ dirs \in [Requests -> Seq(Scenes)]
      /\ f \in MarkedBy(q) /\ f \in Elements(files[q])
  BY TypedParts DEF MarkedBy, Listed, Elements
<1>1. CASE UNCHANGED files
  BY <1>1 DEF Listed
<1>2. CASE Restart
  BY <1>0, <1>2, RestartEffect DEF OfRequest, Listed
<1>3. ASSUME NEW r \in Requests, r # q, RequestStep(r), ~Restart PROVE f \in Listed(q)'
  BY <1>3, OthersAlone DEF OfRequest, Listed
<1>4. CASE PanicRequest(q)
  BY <1>0, <1>4 DEF PanicRequest, Forget
<1>5. CASE Look(q) /\ ~Restart
  BY <1>1, <1>4, <1>5, LookEffect DEF GoesOn, Fail, deleterVars
<1>6. CASE Step(q)
  <2>1. ASSUME NEW g \in Files, MarkFile(q, g) PROVE f \in Listed(q)'
    <3>1. CASE files' = [files EXCEPT ![q] = Append(@, g)]
      <4>1. files'[q] = Append(files[q], g)
        BY <1>0, <3>1
      <4>2. f \in Elements(Append(files[q], g))
        BY <1>0, AppendElements
      <4> QED
        BY <4>1, <4>2 DEF Listed, Elements
    <3> QED
      BY <1>1, <2>1, <3>1 DEF MarkFile
  <2> QED
    BY <1>1, <1>6, <2>1, StepEffect DEF deleterVars
<1>7. CASE Remove(q) \/ Restore(q)
  <2>1. CASE files[q] # <<>> /\ files' = [files EXCEPT ![q] = Tail(@)]
    <3>1. files'[q] = Tail(files[q]) /\ Head(files[q]) \in Files
            /\ Elements(files[q]) = {Head(files[q])} \cup Elements(Tail(files[q]))
      BY <1>0, <2>1, TailElements
    <3>2. f # Head(files[q])
      <4>1. SUFFICES ASSUME f = Head(files[q]) PROVE FALSE
        OBVIOUS
      <4>2. CASE Remove(q)
        BY <1>0, <2>1, <3>1, <4>1, <4>2 DEF Remove
      <4>3. CASE Restore(q)
        BY <1>0, <2>1, <3>1, <4>1, <4>3 DEF Restore, RestoreFile
      <4> QED
        BY <1>7, <4>2, <4>3
    <3> QED
      BY <1>0, <3>1, <3>2 DEF Listed, Elements
  <2> QED
    BY <1>1, <1>7, <2>1 DEF Remove, Restore
<1>8. CASE Begin(q) \/ StepFails(q) \/ Commit(q) \/ CommitFails(q) \/ End(q)
  BY <1>1, <1>8 DEF Begin, StepFails, Fail, Commit, CommitFails, End, requestVars, deleterVars
<1>9. CASE CleanStep \/ UNCHANGED vars \/ (\E r \in Requests : Leave(r))
             \/ (\E o, g : Generate(o, g))
  BY <1>1, <1>9 DEF CleanStep, CleanQuery, Assess, CleanNext, vars, Leave, Generate,
     requestVars, deleterVars
<1>10. CASE RemoveFails(q) \/ RestoreFails(q)
  <2>1. CASE stranded' = stranded \cup {Head(files[q])} /\ files' = [files EXCEPT ![q] = Tail(@)]
             /\ files[q] # <<>>
    <3>1. files'[q] = Tail(files[q])
            /\ Elements(files[q]) = {Head(files[q])} \cup Elements(Tail(files[q]))
      BY <1>0, <2>1, TailElements
    <3>2. f # Head(files[q])
      BY <2>1
    <3> QED
      BY <1>0, <3>1, <3>2 DEF Listed, Elements
  <2> QED
    BY <1>1, <1>10, <2>1 DEF RemoveFails, RestoreFails, PassOver
<1> QED
  BY <1>2, <1>3, <1>5, <1>6, <1>7, <1>8, <1>9, <1>10
  DEF Next, RequestStep, Crash

LEMMA StrandedGrows == ASSUME Typed, [Next]_vars PROVE stranded \subseteq stranded'
<1>1. \A R : Forget(R) => stranded \subseteq stranded'
  BY DEF Forget
<1>2. Restart => stranded \subseteq stranded'
  BY <1>1 DEF Restart
<1>3. \A r \in Requests : Look(r) => stranded \subseteq stranded'
  BY <1>1, <1>2, LookEffect DEF PanicRequest, Fail, GoesOn, historyVars
<1>4. \A r \in Requests : RemoveFails(r) \/ RestoreFails(r) => stranded \subseteq stranded'
  BY DEF RemoveFails, RestoreFails, PassOver
<1>5. \A r \in Requests :
        RequestStep(r) /\ ~(Look(r) \/ RemoveFails(r) \/ RestoreFails(r))
          => UNCHANGED stranded
  BY DEF RequestStep, Begin, Step, StepFails, Fail, Commit, CommitFails, Remove, Restore,
     End, historyVars
<1>6. CleanStep \/ UNCHANGED vars \/ (\E r \in Requests : Leave(r))
         \/ (\E o, f : Generate(o, f)) => UNCHANGED stranded
  BY DEF CleanStep, CleanQuery, Assess, CleanNext, vars, Leave, Generate, historyVars
<1> QED
  BY <1>2, <1>3, <1>4, <1>5, <1>6 DEF Next, Crash

LEMMA MarkedStep == Typed /\ MarkedOnlyInFlight /\ [Next]_vars => MarkedOnlyInFlight'
<1> SUFFICES ASSUME Typed, MarkedOnlyInFlight, [Next]_vars,
                    NEW f \in PlainFiles, f \notin stranded', "marked" \in disk'[f]
             PROVE  \E r \in Requests : f \in Listed(r)'
  BY DEF MarkedOnlyInFlight
<1>1. f \notin stranded
  BY StrandedGrows
<1>2. CASE "marked" \in disk[f]
  <2>1. PICK r \in Requests : f \in Listed(r)
    BY <1>1, <1>2 DEF MarkedOnlyInFlight
  <2> QED
    BY <2>1, StaysListed
<1>3. CASE "marked" \notin disk[f]
  BY <1>3, DiskEffect DEF FileEffect
<1> QED
  BY <1>2, <1>3

(***************************************************************************)
(* Deleter.Rollback and Deleter.Commit leave only marked what they cannot  *)
(* rename or remove: a file is called .delete only while a request is at   *)
(* work on it, unless its renaming back or its removal has failed, which   *)
(* is only logged, or a panic or a crash has come between                  *)
(* (pkg/file/delete.go:125-152).                                           *)
(***************************************************************************)
THEOREM OnlyFailuresStayMarked == Spec => []MarkedOnlyInFlight
<1>1. Init => MarkedOnlyInFlight
  BY DEF Init, MarkedOnlyInFlight, PlainFiles, Files
<1> QED
  BY <1>1, TypedInit, TypedStep, MarkedStep, PTL DEF Spec

-----------------------------------------------------------------------------
(***************************************************************************)
(* Files and rows.  While a request is at work, the rows of the files it   *)
(* has marked are deleted or will be; when it removes files, their rows    *)
(* are gone, or the commit failed unnoticed.                               *)
(***************************************************************************)
WorkedOn(r) ==
  phase[r] = "working" =>
    \A o \in Objects : Media(o) \in Listed(r) => o \in gone[r] \cup RowsIn(steps[r])

RemovedBy(r) ==
  phase[r] = "removing" =>
    \A o \in Objects : Media(o) \in Listed(r) => o \notin rows \/ o \in unsaved

FilesOf(r) == RowFollows(steps[r]) /\ WorkedOn(r) /\ RemovedBy(r)

FilesInv == (\A r \in Requests : FilesOf(r)) /\ MediaKept

\* Taking a step of a transaction.
LEMMA TailFollows ==
  ASSUME NEW q \in Seq(StepKinds), q # <<>>, RowFollows(q)
  PROVE  /\ RowFollows(Tail(q))
         /\ RowsIn(Tail(q)) \subseteq RowsIn(q)
         /\ \A o \in RowsIn(q) : Head(q) = Row(o) \/ o \in RowsIn(Tail(q))
         /\ \A o \in Objects : Head(q) = File(Media(o)) => o \in RowsIn(Tail(q))
<1>1. /\ Tail(q) \in Seq(StepKinds) /\ Len(q) \in Nat \ {0}
      /\ DOMAIN q = 1..Len(q) /\ DOMAIN Tail(q) = 1..(Len(q) - 1)
      /\ Head(q) = q[1] /\ \A k \in 1..(Len(q) - 1) : Tail(q)[k] = q[k + 1]
  BY TailElements
<1>2. \A k \in DOMAIN q : k # 1 => k - 1 \in DOMAIN Tail(q) /\ Tail(q)[k - 1] = q[k]
  BY <1>1
<1>3. \A k \in DOMAIN Tail(q) : k + 1 \in DOMAIN q /\ Tail(q)[k] = q[k + 1] /\ k \in Nat
  BY <1>1
<1>4. RowFollows(Tail(q))
  <2> SUFFICES ASSUME NEW k \in DOMAIN Tail(q), NEW o \in Objects, Tail(q)[k] = File(Media(o))
               PROVE  \E l \in DOMAIN Tail(q) : l > k /\ Tail(q)[l] = Row(o)
    BY DEF RowFollows
  <2>1. PICK l \in DOMAIN q : l > k + 1 /\ q[l] = Row(o)
    BY <1>3 DEF RowFollows
  <2>2. l - 1 \in DOMAIN Tail(q) /\ Tail(q)[l - 1] = Row(o) /\ l - 1 > k
    BY <1>1, <1>2, <1>3, <2>1
  <2> QED
    BY <2>2
<1>5. RowsIn(Tail(q)) \subseteq RowsIn(q)
  BY <1>3 DEF RowsIn
<1>6. \A o \in RowsIn(q) : Head(q) = Row(o) \/ o \in RowsIn(Tail(q))
  BY <1>1, <1>2 DEF RowsIn
<1>7. ASSUME NEW o \in Objects, Head(q) = File(Media(o)) PROVE o \in RowsIn(Tail(q))
  <2>1. 1 \in DOMAIN q
    BY <1>1
  <2>2. PICK l \in DOMAIN q : l > 1 /\ q[l] = Row(o)
    BY <1>1, <1>7, <2>1 DEF RowFollows
  <2>3. l - 1 \in DOMAIN Tail(q) /\ Tail(q)[l - 1] = Row(o)
    BY <1>1, <1>2, <2>2
  <2> QED
    BY <2>3 DEF RowsIn
<1> QED
  BY <1>4, <1>5, <1>6, <1>7

\* Rows go and never come; only they and the lost commits are data.
LEMMA RowsShrink ==
  ASSUME Typed, [Next]_vars
  PROVE  rows' \subseteq rows /\ unsaved \subseteq unsaved'
<1>1. \A r \in Requests : Look(r) => UNCHANGED <<rows, unsaved>>
  BY LookEffect
  DEF Restart, PanicRequest, Forget, Fail, GoesOn, dataVars, historyVars
<1>2. \A r \in Requests : Commit(r) \/ CommitFails(r) =>
        rows' \subseteq rows /\ unsaved \subseteq unsaved'
  BY DEF Commit, CommitFails, dataVars, historyVars
<1>3. \A r \in Requests :
        Begin(r) \/ Step(r) \/ StepFails(r) \/ Remove(r) \/ RemoveFails(r) \/ Restore(r)
          \/ RestoreFails(r) \/ End(r) \/ Leave(r)
          => UNCHANGED <<rows, unsaved>>
  BY DEF Begin, Step, StepFails, Fail, Remove, RemoveFails, Restore, RestoreFails, End, Leave,
     dataVars, historyVars
<1>4. CleanStep \/ Crash \/ UNCHANGED vars \/ (\E o, f : Generate(o, f))
        => UNCHANGED <<rows, unsaved>>
  BY DEF CleanStep, CleanQuery, Assess, CleanNext, Crash, Restart, Forget, Generate, vars,
     dataVars, historyVars
<1> QED
  BY <1>1, <1>2, <1>3, <1>4 DEF Next, RequestStep

\* A request in whose own state nothing changes.
LEMMA FilesOfOthers ==
  ASSUME Typed, [Next]_vars, NEW q \in Requests, FilesOf(q), UNCHANGED OfRequest(q)
  PROVE  FilesOf(q)'
<1>1. /\ phase'[q] = phase[q] /\ steps'[q] = steps[q] /\ gone'[q] = gone[q]
      /\ Listed(q)' = Listed(q)
  BY DEF OfRequest, Listed
<1>2. rows' \subseteq rows /\ unsaved \subseteq unsaved'
  BY RowsShrink
<1> QED
  BY <1>1, <1>2 DEF FilesOf, WorkedOn, RemovedBy, RowFollows, RowsIn

\* A request that is neither at work nor removing files.
LEMMA FilesOfIdle ==
  ASSUME NEW r, steps'[r] = <<>>, phase'[r] \notin {"working", "removing"}
  PROVE  FilesOf(r)'
BY DEF FilesOf, WorkedOn, RemovedBy, RowFollows

\* A step of the transaction itself.
LEMMA FilesOfStep ==
  ASSUME Typed, NEW r \in Requests, FilesOf(r), Step(r)
  PROVE  FilesOf(r)'
<1>1. /\ steps[r] \in Seq(StepKinds) /\ steps[r] # <<>> /\ steps'[r] = Tail(steps[r])
      /\ phase[r] = "working" /\ phase'[r] = "working"
      /\ gone \in [Requests -> SUBSET Objects] /\ files \in [Requests -> Seq(Files)]
  BY TypedParts DEF Step
<1> DEFINE q == steps[r]
<1>2. /\ RowFollows(Tail(q)) /\ RowsIn(Tail(q)) \subseteq RowsIn(q)
      /\ \A o \in RowsIn(q) : Head(q) = Row(o) \/ o \in RowsIn(Tail(q))
      /\ \A o \in Objects : Head(q) = File(Media(o)) => o \in RowsIn(Tail(q))
  BY <1>1, TailFollows DEF FilesOf
<1>3. RowFollows(steps[r])' /\ RowsIn(steps[r])' = RowsIn(Tail(q))
  BY <1>1, <1>2 DEF RowFollows, RowsIn
<1>4. RemovedBy(r)'
  BY <1>1 DEF RemovedBy
<1>5. ASSUME NEW o \in Objects, Media(o) \in Listed(r)'
      PROVE  o \in gone'[r] \cup RowsIn(Tail(q))
  <2>1. Media(o) \in Listed(r) => o \in gone[r] \cup RowsIn(q)
    BY <1>1 DEF FilesOf, WorkedOn
  <2>2. ASSUME NEW p \in Objects, Takes(r, Row(p)), gone' = [gone EXCEPT ![r] = @ \cup {p}],
               UNCHANGED <<disk, deleterVars, moved>>
        PROVE  o \in gone'[r] \cup RowsIn(Tail(q))
    <3>1. Media(o) \in Listed(r) /\ Head(q) = Row(p) /\ gone'[r] = gone[r] \cup {p}
      BY <1>1, <1>5, <2>2 DEF Takes, deleterVars, Listed
    <3> QED
      BY <1>2, <2>1, <3>1, Tokens
  <2>3. ASSUME NEW m, NEW n, Takes(r, Move(m, n)), UNCHANGED <<disk, deleterVars, gone>>
        PROVE  o \in gone'[r] \cup RowsIn(Tail(q))
    <3>1. Media(o) \in Listed(r) /\ Head(q) = Move(m, n) /\ gone' = gone
      BY <1>5, <2>3 DEF Takes, deleterVars, Listed
    <3> QED
      BY <1>2, <2>1, <3>1, Tokens
  <2>4. ASSUME NEW f \in Files, Takes(r, File(f)), MarkFile(r, f), UNCHANGED <<dirs, gone, moved>>
        PROVE  o \in gone'[r] \cup RowsIn(Tail(q))
    <3>1. Head(q) = File(f) /\ gone' = gone
      BY <2>4 DEF Takes
    <3>2. files'[r] = files[r] \/ files'[r] = Append(files[r], f)
      BY <1>1, <2>4 DEF MarkFile
    <3>a. Media(o) \in Elements(files'[r])
      BY <1>5 DEF Listed, Elements
    <3>b. files[r] \in Seq(Files)
      BY <1>1
    <3>c. Elements(Append(files[r], f)) = Elements(files[r]) \cup {f}
      BY <3>b, AppendElements
    <3>3. Media(o) \in Elements(files[r]) \cup {f}
      BY <3>a, <3>c, <3>2
    <3>4. CASE Media(o) = f
      BY <1>2, <3>1, <3>4
    <3>5. CASE Media(o) \in Listed(r)
      BY <1>2, <2>1, <3>1, <3>5, Tokens
    <3> QED
      BY <3>3, <3>4, <3>5 DEF Listed, Elements
  <2>5. ASSUME NEW s, Takes(r, Dir(s)), UNCHANGED <<files, gone, moved>>
        PROVE  o \in gone'[r] \cup RowsIn(Tail(q))
    <3>1. Media(o) \in Listed(r) /\ Head(q) = Dir(s) /\ gone' = gone
      BY <1>5, <2>5 DEF Takes, Listed
    <3> QED
      BY <1>2, <2>1, <3>1, Tokens
  <2> QED
    BY <2>2, <2>3, <2>4, <2>5, StepEffect
<1>6. WorkedOn(r)'
  BY <1>3, <1>5 DEF WorkedOn
<1> QED
  BY <1>3, <1>4, <1>6 DEF FilesOf

LEMMA FilesOfRequest ==
  ASSUME Typed, TxnInv, NEW r \in Requests, FilesOf(r), RequestStep(r), ~Restart
  PROVE  FilesOf(r)'
<1>0. /\ phase \in [Requests -> {"waiting", "working", "removing", "restoring", "over"}]
      /\ todo \in [Requests -> Seq(Dooms)] /\ steps \in [Requests -> Seq(StepKinds)]
      /\ files \in [Requests -> Seq(Files)] /\ gone \in [Requests -> SUBSET Objects]
  BY TypedParts
<1>1. CASE Fail(r) \/ PanicRequest(r)
  <2>1. steps'[r] = <<>> /\ phase'[r] \in {"restoring", "over"}
    BY <1>0, <1>1 DEF Fail, PanicRequest, Forget
  <2> QED
    BY <2>1, FilesOfIdle
<1>2. ASSUME NEW o, NEW t, NEW q, GoesOn(r, o, t, q) PROVE FilesOf(r)'
  <2>1. /\ steps[r] = <<>> /\ steps'[r] = q /\ RowFollows(q)
        /\ UNCHANGED <<phase, gone, rows, unsaved, files>>
    BY <1>0, <1>2 DEF GoesOn, dataVars, deleterVars, historyVars
  <2>2. RowsIn(steps[r]) = {} /\ Listed(r)' = Listed(r)
    BY <2>1 DEF RowsIn, Listed
  <2> QED
    BY <2>1, <2>2 DEF FilesOf, WorkedOn, RemovedBy, RowFollows
<1>3. CASE Look(r)
  BY <1>1, <1>2, <1>3, LookEffect
<1>4. CASE StepFails(r)
  BY <1>1, <1>4 DEF StepFails
<1>5. CASE Begin(r)
  <2>1. Listed(r)' = {} /\ steps'[r] = <<>> /\ phase'[r] # "removing"
    BY <1>0, <1>5 DEF Begin, TxnInv, NothingPending, Listed, requestVars, deleterVars
  <2> QED
    BY <2>1 DEF FilesOf, WorkedOn, RemovedBy, RowFollows
<1>6. CASE Commit(r) \/ CommitFails(r)
  <2>1. /\ phase[r] = "working" /\ phase'[r] = "removing"
        /\ steps[r] = <<>> /\ steps'[r] = <<>> /\ Listed(r)' = Listed(r)
        /\ rows' = rows \ gone[r] \/ unsaved' = unsaved \cup gone[r]
    BY <1>0, <1>6 DEF Commit, CommitFails, Done, requestVars, deleterVars, Listed
  <2>2. RowsIn(steps[r]) = {}
    BY <2>1 DEF RowsIn
  <2>3. \A o \in Objects : Media(o) \in Listed(r)' => o \notin rows' \/ o \in unsaved'
    BY <2>1, <2>2 DEF FilesOf, WorkedOn
  <2> QED
    BY <2>1, <2>3 DEF FilesOf, WorkedOn, RemovedBy, RowFollows
<1>7. CASE Remove(r) \/ RemoveFails(r)
  <2>1. /\ phase[r] = "removing" /\ UNCHANGED <<rows, unsaved, phase, steps>>
        /\ files'[r] = files[r] \/ (files[r] # <<>> /\ files'[r] = Tail(files[r]))
    BY <1>0, <1>7 DEF Remove, RemoveFails, PassOver, dataVars, historyVars
  <2>a. Listed(r) = Elements(files[r]) /\ Listed(r)' = Elements(files'[r])
    BY DEF Listed, Elements
  <2>b. files[r] \in Seq(Files)
    BY <1>0
  <2>c. files[r] # <<>> => Elements(Tail(files[r])) \subseteq Elements(files[r])
    BY <2>b, TailElements
  <2>2. Listed(r)' \subseteq Listed(r)
    BY <2>1, <2>a, <2>c
  <2> QED
    BY <2>1, <2>2 DEF FilesOf, WorkedOn, RemovedBy, RowFollows
<1>8. CASE Restore(r) \/ RestoreFails(r) \/ End(r)
  <2>1. phase[r] # "working" /\ steps' = steps /\ phase'[r] \in {"restoring", "over"}
    BY <1>0, <1>8 DEF Restore, RestoreFails, End
  <2>2. steps'[r] = <<>>
    BY <2>1 DEF TxnInv, NothingPending
  <2> QED
    BY <2>1, <2>2, FilesOfIdle
<1> QED
  BY <1>3, <1>4, <1>5, <1>6, <1>7, <1>8, FilesOfStep DEF RequestStep

LEMMA FilesInvInit == Init => FilesInv
<1> SUFFICES ASSUME Init PROVE FilesInv
  OBVIOUS
<1>1. \A r \in Requests : FilesOf(r)
  BY DEF Init, FilesOf, WorkedOn, RemovedBy, RowFollows
<1>2. ASSUME NEW o \in rows \ (unsaved \cup NotThere), Media(o) \in Files
      PROVE  disk[Media(o)] # {}
  <2>1. Media(o) \notin {Media(p) : p \in NotThere}
    BY <1>2, FileNames
  <2> QED
    BY <1>2, <2>1 DEF Init
<1> QED
  BY <1>1, <1>2 DEF FilesInv, MediaKept

\* The step that removes a file removes that of a row that is gone.
LEMMA MediaStep == Typed /\ FilesInv /\ [Next]_vars => MediaKept'
<1> SUFFICES ASSUME Typed, FilesInv, [Next]_vars,
                    NEW o \in rows' \ (unsaved' \cup NotThere), Media(o) \in Files
             PROVE  disk'[Media(o)] # {}
  BY DEF MediaKept
<1>1. o \in rows \ unsaved /\ o \in Objects
  BY RowsShrink, TypedParts
<1>2. Media(o) \in PlainFiles
  BY FileNames DEF Files, PreviewsOf
<1>3. disk[Media(o)] # {}
  BY <1>1 DEF FilesInv, MediaKept
<1>4. ASSUME NEW r \in Requests, phase[r] = "removing", files[r] # <<>>,
             Media(o) = Head(files[r])
      PROVE  FALSE
  <2>1. Media(o) \in Listed(r)
    BY <1>4, TailElements, TypedParts DEF Listed, Elements
  <2> QED
    BY <1>1, <1>4, <2>1 DEF FilesInv, FilesOf, RemovedBy
<1> QED
  BY <1>2, <1>3, <1>4, DiskEffect DEF FileEffect

LEMMA FilesInvStep == Typed /\ TxnInv /\ FilesInv /\ [Next]_vars => FilesInv'
<1> SUFFICES ASSUME Typed, TxnInv, FilesInv, [Next]_vars PROVE FilesInv'
  OBVIOUS
<1>1. ASSUME NEW q \in Requests PROVE FilesOf(q)'
  <2>0. FilesOf(q)
    BY DEF FilesInv
  <2>1. CASE UNCHANGED OfRequest(q)
    BY <2>0, <2>1, FilesOfOthers
  <2>2. CASE Restart
    <3>1. CASE phase'[q] = "over" /\ steps'[q] = <<>>
      BY <3>1, FilesOfIdle
    <3> QED
      BY <2>1, <2>2, <3>1, RestartEffect
  <2>3. ASSUME NEW r \in Requests, RequestStep(r), ~Restart PROVE FilesOf(q)'
    BY <2>0, <2>1, <2>3, OthersAlone, FilesOfRequest
  <2>4. CASE CleanNext
    <3>1. /\ phase \in [Requests -> {"waiting", "working", "removing", "restoring", "over"}]
          /\ todo \in [Requests -> Seq(Dooms)] /\ phase[Cleaner] = "over"
      BY <2>4, TypedParts DEF CleanNext, CleanerFree
    <3>2. CASE q # Cleaner
      BY <2>1, <2>4, <3>1, <3>2 DEF CleanNext, OfRequest, deleterVars
    <3>3. CASE q = Cleaner
      <4>1. steps'[q] = <<>> /\ phase'[q] = "waiting"
        BY <2>4, <3>1, <3>3 DEF CleanNext, TxnInv, NothingPending
      <4> QED
        BY <4>1, FilesOfIdle
    <3> QED
      BY <3>2, <3>3
  <2>5. CASE CleanQuery \/ Assess \/ UNCHANGED vars \/ (\E r \in Requests : Leave(r))
               \/ (\E o, f : Generate(o, f))
    BY <2>1, <2>5 DEF CleanQuery, Assess, vars, Leave, Generate, OfRequest, requestVars,
       deleterVars
  <2> QED
    BY <2>2, <2>3, <2>4, <2>5 DEF Next, CleanStep, Crash
<1> QED
  BY <1>1, MediaStep DEF FilesInv

LEMMA FilesInvariance == Spec => [](Typed /\ TxnInv /\ FilesInv)
BY TypedInit, TypedStep, TxnInvInit, TxnInvStep, FilesInvInit, FilesInvStep, PTL DEF Spec

(***************************************************************************)
(* The write lock admits one transaction at a time, whoever leaves, fails, *)
(* panics or is killed (pkg/sqlite/transaction.go:27-73).                  *)
(***************************************************************************)
THEOREM OneTransaction == Spec => []OneWriter
<1>1. TxnInv => OneWriter
  BY DEF TxnInv
<1> QED
  BY <1>1, FilesInvariance, PTL

(***************************************************************************)
(* No deletion takes the file of something that stays in the library       *)
(* (pkg/file/delete.go:45-52).                                             *)
(***************************************************************************)
THEOREM MediaStays == Spec => []MediaKept
<1>1. FilesInv => MediaKept
  BY DEF FilesInv
<1> QED
  BY <1>1, FilesInvariance, PTL

(***************************************************************************)
(* What a request deletes with galleries: what it has deleted, is about to *)
(* delete, or has still to look at.  Every image of these goes with a zip  *)
(* of these, or else with every gallery that holds it.  Other requests     *)
(* delete nothing meanwhile, since there is one writer.                    *)
(***************************************************************************)
Pending(r) == gone[r] \cup RowsIn(steps[r]) \cup ObjectsOf(todo[r])

OfGalleries(r) == r # Cleaner /\ asked[r].kind = "GalleryDestroy"

GoesWithHolders(R, S, i) ==
  \/ \E z \in Zips \cap R \cap S : i \in Attached[z]
  \/ \A g \in R \cap Galleries : i \in Attached[g] => g \in S

PendingOf(r) ==
  OfGalleries(r) =>
    /\ phase[r] = "waiting" => Pending(r) \subseteq Galleries
    /\ phase[r] = "working" =>
         \A i \in Pending(r) \cap Images : GoesWithHolders(rows, Pending(r), i)

PendingInv == \A r \in Requests : PendingOf(r)

LEMMA AskedStays == ASSUME Typed, [Next]_vars PROVE asked' = asked
<1>1. \A r \in Requests : Look(r) => asked' = asked
  BY LookEffect DEF Restart, PanicRequest, Forget, Fail, GoesOn
<1>2. \A r \in Requests :
        Begin(r) \/ Step(r) \/ StepFails(r) \/ Commit(r) \/ CommitFails(r) \/ Remove(r)
          \/ RemoveFails(r) \/ Restore(r) \/ RestoreFails(r) \/ End(r) \/ Leave(r)
          => asked' = asked
  BY DEF Begin, Step, StepFails, Fail, Commit, CommitFails, Remove, RemoveFails, Restore,
     RestoreFails, End, Leave, requestVars
<1>3. CleanStep \/ Crash \/ UNCHANGED vars \/ (\E o, f : Generate(o, f)) => asked' = asked
  BY DEF CleanStep, CleanQuery, Assess, CleanNext, Crash, Restart, Forget, Generate, vars,
     requestVars
<1> QED
  BY <1>1, <1>2, <1>3 DEF Next, RequestStep

LEMMA PendingInit == Init => PendingInv
<1> SUFFICES ASSUME Init, NEW r \in Requests, OfGalleries(r)
             PROVE  /\ Pending(r) \subseteq Galleries /\ phase[r] = "waiting"
  BY DEF PendingInv, PendingOf
<1>1. PICK sc \in Scenarios :
        asked = [q \in Requests |-> IF q = Cleaner THEN Clean ELSE sc.asked[q]]
  BY DEF Init
<1>2. r \in Users /\ asked[r] = sc.asked[r] /\ asked[r].kind = "GalleryDestroy"
  BY <1>1 DEF OfGalleries, Requests
<1>3. \A k \in DOMAIN asked[r].ids : asked[r].ids[k] \in Galleries
  BY <1>1, <1>2, DeletionAssumption DEF Addressed
<1>4. todo[r] = [i \in DOMAIN asked[r].ids |-> Doom(asked[r].ids[i], asked[r].media)]
  BY DEF Init
<1>5. ObjectsOf(todo[r]) \subseteq Galleries
  BY <1>3, <1>4 DEF ObjectsOf, Doom
<1>6. gone[r] = {} /\ steps[r] = <<>> /\ phase[r] = "waiting"
  BY <1>2 DEF Init, OfGalleries
<1> QED
  BY <1>5, <1>6 DEF Pending, RowsIn

\* The other requests, while rows go.
LEMMA PendingOfOthers ==
  ASSUME Typed, [Next]_vars, NEW q \in Requests, PendingOf(q), UNCHANGED OfRequest(q),
         phase[q] = "working" => rows' = rows
  PROVE  PendingOf(q)'
<1>1. Pending(q)' = Pending(q) /\ phase'[q] = phase[q] /\ asked' = asked
  BY AskedStays DEF OfRequest, Pending, RowsIn, ObjectsOf
<1> QED
  BY <1>1 DEF PendingOf, OfGalleries, GoesWithHolders

\* The images of a gallery that is looked at.
LEMMA DoomedGoWithHolders ==
  ASSUME Typed, NEW r \in Requests, NEW o \in There(r), OfGalleries(r),
         NEW i \in Before(r, o) \cap Images, NEW S, gone[r] \cup {o} \subseteq S
  PROVE  GoesWithHolders(rows, S, i)
<1>1. o \in rows \ gone[r]
  BY DEF There
<1>2. o \notin Scenes
  BY DeletionAssumption DEF Before, MarkersOf
<1>3. o \in Galleries /\ i \in DoomedImages(r, o)
  BY <1>2 DEF Before
<1>4. CASE o \in Zips
  BY <1>1, <1>3, <1>4 DEF DoomedImages, GoesWithHolders
<1>5. CASE o \notin Zips
  <2>1. \A h \in There(r) \cap Galleries : i \in Attached[h] => h = o
    BY <1>3, <1>5 DEF DoomedImages
  <2> QED
    BY <2>1 DEF There, GoesWithHolders
<1> QED
  BY <1>4, <1>5

LEMMA PendingLook ==
  ASSUME Typed, NEW r \in Requests, PendingOf(r), OfGalleries(r), phase[r] = "working",
         NEW o, NEW t, NEW q, GoesOn(r, o, t, q)
  PROVE  PendingOf(r)'
<1>1. /\ todo \in [Requests -> Seq(Dooms)] /\ steps \in [Requests -> Seq(StepKinds)]
  BY TypedParts
<1>2. /\ steps[r] = <<>> /\ todo'[r] = t /\ steps'[r] = q
      /\ UNCHANGED <<rows, asked, phase, gone>>
  BY <1>1 DEF GoesOn, dataVars
<1>3. /\ Pending(r) = gone[r] \cup ObjectsOf(todo[r])
      /\ Pending(r)' = gone[r] \cup RowsIn(q) \cup ObjectsOf(t)
  BY <1>2 DEF Pending, RowsIn, ObjectsOf
<1>4. o \in There(r) /\ o \in ObjectsOf(todo[r])
  BY DEF GoesOn
<1>5. asked[r].kind # "SceneMarkerUpdate"
  BY DEF OfGalleries
<1>6. CASE ObjectsOf(t) = ObjectsOf(todo[r]) \cup Before(r, o) /\ RowsIn(q) = {}
  <2>1. Pending(r)' = Pending(r) \cup Before(r, o) /\ gone[r] \cup {o} \subseteq Pending(r)'
    BY <1>3, <1>4, <1>6
  <2>2. ASSUME NEW i \in Pending(r)' \cap Images PROVE GoesWithHolders(rows, Pending(r)', i)
    <3>1. CASE i \in Pending(r)
      BY <2>1, <2>2, <3>1 DEF PendingOf, GoesWithHolders
    <3>2. CASE i \in Before(r, o)
      BY <1>4, <2>1, <2>2, <3>2, DoomedGoWithHolders
    <3> QED
      BY <2>1, <2>2, <3>1, <3>2
  <2> QED
    BY <1>2, <2>2 DEF PendingOf, OfGalleries, GoesWithHolders
<1>7. CASE ObjectsOf(t) \cup {o} = ObjectsOf(todo[r]) /\ RowsIn(q) = {o}
  <2>1. Pending(r)' = Pending(r)
    BY <1>3, <1>7
  <2> QED
    BY <1>2, <2>1 DEF PendingOf, OfGalleries, GoesWithHolders
<1> QED
  BY <1>5, <1>6, <1>7 DEF GoesOn

LEMMA PendingStep ==
  ASSUME Typed, NEW r \in Requests, FilesOf(r), PendingOf(r), Step(r)
  PROVE  PendingOf(r)'
<1>1. /\ steps[r] \in Seq(StepKinds) /\ steps[r] # <<>> /\ steps'[r] = Tail(steps[r])
      /\ gone \in [Requests -> SUBSET Objects]
      /\ UNCHANGED <<rows, asked, phase, todo>>
  BY TypedParts DEF Step, dataVars
<1> DEFINE q == steps[r]
<1>2. /\ RowsIn(Tail(q)) \subseteq RowsIn(q)
      /\ \A o \in RowsIn(q) : Head(q) = Row(o) \/ o \in RowsIn(Tail(q))
  BY <1>1, TailFollows DEF FilesOf
<1>3. RowsIn(steps[r])' = RowsIn(Tail(q)) /\ ObjectsOf(todo[r])' = ObjectsOf(todo[r])
  BY <1>1 DEF RowsIn, ObjectsOf
<1>4. gone'[r] \cup RowsIn(Tail(q)) = gone[r] \cup RowsIn(q)
  <2>1. ASSUME NEW o \in Objects, Takes(r, Row(o)), gone' = [gone EXCEPT ![r] = @ \cup {o}]
        PROVE  gone'[r] \cup RowsIn(Tail(q)) = gone[r] \cup RowsIn(q)
    <3>1. Head(q) = Row(o) /\ gone'[r] = gone[r] \cup {o}
      BY <1>1, <2>1 DEF Takes
    <3>2. o \in RowsIn(q)
      <4>1. 1 \in DOMAIN q /\ q[1] = Row(o)
        BY <1>1, <3>1, TailElements
      <4> QED
        BY <4>1 DEF RowsIn
    <3>3. \A p \in RowsIn(q) : p = o \/ p \in RowsIn(Tail(q))
      BY <1>2, <3>1, Tokens
    <3> QED
      BY <1>2, <3>1, <3>2, <3>3
  <2>2. ASSUME \A o : Head(q) # Row(o), gone' = gone
        PROVE  gone'[r] \cup RowsIn(Tail(q)) = gone[r] \cup RowsIn(q)
    BY <1>2, <2>2
  <2> QED
    BY <2>1, <2>2, StepEffect, Tokens DEF Takes
<1>5. Pending(r)' = Pending(r)
  BY <1>3, <1>4 DEF Pending
<1> QED
  BY <1>1, <1>5 DEF PendingOf, OfGalleries, GoesWithHolders

LEMMA PendingOfRequest ==
  ASSUME Typed, TxnInv, NEW r \in Requests, FilesOf(r), PendingOf(r), RequestStep(r), ~Restart,
         [Next]_vars
  PROVE  PendingOf(r)'
<1>0. /\ phase \in [Requests -> {"waiting", "working", "removing", "restoring", "over"}]
      /\ asked' = asked
  BY TypedParts, AskedStays
<1>1. CASE phase'[r] \notin {"waiting", "working"}
  BY <1>1 DEF PendingOf
<1>2. CASE ~OfGalleries(r)
  BY <1>0, <1>2 DEF PendingOf, OfGalleries
<1>3. CASE phase'[r] \in {"waiting", "working"} /\ OfGalleries(r)
  <2>1. CASE Begin(r)
    <3>1. /\ phase[r] = "waiting" /\ phase'[r] # "waiting"
          /\ UNCHANGED <<todo, steps, gone>>
      BY <1>0, <2>1 DEF Begin, requestVars
    <3>2. Pending(r)' = Pending(r) /\ Pending(r) \subseteq Galleries
      BY <1>3, <3>1 DEF Pending, RowsIn, ObjectsOf, PendingOf
    <3> QED
      BY <3>1, <3>2, DeletionAssumption DEF PendingOf
  <2>2. CASE Look(r)
    <3>1. ASSUME NEW o, NEW t, NEW q, GoesOn(r, o, t, q) PROVE PendingOf(r)'
      <4>1. phase[r] = "working"
        BY <2>2 DEF Look
      <4> QED
        BY <1>3, <3>1, <4>1, PendingLook
    <3>2. ~Fail(r) /\ ~PanicRequest(r)
      BY <1>0, <1>3 DEF Fail, PanicRequest, Forget
    <3> QED
      BY <2>2, <3>1, <3>2, LookEffect
  <2>3. CASE Step(r)
    BY <2>3, PendingStep
  <2>4. ~(StepFails(r) \/ Commit(r) \/ CommitFails(r) \/ Remove(r) \/ RemoveFails(r)
            \/ Restore(r) \/ RestoreFails(r) \/ End(r))
    BY <1>0, <1>3 DEF StepFails, Fail, Commit, CommitFails, Remove, RemoveFails, Restore,
       RestoreFails, End
  <2> QED
    BY <2>1, <2>2, <2>3, <2>4 DEF RequestStep
<1> QED
  BY <1>1, <1>2, <1>3

\* Rows go when the one writer commits.
LEMMA WhoDeletes ==
  ASSUME Typed, TxnInv, [Next]_vars, rows' # rows
  PROVE  writer \in Requests /\ Commit(writer)
<1>1. \A r \in Requests : Look(r) => rows' = rows
  BY LookEffect DEF Restart, PanicRequest, Forget, Fail, GoesOn, dataVars
<1>2. \A r \in Requests :
        Begin(r) \/ Step(r) \/ StepFails(r) \/ CommitFails(r) \/ Remove(r)
          \/ RemoveFails(r) \/ Restore(r) \/ RestoreFails(r) \/ End(r) \/ Leave(r)
          => rows' = rows
  BY DEF Begin, Step, StepFails, Fail, CommitFails, Remove, RemoveFails, Restore,
     RestoreFails, End, Leave, dataVars
<1>3. CleanStep \/ Crash \/ UNCHANGED vars \/ (\E o, f : Generate(o, f)) => rows' = rows
  BY DEF CleanStep, CleanQuery, Assess, CleanNext, Crash, Restart, Forget, Generate, vars,
     dataVars
<1>4. PICK r \in Requests : Commit(r)
  BY <1>1, <1>2, <1>3 DEF Next, RequestStep
<1>5. writer = r
  BY <1>4 DEF Commit, Done, TxnInv, OneWriter
<1> QED
  BY <1>4, <1>5

LEMMA PendingInvStep == Typed /\ TxnInv /\ FilesInv /\ PendingInv /\ [Next]_vars => PendingInv'
<1> SUFFICES ASSUME Typed, TxnInv, FilesInv, PendingInv, [Next]_vars,
                    NEW q \in Requests
             PROVE  PendingOf(q)'
  BY DEF PendingInv
<1>0. PendingOf(q) /\ FilesOf(q)
  BY DEF PendingInv, FilesInv
<1>1. CASE UNCHANGED OfRequest(q)
  <2>1. ASSUME phase[q] = "working", rows' # rows PROVE FALSE
    <3>1. Commit(q)
      BY <2>1, WhoDeletes DEF TxnInv, OneWriter
    <3>2. phase'[q] = "removing"
      BY <3>1, TypedParts DEF Commit
    <3> QED
      BY <1>1, <2>1, <3>2 DEF OfRequest
  <2> QED
    BY <1>0, <1>1, <2>1, PendingOfOthers
<1>2. CASE Restart
  <2>1. CASE phase'[q] = "over"
    BY <2>1 DEF PendingOf
  <2> QED
    BY <1>1, <1>2, <2>1, RestartEffect
<1>3. ASSUME NEW r \in Requests, RequestStep(r), ~Restart PROVE PendingOf(q)'
  BY <1>0, <1>1, <1>3, OthersAlone, PendingOfRequest
<1>4. CASE CleanNext
  <2>1. /\ phase \in [Requests -> {"waiting", "working", "removing", "restoring", "over"}]
        /\ todo \in [Requests -> Seq(Dooms)]
    BY TypedParts
  <2>2. CASE q # Cleaner
    BY <1>1, <1>4, <2>1, <2>2 DEF CleanNext, OfRequest, deleterVars
  <2>3. CASE q = Cleaner
    BY <2>3 DEF PendingOf, OfGalleries
  <2> QED
    BY <2>2, <2>3
<1>5. CASE CleanQuery \/ Assess \/ UNCHANGED vars \/ (\E r \in Requests : Leave(r))
             \/ (\E o, f : Generate(o, f))
  BY <1>1, <1>5 DEF CleanQuery, Assess, vars, Leave, Generate, OfRequest, requestVars,
     deleterVars
<1> QED
  BY <1>2, <1>3, <1>4, <1>5 DEF Next, CleanStep, Crash

LEMMA SharedImagesStep ==
  ASSUME Typed, TxnInv, PendingInv, [Next]_vars,
         NEW i \in (rows \ rows') \cap Images,
         writer # Cleaner, asked[writer].kind = "GalleryDestroy"
  PROVE  \/ \E z \in (rows \ rows') \cap Zips : i \in Attached[z]
         \/ \A g \in rows' \cap Galleries : i \notin Attached[g]
<1>1. writer \in Requests /\ Commit(writer)
  BY WhoDeletes
<1>2. /\ OfGalleries(writer) /\ phase[writer] = "working" /\ PendingOf(writer)
      /\ steps[writer] = <<>> /\ todo[writer] = <<>> /\ rows' = rows \ gone[writer]
  BY <1>1 DEF OfGalleries, PendingInv, Commit, Done
<1>3. Pending(writer) = gone[writer]
  BY <1>2 DEF Pending, RowsIn, ObjectsOf
<1>4. i \in gone[writer] \cap Images
  BY <1>2
<1>5. GoesWithHolders(rows, gone[writer], i)
  BY <1>2, <1>3, <1>4 DEF PendingOf
<1> QED
  BY <1>2, <1>5 DEF GoesWithHolders

(***************************************************************************)
(* Deleting folder galleries takes along only images that no other gallery *)
(* holds (internal/api/resolver_mutation_gallery.go:450).                  *)
(***************************************************************************)
THEOREM SharedImagesSurvive == Spec => SharedImagesStay
<1>1. Spec => [](Typed /\ TxnInv /\ FilesInv /\ PendingInv)
  BY TypedInit, TypedStep, TxnInvInit, TxnInvStep, FilesInvInit, FilesInvStep, PendingInit,
     PendingInvStep, PTL DEF Spec
<1>2. Typed /\ TxnInv /\ FilesInv /\ PendingInv /\ [Next]_vars =>
        [\A i \in (rows \ rows') \cap Images :
           writer # Cleaner /\ asked[writer].kind = "GalleryDestroy" =>
             \/ \E z \in (rows \ rows') \cap Zips : i \in Attached[z]
             \/ \A g \in rows' \cap Galleries : i \notin Attached[g]]_vars
  BY SharedImagesStep
<1> QED
  BY <1>1, <1>2, PTL DEF Spec, SharedImagesStay
=============================================================================
