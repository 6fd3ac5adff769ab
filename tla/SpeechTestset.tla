---------------------------- MODULE SpeechTestset ----------------------------
(***************************************************************************)
(* The speech test set of ml/speech/testset.py and its synthesizers: the   *)
(* reference recordings, one clip per row, the degraded variants of the    *)
(* subset's base clips, and the manifest, in a directory where every step  *)
(* passes over the files that are there.  A build may be killed or fail    *)
(* anywhere, within a write too, and is run again.                         *)
(*                                                                         *)
(* A file is a path and its content; a content says all it was made from,  *)
(* so that two contents are equal when the audio is.                       *)
(***************************************************************************)
EXTENDS Naturals, FiniteSets

CONSTANTS
  Queries,          \* numbers, in the order of queries.jsonl
  LanguageOf,       \* the language of every query, "en" unless the config says other
  VoiceOf,          \* the voice of every language
  Accents,          \* the other English voices
  SubsetSize, ConversationalSize,
  Noises,           \* the conditions other than babble, and the speeds
  MaxStops          \* bound on the builds that stop half-way

SpeechAssumption == Queries \subseteq Nat

VARIABLES
  synthesizer,             \* "chatterbox" or "elevenlabs"
  subset, conversational,  \* the samples the seed draws
  files,                   \* path -> content
  manifest,                \* the rows of manifest.jsonl, FALSE before there are any
  stage,                   \* where the build is
  todo,                    \* the paths this stage has left to write
  stops

vars == <<synthesizer, subset, conversational, files, manifest, stage, todo, stops>>

Empty == [is |-> "empty"]
Cut(content) == [is |-> "cut", of |-> content]

Voices == Accents \cup {VoiceOf[LanguageOf[q]] : q \in Queries}
English == {q \in Queries : LanguageOf[q] = "en"}

\* stratified_subset, for one type of query.
Samples(n) ==
  {S \in SUBSET English : Cardinality(S) = IF n < Cardinality(English) THEN n ELSE Cardinality(English)}

Init ==
  /\ synthesizer \in {"chatterbox", "elevenlabs"}
  /\ subset \in Samples(SubsetSize) /\ conversational \in Samples(ConversationalSize)
  /\ files = <<>> /\ manifest = FALSE
  /\ stage = "idle" /\ todo = {} /\ stops = 0

----------------------------------------------------------------------------
(***************************************************************************)
(* Rows and their paths.  What is spoken is the query inside the carrier,  *)
(* or inside the template that a draw picks, one draw per conversational   *)
(* query.                                                                  *)
(***************************************************************************)
Clip(q, phrasing, voice) == <<"clip", q, phrasing, voice>>

Base(q) == Clip(q, "terse", VoiceOf[LanguageOf[q]])

\* The paths of the rows.
Rows ==
  {Base(q) : q \in Queries}
  \cup {Clip(q, "terse", accent) : q \in subset, accent \in Accents}
  \cup {Clip(q, "conversational", VoiceOf[LanguageOf[q]]) : q \in conversational}

Template(path) ==
  IF path[3] = "terse" THEN 0
  ELSE Cardinality({q \in conversational : q <= path[2]})

Text(path) == [template |-> Template(path), query |-> path[2]]

Derived == {<<"derived", q, by>> : q \in subset, by \in Noises \cup {"babble"}}

\* Only Chatterbox clones voices from recordings.
References == {<<"reference", v>> : v \in {v \in Voices : synthesizer = "chatterbox"}}

Missing(paths) == paths \ DOMAIN files

----------------------------------------------------------------------------
(***************************************************************************)
(* What a step writes to a path.                                           *)
(***************************************************************************)
\* Faulty variant: one stream of random numbers for all that is made.
SeedByPosition(path) == <<Cardinality(todo)>>

SeedOf(path) == path

Reference(path) == [is |-> "reference", voice |-> path[2]]

Speech(path) ==
  [is |-> "speech", text |-> Text(path), seed |-> SeedOf(path),
   voice |-> IF synthesizer = "chatterbox" THEN files[<<"reference", path[4]>>] ELSE path[4]]

Degraded(path) ==
  [is |-> "degraded", by |-> path[3], from |-> files[Base(path[2])], seed |-> SeedOf(path),
   others |-> IF path[3] = "babble" THEN {files[Base(q)] : q \in subset \ {path[2]}} ELSE {}]

Content(path) ==
  CASE path[1] = "reference" -> Reference(path)
    [] path[1] = "clip" -> Speech(path)
    [] path[1] = "derived" -> Degraded(path)

----------------------------------------------------------------------------
(***************************************************************************)
(* The build.                                                              *)
(***************************************************************************)
Go(to, paths) == stage' = to /\ todo' = Missing(paths)

Start ==
  /\ stage = "idle"
  /\ Go("references", References)
  /\ UNCHANGED <<synthesizer, subset, conversational, files, manifest, stops>>

\* A voice can only be cloned from a recording that can be decoded.
Possible(path) ==
  path[1] = "clip" /\ synthesizer = "chatterbox" => files[<<"reference", path[4]>>] # Empty

\* The files of a stage are written in some order, which none depends on.
NextOf(paths) == CHOOSE path \in paths : TRUE

Put(path, content) ==
  files' = [p \in DOMAIN files \cup {path} |-> IF p = path THEN content ELSE files[p]]

Write ==
  /\ todo # {}
  /\ LET path == NextOf(todo)
     IN /\ Possible(path)
        /\ Put(path, Content(path))
        /\ todo' = todo \ {path}
  /\ UNCHANGED <<synthesizer, subset, conversational, manifest, stage, stops>>

WriteJobs ==
  /\ stage = "references" /\ todo = {}
  /\ Go("clips", Rows) \/ Go("clips", {})  \* --no-synthesize
  /\ UNCHANGED <<synthesizer, subset, conversational, files, manifest, stops>>

AllReadable(paths) == \A path \in paths : path \in DOMAIN files /\ files[path] # Empty

\* Every row has its file, and the base clips are read.
Derive ==
  /\ stage = "clips" /\ todo = {}
  /\ Missing(Rows) = {} /\ AllReadable({Base(q) : q \in Queries})
  /\ Go("derived", Derived)
  /\ UNCHANGED <<synthesizer, subset, conversational, files, manifest, stops>>

\* Every clip is read for its length, and the manifest is written.
WriteManifest ==
  /\ stage = "derived" /\ todo = {} /\ AllReadable(Rows \cup Derived)
  /\ manifest' = TRUE /\ stage' = "idle"
  /\ UNCHANGED <<synthesizer, subset, conversational, files, todo, stops>>

\* A file is missing or cannot be read.
Raise ==
  /\ \/ todo # {} /\ ~Possible(NextOf(todo))
     \/ /\ todo = {}
        /\ \/ stage = "clips" /\ ~AllReadable({Base(q) : q \in Queries})
           \/ stage = "clips" /\ Missing(Rows) # {}
           \/ stage = "derived" /\ ~AllReadable(Rows \cup Derived)
  /\ stage' = "idle" /\ todo' = {}
  /\ UNCHANGED <<synthesizer, subset, conversational, files, manifest, stops>>

----------------------------------------------------------------------------
(***************************************************************************)
(* What happens to a build and its directory.                              *)
(***************************************************************************)
\* A build stops, by a kill, a full disk or a synthesizer that answers an
\* error, before a file, or within one.
Stop ==
  /\ stage # "idle" /\ stops < MaxStops /\ stops' = stops + 1
  /\ stage' = "idle" /\ todo' = {}
  /\ \/ UNCHANGED files
     \/ /\ todo # {} /\ Possible(NextOf(todo))
        /\ \E left \in {Empty, Cut(Content(NextOf(todo)))} : Put(NextOf(todo), left)
  /\ UNCHANGED <<synthesizer, subset, conversational, manifest>>

\* A person removes a file that the build refuses.
Discard ==
  /\ stage = "idle"
  /\ \E path \in {p \in DOMAIN files : files[p] = Empty} :
       files' = [p \in DOMAIN files \ {path} |-> files[p]]
  /\ UNCHANGED <<synthesizer, subset, conversational, manifest, stage, todo, stops>>

Next == Start \/ Write \/ WriteJobs \/ Derive \/ WriteManifest \/ Raise \/ Stop \/ Discard

Spec == Init /\ [][Next]_vars

----------------------------------------------------------------------------
(***************************************************************************)
(* Properties.                                                             *)
(***************************************************************************)
\* What one build without interruption makes.
MadeClip(path) ==
  [is |-> "speech", seed |-> path,
   voice |-> IF synthesizer = "chatterbox" THEN [is |-> "reference", voice |-> path[4]] ELSE path[4],
   text |-> [query |-> path[2],
             template |-> IF path[3] = "terse" THEN 0
                          ELSE Cardinality({q \in conversational : q <= path[2]})]]

Made(path) ==
  IF path[1] = "clip" THEN MadeClip(path)
  ELSE [is |-> "degraded", by |-> path[3], from |-> MadeClip(Base(path[2])), seed |-> path,
        others |-> {MadeClip(Base(q)) : q \in {q \in subset \ {path[2]} : path[3] = "babble"}}]

\* "Everything is reproducible from the config's seed": however often the build
\* stopped and was run again, the clips of a manifest are the ones that one build
\* without interruption makes, unless a write left a part that still decodes.
SameSet ==
  manifest /\ (\A path \in DOMAIN files : files[path].is # "cut") =>
    \A path \in Rows \cup Derived : files[path] = Made(path)

=============================================================================
