-------------------------------- MODULE Speech --------------------------------
(***************************************************************************)
(* What becomes of the words of a voice note: the dialect is detected in   *)
(* what Whisper heard, then the text is normalised for that dialect.       *)
(*                                                                         *)
(* A text is a sequence of words.  A word is <<kind, d, i>>: "marker" is   *)
(* the i-th marker of the d-th dialect of the language, "form" a spelling  *)
(* of it that the dialect's vocabulary knows, "longer" another word with   *)
(* that spelling inside, "mangled" one that the vocabulary rewrote inside; *)
(* the other kinds have zeros.  The 0-th marker is a word of the dialect   *)
(* that is in its vocabulary and not a marker.  The weights are the        *)
(* program's, in tenths.                                                   *)
(***************************************************************************)
EXTENDS Integers, Sequences

Word(kind) == <<kind, 0, 0>>
Marker(d, i) == <<"marker", d, i>>
Form(d, i) == <<"form", d, i>>
Longer(d, i) == <<"longer", d, i>>
Mangled(d, i) == <<"mangled", d, i>>

-----------------------------------------------------------------------------
(* DialectDetector.                                                        *)

\* thrissur, malabar, palakkad, travancore, kochi
Malayalam ==
  <<<<10, 10, 8, 9, 9, 8, 8, 7, 8, 7, 5>>, <<15, 15, 15, 12, 12, 10, 10, 10, 10, 8, 8>>,
    <<15, 10, 10, 8, 9, 8, 6, 5>>, <<15, 12, 10, 8, 10, 7, 8, 6>>,
    <<15, 12, 15, 10, 8, 7, 6, 8>>>>

\* chennai, madurai, coimbatore
Tamil ==
  <<<<15, 12, 10, 12, 10, 10, 8, 7, 7, 9>>, <<15, 10, 10, 12, 10, 6, 12, 10>>,
    <<15, 12, 10, 10, 9, 9, 12>>>>

\* telangana, coastal_andhra, rayalaseema, hyderabad_urban
Telugu ==
  <<<<15, 12, 12, 10, 10, 10, 12, 10, 9, 8, 8>>, <<10, 10, 9, 8, 7, 8, 7, 6, 6>>,
    <<12, 10, 12, 7, 9, 8, 8, 7>>, <<15, 15, 12, 10, 10, 7, 5, 8, 12>>>>

\* bangalore, mysore, north_karnataka, coastal_karnataka
Kannada ==
  <<<<15, 12, 10, 9, 8, 8, 7, 9, 8>>, <<8, 10, 9, 8, 12, 12, 7, 5, 6>>,
    <<15, 12, 12, 10, 9, 10, 10, 10, 9>>, <<12, 15, 10, 12, 12, 10, 10, 9>>>>

Weights == [ml |-> Malayalam, ta |-> Tamil, te |-> Telugu, kn |-> Kannada]

South == DOMAIN Weights

\* A marker is searched for as a substring: the markers that other words of
\* the tables have in them.
Within ==
  [ml |-> {<<Marker(3, 8), Marker(3, 3)>>, <<Marker(5, 2), Marker(5, 3)>>,
           <<Marker(3, 1), Form(3, 1)>>, <<Marker(3, 3), Form(3, 3)>>,
           <<Marker(3, 8), Form(3, 3)>>, <<Marker(1, 1), Mangled(1, 1)>>},
   ta |-> {<<Marker(1, 2), Marker(1, i)>> : i \in {4, 5, 6}},
   te |-> {<<Marker(3, 1), Marker(1, 3)>>},
   kn |-> {<<Marker(4, 5), Marker(4, 7)>>}]

MarkersOf(l, d) == {Marker(d, i) : i \in DOMAIN Weights[l][d]}

Contains(l, text, m) == \E i \in DOMAIN text : text[i] = m \/ <<m, text[i]>> \in Within[l]

\* The weights of the markers found, added up in the order of the list.
Score(l, text, d) ==
  LET total[i \in 0..Len(Weights[l][d])] ==
        IF i = 0 THEN 0
        ELSE total[i - 1] + IF Contains(l, text, Marker(d, i)) THEN Weights[l][d][i] ELSE 0
  IN  total[Len(Weights[l][d])]

\* DetectLast is a variation: a tie goes to the later dialect.
DetectLast(l, text) ==
  IF l \notin South THEN {}
  ELSE {d \in DOMAIN Weights[l] :
          /\ Score(l, text, d) >= 6
          /\ \A e \in DOMAIN Weights[l] \ {d} :
               \/ Score(l, text, e) < Score(l, text, d)
               \/ Score(l, text, e) = Score(l, text, d) /\ e < d}

\* The dialect with the highest score, the first of the list on a tie, and
\* none below a confidence of 0.3, which is a score of 0.6.
Detect(l, text) ==
  IF l \notin South THEN {}
  ELSE {d \in DOMAIN Weights[l] :
          /\ Score(l, text, d) >= 6
          /\ \A e \in DOMAIN Weights[l] \ {d} :
               \/ Score(l, text, e) < Score(l, text, d)
               \/ Score(l, text, e) = Score(l, text, d) /\ d < e}

-----------------------------------------------------------------------------
(* DialectNormalizer.  "noun" is a native word and "variant" a misspelling *)
(* of it in the tables, "loan" an English loanword; "tag" is a Whisper     *)
(* token such as <|eu|>, "foreign" a word in a foreign script, "listed" a  *)
(* word of the list of hallucinations, "glued" one with foreign letters    *)
(* stuck to it, "accented" one with an accented Latin letter inside, and   *)
(* "fragment" what such a word is without that letter.                     *)

Native == {"marker", "form", "longer", "mangled", "noun", "variant"}
Broken == {"accented", "fragment"}
Noise == {"tag", "foreign", "listed", "glued"} \cup Broken

\* A text without the words at some positions.
Omit(text, positions) ==
  LET upto[i \in 0..Len(text)] ==
        IF i = 0 THEN <<>>
        ELSE IF i \in positions THEN upto[i - 1] ELSE Append(upto[i - 1], text[i])
  IN  upto[Len(text)]

OfKind(text, kinds) == {i \in DOMAIN text : text[i][1] \in kinds}

\* The letters of foreign scripts go, accented Latin ones among them: what is
\* left of a glued word is the listed word, of an accented one a fragment that
\* the list does not have.
Left(w) ==
  CASE w = Word("foreign") -> Word("gone")
    [] w = Word("glued") -> Word("listed")
    [] w = Word("accented") -> Word("fragment")
    [] OTHER -> w

Unscripted(text) ==
  LET left == [i \in DOMAIN text |-> Left(text[i])] IN Omit(left, OfKind(left, {"gone"}))

Unlisted(text) == Omit(text, OfKind(text, {"listed", "accented"}))

\* The commas next to each other are halved, then the first and the last
\* word of the text may not be a comma.
Halved(text) ==
  LET Run(i, n) == /\ \A j \in (i - n + 1)..i : text[j] = Word("comma")
                   /\ n = i \/ text[i - n] # Word("comma")
  IN  Omit(text, {i \in DOMAIN text : \E n \in 1..i : n % 2 = 0 /\ Run(i, n)})

Trimmed(text) == Omit(text, {i \in DOMAIN text : i \in {1, Len(text)} /\ text[i] = Word("comma")})

Commas(text) == Trimmed(Halved(text))

Untagged(text) == Omit(text, OfKind(text, {"tag"}))

\* CleanWordsFirst is a variation: the list is searched before the scripts go.
CleanWordsFirst(l, text) ==
  IF l \in South THEN Commas(Unscripted(Unlisted(Untagged(text)))) ELSE text

Clean(l, text) ==
  IF l \in South THEN Commas(Unlisted(Unscripted(Untagged(text)))) ELSE text

Canonical(w) == IF w = Word("variant") THEN Word("noun") ELSE w

Spelled(text) == [i \in DOMAIN text |-> Canonical(text[i])]

\* An article goes when the word behind it is a native one.
Before(article, text) ==
  {i \in 1..(Len(text) - 1) : text[i] = Word(article) /\ text[i + 1][1] \in Native}

Without(article, text) == Omit(text, Before(article, text))

\* ArticlesEating is a variation: the word behind the article goes with it.
ArticlesEating(l, text) ==
  IF l \notin {"te", "kn"} THEN text
  ELSE Omit(text, Before("the", text) \cup {i + 1 : i \in Before("the", text)})

\* Telugu and Kannada only, and each article in a pass of its own.
Articles(l, text) ==
  IF l \in {"te", "kn"} THEN Without("a", Without("the", text)) ELSE text

\* The words that the vocabularies of the dialects rewrite.  All patterns but
\* one are of whole words; that of thrissur rewrites inside of words.
Forms ==
  [ml |-> {Form(2, 1), Form(3, 1), Form(3, 3), Form(1, 1), Longer(1, 1)},
   ta |-> {Form(1, 9), Form(1, 0)}, te |-> {Form(1, 1)}, kn |-> {}]

Rewritten(w) ==
  CASE w[1] = "form" -> Marker(w[2], w[3])
    [] w[1] = "longer" -> Mangled(w[2], w[3])
    [] OTHER -> w

\* VocabularyOfAll is a variation: the detected dialect is not asked for.
VocabularyOfAll(l, text, dialect) == [i \in DOMAIN text |-> Rewritten(text[i])]

Vocabulary(l, text, dialect) ==
  [i \in DOMAIN text |-> IF text[i][2] \in dialect THEN Rewritten(text[i]) ELSE text[i]]

Normalize(l, text, dialect) ==
  Vocabulary(l, Articles(l, Spelled(Clean(l, text))), dialect)

\* VoiceTranscriber.transcribe: the dialect is the one of the raw text.
TranscribedAs(l, text) == Normalize(l, text, Detect(l, text))

-----------------------------------------------------------------------------
(* What is said of a text.                                                 *)

Only(text, kinds) == Omit(text, {i \in DOMAIN text : text[i][1] \notin kinds})

\* The words the customer did say.
Said(text) == Only(text, Native \cup {"loan"})

\* The text without the noise that the passes take out.
Real(text) == Omit(text, OfKind(text, Noise \ Broken))

Together(words, text) ==
  \E i \in 1..(Len(text) - 1) : text[i] \in words /\ text[i + 1] \in words

\* The detector names the dialect whose markers the text is made of, or none
\* when they weigh too little.
NamesSpeaker(l, d, text) == Detect(l, text) = IF Score(l, text, d) < 6 THEN {} ELSE {d}

\* The dialect of the raw text is that of the text stored with it.
NamesAlike(l, text) == Detect(l, TranscribedAs(l, text)) = Detect(l, text)

\* What the customer means by a word, however it is spelt.
Reading(w) == IF w[1] = "form" THEN Marker(w[2], w[3]) ELSE Canonical(w)

\* The words of the customer stay, in their order, and each is read as before,
\* but for the longer words that the dialect's pattern mangles.
StaysSaid(l, text, dialect) ==
  LET said == Said(text)
      out == Said(Normalize(l, text, dialect))
  IN  /\ DOMAIN out = DOMAIN said
      /\ \A i \in DOMAIN said :
           Reading(out[i]) = IF said[i][1] = "longer" /\ said[i][2] \in dialect
                             THEN Mangled(said[i][2], said[i][3]) ELSE Reading(said[i])

\* Noise goes, but for one fragment of every accented word, and with it go the
\* commas and articles that stood beside it.
Articled == {Word("the"), Word("a")}

LosesNoise(l, text, dialect) ==
  LET out == Normalize(l, text, dialect)
  IN  /\ \A i \in DOMAIN out : out[i][1] \notin Noise \ {"fragment"}
      /\ Len(Only(out, Broken)) = Len(Only(text, Broken))
      /\ out # <<>> /\ Word("comma") \in {out[1], out[Len(out)]} =>
           Together({Word("comma")}, Real(text))
      /\ l \in {"te", "kn"} =>
           \A i \in 1..(Len(out) - 1) :
             out[i] \in Articled /\ out[i + 1][1] \in Native => Together(Articled, Real(text))

Texts(words, n) == UNION {[1..k -> words] : k \in 0..n}
=============================================================================
