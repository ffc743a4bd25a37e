------------------------------- MODULE MCTurn -------------------------------
(***************************************************************************)
(* A turn of the conversation and the words of the voice note it may start *)
(* with.  What becomes of the words does not depend on the turn: TLC is    *)
(* asked about them once, in the state First.                              *)
(***************************************************************************)
EXTENDS Turn, Speech

First == kind = "voice" /\ pc = "download" /\ pass = 1 /\ crashes = 0

\* MaxSpoken bounds the texts of markers and those with words of a vocabulary,
\* MaxHeard the texts with noise and no such words.
MaxSpoken == 3
MaxHeard == 4

Heard ==
  {Word(k) : k \in Noise \cup {"noun", "variant", "loan", "the", "a", "comma"}}

(* The words of one dialect are never taken for another dialect: whoever   *)
(* uses up to three of its markers is put down as a speaker of it, or of   *)
(* none when they weigh too little.  Markers are searched for as           *)
(* substrings and some contain markers of other dialects, so it rests on   *)
(* the weights and on the order of the lists (detect, _score_dialect).     *)
OwnDialect ==
  First =>
    \A l \in South : \A d \in DOMAIN Weights[l] :
      \A text \in Texts(MarkersOf(l, d), MaxSpoken) : NamesSpeaker(l, d, text)

(* The dialect is detected in the raw text and stored next to the          *)
(* normalised one: the detector must name the same dialect for both, so    *)
(* that the stored pair agrees.  The vocabulary writes markers into the    *)
(* text, and may tip the balance towards the detected dialect only.        *)
DialectStable ==
  First =>
    \A l \in South :
      LET markers == UNION {MarkersOf(l, d) : d \in DOMAIN Weights[l]}
      IN  \A form \in Forms[l] \cup {Word("noun")}, m \in markers, n \in markers :
            NamesAlike(l, <<form, m, n>>)

(* Through all the passes every word the customer said stays, in its order *)
(* and with its reading, whatever noise stands between and whatever the    *)
(* dialect; the vocabulary does not take a word for another.  With one     *)
(* exception to "we never change meaning" (normalizer.py:13): a word with  *)
(* the thrissur spelling inside is rewritten there, and comes out mangled, *)
(* when that is the dialect (_normalize_malayalam, _normalize_telugu).     *)
MeaningKept ==
  First =>
    \A l \in South : \A dialect \in {{}} \cup {{d} : d \in DOMAIN Weights[l]} :
      \A text \in Texts(Heard \cup Forms[l], MaxSpoken) : StaysSaid(l, text, dialect)

(* What Whisper makes up is gone from a text in one of the four languages: *)
(* no tag, no foreign script, no listed word, and neither an article nor a *)
(* comma in a place only a removed word explains, unless two of them stood *)
(* together: each pass takes one (normalize).  The accented words of the   *)
(* list are not removed as words: each loses its accented letters before   *)
(* the list is searched, and the fragment stays.                           *)
NoiseGone ==
  First => \A l \in South : \A text \in Texts(Heard, MaxHeard) : LosesNoise(l, text, {})
=============================================================================
