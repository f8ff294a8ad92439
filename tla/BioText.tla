------------------------------ MODULE BioText ------------------------------
(* What becomes of a model's answer.  The model is asked for a JSON object; *)
(* it may put words or a fence around it, and it stops where its tokens     *)
(* end.  The provider takes the object out of the text, closes what is open *)
(* if it is no JSON yet, and falls back on the whole text.  A text is a     *)
(* sequence of characters, of which a key or a word is one.                 *)
EXTENDS Integers, Sequences, SequencesExt, FiniteSets, FiniteSetsExt

CONSTANTS
  Biography,     \* what the model has to say: a bio and its artists
  Wrapping,      \* the words it may put before and after the object
  SmallName,     \* the characters of a name in lower case
  MaxProfiles    \* normalizeArtistProfiles keeps eight

ASSUME BioTextAssumption == MaxProfiles \in Nat

VARIABLES
  reply,         \* the model's answer
  generation     \* what generateBio makes of it

textVars == <<reply, generation>>

NoReply == [step |-> "none"]
TextInit == reply = NoReply /\ generation = NoReply

-----------------------------------------------------------------------------
(* JSON                                                                    *)

QuoteMark == "\""
Escape == "\\"
Fence == "fence"

Joined(texts) ==
  FlattenSeq([n \in DOMAIN texts |-> (IF n = 1 THEN <<>> ELSE <<",">>) \o texts[n]])

JsonString(s) ==
  <<QuoteMark>> \o FlattenSeq([n \in DOMAIN s |->
    IF s[n] = QuoteMark THEN <<Escape, QuoteMark>> ELSE <<s[n]>>]) \o <<QuoteMark>>

Members(order, texts) ==
  LET keys == SelectSeq(order, LAMBDA k : k \in DOMAIN texts)
  IN <<"{">> \o Joined([n \in DOMAIN keys |->
       <<QuoteMark, keys[n], QuoteMark, ":">> \o texts[keys[n]]]) \o <<"}">>

ProfileText(p) == Members(<<"name", "summary">>, [k \in DOMAIN p |-> JsonString(p[k])])

JsonText(o) ==
  Members(<<"bio", "artists">>, [k \in DOMAIN o |->
    IF k = "bio" THEN JsonString(o.bio)
    ELSE <<"[">> \o Joined([n \in DOMAIN o.artists |-> ProfileText(o.artists[n])]) \o <<"]">>])

\* The objects that one is a continuation of.
ProfilesCut(p) ==
  {<<>>} \cup [name : Prefixes(p.name)] \cup [name : {p.name}, summary : Prefixes(p.summary)]
ListsCut(ps) ==
  Prefixes(ps) \cup UNION {{Append(SubSeq(ps, 1, n - 1), p) : p \in ProfilesCut(ps[n])} : n \in DOMAIN ps}
ObjectsCut(o) ==
  {<<>>} \cup [bio : Prefixes(o.bio)] \cup [bio : {o.bio}, artists : ListsCut(o.artists)]

\* JSON.parse: the object that is written like that, if there is one.
JsonParse(text) == {o \in ObjectsCut(reply.object) : JsonText(o) = text}

-----------------------------------------------------------------------------
(* The call                                                                *)

\* The answer ends anywhere; that it was cut short (finishReason) is not looked
\* at.  Or there is none in time, or it is an error.
CallModel(o, w) ==
  LET text == w.before \o JsonText(o) \o w.after
  IN /\ reply = NoReply
     /\ \/ \E n \in 0 .. Len(text) :
             reply' = [step |-> "text", object |-> o, wrapping |-> w, text |-> SubSeq(text, 1, n)]
        \/ \E step \in {"timeout", "error"} : reply' = [step |-> step]
     /\ UNCHANGED generation

Trim(s) ==
  LET solid == {n \in DOMAIN s : s[n] # " "}
  IN IF solid = {} THEN <<>> ELSE SubSeq(s, Min(solid), Max(solid))

\* A run of blanks becomes one, and none stays at either end.
CleanString(s) ==
  LET Kept(n) == s[n] # " " \/ (n > 1 /\ s[n - 1] # " ")
  IN Trim(FlattenSeq([n \in DOMAIN s |-> IF Kept(n) THEN <<s[n]>> ELSE <<>>]))

\* The text itself if it begins with a brace, what stands in the first fence
\* that is closed, or all from the first brace on.
ExtractJsonObject(value) ==
  LET text == Trim(value)
      fences == {n \in DOMAIN text : text[n] = Fence}
      open == Min(fences)
      close == Min(fences \ {open})
      fenced ==
        IF Cardinality(fences) < 2 THEN <<>>
        ELSE Trim(SubSeq(text, IF text[open + 1] = "json" THEN open + 2 ELSE open + 1, close - 1))
      braces == {n \in DOMAIN text : text[n] = "{"}
  IN IF text # <<>> /\ text[1] = "{" THEN text
     ELSE IF fenced # <<>> THEN fenced
     ELSE IF braces # {} THEN SubSeq(text, Min(braces), Len(text))
     ELSE <<>>

Depth(c, open, close) == IF c = open THEN 1 ELSE IF c = close THEN -1 ELSE 0

ScanChar(s, c) ==
  IF s.escaped THEN [s EXCEPT !.escaped = FALSE]
  ELSE IF c = Escape THEN [s EXCEPT !.escaped = TRUE]
  ELSE IF c = QuoteMark THEN [s EXCEPT !.inString = ~@]
  ELSE IF s.inString THEN s
  ELSE [s EXCEPT !.braces = @ + Depth(c, "{", "}"), !.brackets = @ + Depth(c, "[", "]")]

\* A string is closed, then all objects but one, one list, and that object.
TryRepairJson(json) ==
  LET text == Trim(json)
      s == FoldLeft(ScanChar,
             [braces |-> 0, brackets |-> 0, inString |-> FALSE, escaped |-> FALSE], text)
      Close(n, mark) == [k \in 1 .. n |-> mark]
  IN text \o (IF s.inString THEN <<QuoteMark>> ELSE <<>>)
     \o Close(s.braces - 1, "}") \o (IF s.brackets > 0 THEN <<"]">> ELSE <<>>)
     \o (IF s.braces > 0 THEN <<"}">> ELSE <<>>)

Field(o, k) == IF k \in DOMAIN o THEN o[k] ELSE <<>>

SameArtist(p, q) ==
  LET Lower(s) == [n \in DOMAIN s |-> IF s[n] \in DOMAIN SmallName THEN SmallName[s[n]] ELSE s[n]]
  IN Lower(p.name) = Lower(q.name)

\* A profile has a name and a summary, and is the first of its name.
NormalizeArtistProfiles(items) ==
  LET clean == [n \in DOMAIN items |-> [name |-> CleanString(Field(items[n], "name")),
                                        summary |-> CleanString(Field(items[n], "summary"))]]
      filled == SelectSeq(clean, LAMBDA p : p.name # <<>> /\ p.summary # <<>>)
      First(n) == \A k \in 1 .. n - 1 : ~SameArtist(filled[k], filled[n])
      unique == FlattenSeq([n \in DOMAIN filled |-> IF First(n) THEN <<filled[n]>> ELSE <<>>])
  IN SubSeq(unique, 1, Min({MaxProfiles, Len(unique)}))

\* The filter after it drops profiles without a summary, of which there are none.
ResultOf(o, text) ==
  LET bio == CleanString(Field(o, "bio"))
  IN [bio |-> IF bio = <<>> THEN Trim(text) ELSE bio,
      profiles |-> NormalizeArtistProfiles(Field(o, "artists"))]

ParseGenerationResult(text) ==
  LET json == ExtractJsonObject(text)
      whole == JsonParse(json)
      objects == IF whole # {} THEN whole ELSE JsonParse(TryRepairJson(json))
  IN IF json = <<>> \/ objects = {} THEN [bio |-> Trim(text), profiles |-> <<>>]
     ELSE ResultOf(CHOOSE o \in objects : TRUE, text)

Failed == [step |-> "failed"]

\* The mock provider writes a text of its own, whatever the file says, unless
\* that has the mark of its tests.
StockDraft(result) == result \in {[step |-> "stock draft"], Failed}

\* A timeout fails the attempt; any other error is the mock provider's case.
FallBack(result) == IF reply.step = "timeout" THEN result = Failed ELSE StockDraft(result)

\* An answer without text is an error as well.
GenerateBio ==
  /\ reply # NoReply /\ generation = NoReply
  /\ IF reply.step = "text" /\ reply.text # <<>>
     THEN generation' = [step |-> "draft", result |-> ParseGenerationResult(reply.text)]
     ELSE \E result \in {[step |-> "stock draft"], Failed} :
            FallBack(result) /\ generation' = result
  /\ UNCHANGED reply

TextNext ==
  \/ \E o \in Biography, w \in Wrapping : CallModel(o, w)
  \/ GenerateBio

-----------------------------------------------------------------------------
(* Properties                                                              *)

Drafted == generation.step = "draft"

\* The text lacks nothing but the marks that close what is open: it does not
\* end before a value, nor between an escape and what it escapes.
LacksClosings(text, json) ==
  /\ IsPrefix(text, json)
  /\ ToSet(SubSeq(json, Len(text) + 1, Len(json))) \subseteq {QuoteMark, "}", "]"}
  /\ text # <<>> /\ Last(text) \notin {":", Escape}

\* Words may stand before the object, and around the fence it stands in, which
\* may still be open; a text after an object without a fence is not expected.
Tolerated(text, w, json) ==
  \/ \E n \in 0 .. Len(w.after) :
       /\ text = w.before \o json \o SubSeq(w.after, 1, n)
       /\ n = 0 \/ Fence \in ToSet(SubSeq(w.after, 1, n))
  \/ \E n \in DOMAIN json :
       text = w.before \o SubSeq(json, 1, n) /\ LacksClosings(SubSeq(json, 1, n), json)

\* blueprint/specs/ai-artist-bio.md:24 and 27: an answer that breaks off in a
\* text, or after one, is read as if its author had closed it there; the draft
\* is then the biography and not the JSON around it.
AnswersAreClosed ==
  Drafted => \A o \in ObjectsCut(reply.object) :
    Tolerated(reply.text, reply.wrapping, JsonText(o)) =>
      generation.result = ResultOf(o, reply.text)

\* Wherever the answer breaks off, a profile is one the model wrote, the last
\* perhaps with half of its summary; and publishDraft, which normalizes the
\* profiles again, publishes those that were reviewed.
ProfilesAreTheModels ==
  Drafted =>
    LET ps == generation.result.profiles
        Of(p, q) == p.name = CleanString(q.name) /\ IsPrefix(p.summary, CleanString(q.summary))
    IN /\ \A n \in DOMAIN ps : \E q \in ToSet(reply.object.artists) :
            Of(ps[n], q) /\ (n < Len(ps) => ps[n].summary = CleanString(q.summary))
       /\ \A n, k \in DOMAIN ps : SameArtist(ps[n], ps[k]) => n = k
       /\ NormalizeArtistProfiles(ps) = ps

DraftsAreReadRight == AnswersAreClosed /\ ProfilesAreTheModels
=============================================================================
