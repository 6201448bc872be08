------------------------------- MODULE Recipes -------------------------------
(***************************************************************************)
(* Pipelines of transformations: core/src/recipe.rs, its parser             *)
(* recipe/parse.rs, and the window gui/src/recipe.rs that builds a          *)
(* pipeline and shows what it makes of the active document.                 *)
(*                                                                         *)
(* A typed argument, and the text of a recipe, are sequences of words, among *)
(* them the bar that parts two steps.  Compression, ciphers and digests are *)
(* other libraries' and left out of the menu, as are other spellings of the *)
(* names in it.                                                             *)
(***************************************************************************)
EXTENDS Codecs, ByteJobs

CONSTANTS
  KeyOf,         \* hex.rs parse_bytes: a word to Made(bytes) or Broken
  NumberOf,      \* hex.rs parse_u64: a word to a number, or NotANumber
  NotANumber,
  MAX_BITS,      \* u32::MAX, the largest count of a rotation
  DEFAULT_CAP,   \* largest input of a recipe
  AUTO_MAX       \* largest input transformed without Apply

\* The operations of the menu and how many arguments they take.
Menu ==
  <<"to-hex", "from-hex", "to-base64", "from-base64", "to-base64url", "from-base64url",
    "to-base32", "from-base32", "to-base85", "from-base85", "to-z85", "from-z85",
    "to-url", "from-url", "xor", "add", "sub", "rol", "ror", "not", "reverse">>
TakesArgument == {"xor", "add", "sub", "rol", "ror"}

(***************************************************************************)
(* The core.                                                                *)
(***************************************************************************)
Bar == "|"

\* The steps of a text: the words between bars, of which there may be none.
ParseRecipe(text) ==
  LET Put(steps, w) ==
        IF w = Bar THEN Append(steps, <<>>)
        ELSE [steps EXCEPT ![Len(steps)] = Append(@, w)]
  IN  SelectSeq(FoldLeft(Put, << <<>> >>, text), LAMBDA words : words # <<>>)

\* Words after the first argument are ignored.
Understood(words) ==
  \/ words[1] \in ToSet(Menu) \ TakesArgument
  \/ /\ words[1] \in TakesArgument
     /\ Len(words) > 1
     /\ CASE words[1] = "xor" -> KeyOf[words[2]].ok
          [] words[1] \in {"add", "sub"} -> NumberOf[words[2]] \in 0 .. 255
          [] OTHER -> NumberOf[words[2]] \in 0 .. MAX_BITS

\* Op::apply.
Applied(words, data) ==
  LET n == NumberOf[words[2]]
  IN  CASE words[1] = "to-base64" -> Made(Base64Encode(data, FALSE))
        [] words[1] = "to-base64url" -> Made(Base64Encode(data, TRUE))
        [] words[1] \in {"from-base64", "from-base64url"} -> Base64Decode(data)
        [] words[1] = "to-base32" -> Made(Base32Encode(data))
        [] words[1] = "from-base32" -> Base32Decode(data)
        [] words[1] = "to-base85" -> Made(Ascii85Encode(data))
        [] words[1] = "from-base85" -> Ascii85Decode(data)
        [] words[1] = "to-z85" -> Z85Encode(data)
        [] words[1] = "from-z85" -> Z85Decode(data)
        [] words[1] = "to-hex" -> Made(HexEncode(data))
        [] words[1] = "from-hex" -> HexDecode(data)
        [] words[1] = "to-url" -> Made(UrlEncode(data))
        [] words[1] = "from-url" -> UrlDecode(data)
        [] words[1] = "xor" -> Made(Xor(data, KeyOf[words[2]].bytes))
        [] words[1] = "add" -> Made(Added(data, n))
        [] words[1] = "sub" -> Made(Subtracted(data, n))
        [] words[1] = "rol" -> Made(RotatedLeft(data, n))
        [] words[1] = "ror" -> Made(RotatedRight(data, n))
        [] words[1] = "not" -> Made(Not(data))
        [] words[1] = "reverse" -> Made(Reverse(data))

\* Recipe::apply: the first step that fails ends the pipeline.
Through(spec, data) ==
  OverIndices(LAMBDA r, i : IF r.ok THEN Applied(spec[i], r.bytes) ELSE r, Made(data), spec)

\* RecipeJob: the range is read window by window, and nothing unreadable used.
Gathered(doc, range) ==
  LET Window(r, i) ==
        LET n == NextLen(r.cursor, WINDOW, 1)
            data == Slice(doc, r.cursor.pos, n)
        IN  IF ~ r.ok \/ IsDone(r.cursor) THEN r
            ELSE IF ~ IsClean(data) THEN [r EXCEPT !.ok = FALSE]
            ELSE [r EXCEPT !.bytes = @ \o data, !.cursor = Advanced(r.cursor, n)]
      first == CursorOver(range[1], range[2], Len(doc), WINDOW)
  IN  IF Total(first) > DEFAULT_CAP THEN Broken
      ELSE Repeat(Window, [ok |-> TRUE, bytes |-> <<>>, cursor |-> first], Total(first))

RunRecipe(doc, range, text) ==
  LET spec == ParseRecipe(text)
      input == Gathered(doc, range)
      understood == spec # <<>> /\ \A i \in DOMAIN spec : Understood(spec[i])
  IN  IF understood /\ input.ok THEN Through(spec, input.bytes) ELSE Broken

(***************************************************************************)
(* The window.                                                              *)
(***************************************************************************)
NoRecipe == [steps |-> <<>>, inSelection |-> FALSE, output |-> [there |-> FALSE],
             lastSig |-> <<>>, stale |-> FALSE]
NewStep == [op |-> "to-hex", arg |-> <<>>]

\* The text of the steps.  An argument may hold bars of its own.
BuildSpec(steps) ==
  LET Words(s) == <<s.op>> \o (IF s.op \in TakesArgument THEN s.arg ELSE <<>>)
  IN  OverIndices(LAMBDA text, i : text \o (IF i = 1 THEN <<>> ELSE <<Bar>>) \o Words(steps[i]),
                  <<>>, steps)

RecipeRange(w, doc, selection) ==
  IF w.inSelection /\ selection # <<>> THEN selection ELSE <<0, Len(doc)>>

\* What every frame does after the widgets.
Recomputed(w, doc, selection, apply) ==
  LET spec == BuildSpec(w.steps)
      range == RecipeRange(w, doc, selection)
      sig == <<spec, range>>
  IN  IF spec = <<>> THEN [w EXCEPT !.output = NoRecipe.output, !.lastSig = <<>>, !.stale = FALSE]
      ELSE IF w.lastSig = sig /\ ~ apply THEN w
      ELSE IF apply \/ range[2] - range[1] <= AUTO_MAX
      THEN [w EXCEPT !.output = [there |-> TRUE, result |-> RunRecipe(doc, range, spec)],
                     !.lastSig = sig, !.stale = FALSE]
      ELSE [w EXCEPT !.stale = TRUE]
=============================================================================
