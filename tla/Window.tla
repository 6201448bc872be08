------------------------------- MODULE Window --------------------------------
(***************************************************************************)
(* gui/src/shortcuts.rs, the dialog that rebinds them (app/pickers.rs) and *)
(* the order in which a frame consumes them (app/menus.rs).  A chord is a  *)
(* key with a set of modifiers; its text form is the sequence of its       *)
(* tokens, and the preferences keep one text per overridden action.        *)
(***************************************************************************)
EXTENDS Editor

CONSTANTS
  Captured,     \* bound: raw key presses offered to the recording dialog
  MaxRebinds    \* bound: changes made in the dialog

VARIABLES
  shortcuts,    \* self.shortcuts
  overrides,    \* prefs.shortcuts, as stored
  recording,    \* self.rebind_recording
  rebinds
keyvars == <<shortcuts, overrides, recording, rebinds>>

\* What a press may hold down.
Modifiers == {"cmd", "ctrl", "alt", "shift"}

\* A press is of a key, and no modifier is one.
ASSUME CapturedAssumption ==
  \A press \in Captured : press.mods \subseteq Modifiers /\ press.key \notin Modifiers

Nobody == "none"
ActionsAll == {"open", "new", "save", "save_as", "close", "undo", "redo", "goto",
               "select_all", "find", "find_next", "find_prev", "next_diff"}

Chord(mods, key) == [mods |-> mods, key |-> key]

DefaultShortcut ==
  [a \in ActionsAll |->
     CASE a = "open"       -> Chord({"cmd"}, "o")
       [] a = "new"        -> Chord({"cmd"}, "n")
       [] a = "save"       -> Chord({"cmd"}, "s")
       [] a = "save_as"    -> Chord({"cmd", "shift"}, "s")
       [] a = "close"      -> Chord({"cmd"}, "w")
       [] a = "undo"       -> Chord({"cmd"}, "z")
       [] a = "redo"       -> Chord({"cmd", "shift"}, "z")
       [] a = "goto"       -> Chord({"cmd"}, "g")
       [] a = "select_all" -> Chord({"cmd"}, "a")
       [] a = "find"       -> Chord({"cmd"}, "f")
       [] a = "find_next"  -> Chord({}, "f3")
       [] a = "find_prev"  -> Chord({"shift"}, "f3")
       [] a = "next_diff"  -> Chord({}, "f6")]

-----------------------------------------------------------------------------
(* Text form.                                                               *)

\* The platform reports the command key as such, and on Linux as ctrl too.
Normalize(mods) == IF "cmd" \in mods THEN mods \ {"ctrl"} ELSE mods

\* The token of a modifier, when the chord has it.
Token(chord, m) == IF m \in Normalize(chord.mods) THEN <<m>> ELSE <<>>

\* A plausible slip: the text form forgets the alt modifier.
FormatWithoutAlt(chord) ==
  Token(chord, "cmd") \o Token(chord, "ctrl") \o Token(chord, "shift") \o <<chord.key>>

Format(chord) ==
  Token(chord, "cmd") \o Token(chord, "ctrl") \o Token(chord, "alt") \o Token(chord, "shift") \o <<chord.key>>

\* The last token that is no modifier is the key.
Parse(tokens) ==
  LET mods == {tokens[k] : k \in DOMAIN tokens} \cap Modifiers
      keys == {k \in DOMAIN tokens : tokens[k] \notin Modifiers}
  IN  Chord(mods, tokens[CHOOSE k \in keys : \A j \in keys : j <= k])

Resolve(texts) ==
  [a \in ActionsAll |->
     IF a \in DOMAIN texts THEN Parse(texts[a]) ELSE DefaultShortcut[a]]

-----------------------------------------------------------------------------
(* Which action a press reaches.                                            *)

\* A plausible slip: the plain chords are consumed before those with shift.
PlainFirst == <<"open", "new", "save", "save_as", "close", "undo", "redo", "goto",
                "select_all", "find", "find_next", "find_prev", "next_diff">>

ConsumeOrder == <<"open", "new", "save_as", "save", "close", "redo", "undo", "goto",
                  "select_all", "find", "find_prev", "find_next", "next_diff">>

\* A press may hold shift or alt on top of what the shortcut asks for.
Fits(press, chord) ==
  /\ press.key = chord.key
  /\ chord.mods \cap {"shift", "alt"} \subseteq press.mods
  /\ press.mods \cap {"cmd", "ctrl"} = chord.mods \cap {"cmd", "ctrl"}

Reaches(press) ==
  LET takers == {k \in 1 .. Len(ConsumeOrder) : Fits(press, shortcuts[ConsumeOrder[k]])}
  IN  IF takers = {} THEN Nobody
      ELSE ConsumeOrder[CHOOSE k \in takers : \A j \in takers : k <= j]

-----------------------------------------------------------------------------
(* The dialog.                                                              *)

Changes == rebinds < MaxRebinds /\ rebinds' = rebinds + 1

Record(a) ==
  /\ recording # a
  /\ recording' = a
  /\ UNCHANGED <<shortcuts, overrides, rebinds>>

Abandon ==
  /\ recording # Nobody
  /\ recording' = Nobody
  /\ UNCHANGED <<shortcuts, overrides, rebinds>>

Capture(press) ==
  /\ recording # Nobody /\ Changes
  /\ LET sc == Chord(Normalize(press.mods), press.key)
     IN  /\ shortcuts' = [shortcuts EXCEPT ![recording] = sc]
         /\ overrides' = [a \in DOMAIN overrides \cup {recording} |->
                            IF a = recording THEN Format(sc) ELSE overrides[a]]
  /\ recording' = Nobody

Reset(a) ==
  /\ Changes
  /\ shortcuts' = [shortcuts EXCEPT ![a] = DefaultShortcut[a]]
  /\ overrides' = [b \in DOMAIN overrides \ {a} |-> overrides[b]]
  /\ UNCHANGED recording

ResetAll ==
  /\ Changes
  /\ shortcuts' = DefaultShortcut
  /\ overrides' = <<>>
  /\ UNCHANGED recording

KInit ==
  /\ shortcuts = DefaultShortcut /\ overrides = <<>>
  /\ recording = Nobody /\ rebinds = 0

KNext ==
  \/ \E a \in ActionsAll : Record(a) \/ Reset(a)
  \/ \E press \in Captured : Capture(press)
  \/ Abandon \/ ResetAll

\* After every change in the dialog, what the next start will resolve from the
\* stored overrides is what the running program uses, and with nothing rebound
\* every shortcut reaches its own action: none is swallowed by a shorter one
\* (menus.rs:46-55).
KeysFit ==
  /\ Resolve(overrides) = shortcuts
  /\ DOMAIN overrides = {} => \A a \in ActionsAll : Reaches(shortcuts[a]) = a

KeysReachTheirActions == [][rebinds' # rebinds => KeysFit']_keyvars

-----------------------------------------------------------------------------
(***************************************************************************)
(* The editor's window with its keyboard: a change in the dialog writes    *)
(* the preferences.  A budget with rebinds is spent in the dialog.         *)
(***************************************************************************)
WInit == EInit /\ KInit

WNext ==
  \/ ENext /\ UNCHANGED keyvars
  \/ /\ life = "running" /\ left.rebinds > 0
     /\ KNext
     /\ prefs' = IF rebinds' # rebinds THEN SavePrefs(prefs, tabs) ELSE prefs
     /\ UNCHANGED <<tabs, active, pending, closing, life, phase, search, hits, restoring, left, known>>

WSpec == WInit /\ [][WNext]_<<vars, keyvars>>
=============================================================================
