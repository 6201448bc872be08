------------------------------ MODULE MCEditor ------------------------------
(* Instances of Window for TLC: what a behaviour may consist of. *)
EXTENDS Window

Nothing == [moves |-> 0, edits |-> 0, opens |-> 0, saves |-> 0, closes |-> 0, switches |-> 0,
            changes |-> 0, searches |-> 0, quits |-> 0, kills |-> 0, restarts |-> 0,
            rebinds |-> 0]

\* One tab and much typing; several tabs closed, saved and quit; a search over
\* tabs that come and go; replacements under the typist's cursor; sessions that
\* end and begin again; the keyboard rebound.
MCBudgets ==
  {[Nothing EXCEPT !.opens = 1, !.edits = 3, !.moves = 2, !.saves = 1],
   [Nothing EXCEPT !.opens = 2, !.edits = 2, !.closes = 2, !.switches = 1, !.quits = 1],
   [Nothing EXCEPT !.opens = 3, !.closes = 1, !.switches = 1, !.searches = 1],
   [Nothing EXCEPT !.opens = 3, !.edits = 2, !.closes = 2, !.switches = 1],
   [Nothing EXCEPT !.opens = 1, !.edits = 2, !.searches = 2],
   [Nothing EXCEPT !.rebinds = 1],
   [Nothing EXCEPT !.opens = 2, !.closes = 1, !.saves = 1, !.changes = 1, !.quits = 1,
                   !.kills = 1, !.restarts = 2],
   [Nothing EXCEPT !.opens = 3, !.closes = 1, !.quits = 1, !.kills = 2, !.restarts = 3]}

\* Two tabs, one searched and closed.
MCClosing == {[Nothing EXCEPT !.opens = 2, !.closes = 1, !.searches = 1]}

\* Raw modifiers, as the platforms report them.
MCCaptured == {Chord({"cmd", "ctrl"}, "s"), Chord({"ctrl", "shift"}, "f3"), Chord({"alt"}, "f6")}
=============================================================================
