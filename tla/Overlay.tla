------------------------------ MODULE Overlay ------------------------------
(***************************************************************************)
(* The overlay of a video output: one more mpv player, composited above the *)
(* video slots while it shows the timer, a Text Cue, an identification      *)
(* label or a test pattern, and the curtain, the black quad over all of it. *)
(* Every operator goes from the overlay before a call to the one after it.  *)
(* Text and timer are drawn on a decoded surface: the transparent dummy     *)
(* that the first of them loads, or the pattern.                            *)
(***************************************************************************)
Surfaces == {"none", "dummy", "pattern"}

\* surface is what the player has; dummy is overlay_has_dummy, what the output
\* believes of it.  text: what the Text Cue's layer shows, nothing or one thing.
Dark == [curtain |-> "closed", surface |-> "none", dummy |-> FALSE,
         timer |-> FALSE, text |-> {}, pattern |-> FALSE]

\* overlay_active: the overlay is composited.
Active(o) == o.timer \/ o.text # {} \/ o.pattern

\* ensure_overlay_surface: nothing is loaded when something is believed there.
WithSurface(o) ==
  IF o.pattern \/ o.dummy THEN o ELSE [o EXCEPT !.dummy = TRUE, !.surface = "dummy"]

\* release_overlay_surface_if_idle.
Released(o) ==
  IF Active(o) \/ ~o.dummy THEN o ELSE [o EXCEPT !.dummy = FALSE, !.surface = "none"]

\* set_timer_text; the empty text hides the timer.
TimerSet(o, on) == IF on THEN WithSurface([o EXCEPT !.timer = TRUE])
                   ELSE Released([o EXCEPT !.timer = FALSE])

TextShown(o, what) == [WithSurface([o EXCEPT !.text = {what}]) EXCEPT !.curtain = "open"]

\* clear_text; busy: a slot of the output has content.
TextCleared(o, busy) ==
  LET r == Released([o EXCEPT !.text = {}])
  IN  IF busy THEN r ELSE [r EXCEPT !.curtain = "closed"]

PatternShown(o) ==
  [o EXCEPT !.pattern = TRUE, !.dummy = FALSE, !.surface = "pattern", !.curtain = "open"]

\* clear_pattern, on an output that shows one or not: the player is stopped before the
\* text and the timer are given their surface back, which is not if one is believed there.
PatternCleared(o) ==
  LET r == [o EXCEPT !.pattern = FALSE, !.surface = "none"]
  IN  [(IF Active(r) THEN WithSurface(r) ELSE r) EXCEPT !.curtain = "closed"]

\* panic_overlay: nothing that is believed of the overlay is taken back.
Panicked(o) == [o EXCEPT !.surface = "none", !.curtain = "closed"]

\* What a panic, or a cleared pattern, leaves when the output believes in a surface
\* that is gone: no later text or timer is seen, and the idle player masks the slots.
Stripped(o) == (o.dummy \/ o.pattern) /\ o.surface = "none"
=============================================================================
