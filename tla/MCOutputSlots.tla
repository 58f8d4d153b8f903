--------------------------- MODULE MCOutputSlots ---------------------------
EXTENDS OutputSlots

\* A video with sound; an image after a pre-wait on the other output; a camera that
\* wants the slot of the video.
Film  == [kind |-> "video", to |-> "main", sound |-> TRUE, waits |-> FALSE,
          held |-> FALSE, timed |-> FALSE]
Slide == [kind |-> "image", to |-> "side", sound |-> FALSE, waits |-> TRUE,
          held |-> FALSE, timed |-> TRUE]
Camera == [kind |-> "camera", to |-> "main", sound |-> FALSE, waits |-> FALSE,
          held |-> TRUE, timed |-> FALSE]
\* Two texts on the output of the film, one that shows for a time, one after a pre-wait.
Words == [kind |-> "text", to |-> "main", sound |-> FALSE, waits |-> FALSE,
          held |-> FALSE, timed |-> TRUE]
Late  == [Words EXCEPT !.waits = TRUE, !.timed = FALSE]
\* A text on the other output.
Far   == [Words EXCEPT !.to = "side"]
MCCue == {"a", "b"}

Pair(first, second, extras, most, which) ==
  [plan |-> [c \in MCCue |-> IF c = "a" THEN first ELSE second],
   extras |-> extras, calls |-> most, calling |-> which]
\* Film and slide with an extra output that comes and goes, one call; film and camera
\* on one output, two calls, with a player that may refuse a file.
TwoOutputs == Pair(Film, Slide, {"side"}, 1, {"preload", "stop", "pause", "resume", "devamp", "panic",
                                            "pattern", "outputs", "fade"})
OneOutput  == Pair(Film, Camera, {}, 2, {"preload", "stop", "pause", "resume", "refusal"})
\* Texts against each other, four calls; a camera under a text, two; a text on an output
\* that comes and goes, three.
TwoTexts  == Pair(Words, Late, {}, 4, {"preload", "stop", "pause", "resume", "panic",
                                       "pattern", "clear", "timer", "identify"})
Beneath   == Pair(Camera, Words, {}, 2, {"stop", "panic", "clear"})
FarText   == Pair(Far, Words, {"side"}, 3, {"stop", "outputs", "identify", "clear"})
MCTrials == {TwoOutputs, OneOutput, TwoTexts, Beneath, FarText}
=============================================================================
